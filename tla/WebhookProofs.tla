--------------------------- MODULE WebhookProofs ---------------------------
(***************************************************************************)
(* Theorems about Webhook, for any number of events, any capacity of the   *)
(* channel and any number of retries.                                      *)
(***************************************************************************)
EXTENDS Webhook, TLAPS, FiniteSetTheorems, SequenceTheorems

TypeOK ==
  /\ queue \in Seq(Event) /\ accepted \in Seq(Event) /\ posted \in Seq(Event)
  /\ close \in {"open", "waiting", "closed"}
  /\ wp \in {"select", "send", "backoff", "exit"}
  /\ draining \in BOOLEAN
  /\ current \in Event \cup {NoEvent}
  /\ sent \subseteq Event /\ late \subseteq Event
  /\ delivered \subseteq Event /\ failed \subseteq Event
  /\ dropped \subseteq Event

(* The number of events that the worker has taken from the channel. *)
Taken == Len(accepted) - Len(queue)

(* No event is queued twice, and a queued event was handed over. *)
OnceInv ==
  /\ \A i, j \in 1..Len(accepted) : accepted[i] = accepted[j] => i = j
  /\ \A i \in 1..Len(accepted) : accepted[i] \in sent

(* The channel holds the events queued last, and the worker has the last   *)
(* one that it took.                                                       *)
ChannelInv ==
  /\ Len(queue) <= Len(accepted)
  /\ \A i \in 1..Len(queue) : queue[i] = accepted[Taken + i]
  /\ current = NoEvent <=> wp \in {"select", "exit"}
  /\ current # NoEvent => Taken >= 1 /\ accepted[Taken] = current

(* Whatever has reached the endpoint was taken from the channel, in the    *)
(* order of the channel.                                                   *)
PostedInv ==
  /\ \A i \in 1..Len(posted) : \E p \in 1..Taken : posted[i] = accepted[p]
  /\ \A i, j \in 1..Len(posted) : \A p, q \in 1..Len(accepted) :
       i < j /\ posted[i] = accepted[p] /\ posted[j] = accepted[q] => p <= q

(* An event has been dropped or queued; the queued ones that the worker    *)
(* has taken and let go of have one known fate.                            *)
FateInv ==
  /\ \A e \in Event : e \in sent <=>
       e \in dropped \/ \E p \in 1..Len(accepted) : accepted[p] = e
  /\ \A p \in 1..Len(accepted) : accepted[p] \notin dropped
  /\ \A e \in Event : e \in delivered \cup failed <=>
       e # current /\ \E p \in 1..Taken : accepted[p] = e
  /\ delivered \cap failed = {}

(* The worker stops only after Close, and what it leaves in the channel    *)
(* was put there after Close.                                              *)
DrainInv ==
  /\ draining => close # "open"
  /\ wp = "exit" => draining /\ \A i \in 1..Len(queue) : queue[i] \in late
  /\ close = "closed" => wp = "exit"

IInv == TypeOK /\ OnceInv /\ ChannelInv /\ PostedInv /\ FateInv /\ DrainInv

LEMMA InitHolds == Init => IInv
<1> SUFFICES ASSUME Init PROVE IInv
  OBVIOUS
<1>1. Len(queue) = 0 /\ Len(accepted) = 0 /\ Len(posted) = 0 /\ Taken = 0
  <2>1. queue = <<>> /\ accepted = <<>> /\ posted = <<>>
    BY DEF Init
  <2>2. Len(queue) = 0 /\ Len(accepted) = 0 /\ Len(posted) = 0
    BY <2>1
  <2> QED
    BY <2>2 DEF Taken
<1>2. TypeOK
  <2>1. queue \in Seq(Event) /\ accepted \in Seq(Event) /\ posted \in Seq(Event)
    BY EmptySeq DEF Init
  <2> QED
    BY <2>1 DEF Init, TypeOK
<1>3. OnceInv /\ PostedInv
  BY <1>1 DEF OnceInv, PostedInv
<1>4. ChannelInv /\ DrainInv
  BY <1>1 DEF Init, ChannelInv, DrainInv
<1>5. FateInv
  BY <1>1 DEF Init, FateInv
<1> QED
  BY <1>2, <1>3, <1>4, <1>5 DEF IInv

LEMMA LenTypes ==
  ASSUME IInv
  PROVE  /\ Len(queue) \in Nat /\ Len(accepted) \in Nat /\ Len(posted) \in Nat
         /\ Taken \in 0..Len(accepted) /\ Taken + Len(queue) = Len(accepted)
         /\ DOMAIN queue = 1..Len(queue) /\ DOMAIN accepted = 1..Len(accepted)
         /\ DOMAIN posted = 1..Len(posted)
BY DEF IInv, TypeOK, ChannelInv, Taken

-----------------------------------------------------------------------------
(* SendAsync *)

LEMMA SendKeeps == ASSUME IInv, NEW e \in Event, SendAsync(e) PROVE IInv'
<1>1. /\ e \notin sent /\ sent' = sent \cup {e}
      /\ UNCHANGED <<close, wp, draining, current, posted, delivered, failed>>
  BY DEF SendAsync, workerVars, fateVars
<1>2. CASE Len(queue) < QueueSize
  <2>1. /\ queue' = Append(queue, e) /\ accepted' = Append(accepted, e)
        /\ late' = IF close = "open" THEN late ELSE late \cup {e}
        /\ dropped' = dropped
    BY <1>2 DEF SendAsync
  <2>2. /\ Len(queue) \in Nat /\ Len(accepted) \in Nat /\ Len(posted) \in Nat
        /\ Taken \in 0..Len(accepted) /\ Taken + Len(queue) = Len(accepted)
    BY LenTypes
  <2>3. /\ queue' \in Seq(Event) /\ accepted' \in Seq(Event)
        /\ Len(queue') = Len(queue) + 1 /\ Len(accepted') = Len(accepted) + 1
        /\ \A i \in 1..Len(queue) : queue'[i] = queue[i]
        /\ \A i \in 1..Len(accepted) : accepted'[i] = accepted[i]
        /\ queue'[Len(queue) + 1] = e /\ accepted'[Len(accepted) + 1] = e
    BY <2>1, AppendProperties DEF IInv, TypeOK
  <2>4. Taken' = Taken
    BY <2>2, <2>3 DEF Taken
  <2>5. \A p \in 1..Len(accepted) : accepted[p] # e
    BY <1>1 DEF IInv, OnceInv
  <2>6. TypeOK'
    BY <1>1, <2>1, <2>3 DEF IInv, TypeOK
  <2>7. OnceInv'
    <3> DEFINE n == Len(accepted)
    <3>1. /\ n \in Nat /\ Len(accepted') = n + 1 /\ accepted'[n + 1] = e
          /\ \A i \in 1..n : accepted'[i] = accepted[i] /\ accepted[i] # e
      BY <2>2, <2>3, <2>5
    <3>2. /\ \A i, j \in 1..n : accepted[i] = accepted[j] => i = j
          /\ \A i \in 1..n : accepted[i] \in sent
      BY DEF IInv, OnceInv
    <3> HIDE DEF n
    <3>3. \A i \in 1..(n + 1) : i = n + 1 \/ i \in 1..n
      BY <3>1
    <3>4. \A i, j \in 1..(n + 1) : accepted'[i] = accepted'[j] => i = j
      BY <3>1, <3>2, <3>3
    <3>5. \A i \in 1..(n + 1) : accepted'[i] \in sent'
      BY <1>1, <3>1, <3>2, <3>3
    <3> QED
      BY <3>1, <3>4, <3>5 DEF OnceInv
  <2>8. ChannelInv'
    <3>1. \A i \in 1..Len(queue') : queue'[i] = accepted'[Taken + i]
      <4> SUFFICES ASSUME NEW i \in 1..(Len(queue) + 1)
                   PROVE  queue'[i] = accepted'[Taken + i]
        BY <2>3
      <4>1. CASE i = Len(queue) + 1
        <5>1. Taken + i = Len(accepted) + 1
          BY <2>2, <4>1
        <5> QED
          BY <2>3, <4>1, <5>1
      <4>2. CASE i \in 1..Len(queue)
        <5>1. Taken + i \in 1..Len(accepted)
          BY <2>2, <4>2
        <5>2. queue[i] = accepted[Taken + i]
          BY <4>2 DEF IInv, ChannelInv
        <5> QED
          BY <2>3, <4>2, <5>1, <5>2
      <4> QED
        BY <2>2, <4>1, <4>2
    <3>2. current # NoEvent => Taken >= 1 /\ accepted'[Taken] = current
      BY <2>2, <2>3 DEF IInv, ChannelInv
    <3> QED
      BY <1>1, <2>2, <2>3, <2>4, <3>1, <3>2 DEF IInv, ChannelInv
  <2>9. PostedInv'
    <3>1. \A i \in 1..Len(posted) : posted[i] # e
      BY <2>2, <2>5 DEF IInv, PostedInv
    <3>2. \A i \in 1..Len(posted) : \E p \in 1..Taken : posted[i] = accepted'[p]
      <4>1. \A p \in 1..Taken : p \in 1..Len(accepted) /\ accepted'[p] = accepted[p]
        BY <2>2, <2>3
      <4> QED
        BY <4>1 DEF IInv, PostedInv
    <3>3. \A i, j \in 1..Len(posted) : \A p, q \in 1..Len(accepted') :
            i < j /\ posted[i] = accepted'[p] /\ posted[j] = accepted'[q]
              => p <= q
      <4>1. ASSUME NEW i \in 1..Len(posted), NEW p \in 1..Len(accepted'),
                   posted[i] = accepted'[p]
            PROVE  p \in 1..Len(accepted) /\ accepted'[p] = accepted[p]
        BY <2>2, <2>3, <3>1, <4>1
      <4> QED
        BY <4>1 DEF IInv, PostedInv
    <3> QED
      BY <1>1, <2>4, <3>2, <3>3 DEF PostedInv
  <2>10. FateInv'
    <3>1. \A x \in Event : x \in sent' <=>
            x \in dropped' \/ \E p \in 1..Len(accepted') : accepted'[p] = x
      BY <1>1, <2>1, <2>2, <2>3 DEF IInv, FateInv
    <3>2. \A p \in 1..Len(accepted') : accepted'[p] \notin dropped'
      BY <1>1, <2>1, <2>2, <2>3 DEF IInv, FateInv
    <3>3. \A x \in Event : (\E p \in 1..Taken : accepted'[p] = x)
                             <=> \E p \in 1..Taken : accepted[p] = x
      BY <2>2, <2>3
    <3> QED
      BY <1>1, <2>4, <3>1, <3>2, <3>3 DEF IInv, FateInv
  <2>11. DrainInv'
    BY <1>1, <2>1, <2>2, <2>3 DEF IInv, DrainInv
  <2> QED
    BY <2>6, <2>7, <2>8, <2>9, <2>10, <2>11 DEF IInv
<1>3. CASE ~(Len(queue) < QueueSize)
  <2>1. dropped' = dropped \cup {e} /\ UNCHANGED <<queue, accepted, late>>
    BY <1>3 DEF SendAsync
  <2>2. Taken' = Taken
    BY <2>1 DEF Taken
  <2>3. \A p \in 1..Len(accepted) : accepted[p] # e
    BY <1>1 DEF IInv, OnceInv
  <2>4. TypeOK' /\ OnceInv' /\ DrainInv'
    BY <1>1, <2>1 DEF IInv, TypeOK, OnceInv, DrainInv
  <2>5. ChannelInv' /\ PostedInv'
    BY <1>1, <2>1, <2>2 DEF IInv, ChannelInv, PostedInv
  <2>6. FateInv'
    BY <1>1, <2>1, <2>2, <2>3 DEF IInv, FateInv
  <2> QED
    BY <2>4, <2>5, <2>6 DEF IInv
<1> QED
  BY <1>2, <1>3

-----------------------------------------------------------------------------
(* Close, and the steps of the worker that neither take nor post an event *)

LEMMA ControlKeeps ==
  ASSUME IInv, CloseSignal \/ CloseReturn \/ SeeDone \/ Exit \/ Retry \/ Expire
  PROVE  IInv'
<1>1. UNCHANGED <<queue, current, sent, accepted, late, posted, delivered,
                  failed, dropped>>
  BY DEF CloseSignal, CloseReturn, SeeDone, Exit, Retry, Expire, workerVars,
         fateVars
<1>2. Taken' = Taken
  BY <1>1 DEF Taken
<1>3. TypeOK'
  BY <1>1 DEF IInv, TypeOK, CloseSignal, CloseReturn, SeeDone, Exit, Retry,
              Expire, workerVars
<1>4. OnceInv' /\ PostedInv' /\ FateInv'
  <2>1. OnceInv'
    BY <1>1 DEF IInv, OnceInv
  <2>2. PostedInv'
    BY <1>1, <1>2 DEF IInv, PostedInv
  <2>3. FateInv'
    BY <1>1, <1>2 DEF IInv, FateInv
  <2> QED
    BY <2>1, <2>2, <2>3
<1>5. wp \in {"select", "exit"} <=> wp' \in {"select", "exit"}
  BY DEF CloseSignal, CloseReturn, SeeDone, Exit, Retry, Expire, workerVars
<1>6. ChannelInv'
  BY <1>1, <1>2, <1>5 DEF IInv, ChannelInv
<1>7. DrainInv'
  <2>1. CASE CloseSignal \/ CloseReturn
    BY <1>1, <2>1 DEF IInv, DrainInv, CloseSignal, CloseReturn, workerVars
  <2>2. CASE SeeDone
    BY <1>1, <2>2 DEF IInv, DrainInv, SeeDone
  <2>3. CASE Exit
    <3>1. Len(queue) = 0
      BY <2>3 DEF Exit
    <3> QED
      BY <1>1, <2>3, <3>1 DEF IInv, DrainInv, Exit
  <2>4. CASE Retry \/ Expire
    BY <1>1, <2>4 DEF IInv, DrainInv, Retry, Expire
  <2> QED
    BY <2>1, <2>2, <2>3, <2>4
<1> QED
  BY <1>3, <1>4, <1>6, <1>7 DEF IInv

LEMMA ReceiveKeeps == ASSUME IInv, Receive PROVE IInv'
<1>1. /\ wp = "select" /\ wp' = "send" /\ queue # <<>>
      /\ current' = Head(queue) /\ queue' = Tail(queue)
      /\ UNCHANGED <<close, draining, sent, accepted, late, posted, delivered,
                     failed, dropped>>
  BY DEF Receive, fateVars
<1>2. /\ Len(queue) \in Nat \ {0} /\ Len(accepted) \in Nat
      /\ Len(posted) \in Nat
      /\ Taken \in 0..Len(accepted) /\ Taken + Len(queue) = Len(accepted)
  BY <1>1, LenTypes DEF IInv, TypeOK
<1>3. /\ queue' \in Seq(Event) /\ current' \in Event
      /\ Len(queue') = Len(queue) - 1 /\ current' = queue[1]
      /\ \A i \in 1..Len(queue') : queue'[i] = queue[i + 1]
  BY <1>1, HeadTailProperties DEF IInv, TypeOK
<1>4. Taken' = Taken + 1
  BY <1>1, <1>2, <1>3 DEF Taken
<1>5. current = NoEvent /\ current' # NoEvent
  BY <1>1, <1>3, WebhookAssumption DEF IInv, ChannelInv
<1>6. accepted[Taken + 1] = current'
  BY <1>2, <1>3 DEF IInv, ChannelInv
<1>7. TypeOK'
  BY <1>1, <1>3 DEF IInv, TypeOK
<1>8. OnceInv'
  BY <1>1 DEF IInv, OnceInv
<1>9. ChannelInv'
  <2>1. \A i \in 1..Len(queue') : queue'[i] = accepted[Taken + 1 + i]
    <3> SUFFICES ASSUME NEW i \in 1..Len(queue')
                 PROVE  queue'[i] = accepted[Taken + 1 + i]
      OBVIOUS
    <3>1. i + 1 \in 1..Len(queue) /\ Taken + (i + 1) = Taken + 1 + i
      BY <1>2, <1>3
    <3>2. queue[i + 1] = accepted[Taken + (i + 1)]
      BY <3>1 DEF IInv, ChannelInv
    <3> QED
      BY <1>3, <3>1, <3>2
  <2> QED
    BY <1>1, <1>2, <1>3, <1>4, <1>5, <1>6, <2>1 DEF ChannelInv
<1>10. PostedInv'
  <2>1. \A p \in 1..Taken : p \in 1..(Taken + 1)
    BY <1>2
  <2> QED
    BY <1>1, <1>4, <2>1 DEF IInv, PostedInv
<1>11. FateInv'
  <2>1. ASSUME NEW e \in Event
        PROVE  e \in delivered \cup failed
                 <=> e # current' /\ \E p \in 1..(Taken + 1) : accepted[p] = e
    <3>1. e \in delivered \cup failed <=> \E p \in 1..Taken : accepted[p] = e
      BY <1>5, WebhookAssumption DEF IInv, FateInv
    <3>2. \A p \in 1..(Taken + 1) : p = Taken + 1 \/ p \in 1..Taken
      BY <1>2
    <3>3. \A p \in 1..Taken : p \in 1..(Taken + 1) /\ accepted[p] # current'
      <4>1. \A p \in 1..Taken : /\ p \in 1..Len(accepted)
                                /\ p \in 1..(Taken + 1) /\ p # Taken + 1
        BY <1>2
      <4>2. Taken + 1 \in 1..Len(accepted)
        BY <1>2
      <4> QED
        BY <1>6, <4>1, <4>2 DEF IInv, OnceInv
    <3> QED
      BY <1>6, <3>1, <3>2, <3>3
  <2> QED
    BY <1>1, <1>4, <2>1 DEF IInv, FateInv
<1>12. DrainInv'
  BY <1>1 DEF IInv, DrainInv
<1> QED
  BY <1>7, <1>8, <1>9, <1>10, <1>11, <1>12 DEF IInv

-----------------------------------------------------------------------------
(* Send *)

(* A post of the event that the worker holds comes after all earlier ones. *)
LEMMA PostInOrder ==
  ASSUME IInv, current # NoEvent, UNCHANGED <<queue, accepted>>,
         UNCHANGED posted \/ posted' = Append(posted, current)
  PROVE  posted' \in Seq(Event) /\ PostedInv'
<1>1. /\ Len(accepted) \in Nat /\ Len(posted) \in Nat
      /\ Taken \in 1..Len(accepted) /\ accepted[Taken] = current
      /\ current \in Event
  BY LenTypes DEF IInv, ChannelInv, TypeOK
<1>2. Taken' = Taken
  BY DEF Taken
<1>3. CASE UNCHANGED posted
  BY <1>2, <1>3 DEF IInv, TypeOK, PostedInv
<1>4. CASE posted' = Append(posted, current)
  <2>1. /\ posted' \in Seq(Event) /\ Len(posted') = Len(posted) + 1
        /\ \A i \in 1..Len(posted) : posted'[i] = posted[i]
        /\ posted'[Len(posted) + 1] = current
    BY <1>1, <1>4, AppendProperties DEF IInv, TypeOK
  <2>2. \A i \in 1..Len(posted') : i = Len(posted) + 1 \/ i \in 1..Len(posted)
    BY <1>1, <2>1
  <2>3. \A i \in 1..Len(posted') : \E p \in 1..Taken : posted'[i] = accepted[p]
    <3>1. Taken \in 1..Taken
      BY <1>1
    <3> QED
      BY <1>1, <2>1, <2>2, <3>1 DEF IInv, PostedInv
  <2>4. ASSUME NEW i \in 1..Len(posted'), NEW j \in 1..Len(posted'),
               NEW p \in 1..Len(accepted), NEW q \in 1..Len(accepted),
               i < j, posted'[i] = accepted[p], posted'[j] = accepted[q]
        PROVE  p <= q
    <3>1. i \in 1..Len(posted)
      BY <1>1, <2>1, <2>4
    <3>2. CASE j = Len(posted) + 1
      <4>1. q = Taken
        BY <1>1, <2>1, <2>4, <3>2 DEF IInv, OnceInv
      <4>2. PICK r \in 1..Taken : posted[i] = accepted[r]
        BY <3>1 DEF IInv, PostedInv
      <4>3. r \in 1..Len(accepted) /\ r <= Taken
        BY <1>1
      <4>4. p = r
        BY <2>1, <2>4, <3>1, <4>2, <4>3 DEF IInv, OnceInv
      <4> QED
        BY <4>1, <4>3, <4>4
    <3>3. CASE j \in 1..Len(posted)
      BY <2>1, <2>4, <3>1, <3>3 DEF IInv, PostedInv
    <3> QED
      BY <2>2, <3>2, <3>3
  <2> QED
    BY <1>2, <2>1, <2>3, <2>4 DEF PostedInv
<1> QED
  BY <1>3, <1>4

LEMMA PostFailKeeps == ASSUME IInv, PostFail PROVE IInv'
<1>1. /\ wp = "send" /\ wp' = "backoff"
      /\ UNCHANGED <<queue, close, draining, current, sent, accepted, late,
                     delivered, failed, dropped>>
      /\ UNCHANGED posted \/ posted' = Append(posted, current)
  BY DEF PostFail, Received
<1>2. current # NoEvent
  BY <1>1 DEF IInv, ChannelInv
<1>3. posted' \in Seq(Event) /\ PostedInv'
  BY <1>1, <1>2, PostInOrder
<1>4. Taken' = Taken
  BY <1>1 DEF Taken
<1>5. TypeOK'
  BY <1>1, <1>3 DEF IInv, TypeOK
<1>6. OnceInv' /\ FateInv' /\ DrainInv'
  BY <1>1, <1>4 DEF IInv, OnceInv, FateInv, DrainInv
<1>7. ChannelInv'
  BY <1>1, <1>2, <1>4 DEF IInv, ChannelInv
<1> QED
  BY <1>3, <1>5, <1>6, <1>7 DEF IInv

(* The worker lets go of its event once its fate is known. *)
LEMMA SettleKeeps ==
  ASSUME IInv, PostOk \/ PostGiveUp \/ ContextDone PROVE IInv'
<1>1. /\ wp \in {"send", "backoff"} /\ wp' = "select" /\ current' = NoEvent
      /\ UNCHANGED <<queue, close, draining, sent, accepted, late, dropped>>
      /\ UNCHANGED posted \/ posted' = Append(posted, current)
      /\ \/ delivered' = delivered \cup {current} /\ failed' = failed
         \/ failed' = failed \cup {current} /\ delivered' = delivered
  BY DEF PostOk, PostGiveUp, ContextDone, Received, Settle
<1>2. /\ Len(queue) \in Nat /\ Len(accepted) \in Nat
      /\ Taken \in 1..Len(accepted) /\ accepted[Taken] = current
      /\ current # NoEvent /\ current \in Event
  BY <1>1, LenTypes DEF IInv, TypeOK, ChannelInv
<1>3. posted' \in Seq(Event) /\ PostedInv'
  BY <1>1, <1>2, PostInOrder
<1>4. Taken' = Taken
  BY <1>1 DEF Taken
<1>5. TypeOK'
  BY <1>1, <1>2, <1>3 DEF IInv, TypeOK
<1>6. OnceInv' /\ DrainInv'
  BY <1>1 DEF IInv, OnceInv, DrainInv
<1>7. ChannelInv'
  BY <1>1, <1>4 DEF IInv, ChannelInv
<1>8. FateInv'
  <2>1. current \notin delivered \cup failed
    BY <1>2 DEF IInv, FateInv
  <2>2. delivered' \cap failed' = {}
    BY <1>1, <2>1 DEF IInv, FateInv
  <2>3. \A e \in Event : e \in delivered' \cup failed'
                           <=> \E p \in 1..Taken : accepted[p] = e
    <3>1. Taken \in 1..Taken
      BY <1>2
    <3>2. \A e \in Event : e \in delivered' \cup failed'
                             <=> e \in delivered \cup failed \/ e = current
      BY <1>1
    <3> QED
      BY <1>2, <3>1, <3>2 DEF IInv, FateInv
  <2> QED
    BY <1>1, <1>4, <2>2, <2>3, WebhookAssumption DEF IInv, FateInv
<1> QED
  BY <1>3, <1>5, <1>6, <1>7, <1>8 DEF IInv

LEMMA IInvHolds == Spec => []IInv
<1>1. ASSUME IInv, [Next]_vars PROVE IInv'
  <2>1. CASE UNCHANGED vars
    <3>1. Taken' = Taken
      BY <2>1 DEF vars, Taken
    <3>2. TypeOK' /\ OnceInv' /\ DrainInv'
      BY <1>1, <2>1
      DEF vars, workerVars, fateVars, IInv, TypeOK, OnceInv, DrainInv
    <3>3. ChannelInv' /\ PostedInv'
      <4>1. UNCHANGED <<queue, accepted, posted, current, wp>>
        BY <2>1 DEF vars, workerVars, fateVars
      <4>2. ChannelInv'
        BY <1>1, <3>1, <4>1 DEF IInv, ChannelInv
      <4>3. PostedInv'
        BY <1>1, <3>1, <4>1 DEF IInv, PostedInv
      <4> QED
        BY <4>2, <4>3
    <3>4. FateInv'
      BY <1>1, <2>1, <3>1 DEF vars, workerVars, fateVars, IInv, FateInv
    <3> QED
      BY <3>2, <3>3, <3>4 DEF IInv
  <2>2. CASE Next
    BY <1>1, <2>1, <2>2, SendKeeps, ControlKeeps, ReceiveKeeps, PostFailKeeps,
       SettleKeeps
    DEF Next, Worker, Done
  <2> QED
    BY <1>1, <2>1, <2>2
<1> QED
  BY InitHolds, <1>1, PTL DEF Spec

-----------------------------------------------------------------------------
(* InOrderHolds: the endpoint sees events in the order in which they were  *)
(* queued, whatever fails, is retried or loses its answer.                 *)
THEOREM InOrderHolds == Spec => []InOrder
<1>1. ASSUME IInv PROVE InOrder
  <2> SUFFICES ASSUME NEW i \in 1..Len(posted), NEW j \in 1..Len(posted), i < j
               PROVE  Position(posted[i]) <= Position(posted[j])
    BY <1>1, LenTypes DEF InOrder
  <2>1. ASSUME NEW n \in 1..Len(posted)
        PROVE  /\ Position(posted[n]) \in 1..Len(accepted)
               /\ accepted[Position(posted[n])] = posted[n]
    <3>1. \E p \in DOMAIN accepted : accepted[p] = posted[n]
      <4>1. \A p \in 1..Taken : p \in DOMAIN accepted
        BY <1>1, LenTypes
      <4> QED
        BY <1>1, <4>1 DEF IInv, PostedInv
    <3>2. DOMAIN accepted = 1..Len(accepted)
      BY <1>1, LenTypes
    <3> QED
      BY <3>1, <3>2 DEF Position
  <2> QED
    BY <1>1, <2>1 DEF IInv, PostedInv
<1> QED
  BY IInvHolds, <1>1, PTL

(* CloseDrainsHolds: when Close has returned, no event that was queued     *)
(* before it was called is left in the channel or with the worker.         *)
THEOREM CloseDrainsHolds == Spec => []CloseDrains
<1>1. IInv => CloseDrains
  BY LenTypes DEF IInv, DrainInv, ChannelInv, CloseDrains
<1> QED
  BY IInvHolds, <1>1, PTL

(* AccountedHolds: every event that was handed over is in exactly one      *)
(* place: in the channel, with the worker, delivered, failed or dropped.   *)
THEOREM AccountedHolds == Spec => []Accounted
<1>1. ASSUME IInv, NEW e \in Event
      PROVE  Cardinality({i \in DOMAIN queue : queue[i] = e})
               + Cardinality({x \in {1} : current = e})
               + Cardinality({s \in {<<1, delivered>>, <<2, failed>>,
                                     <<3, dropped>>} : e \in s[2]})
               = IF e \in sent THEN 1 ELSE 0
  <2> DEFINE places == {i \in DOMAIN queue : queue[i] = e}
             held == {x \in {1} : current = e}
             fates == {s \in {<<1, delivered>>, <<2, failed>>, <<3, dropped>>} :
                         e \in s[2]}
  <2>1. /\ Len(queue) \in Nat /\ Len(accepted) \in Nat
        /\ Taken \in 0..Len(accepted) /\ Taken + Len(queue) = Len(accepted)
        /\ DOMAIN queue = 1..Len(queue)
    BY <1>1, LenTypes
  <2>2. \A i \in 1..Len(queue) :
          queue[i] = accepted[Taken + i] /\ Taken + i \in 1..Len(accepted)
    BY <1>1, <2>1 DEF IInv, ChannelInv
  <2>3. held = IF current = e THEN {1} ELSE {}
    OBVIOUS
  <2>4. /\ e \notin delivered /\ e \notin failed /\ e \notin dropped
             => fates = {}
        /\ e \in delivered /\ e \notin failed /\ e \notin dropped
             => fates = {<<1, delivered>>}
        /\ e \notin delivered /\ e \in failed /\ e \notin dropped
             => fates = {<<2, failed>>}
        /\ e \notin delivered /\ e \notin failed /\ e \in dropped
             => fates = {<<3, dropped>>}
    OBVIOUS
  <2>5. current = e => Taken \in 1..Len(accepted) /\ accepted[Taken] = e
    BY <1>1, <2>1, WebhookAssumption DEF IInv, ChannelInv
  <2>6. \A p, q \in 1..Len(accepted) : accepted[p] = accepted[q] => p = q
    BY <1>1 DEF IInv, OnceInv
  <2>7. e \in delivered \cup failed
          <=> e # current /\ \E p \in 1..Taken : accepted[p] = e
    BY <1>1 DEF IInv, FateInv
  <2>8. ~(e \in delivered /\ e \in failed)
    BY <1>1 DEF IInv, FateInv
  <2>9. \A p \in 1..Taken : p \in 1..Len(accepted)
    BY <2>1
  <2>10. CASE \A p \in 1..Len(accepted) : accepted[p] # e
    <3>1. places = {}
      BY <2>1, <2>2, <2>10
    <3>2. held = {}
      BY <2>3, <2>5, <2>10
    <3>3. e \notin delivered /\ e \notin failed
      BY <2>7, <2>9, <2>10
    <3>4. e \in sent <=> e \in dropped
      BY <1>1, <2>10 DEF IInv, FateInv
    <3>5. Cardinality(fates) = IF e \in sent THEN 1 ELSE 0
      BY <2>4, <3>3, <3>4, FS_EmptySet, FS_Singleton
    <3> HIDE DEF places, held, fates
    <3>6. Cardinality(places) = 0 /\ Cardinality(held) = 0
      BY <3>1, <3>2, FS_EmptySet
    <3>7. Cardinality(places) + Cardinality(held) + Cardinality(fates)
            = IF e \in sent THEN 1 ELSE 0
      BY <3>5, <3>6
    <3> QED
      BY <3>7 DEF places, held, fates
  <2>11. ASSUME NEW p \in 1..Len(accepted), accepted[p] = e
         PROVE  Cardinality(places) + Cardinality(held) + Cardinality(fates)
                  = IF e \in sent THEN 1 ELSE 0
    <3>1. e \in sent /\ e \notin dropped
      BY <1>1, <2>11 DEF IInv, OnceInv, FateInv
    <3>2. CASE p > Taken
      <4>1. p - Taken \in 1..Len(queue) /\ Taken + (p - Taken) = p
        BY <2>1, <3>2
      <4>2. queue[p - Taken] = e
        BY <2>2, <2>11, <4>1
      <4>3. \A i \in 1..Len(queue) : queue[i] = e => i = p - Taken
        <5>1. ASSUME NEW i \in 1..Len(queue), queue[i] = e PROVE i = p - Taken
          <6>1. Taken + i = p
            BY <2>2, <2>6, <2>11, <5>1
          <6> QED
            BY <2>1, <6>1
        <5> QED
          BY <5>1
      <4>4. places = {p - Taken}
        BY <2>1, <4>1, <4>2, <4>3
      <4>5. held = {}
        <5>1. Taken # p
          BY <2>1, <3>2
        <5> QED
          BY <2>3, <2>5, <2>6, <2>11, <5>1
      <4>6. \A q \in 1..Taken : accepted[q] # e
        <5>1. \A q \in 1..Taken : q # p
          BY <2>1, <3>2
        <5> QED
          BY <2>6, <2>9, <2>11, <5>1
      <4>7. fates = {}
        BY <2>4, <2>7, <3>1, <4>6
      <4> HIDE DEF places, held, fates
      <4>8. /\ Cardinality(places) = 1 /\ Cardinality(held) = 0
            /\ Cardinality(fates) = 0
        BY <4>4, <4>5, <4>7, FS_EmptySet, FS_Singleton
      <4> QED
        BY <3>1, <4>8
    <3>3. CASE p <= Taken
      <4>1. p \in 1..Taken
        BY <2>1, <3>3
      <4>2. places = {}
        <5>1. \A i \in 1..Len(queue) : Taken + i # p
          BY <2>1, <3>3
        <5> QED
          BY <2>1, <2>2, <2>6, <2>11, <5>1
      <4>3. CASE current = e
        <5>1. fates = {} /\ held = {1}
          BY <2>3, <2>4, <2>7, <3>1, <4>3
        <5> HIDE DEF places, held, fates
        <5>2. /\ Cardinality(places) = 0 /\ Cardinality(held) = 1
              /\ Cardinality(fates) = 0
          BY <4>2, <5>1, FS_EmptySet, FS_Singleton
        <5> QED
          BY <3>1, <5>2
      <4>4. CASE current # e
        <5>1. held = {}
          BY <2>3, <4>4
        <5>2. e \in delivered \/ e \in failed
          BY <2>7, <2>11, <4>1, <4>4
        <5>3. Cardinality(fates) = 1
          BY <2>4, <2>8, <3>1, <5>2, FS_Singleton
        <5> HIDE DEF places, held, fates
        <5>4. Cardinality(places) = 0 /\ Cardinality(held) = 0
          BY <4>2, <5>1, FS_EmptySet
        <5> QED
          BY <3>1, <5>3, <5>4
      <4> QED
        BY <4>3, <4>4
    <3> QED
      BY <2>1, <3>2, <3>3
  <2> QED
    BY <2>10, <2>11
<1>2. IInv => Accounted
  BY <1>1 DEF Accounted
<1> QED
  BY IInvHolds, <1>2, PTL

=============================================================================
