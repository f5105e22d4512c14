------------------------------ MODULE Webhook ------------------------------
(***************************************************************************)
(* The billing webhook sender (internal/billing/webhook.go): SendAsync     *)
(* puts an event into a bounded channel, one worker posts it with retries, *)
(* Close tells the worker to drain the channel and waits for it.           *)
(*                                                                         *)
(* The endpoint answers, refuses, or accepts a post whose answer is lost.  *)
(* An event stands for one call of SendAsync.                              *)
(***************************************************************************)
EXTENDS Naturals, Sequences, SequencesExt, FiniteSets

CONSTANTS
  Event,       \* events, each handed to SendAsync once
  QueueSize,   \* capacity of eventsCh, 100 in the code
  MaxRetries,  \* cfg.MaxRetries
  NoEvent

ASSUME WebhookAssumption ==
  /\ IsFiniteSet(Event) /\ NoEvent \notin Event
  /\ QueueSize \in Nat \ {0} /\ MaxRetries \in Nat

VARIABLES
  queue,     \* eventsCh
  close,     \* "open", "waiting" in Close for the worker, or "closed"
  wp,        \* the worker: "select", "send", "backoff" or "exit"
  draining,  \* has the worker seen done?
  current,   \* the event that the worker sends
  attempt,   \* attempts made to send it
  expired,   \* is the context of Send done?
  sent,      \* events handed to SendAsync
  accepted,  \* events put into the channel, in this order
  late,      \* events put into the channel after Close was called
  posted,    \* events received by the endpoint, in this order
  delivered, failed, dropped  \* what the sender knows of an event's fate

workerVars == <<wp, draining, current, attempt, expired>>
fateVars == <<posted, delivered, failed>>
vars == <<queue, close, workerVars, sent, accepted, late, fateVars, dropped>>

Init ==
  /\ queue = <<>> /\ close = "open"
  /\ wp = "select" /\ draining = FALSE
  /\ current = NoEvent /\ attempt = 0 /\ expired = FALSE
  /\ sent = {} /\ accepted = <<>> /\ late = {}
  /\ posted = <<>>
  /\ delivered = {} /\ failed = {} /\ dropped = {}

-----------------------------------------------------------------------------
SendAsync(e) ==
  /\ e \notin sent
  /\ sent' = sent \cup {e}
  /\ IF Len(queue) < QueueSize
       THEN /\ queue' = Append(queue, e)
            /\ accepted' = Append(accepted, e)
            /\ late' = IF close = "open" THEN late ELSE late \cup {e}
            /\ UNCHANGED dropped
       ELSE /\ dropped' = dropped \cup {e}
            /\ UNCHANGED <<queue, accepted, late>>
  /\ UNCHANGED <<close, workerVars, fateVars>>

CloseSignal ==
  /\ close = "open"
  /\ close' = "waiting"
  /\ UNCHANGED <<queue, workerVars, sent, accepted, late, fateVars, dropped>>

(* wg.Wait returns. *)
CloseReturn ==
  /\ close = "waiting" /\ wp = "exit"
  /\ close' = "closed"
  /\ UNCHANGED <<queue, workerVars, sent, accepted, late, fateVars, dropped>>

-----------------------------------------------------------------------------
(* The worker *)

(* The outer select takes an event or notices done; the drain loop takes   *)
(* events only.                                                            *)
Receive ==
  /\ wp = "select" /\ queue # <<>>
  /\ current' = Head(queue)
  /\ queue' = Tail(queue)
  /\ wp' = "send"
  /\ UNCHANGED <<close, draining, attempt, expired, sent, accepted, late,
                 fateVars, dropped>>

SeeDone ==
  /\ wp = "select" /\ close # "open" /\ ~draining
  /\ draining' = TRUE
  /\ UNCHANGED <<queue, close, wp, current, attempt, expired, sent, accepted,
                 late, fateVars, dropped>>

(* Mutant: the worker stops without looking at the channel again. *)
Exit_NoDrain ==
  /\ wp = "select" /\ draining
  /\ wp' = "exit"
  /\ UNCHANGED <<queue, close, draining, current, attempt, expired, sent,
                 accepted, late, fateVars, dropped>>

(* Mutant: the break leaves the drain loop but not the worker. *)
Exit_Break ==
  /\ wp = "select" /\ draining /\ queue = <<>>
  /\ draining' = FALSE
  /\ UNCHANGED <<queue, close, wp, current, attempt, expired, sent,
                 accepted, late, fateVars, dropped>>

(* The drain loop finds the channel empty. *)
Exit ==
  /\ wp = "select" /\ draining /\ queue = <<>>
  /\ wp' = "exit"
  /\ UNCHANGED <<queue, close, draining, current, attempt, expired, sent,
                 accepted, late, fateVars, dropped>>

(* Send has returned. *)
Settle ==
  /\ wp' = "select"
  /\ current' = NoEvent /\ attempt' = 0 /\ expired' = FALSE

(* The deadline of the context passes while Send runs. *)
Expire ==
  /\ wp \in {"send", "backoff"} /\ ~expired
  /\ expired' = TRUE
  /\ UNCHANGED <<queue, close, wp, draining, current, attempt, sent, accepted,
                 late, fateVars, dropped>>

(* sendOnce: the endpoint answers with a status in 200..299. *)
PostOk ==
  /\ wp = "send" /\ ~expired
  /\ posted' = Append(posted, current)
  /\ delivered' = delivered \cup {current}
  /\ Settle
  /\ UNCHANGED <<queue, close, draining, sent, accepted, late, failed,
                 dropped>>

(* sendOnce fails: nothing arrived, or the answer was an error or lost. *)
Received ==
  \/ UNCHANGED posted
  \/ ~expired /\ posted' = Append(posted, current)

(* Mutant: an event that failed lets the next one in the channel go first. *)
PostFail_Yield ==
  /\ wp = "send" /\ attempt < MaxRetries
  /\ Received
  /\ IF queue = <<>> THEN UNCHANGED <<queue, current>>
       ELSE /\ current' = Head(queue)
            /\ queue' = Append(Tail(queue), current)
  /\ attempt' = attempt + 1
  /\ wp' = "backoff"
  /\ UNCHANGED <<close, draining, expired, sent, accepted, late, delivered,
                 failed, dropped>>

PostFail ==
  /\ wp = "send" /\ attempt < MaxRetries
  /\ Received
  /\ attempt' = attempt + 1
  /\ wp' = "backoff"
  /\ UNCHANGED <<queue, close, draining, current, expired, sent, accepted,
                 late, delivered, failed, dropped>>

(* The last attempt fails. *)
PostGiveUp ==
  /\ wp = "send" /\ attempt = MaxRetries
  /\ Received
  /\ failed' = failed \cup {current}
  /\ Settle
  /\ UNCHANGED <<queue, close, draining, sent, accepted, late, delivered,
                 dropped>>

(* The delay is over; both cases of the select may be ready. *)
Retry ==
  /\ wp = "backoff"
  /\ wp' = "send"
  /\ UNCHANGED <<queue, close, draining, current, attempt, expired, sent,
                 accepted, late, fateVars, dropped>>

(* Mutant: the event is forgotten without a report. *)
ContextDone_Silent ==
  /\ wp = "backoff" /\ expired
  /\ Settle
  /\ UNCHANGED <<queue, close, draining, sent, accepted, late, fateVars,
                 dropped>>

(* ctx.Done ends the wait for the next attempt. *)
ContextDone ==
  /\ wp = "backoff" /\ expired
  /\ failed' = failed \cup {current}
  /\ Settle
  /\ UNCHANGED <<queue, close, draining, sent, accepted, late, posted,
                 delivered, dropped>>

Worker ==
  \/ Receive \/ SeeDone \/ Exit
  \/ PostOk \/ PostFail \/ PostGiveUp \/ Retry \/ ContextDone

Done == close = "closed" /\ sent = Event /\ UNCHANGED vars

Next ==
  \/ \E e \in Event : SendAsync(e)
  \/ CloseSignal \/ CloseReturn
  \/ Worker \/ Expire
  \/ Done

Spec == Init /\ [][Next]_vars

(* The worker goroutine runs: every post ends, if only by the timeout of   *)
(* the client.  Close returns once the worker has.                         *)
FairSpec == Spec /\ WF_vars(Worker) /\ WF_vars(CloseReturn)

-----------------------------------------------------------------------------
(* Properties *)

Position(e) == CHOOSE i \in DOMAIN accepted : accepted[i] = e

(* InOrder: the endpoint sees events in the order in which they were       *)
(* queued, retries and lost answers included.                              *)
InOrder ==
  \A i, j \in DOMAIN posted :
    i < j => Position(posted[i]) <= Position(posted[j])

(* Accounted: an event that was handed over is in the channel, with the    *)
(* worker, or its fate is known, and it is in one of these places only.    *)
Accounted ==
  \A e \in Event :
    Cardinality({i \in DOMAIN queue : queue[i] = e})
      + Cardinality({x \in {1} : current = e})
      + Cardinality({s \in {<<1, delivered>>, <<2, failed>>, <<3, dropped>>} :
                       e \in s[2]})
      = IF e \in sent THEN 1 ELSE 0

(* CloseDrains: when Close has returned, no event that was queued before   *)
(* it was called is left in the channel or with the worker.                *)
CloseDrains ==
  close = "closed" =>
    /\ current = NoEvent
    /\ \A i \in DOMAIN queue : queue[i] \in late

(* Settled: an event queued before Close is delivered or reported, and     *)
(* Close returns, whatever the endpoint does.                              *)
Settled ==
  /\ \A e \in Event :
       (e \in sent \ late) ~> (e \in delivered \cup failed \cup dropped)
  /\ (close = "waiting") ~> (close = "closed")
=============================================================================
