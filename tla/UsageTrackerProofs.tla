------------------------- MODULE UsageTrackerProofs -------------------------
(***************************************************************************)
(* Proofs about UsageTracker for every set of events and queriers, every   *)
(* buffer size and number of retries, and both stores.                     *)
(***************************************************************************)
EXTENDS UsageTracker, TLAPS

(* Control: a flusher holds events only between taking the buffer and      *)
(* finishing with it; done is set once Close has begun, and Close goes on  *)
(* only when the worker has stopped.                                       *)
ControlInv ==
  /\ \A f \in Flusher : batch[f] # {} => pc[f] \in {"store", "dlq"}
  /\ pc[Closer] # "idle" => done
  /\ pc[Closer] \notin {"idle", "wait"} => pc[Worker] = "exit"
  /\ early \subseteq tracked

(* An event that has not been written is not in the store; for the memory  *)
(* store, which does not look for duplicates, this is what keeps it from   *)
(* holding an event twice.                                                 *)
FreshInv ==
  /\ buffer \subseteq tracked
  /\ \A f \in Flusher : batch[f] \subseteq tracked
  /\ \A e \in Event : rows[e] > 0 => e \in tracked
  /\ dlq \cup lost \subseteq tracked
  /\ ~Postgres => \A e \in Event : rows[e] > 0 =>
       e \notin buffer /\ \A f \in Flusher : e \notin batch[f]

(* A querier past the swap has left nothing it needs in the buffer. *)
QueryInv ==
  \A q \in Querier :
    /\ need[q] \subseteq tracked
    /\ pc[q] \in {"store", "dlq", "read"} => need[q] \cap buffer = {}

(* Nor has Close, past its final swap, of what was tracked before it. *)
CloseInv ==
  pc[Closer] \in {"store", "dlq", "closeDLQ", "closeStore", "closed"} =>
    buffer \cap early = {}

(* NoSilentLoss, event by event. *)
HeldInv ==
  \A e \in tracked :
    \/ e \in buffer \/ \E f \in Flusher : e \in batch[f]
    \/ rows[e] > 0 \/ e \in dlq \/ e \in lost

IInv ==
  /\ TypeOK /\ ControlInv /\ HeldOnce /\ HeldInv /\ FreshInv /\ StoredOnce
  /\ QueryInv /\ CloseInv /\ FlushRequested

USE TrackerAssumption
USE DEF bufferVars, storeVars, dlqVars

LEMMA IInvInit == Init => IInv
<1> SUFFICES ASSUME Init PROVE IInv
  OBVIOUS
<1>1. TypeOK
  <2>1. 0 \in 0..MaxRetries
    OBVIOUS
  <2>2. attempt \in [Flusher -> 0..MaxRetries]
    BY <2>1 DEF Init
  <2>3. rows \in [Event -> Nat] /\ need \in [Querier -> SUBSET Event]
    BY DEF Init
  <2>4. batch \in [Flusher -> SUBSET Event]
    BY DEF Init
  <2> QED
    BY <2>2, <2>3, <2>4 DEF Init, TypeOK
<1>2. ControlInv
  BY DEF Init, Flusher, ControlInv
<1>3. HeldOnce
  BY DEF Init, Flusher, HeldOnce
<1>4. HeldInv
  BY DEF Init, Flusher, HeldInv
<1>5. FreshInv
  BY DEF Init, Flusher, FreshInv
<1>6. StoredOnce
  BY DEF Init, Flusher, StoredOnce
<1>7. QueryInv
  BY DEF Init, Flusher, QueryInv
<1>8. CloseInv
  BY DEF Init, Flusher, CloseInv
<1>9. FlushRequested
  BY DEF Init, Flusher, FlushRequested
<1> QED
  BY <1>1, <1>2, <1>3, <1>4, <1>5, <1>6, <1>7, <1>8, <1>9 DEF IInv

(* Track: the event is new, so no row, batch or need of a reader names it. *)
LEMMA KeepTrack == ASSUME IInv, NEW e \in Event, Track(e) PROVE IInv'
<1>1. TypeOK'
  BY DEF IInv, Flusher, TypeOK, Track, ShouldFlush
<1>2. ControlInv'
  BY DEF IInv, Flusher, TypeOK, ControlInv, Track
<1>3. HeldOnce'
  BY DEF IInv, Flusher, TypeOK, HeldOnce, FreshInv, Track
<1>4. HeldInv'
  BY DEF IInv, Flusher, TypeOK, HeldInv, Track
<1>5. FreshInv'
  BY DEF IInv, Flusher, TypeOK, FreshInv, Track
<1>6. StoredOnce'
  BY DEF IInv, Flusher, TypeOK, StoredOnce, Track
<1>7. QueryInv'
  BY DEF IInv, Flusher, TypeOK, QueryInv, Track
<1>8. CloseInv'
  BY DEF IInv, Flusher, TypeOK, CloseInv, ControlInv, Track
<1>9. FlushRequested'
  BY DEF IInv, Flusher, TypeOK, FlushRequested, Track, ShouldFlush
<1> QED
  BY <1>1, <1>2, <1>3, <1>4, <1>5, <1>6, <1>7, <1>8, <1>9 DEF IInv

(* Every other action either moves events from the buffer to a batch or    *)
(* from a batch to the store or the file, or only moves a control state.   *)
LEMMA IInvNext == IInv /\ [Next]_vars => IInv'
<1> SUFFICES ASSUME IInv, [Next]_vars PROVE IInv'
  OBVIOUS
<1> USE DEF Flusher, IInv, TypeOK, ControlInv, HeldOnce, HeldInv, FreshInv,
            StoredOnce, QueryInv, CloseInv, FlushRequested, Goto
<1>1. ASSUME NEW e \in Event, Track(e) PROVE IInv'
  BY <1>1, KeepTrack
<1>2. ASSUME NEW e \in Event, TriggerFlush(e) PROVE IInv'
  BY <1>2 DEF TriggerFlush
<1>3. ASSUME NEW f \in Flusher, TakeBuffer(f) PROVE IInv'
  BY <1>3 DEF TakeBuffer
<1>4. ASSUME NEW f \in Flusher, TakeNothing(f) PROVE IInv'
  BY <1>4 DEF TakeNothing, AfterFlush
<1>5. ASSUME NEW f \in Flusher, StoreOk(f) PROVE IInv'
  BY <1>5 DEF StoreOk, AfterFlush, Insert
<1>6. ASSUME NEW f \in Flusher, StoreFail(f) PROVE IInv'
  BY <1>6 DEF StoreFail, FailAttempt
<1>7. ASSUME NEW f \in Flusher, StoreAckLost(f) PROVE IInv'
  BY <1>7 DEF StoreAckLost, FailAttempt, Insert
<1>8. ASSUME NEW f \in Flusher, SendToDLQ(f) PROVE IInv'
  BY <1>8 DEF SendToDLQ, AfterFlush
<1>9. ASSUME NEW f \in Flusher, DLQOpenFail(f) PROVE IInv'
  BY <1>9 DEF DLQOpenFail, AfterFlush
<1>10. CASE WorkerTick
  BY <1>10 DEF WorkerTick
<1>11. CASE WorkerSignal
  BY <1>11 DEF WorkerSignal
<1>12. CASE WorkerExit
  BY <1>12 DEF WorkerExit
<1>13. ASSUME NEW q \in Querier, QueryBegin(q) PROVE IInv'
  BY <1>13 DEF QueryBegin
<1>14. ASSUME NEW q \in Querier, QueryRead(q) PROVE IInv'
  BY <1>14 DEF QueryRead
<1>15. CASE CloseSignal
  BY <1>15 DEF CloseSignal
<1>16. CASE CloseWait
  BY <1>16 DEF CloseWait
<1>17. CASE CloseDLQ
  BY <1>17 DEF CloseDLQ
<1>18. CASE CloseStore
  BY <1>18 DEF CloseStore
<1>19. CASE UNCHANGED vars
  BY <1>19 DEF vars
<1> HIDE DEF IInv
<1> QED
  BY <1>1, <1>2, <1>3, <1>4, <1>5, <1>6, <1>7, <1>8, <1>9, <1>10, <1>11, <1>12, <1>13, <1>14, <1>15, <1>16, <1>17, <1>18, <1>19
     DEF Next, FlushStep

(* The parts of the invariant that the runs check, read off it.             *)
LEMMA IInvProperties ==
  IInv => /\ HeldOnce /\ NoSilentLoss /\ StoredOnce /\ FlushRequested
          /\ QueryMissesOnlyInFlight /\ CloseDrains
<1> SUFFICES ASSUME IInv
             PROVE  NoSilentLoss /\ QueryMissesOnlyInFlight /\ CloseDrains
  BY DEF IInv
<1>1. NoSilentLoss
  BY DEF IInv, TypeOK, HeldInv, NoSilentLoss, InFlight, Stored
<1>2. QueryMissesOnlyInFlight
  <2> SUFFICES ASSUME NEW q \in Querier, pc[q] = "read", NEW e \in need[q]
               PROVE  e \in Stored \cup dlq \cup lost
                              \cup UNION {batch[f] : f \in Flusher \ {q}}
    BY DEF QueryMissesOnlyInFlight
  <2>1. q \in Flusher /\ batch[q] = {}
    BY DEF IInv, ControlInv, Flusher
  <2>2. e \in tracked /\ e \in Event /\ e \notin buffer
    BY DEF IInv, TypeOK, QueryInv
  <2> QED
    BY <2>1, <2>2 DEF IInv, HeldInv, Stored
<1>3. CloseDrains
  <2> SUFFICES ASSUME pc[Closer] = "closed", NEW e \in early
               PROVE  /\ pc[Worker] = "exit" /\ buffer \cap early = {}
                      /\ e \in Stored \cup dlq \cup lost
                                 \cup UNION {batch[q] : q \in Querier}
    BY DEF CloseDrains, IInv, CloseInv, ControlInv
  <2>1. pc[Worker] = "exit" /\ buffer \cap early = {}
    BY DEF IInv, CloseInv, ControlInv
  <2>2. batch[Closer] = {} /\ batch[Worker] = {}
    BY <2>1 DEF IInv, ControlInv, Flusher
  <2>3. e \in tracked /\ e \in Event /\ e \notin buffer
    BY <2>1 DEF IInv, TypeOK, ControlInv
  <2>4. CASE \E f \in Flusher : e \in batch[f]
    <3>1. PICK f \in Flusher : e \in batch[f]
      BY <2>4
    <3>2. f \in Querier
      BY <2>2, <3>1 DEF Flusher
    <3> QED BY <2>1, <3>1, <3>2
  <2> QED BY <2>1, <2>3, <2>4 DEF IInv, HeldInv, Stored
<1> QED
  BY <1>1, <1>2, <1>3

LEMMA IInvHolds == Spec => []IInv
  BY IInvInit, IInvNext, PTL DEF Spec

(* TrackerTypeCorrect: every behaviour of the tracker keeps its variables   *)
(* within their types; attempts stop at MaxRetries (storeWithRetry).       *)
THEOREM TrackerTypeCorrect == Spec => []TypeOK
<1>1. IInv => TypeOK
  BY DEF IInv
<1> QED
  BY <1>1, IInvHolds, PTL

(* StoredOnceHolds: with any number of concurrent flushers and any number   *)
(* of retries, also after a commit whose answer was lost, Store leaves at  *)
(* most one copy of an event.                                              *)
THEOREM StoredOnceHolds == Spec => []StoredOnce
  BY IInvProperties, IInvHolds, PTL

(* NoSilentLossHolds: an event passed to Track is held, stored,             *)
(* dead-lettered or reported lost by sendToDLQ; flush drops none.          *)
THEOREM NoSilentLossHolds == Spec => []NoSilentLoss
  BY IInvProperties, IInvHolds, PTL

(* HeldOnceHolds: the swap of the buffer in flush gives an event to one     *)
(* flusher only.                                                           *)
THEOREM HeldOnceHolds == Spec => []HeldOnce
  BY IInvProperties, IInvHolds, PTL

(* FlushRequestedHolds: no wake-up of flushWorker is lost, though           *)
(* triggerFlush runs outside bufferMu and drops a token when one waits.    *)
THEOREM FlushRequestedHolds == Spec => []FlushRequested
  BY IInvProperties, IInvHolds, PTL

(* QueryMissesHolds: what Query or GetSummary misses of the events tracked  *)
(* before it is in the hands of another flusher or of the dead-letter path *)
THEOREM QueryMissesHolds == Spec => []QueryMissesOnlyInFlight
  BY IInvProperties, IInvHolds, PTL

(* CloseDrainsHolds: once Close has returned, the worker has stopped and   *)
(* every event tracked before Close is stored, reported, or in the batch   *)
(* of a query that is still flushing; none is in the buffer.               *)
THEOREM CloseDrainsHolds == Spec => []CloseDrains
  BY IInvProperties, IInvHolds, PTL

-----------------------------------------------------------------------------
(* The refinement: what each step of the tracker does to the open, the     *)
(* stored and the reported events.                                         *)

open == buffer \cup InFlight
stored == Stored
reported == dlq \cup lost

(* A step that moves no event between the buffer, the batches, the store   *)
(* and the file is no step of the ledger.                                  *)
LEMMA LedgerStutter ==
  ASSUME UNCHANGED <<buffer, batch, rows, dlq, lost>>
  PROVE  UNCHANGED <<open, stored, reported>>
  BY DEF open, stored, reported, InFlight, Stored

(* The swap of the buffer keeps the events open. *)
LEMMA LedgerTake ==
  ASSUME IInv, NEW f \in Flusher, TakeBuffer(f)
  PROVE  UNCHANGED <<open, stored, reported>>
<1>1. UNCHANGED <<stored, reported>>
  BY DEF TakeBuffer, stored, reported, Stored, storeVars, dlqVars
<1>2. batch[f] = {}
  BY DEF IInv, ControlInv, TakeBuffer
<1>3. batch \in [Flusher -> SUBSET Event] /\ buffer' = {}
  BY DEF IInv, TypeOK, TakeBuffer
<1>4. \A g \in Flusher : batch'[g] = IF g = f THEN buffer ELSE batch[g]
  BY <1>3 DEF TakeBuffer
<1>5. open' = open
  BY <1>2, <1>3, <1>4 DEF open, InFlight
<1> QED
  BY <1>1, <1>5

(* A flusher that lets go of its batch closes exactly that batch: nobody   *)
(* else holds its events.                                                  *)
LEMMA LedgerRelease ==
  ASSUME IInv, NEW f \in Flusher, UNCHANGED buffer,
         batch' = [batch EXCEPT ![f] = {}]
  PROVE  batch[f] \subseteq open /\ open' = open \ batch[f]
<1>1. batch \in [Flusher -> SUBSET Event]
  BY DEF IInv, TypeOK
<1>2. \A g \in Flusher : batch'[g] = IF g = f THEN {} ELSE batch[g]
  BY <1>1
<1>3. batch[f] \cap buffer = {}
  BY DEF IInv, HeldOnce
<1>4. \A g \in Flusher : g # f => batch[g] \cap batch[f] = {}
  BY DEF IInv, HeldOnce
<1>5. InFlight' = InFlight \ batch[f]
  BY <1>2, <1>4 DEF InFlight
<1> QED
  BY <1>3, <1>5 DEF open, InFlight

(* Insert adds exactly the batch to the stored events. *)
LEMMA LedgerInsert ==
  ASSUME IInv, NEW S \in SUBSET Event, rows' = Insert(S)
  PROVE  stored' = stored \cup S
<1>1. rows \in [Event -> Nat]
  BY DEF IInv, TypeOK
<1>2. \A e \in Event : rows'[e] = IF e \in S /\ (Postgres => rows[e] = 0)
                                   THEN rows[e] + 1 ELSE rows[e]
  BY DEF Insert
<1>3. \A e \in Event : rows'[e] > 0 <=> rows[e] > 0 \/ e \in S
  BY <1>1, <1>2
<1> QED
  BY <1>3 DEF stored, Stored

LEMMA LedgerInitial == Init => Ledger!LedgerInit
  BY DEF Init, Ledger!LedgerInit, InFlight, Stored, Flusher

LEMMA LedgerStep ==
  ASSUME IInv, [Next]_vars PROVE [Ledger!LedgerNext]_(Ledger!ledgerVars)
<1> USE DEF Ledger!ledgerVars
<1>a. ASSUME UNCHANGED <<open, stored, reported>>
      PROVE  [Ledger!LedgerNext]_(Ledger!ledgerVars)
  BY <1>a DEF open, stored, reported
<1>b. ASSUME UNCHANGED <<buffer, batch, rows, dlq, lost>>
      PROVE  [Ledger!LedgerNext]_(Ledger!ledgerVars)
  BY <1>a, <1>b, LedgerStutter
<1>1. ASSUME NEW e \in Event, Track(e)
      PROVE  Ledger!LedgerNext
  <2>1. e \notin tracked
    BY <1>1 DEF Track
  <2>2. e \notin buffer \cup InFlight /\ e \notin Stored /\ e \notin dlq \cup lost
    BY <2>1 DEF IInv, FreshInv, InFlight, Stored
  <2>3. (buffer \cup InFlight)' = (buffer \cup InFlight) \cup {e}
    BY <1>1 DEF Track, InFlight
  <2>4. UNCHANGED Stored /\ UNCHANGED (dlq \cup lost)
    BY <1>1 DEF Track, Stored, storeVars, dlqVars
  <2>5. Ledger!Accept(e)
    BY <2>2, <2>3, <2>4 DEF Ledger!Accept
  <2> QED
    BY <2>5 DEF Ledger!LedgerNext
<1>2. ASSUME NEW f \in Flusher, TakeBuffer(f)
      PROVE  [Ledger!LedgerNext]_(Ledger!ledgerVars)
  BY <1>2, <1>a, LedgerTake
<1>3. ASSUME NEW f \in Flusher, StoreOk(f)
      PROVE  Ledger!LedgerNext
  <2>1. batch[f] \in SUBSET Event
    BY DEF IInv, TypeOK
  <2>2. batch[f] \subseteq open /\ open' = open \ batch[f]
    BY <1>3, LedgerRelease DEF StoreOk, bufferVars
  <2>3. stored' = stored \cup batch[f]
    BY <1>3, <2>1, LedgerInsert DEF StoreOk
  <2>4. UNCHANGED (dlq \cup lost)
    BY <1>3 DEF StoreOk, dlqVars
  <2>5. Ledger!Commit(batch[f])
    BY <2>2, <2>3, <2>4 DEF Ledger!Commit, open, stored
  <2> QED
    BY <2>2, <2>5 DEF Ledger!LedgerNext, open
<1>4. ASSUME NEW f \in Flusher, StoreAckLost(f)
      PROVE  Ledger!LedgerNext
  <2>1. batch[f] \in SUBSET Event
    BY DEF IInv, TypeOK
  <2>2. batch[f] \subseteq open
    BY DEF open, InFlight
  <2>3. stored' = stored \cup batch[f]
    BY <1>4, <2>1, LedgerInsert DEF StoreAckLost
  <2>4. UNCHANGED (buffer \cup InFlight) /\ UNCHANGED (dlq \cup lost)
    BY <1>4 DEF StoreAckLost, dlqVars, bufferVars, InFlight
  <2>5. Ledger!CommitUnknown(batch[f])
    BY <2>2, <2>3, <2>4 DEF Ledger!CommitUnknown, open, stored
  <2> QED
    BY <2>2, <2>5 DEF Ledger!LedgerNext, open
<1>5. ASSUME NEW f \in Flusher, SendToDLQ(f) \/ DLQOpenFail(f)
      PROVE  Ledger!LedgerNext
  <2>1. batch[f] \subseteq open /\ open' = open \ batch[f]
    BY <1>5, LedgerRelease DEF SendToDLQ, DLQOpenFail, bufferVars
  <2>2. reported' = reported \cup batch[f]
    BY <1>5 DEF SendToDLQ, DLQOpenFail, reported
  <2>3. UNCHANGED Stored
    BY <1>5 DEF SendToDLQ, DLQOpenFail, Stored, storeVars
  <2>4. Ledger!GiveUp(batch[f])
    BY <2>1, <2>2, <2>3 DEF Ledger!GiveUp, open, reported
  <2> QED
    BY <2>1, <2>4 DEF Ledger!LedgerNext, open
<1>6. ASSUME NEW e \in Event, TriggerFlush(e)
      PROVE  [Ledger!LedgerNext]_(Ledger!ledgerVars)
  BY <1>6, <1>b DEF TriggerFlush, storeVars, dlqVars
<1>7. ASSUME NEW f \in Flusher, TakeNothing(f) \/ StoreFail(f)
      PROVE  [Ledger!LedgerNext]_(Ledger!ledgerVars)
  BY <1>7, <1>b DEF TakeNothing, StoreFail, bufferVars, storeVars, dlqVars
<1>8. CASE WorkerTick \/ WorkerSignal \/ WorkerExit
  BY <1>8, <1>b DEF WorkerTick, WorkerSignal, WorkerExit, bufferVars, storeVars, dlqVars
<1>9. ASSUME NEW q \in Querier, QueryBegin(q) \/ QueryRead(q)
      PROVE  [Ledger!LedgerNext]_(Ledger!ledgerVars)
  BY <1>9, <1>b DEF QueryBegin, QueryRead, bufferVars, storeVars, dlqVars
<1>10. CASE CloseSignal \/ CloseWait \/ CloseDLQ \/ CloseStore
  BY <1>10, <1>b DEF CloseSignal, CloseWait, CloseDLQ, CloseStore, bufferVars, storeVars, dlqVars
<1>11. CASE UNCHANGED vars
  BY <1>11, <1>b DEF vars, bufferVars, storeVars, dlqVars
<1> QED
  BY <1>1, <1>2, <1>3, <1>4, <1>5, <1>6, <1>7, <1>8, <1>9, <1>10, <1>11
     DEF Next, FlushStep

(* TrackerKeepsLedger: the tracker implements the ledger its callers rely  *)
(* on, for every number of flushers, events and retries and both stores.   *)
THEOREM TrackerKeepsLedger == Spec => KeepsLedger
<1>1. Init => Ledger!LedgerInit
  BY LedgerInitial
<1>2. IInv /\ [Next]_vars => [Ledger!LedgerNext]_(Ledger!ledgerVars)
  BY LedgerStep
<1> QED
  BY <1>1, <1>2, IInvHolds, PTL DEF Spec, KeepsLedger, Ledger!LedgerSpec
=============================================================================
