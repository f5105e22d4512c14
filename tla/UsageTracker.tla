---------------------------- MODULE UsageTracker ----------------------------
(***************************************************************************)
(* The usage tracker (internal/usage/tracker.go): Track appends events to  *)
(* a buffer; the flush worker, every Query or GetSummary call and finally  *)
(* Close take the whole buffer and write it to the store, with retries and *)
(* a dead-letter file behind them.                                         *)
(*                                                                         *)
(* A flusher is any goroutine that runs flush().  Its steps are split at   *)
(* bufferMu, at each attempt to store and at dlqMu.  Events are tracked    *)
(* once each and have different IDs.                                       *)
(***************************************************************************)
EXTENDS Naturals, FiniteSets

CONSTANTS
  Event,       \* usage events the program may track
  Querier,     \* concurrent calls of Query or GetSummary
  Worker,      \* the goroutine of flushWorker
  Closer,      \* the goroutine that calls Close
  BufferSize,  \* cfg.BufferSize
  MaxRetries,  \* cfg.MaxRetries (3 when it is 0)
  Postgres     \* cfg.Store = "postgres"; otherwise the memory store

ASSUME TrackerAssumption ==
  /\ BufferSize \in Nat /\ MaxRetries \in Nat
  /\ Postgres \in BOOLEAN
  /\ IsFiniteSet(Event)
  /\ Worker # Closer /\ Worker \notin Querier /\ Closer \notin Querier

Flusher == Querier \cup {Worker, Closer}

VARIABLES
  tracked,   \* events passed to Track
  buffer,    \* t.buffer
  trigger,   \* events whose Track call still has to call triggerFlush
  flushReq,  \* the token in flushChan
  pc,        \* control state of each flusher
  batch,     \* per flusher: the events it took from the buffer
  attempt,   \* per flusher: failed attempts to store its batch
  rows,      \* per event: how many copies the store holds
  dlq,       \* events in the dead-letter file
  dlqOpen,   \* t.dlqFile # nil
  lost,      \* events reported as lost: the dead-letter file failed
  done,      \* close(t.done) has happened
  early,     \* events tracked before that
  storeOpen, \* store.Close has not been called
  need       \* per querier: events tracked before its call began

bufferVars == <<tracked, buffer, trigger, early>>
storeVars  == <<rows, storeOpen>>
dlqVars    == <<dlq, dlqOpen, lost>>
vars == <<bufferVars, flushReq, pc, batch, attempt, storeVars, dlqVars, done,
          need>>

Stored == {e \in Event : rows[e] > 0}

(* The events some flusher has taken out of the buffer. *)
InFlight == UNION {batch[f] : f \in Flusher}

Init ==
  /\ tracked = {} /\ buffer = {} /\ trigger = {} /\ early = {}
  /\ flushReq = FALSE
  /\ pc = [f \in Flusher |-> "idle"]
  /\ batch = [f \in Flusher |-> {}]
  /\ attempt = [f \in Flusher |-> 0]
  /\ rows = [e \in Event |-> 0]
  /\ dlq = {} /\ dlqOpen = FALSE /\ lost = {}
  /\ done = FALSE /\ storeOpen = TRUE
  /\ need = [q \in Querier |-> {}]

-----------------------------------------------------------------------------
(* Track: the append under bufferMu, then the signal outside it. *)

(* Mutant: the signal is only sent when the buffer is over its size. *)
ShouldFlush_Late(b) == Cardinality(b) > BufferSize

(* len(t.buffer) >= t.cfg.BufferSize, after the append. *)
ShouldFlush(b) == Cardinality(b) >= BufferSize

Track(e) ==
  /\ e \notin tracked
  /\ tracked' = tracked \cup {e}
  /\ buffer' = buffer \cup {e}
  /\ trigger' = IF ShouldFlush(buffer') THEN trigger \cup {e} ELSE trigger
  /\ early' = IF done THEN early ELSE early \cup {e}
  /\ UNCHANGED <<flushReq, pc, batch, attempt, storeVars, dlqVars, done,
                 need>>

(* triggerFlush: a send that does nothing when a token is already there. *)
TriggerFlush(e) ==
  /\ e \in trigger
  /\ trigger' = trigger \ {e}
  /\ flushReq' = TRUE
  /\ UNCHANGED <<tracked, buffer, early, pc, batch, attempt, storeVars,
                 dlqVars, done, need>>

-----------------------------------------------------------------------------
(* flush, run by flusher f. *)

Goto(f, state) == pc' = [pc EXCEPT ![f] = state]

(* Where f continues when flush returns. *)
AfterFlush(f) == CASE f = Worker -> "idle"
                   [] f = Closer -> "closeDLQ"
                   [] OTHER -> "read"

(* The buffer is swapped under bufferMu.  The retry buffer is always       *)
(* empty: nothing in the package writes to it.                             *)
TakeBuffer(f) ==
  /\ pc[f] = "take"
  /\ buffer # {}
  /\ batch' = [batch EXCEPT ![f] = buffer]
  /\ buffer' = {}
  /\ attempt' = [attempt EXCEPT ![f] = 0]
  /\ Goto(f, "store")
  /\ UNCHANGED <<tracked, trigger, early, flushReq, storeVars, dlqVars, done,
                 need>>

(* An empty buffer: flush returns at once. *)
TakeNothing(f) ==
  /\ pc[f] = "take"
  /\ buffer = {}
  /\ Goto(f, AfterFlush(f))
  /\ UNCHANGED <<bufferVars, flushReq, batch, attempt, storeVars, dlqVars,
                 done, need>>

(* Mutant: INSERT without ON CONFLICT (id) DO NOTHING. *)
Insert_Append(S) == [e \in Event |-> IF e \in S THEN rows[e] + 1 ELSE rows[e]]

(* What a successful Store leaves: the memory store appends, Postgres      *)
(* inserts ON CONFLICT (id) DO NOTHING.                                    *)
Insert(S) ==
  [e \in Event |-> IF e \in S /\ (Postgres => rows[e] = 0)
                     THEN rows[e] + 1 ELSE rows[e]]

(* store.Store returns nil. *)
StoreOk(f) ==
  /\ pc[f] = "store"
  /\ Postgres => storeOpen
  /\ rows' = Insert(batch[f])
  /\ batch' = [batch EXCEPT ![f] = {}]
  /\ Goto(f, AfterFlush(f))
  /\ UNCHANGED <<bufferVars, flushReq, attempt, storeOpen, dlqVars, done,
                 need>>

(* Mutant: the attempts are not counted. *)
FailAttempt_Forever(f) ==
  /\ Goto(f, "store")
  /\ UNCHANGED attempt

(* Mutant: one attempt too many. *)
FailAttempt_OneMore(f) ==
  IF attempt[f] <= MaxRetries
    THEN /\ attempt' = [attempt EXCEPT ![f] = @ + 1]
         /\ Goto(f, "store")
    ELSE /\ Goto(f, "dlq")
         /\ UNCHANGED attempt

(* A failed attempt: try again, or give up after MaxRetries retries. *)
FailAttempt(f) ==
  IF attempt[f] < MaxRetries
    THEN /\ attempt' = [attempt EXCEPT ![f] = @ + 1]
         /\ Goto(f, "store")
    ELSE /\ Goto(f, "dlq")
         /\ UNCHANGED attempt

(* store.Store returns an error and the transaction is rolled back. *)
StoreFail(f) ==
  /\ pc[f] = "store"
  /\ Postgres
  /\ FailAttempt(f)
  /\ UNCHANGED <<bufferVars, flushReq, batch, storeVars, dlqVars, done, need>>

(* The transaction commits but its answer is lost or comes after the       *)
(* 10 s timeout: store.Store returns an error all the same.                *)
StoreAckLost(f) ==
  /\ pc[f] = "store"
  /\ Postgres /\ storeOpen
  /\ rows' = Insert(batch[f])
  /\ FailAttempt(f)
  /\ UNCHANGED <<bufferVars, flushReq, batch, storeOpen, dlqVars, done, need>>

(* Mutant: the error of storeWithRetry is ignored. *)
SendToDLQ_Skipped(f) ==
  /\ pc[f] = "dlq"
  /\ batch' = [batch EXCEPT ![f] = {}]
  /\ Goto(f, AfterFlush(f))
  /\ UNCHANGED <<bufferVars, flushReq, attempt, storeVars, dlqVars, done,
                 need>>

(* sendToDLQ: the file opens or is open; each event is encoded or, when    *)
(* the write fails, reported and skipped.                                  *)
SendToDLQ(f) ==
  /\ pc[f] = "dlq"
  /\ \E written \in SUBSET batch[f] :
       /\ dlq' = dlq \cup written
       /\ lost' = lost \cup (batch[f] \ written)
  /\ dlqOpen' = TRUE
  /\ batch' = [batch EXCEPT ![f] = {}]
  /\ Goto(f, AfterFlush(f))
  /\ UNCHANGED <<bufferVars, flushReq, attempt, storeVars, done, need>>

(* sendToDLQ: the file cannot be opened; the batch is reported as lost. *)
DLQOpenFail(f) ==
  /\ pc[f] = "dlq" /\ ~dlqOpen
  /\ lost' = lost \cup batch[f]
  /\ batch' = [batch EXCEPT ![f] = {}]
  /\ Goto(f, AfterFlush(f))
  /\ UNCHANGED <<bufferVars, flushReq, attempt, storeVars, dlq, dlqOpen, done,
                 need>>

FlushStep(f) ==
  \/ TakeBuffer(f) \/ TakeNothing(f)
  \/ StoreOk(f) \/ StoreFail(f) \/ StoreAckLost(f)
  \/ SendToDLQ(f) \/ DLQOpenFail(f)

-----------------------------------------------------------------------------
(* flushWorker: a select over done, the ticker and flushChan. *)

WorkerTick ==
  /\ pc[Worker] = "idle"
  /\ Goto(Worker, "take")
  /\ UNCHANGED <<bufferVars, flushReq, batch, attempt, storeVars, dlqVars,
                 done, need>>

WorkerSignal ==
  /\ pc[Worker] = "idle" /\ flushReq
  /\ flushReq' = FALSE
  /\ Goto(Worker, "take")
  /\ UNCHANGED <<bufferVars, batch, attempt, storeVars, dlqVars, done, need>>

WorkerExit ==
  /\ pc[Worker] = "idle" /\ done
  /\ Goto(Worker, "exit")
  /\ UNCHANGED <<bufferVars, flushReq, batch, attempt, storeVars, dlqVars,
                 done, need>>

-----------------------------------------------------------------------------
(* Query and GetSummary: flush, then read the store. *)

(* Mutant: the store is read without a flush. *)
QueryBegin_NoFlush(q) ==
  /\ pc[q] = "idle"
  /\ need' = [need EXCEPT ![q] = tracked]
  /\ Goto(q, "read")
  /\ UNCHANGED <<bufferVars, flushReq, batch, attempt, storeVars, dlqVars,
                 done>>

QueryBegin(q) ==
  /\ pc[q] = "idle"
  /\ need' = [need EXCEPT ![q] = tracked]
  /\ Goto(q, "take")
  /\ UNCHANGED <<bufferVars, flushReq, batch, attempt, storeVars, dlqVars,
                 done>>

(* store.Query or store.GetSummary sees the rows of this moment. *)
QueryRead(q) ==
  /\ pc[q] = "read"
  /\ need' = [need EXCEPT ![q] = {}]
  /\ Goto(q, "idle")
  /\ UNCHANGED <<bufferVars, flushReq, batch, attempt, storeVars, dlqVars,
                 done>>

-----------------------------------------------------------------------------
(* Close *)

CloseSignal ==
  /\ pc[Closer] = "idle"
  /\ done' = TRUE
  /\ Goto(Closer, "wait")
  /\ UNCHANGED <<bufferVars, flushReq, batch, attempt, storeVars, dlqVars,
                 need>>

(* Mutant: Close does not flush after the worker has stopped. *)
CloseWait_NoFlush ==
  /\ pc[Closer] = "wait" /\ pc[Worker] = "exit"
  /\ Goto(Closer, "closeDLQ")
  /\ UNCHANGED <<bufferVars, flushReq, batch, attempt, storeVars, dlqVars,
                 done, need>>

(* t.wg.Wait(), then the final flush begins. *)
CloseWait ==
  /\ pc[Closer] = "wait" /\ pc[Worker] = "exit"
  /\ Goto(Closer, "take")
  /\ UNCHANGED <<bufferVars, flushReq, batch, attempt, storeVars, dlqVars,
                 done, need>>

CloseDLQ ==
  /\ pc[Closer] = "closeDLQ"
  /\ dlqOpen' = FALSE
  /\ Goto(Closer, "closeStore")
  /\ UNCHANGED <<bufferVars, flushReq, batch, attempt, storeVars, dlq, lost,
                 done, need>>

CloseStore ==
  /\ pc[Closer] = "closeStore"
  /\ storeOpen' = FALSE
  /\ Goto(Closer, "closed")
  /\ UNCHANGED <<bufferVars, flushReq, batch, attempt, rows, dlqVars, done,
                 need>>

Next ==
  \/ \E e \in Event : Track(e) \/ TriggerFlush(e)
  \/ \E f \in Flusher : FlushStep(f)
  \/ WorkerTick \/ WorkerSignal \/ WorkerExit
  \/ \E q \in Querier : QueryBegin(q) \/ QueryRead(q)
  \/ CloseSignal \/ CloseWait \/ CloseDLQ \/ CloseStore

Spec == Init /\ [][Next]_vars

(***************************************************************************)
(* Fairness: every attempt to store ends (10 s timeout), back-offs end,    *)
(* the ticker ticks.  Go's select picks a ready case at random, so a       *)
(* worker that finds done closed again and again takes that case: strong   *)
(* fairness for WorkerExit.  Nobody has to call Track, Query or Close.     *)
(***************************************************************************)
Fairness ==
  /\ \A e \in Event : WF_vars(TriggerFlush(e))
  /\ \A f \in Flusher : WF_vars(FlushStep(f))
  /\ \A q \in Querier : WF_vars(QueryRead(q))
  /\ WF_vars(WorkerTick \/ WorkerSignal \/ WorkerExit)
  /\ SF_vars(WorkerExit)
  /\ WF_vars(CloseWait \/ CloseDLQ \/ CloseStore)

FairSpec == Spec /\ Fairness

-----------------------------------------------------------------------------
(* Properties *)

(* The values every variable may take. *)
TypeOK ==
  /\ tracked \subseteq Event /\ buffer \subseteq Event
  /\ trigger \subseteq Event /\ early \subseteq Event
  /\ flushReq \in BOOLEAN
  /\ pc \in [Flusher -> {"idle", "take", "store", "dlq", "read", "exit",
                         "wait", "closeDLQ", "closeStore", "closed"}]
  /\ batch \in [Flusher -> SUBSET Event]
  /\ attempt \in [Flusher -> 0..MaxRetries]
  /\ rows \in [Event -> Nat]
  /\ dlq \subseteq Event /\ lost \subseteq Event
  /\ dlqOpen \in BOOLEAN /\ done \in BOOLEAN /\ storeOpen \in BOOLEAN
  /\ need \in [Querier -> SUBSET Event]

(* HeldOnce: an event that is still to be written is in the buffer or in   *)
(* the batch of one flusher, never in two places, so concurrent flushes    *)
(* write every event once.                                                 *)
HeldOnce ==
  /\ \A f \in Flusher : batch[f] \cap buffer = {}
  /\ \A f, g \in Flusher : f # g => batch[f] \cap batch[g] = {}

(* NoSilentLoss: every tracked event is still held, or is in the store or  *)
(* in the dead-letter file, or was reported as lost.                       *)
NoSilentLoss == tracked \subseteq buffer \cup InFlight \cup Stored \cup dlq \cup lost

(* StoredOnce: retries, also after a commit whose answer was lost, leave   *)
(* one copy of an event in the store.                                      *)
StoredOnce == \A e \in Event : rows[e] <= 1

(* FlushRequested: a buffer that has reached BufferSize is never left      *)
(* without a signal: the token is in the channel, a Track call is about to *)
(* put it there, or the worker is about to take the buffer or has stopped. *)
FlushRequested ==
  Cardinality(buffer) >= BufferSize /\ buffer # {} =>
    flushReq \/ trigger # {} \/ pc[Worker] \in {"take", "exit"}

(* QueryMissesOnlyInFlight: what a query does not see of the events        *)
(* tracked before it began is in another flusher's batch, dead-lettered or *)
(* reported lost; never still in the buffer.                               *)
QueryMissesOnlyInFlight ==
  \A q \in Querier : pc[q] = "read" =>
    need[q] \subseteq Stored \cup dlq \cup lost
                \cup UNION {batch[f] : f \in Flusher \ {q}}

(* CloseDrains: when Close returns the worker is gone, the buffer holds    *)
(* nothing that was tracked before Close, and each such event is stored,   *)
(* dead-lettered or reported lost.  The one exception is the batch of a    *)
(* query whose own flush is still under way: Close does not wait for it.   *)
CloseDrains ==
  pc[Closer] = "closed" =>
    /\ pc[Worker] = "exit" /\ buffer \cap early = {}
    /\ early \subseteq Stored \cup dlq \cup lost
                     \cup UNION {batch[q] : q \in Querier}

(* What callers of the tracker may rely on: buffer and batches are the     *)
(* open events, the dead-letter file and the log are the reported ones.    *)
Ledger == INSTANCE UsageLedger WITH
            open <- buffer \cup InFlight,
            stored <- Stored,
            reported <- dlq \cup lost

(* KeepsLedger: the tracker implements the ledger.  With several flushers, *)
(* retries after a commit whose answer was lost and a failing dead-letter  *)
(* file, an event is closed only by an acknowledged commit or a report,    *)
(* and once closed no flusher holds it again.                              *)
KeepsLedger == Ledger!LedgerSpec

(* Settles: every event tracked before Close is eventually stored,         *)
(* dead-lettered or reported lost.                                         *)
Settles == \A e \in Event : e \in early ~> e \in Stored \cup dlq \cup lost

=============================================================================
