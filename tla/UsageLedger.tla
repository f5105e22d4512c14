---------------------------- MODULE UsageLedger ----------------------------
(***************************************************************************)
(* What the usage tracker promises to the code that calls it: an event     *)
(* handed to Track stays open until it is committed to the store or        *)
(* reported (to the dead-letter file or to the log), and never comes back. *)
(* A commit whose answer is lost leaves its events open, so that they may  *)
(* be committed again or reported as well; a commit that is acknowledged   *)
(* closes them.                                                            *)
(***************************************************************************)
CONSTANT Event

VARIABLES
  open,      \* accepted by Track, with no final outcome yet
  stored,    \* committed to the store
  reported   \* written to the dead-letter file or reported as lost

ledgerVars == <<open, stored, reported>>

LedgerInit == open = {} /\ stored = {} /\ reported = {}

(* Track *)
Accept(e) ==
  /\ e \notin open \cup stored \cup reported
  /\ open' = open \cup {e}
  /\ UNCHANGED <<stored, reported>>

(* store.Store commits the batch S, and the tracker learns it. *)
Commit(S) ==
  /\ S \subseteq open
  /\ stored' = stored \cup S
  /\ open' = open \ S
  /\ UNCHANGED reported

(* store.Store commits the batch S, but the tracker sees an error. *)
CommitUnknown(S) ==
  /\ S \subseteq open
  /\ stored' = stored \cup S
  /\ UNCHANGED <<open, reported>>

(* sendToDLQ *)
GiveUp(S) ==
  /\ S \subseteq open
  /\ reported' = reported \cup S
  /\ open' = open \ S
  /\ UNCHANGED stored

LedgerNext ==
  \/ \E e \in Event : Accept(e)
  \/ \E S \in SUBSET open : Commit(S) \/ CommitUnknown(S) \/ GiveUp(S)

LedgerSpec == LedgerInit /\ [][LedgerNext]_ledgerVars
=============================================================================
