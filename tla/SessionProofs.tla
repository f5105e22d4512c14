--------------------------- MODULE SessionProofs ---------------------------
(***************************************************************************)
(* Proofs about Session for every set of servers, connections and          *)
(* messages and every value of the limits.                                 *)
(***************************************************************************)
EXTENDS Session, TLAPS, FiniteSetTheorems

(* The goroutines are pairwise different, so a step of one changes only    *)
(* its own entry of drop.                                                  *)
LEMMA ProcFacts ==
  /\ \A i \in MsgId : HandlerOf(i) \in Proc /\ HandlerOf(i) # Reaper
  /\ \A c \in Conn : PumpOf(c) \in Proc /\ PumpOf(c) # Reaper
  /\ Reaper \in Proc
  /\ \A i, j \in MsgId : HandlerOf(i) = HandlerOf(j) => i = j
  /\ \A c, d \in Conn : PumpOf(c) = PumpOf(d) => c = d
  /\ \A i \in MsgId, c \in Conn : HandlerOf(i) # PumpOf(c)
  BY DEF Proc, HandlerOf, PumpOf, Reaper

(* What a handler's control state says about its message and its drop. *)
HandlerInv ==
  \A i \in MsgId :
    /\ hp[i] \notin {"idle", "route", "done"} => Route(msg[i]) \in Server
    /\ drop[HandlerOf(i)] # NoConn => hp[i] \in {"dial", "touch", "fail"}

(* Messages not yet read, and a request that waits for a slot, have no     *)
(* handler.                                                                *)
ReaderInv ==
  /\ \A i \in MsgId : i > nread => hp[i] = "idle"
  /\ rd = "sem" => nread \in MsgId /\ hp[nread] = "idle"

(* A connection that was never dialled has no pump and was never returned; *)
(* only a pump that is past dropBackend can hold an unlinked connection.   *)
PumpInv ==
  /\ \A c \in Conn :
       /\ cstate[c] = "fresh" => pump[c] = "none" /\ puts[c] = 0
       /\ cstate[c] # "fresh" => srv[c] \in Server
       /\ drop[PumpOf(c)] # NoConn => pump[c] = "done"
  /\ \A c \in toClose : cstate[c] # "fresh"

(* A live connection: dialled and not yet returned. *)
Live(c) == c \in Conn /\ cstate[c] # "fresh" /\ puts[c] = 0

(* Whatever is held is live, ... *)
HeldLive ==
  /\ \A i \in MsgId : hp[i] = "install" =>
        Live(hc[i]) /\ pump[hc[i]] = "none" /\ srv[hc[i]] = Route(msg[i])
  /\ \A s \in Server : backends[s] # NoConn =>
        Live(backends[s]) /\ srv[backends[s]] = s
  /\ \A p \in Proc : drop[p] # NoConn => Live(drop[p])

(* ... held only once, ... *)
HeldOnce ==
  /\ \A i, j \in MsgId :
        hp[i] = "install" /\ hp[j] = "install" /\ hc[i] = hc[j] => i = j
  /\ \A i \in MsgId, s \in Server : hp[i] = "install" => backends[s] # hc[i]
  /\ \A i \in MsgId, p \in Proc : hp[i] = "install" => drop[p] # hc[i]
  /\ \A p \in Proc, s \in Server : drop[p] # NoConn => backends[s] # drop[p]
  /\ \A p, q \in Proc : drop[p] # NoConn /\ drop[p] = drop[q] => p = q

(* ... and nothing live is lost. *)
LiveHeld ==
  \A c \in Conn :
    /\ puts[c] \in {0, 1}
    /\ Live(c) => \/ \E i \in MsgId : hp[i] = "install" /\ hc[i] = c
                  \/ \E s \in Server : backends[s] = c
                  \/ \E p \in Proc : drop[p] = c

ControlInv == TypeOK /\ HandlerInv /\ ReaderInv /\ PumpInv
HolderInv  == HeldLive /\ HeldOnce /\ LiveHeld
OwnInv     == ControlInv /\ HolderInv

USE SessionAssumption
USE DEF clientVars, msgVars, handlerVars, cacheVars, connVars, pumpVars

(* Everything that decides who holds what, except the cache and drop,      *)
(* stays as it is.                                                         *)
Frame ==
  /\ \A i \in MsgId :
       /\ hp'[i] = "install" => hp[i] = "install"
       /\ hp[i] = "install" =>
            hp'[i] = "install" /\ hc'[i] = hc[i] /\ msg'[i] = msg[i]
  /\ srv' = srv /\ puts' = puts
  /\ \A c \in Conn :
       /\ cstate'[c] = "fresh" => cstate[c] = "fresh"
       /\ cstate[c] = "fresh" => cstate'[c] = "fresh"
       /\ pump[c] = "none" => pump'[c] = "none"

(* Such a step keeps a connection live, or dead, and a dialling handler    *)
(* keeps its connection.                                                   *)
LEMMA FrameFacts ==
  ASSUME Frame, HeldLive
  PROVE  /\ \A c : Live(c) => Live(c)'
         /\ \A c \in Conn : Live(c)' => Live(c)
         /\ \A i \in MsgId : hp'[i] = "install" =>
              /\ hp[i] = "install" /\ hc'[i] = hc[i]
              /\ Live(hc[i])' /\ pump'[hc[i]] = "none"
              /\ srv'[hc[i]] = Route(msg[i])'
  <1>1. \A c : Live(c) => Live(c)' BY DEF Frame, Live
  <1>2. \A c \in Conn : Live(c)' => Live(c) BY DEF Frame, Live
  <1>3. ASSUME NEW i \in MsgId, hp'[i] = "install"
        PROVE  /\ hp[i] = "install" /\ hc'[i] = hc[i]
               /\ Live(hc[i]) /\ pump'[hc[i]] = "none"
               /\ srv'[hc[i]] = Route(msg'[i])
    BY <1>3 DEF Frame, HeldLive, Live
  <1> QED BY <1>1, <1>2, <1>3

(* A step that moves no connection preserves the holders. *)
LEMMA QuietStep ==
  ASSUME HolderInv, Frame, backends' = backends, drop' = drop
  PROVE  HolderInv'
  <1> USE DEF HolderInv
  <1>1. HeldLive' BY FrameFacts DEF HeldLive, Frame
  <1>2. HeldOnce' BY FrameFacts DEF HeldOnce
  <1>3. LiveHeld' BY FrameFacts DEF LiveHeld, Frame
  <1> QED BY <1>1, <1>2, <1>3

(* dropBackend's locked half moves at most one connection, from the cache  *)
(* to a goroutine that holds none.                                         *)
LEMMA TakeStep ==
  ASSUME TypeOK, HolderInv, Frame,
         NEW p \in Proc, NEW s \in Server, drop[p] = NoConn, Take(p, s)
  PROVE  HolderInv'
  <1> USE DEF HolderInv
  <1>1. /\ \A q \in Proc : drop'[q] = IF q = p THEN backends[s] ELSE drop[q]
        /\ \A t \in Server : backends'[t] = IF t = s THEN NoConn ELSE backends[t]
    BY DEF Take, TypeOK
  <1>2. HeldLive' BY <1>1, FrameFacts DEF HeldLive, Frame
  <1>3. HeldOnce' BY <1>1, FrameFacts DEF HeldOnce, HeldLive, Live
  <1>4. LiveHeld'
    <2> SUFFICES ASSUME NEW c \in Conn, Live(c)
                 PROVE  \/ \E i \in MsgId : hp'[i] = "install" /\ hc'[i] = c
                        \/ \E t \in Server : backends'[t] = c
                        \/ \E q \in Proc : drop'[q] = c
      BY FrameFacts DEF LiveHeld, Frame
    <2>1. CASE \E i \in MsgId : hp[i] = "install" /\ hc[i] = c
      BY <2>1 DEF Frame
    <2>2. CASE \E t \in Server : backends[t] = c BY <2>2, <1>1
    <2>3. CASE \E q \in Proc : drop[q] = c BY <2>3, <1>1
    <2> QED BY <2>1, <2>2, <2>3 DEF LiveHeld
  <1> QED BY <1>2, <1>3, <1>4

LEMMA OwnInit == Init => OwnInv
  BY ProcFacts DEF Init, OwnInv, ControlInv, HolderInv, TypeOK, HandlerInv,
     ReaderInv, PumpInv, HeldLive, HeldOnce, LiveHeld, Live, MsgId,
     ReaderStates, HandlerStates

(* handleMessage and getBackend preserve ownership. *)
LEMMA OwnHandler ==
  ASSUME OwnInv, NEW i \in MsgId, HandlerStep(i) PROVE OwnInv'
  <1> USE DEF OwnInv
  <1>1. CASE Reject(i)
    <2>1. ControlInv'
      <3>1. TypeOK' /\ HandlerInv' /\ PumpInv'
        BY <1>1, ProcFacts DEF Reject, Reply, Return, Goto, ControlInv, TypeOK,
           HandlerInv, PumpInv, HandlerStates, ReaderStates
      <3>2. ReaderInv'
        BY <1>1 DEF Reject, Return, Goto, ControlInv, TypeOK, ReaderInv, MsgId
      <3> QED BY <3>1, <3>2 DEF ControlInv
    <2>2. Frame
      BY <1>1 DEF Frame, Reject, Reply, Return, Goto, ControlInv, TypeOK
    <2> QED BY <1>1, <2>1, <2>2, QuietStep DEF Reject
  <1>2. CASE LookupHit(i)
    <2>1. ControlInv'
      <3>1. TypeOK' /\ HandlerInv' /\ PumpInv'
        BY <1>2, ProcFacts DEF LookupHit, Admitted, Goto, ControlInv, TypeOK,
           HandlerInv, PumpInv, HandlerStates, ReaderStates
      <3>2. ReaderInv'
        BY <1>2 DEF LookupHit, Admitted, Goto, ControlInv, TypeOK, ReaderInv,
           MsgId
      <3> QED BY <3>1, <3>2 DEF ControlInv
    <2>2. Frame
      BY <1>2 DEF Frame, LookupHit, Admitted, Goto, ControlInv, TypeOK
    <2> QED BY <1>2, <2>1, <2>2, QuietStep DEF LookupHit
  <1>3. CASE LookupMiss(i)
    <2>1. HandlerOf(i) \in Proc /\ Route(msg[i]) \in Server /\ drop[HandlerOf(i)] = NoConn
      BY <1>3, ProcFacts DEF LookupMiss, Admitted, ControlInv, HandlerInv
    <2>2. ControlInv'
      <3>1. TypeOK' /\ HandlerInv' /\ PumpInv'
        BY <1>3, <2>1, ProcFacts DEF LookupMiss, Take, Admitted, Goto,
           ControlInv, TypeOK, HandlerInv, PumpInv, HandlerStates,
           ReaderStates
      <3>2. ReaderInv'
        BY <1>3 DEF LookupMiss, Admitted, Goto, ControlInv, TypeOK, ReaderInv,
           MsgId
      <3> QED BY <3>1, <3>2 DEF ControlInv
    <2>3. Frame
      BY <1>3 DEF Frame, LookupMiss, Admitted, Goto, ControlInv, TypeOK
    <2> QED BY <1>3, <2>1, <2>2, <2>3, TakeStep DEF LookupMiss, ControlInv
  <1>4. CASE Dial(i)
    <2>1. Route(msg[i]) \in Server
      BY <1>4 DEF Dial, ControlInv, HandlerInv
    <2>2. ControlInv'
      <3>1. TypeOK' /\ HandlerInv' /\ PumpInv'
        BY <1>4, <2>1, ProcFacts DEF Dial, Goto, ControlInv, TypeOK,
           HandlerInv, PumpInv, HandlerStates, ReaderStates
      <3>2. ReaderInv'
        BY <1>4 DEF Dial, Goto, ControlInv, TypeOK, ReaderInv, MsgId
      <3> QED BY <3>1, <3>2 DEF ControlInv
    <2>3. HeldLive'
      BY <1>4, <2>1, ProcFacts DEF Dial, Goto, ControlInv, TypeOK, HolderInv,
         HeldLive, HeldOnce, HandlerInv, PumpInv, Live
    <2>4. HeldOnce'
      BY <1>4, <2>1, ProcFacts DEF Dial, Goto, ControlInv, TypeOK, HolderInv,
         HeldLive, HeldOnce, HandlerInv, PumpInv, Live
    <2>5. LiveHeld'
      BY <1>4, <2>1, ProcFacts DEF Dial, Goto, ControlInv, TypeOK, HolderInv,
         HeldLive, HeldOnce, HandlerInv, PumpInv, Live, LiveHeld
    <2> QED BY <2>2, <2>3, <2>4, <2>5 DEF HolderInv
  <1>5. CASE DialFail(i)
    <2>1. ControlInv'
      <3>1. TypeOK' /\ HandlerInv' /\ PumpInv'
        BY <1>5, ProcFacts DEF DialFail, Reply, Return, Goto, ControlInv, TypeOK,
           HandlerInv, PumpInv, HandlerStates, ReaderStates
      <3>2. ReaderInv'
        BY <1>5 DEF DialFail, Return, Goto, ControlInv, TypeOK, ReaderInv, MsgId
      <3> QED BY <3>1, <3>2 DEF ControlInv
    <2>2. Frame
      BY <1>5 DEF Frame, DialFail, Reply, Return, Goto, ControlInv, TypeOK
    <2> QED BY <1>5, <2>1, <2>2, QuietStep DEF DialFail
  <1>6. CASE Install(i)
    <2>1. Route(msg[i]) \in Server /\ Live(hc[i]) /\ pump[hc[i]] = "none"
      BY <1>6 DEF Install, ControlInv, HandlerInv, HolderInv, HeldLive
    <2>2. ControlInv'
      <3>1. TypeOK' /\ HandlerInv'
        BY <1>6, <2>1, ProcFacts DEF Install, Goto, ControlInv, TypeOK,
           HandlerInv, HandlerStates, Live
      <3>3. PumpInv'
        BY <1>6, <2>1 DEF Install, ControlInv, TypeOK, PumpInv, Live
      <3>2. ReaderInv'
        BY <1>6 DEF Install, Goto, ControlInv, TypeOK, ReaderInv, MsgId
      <3> QED BY <3>1, <3>2, <3>3 DEF ControlInv
    <2>3. HeldLive'
      BY <1>6, <2>1, ProcFacts DEF Install, Goto, ControlInv, TypeOK,
         HolderInv, HeldLive, HeldOnce, HandlerInv, PumpInv, Live
    <2>4. HeldOnce'
      BY <1>6, <2>1, ProcFacts DEF Install, Goto, ControlInv, TypeOK,
         HolderInv, HeldLive, HeldOnce, HandlerInv, PumpInv, Live
    <2>5. LiveHeld'
      <3> USE <1>6 DEF Install, Goto, ControlInv, TypeOK
      <3> SUFFICES ASSUME NEW c \in Conn, Live(c)
                   PROVE  \/ \E j \in MsgId : hp'[j] = "install" /\ hc'[j] = c
                          \/ \E t \in Server : backends'[t] = c
                          \/ \E q \in Proc : drop'[q] = c
        BY DEF HolderInv, LiveHeld, Live
      <3>1. CASE hc[i] = c BY <3>1, ProcFacts DEF HandlerInv
      <3>2. CASE \E j \in MsgId : j # i /\ hp[j] = "install" /\ hc[j] = c
        BY <3>2
      <3>3. CASE \E t \in Server : backends[t] = c BY <3>3, ProcFacts
      <3>4. CASE \E q \in Proc : drop[q] = c
        <4>1. PICK q \in Proc : drop[q] = c
          BY <3>4
        <4> QED BY <4>1, ProcFacts DEF HandlerInv
      <3> QED BY <3>1, <3>2, <3>3, <3>4 DEF HolderInv, LiveHeld
    <2> QED BY <2>2, <2>3, <2>4, <2>5 DEF HolderInv
  <1>7. CASE InstallLost(i)
    <2>1. Route(msg[i]) \in Server /\ Live(hc[i])
      BY <1>7 DEF InstallLost, ControlInv, HandlerInv, HolderInv, HeldLive
    <2>2. ControlInv'
      <3>1. TypeOK' /\ HandlerInv' /\ PumpInv'
        BY <1>7, <2>1, ProcFacts DEF InstallLost, Goto, ControlInv, TypeOK,
           HandlerInv, PumpInv, HandlerStates, ReaderStates, Live
      <3>2. ReaderInv'
        BY <1>7 DEF InstallLost, Goto, ControlInv, TypeOK, ReaderInv, MsgId
      <3> QED BY <3>1, <3>2 DEF ControlInv
    <2>3. HeldLive'
      BY <1>7, <2>1, ProcFacts DEF InstallLost, Goto, ControlInv, TypeOK,
         HolderInv, HeldLive, HeldOnce, HandlerInv, PumpInv, Live
    <2>4. HeldOnce'
      BY <1>7, <2>1, ProcFacts DEF InstallLost, Goto, ControlInv, TypeOK,
         HolderInv, HeldLive, HeldOnce, HandlerInv, PumpInv, Live
    <2>5. LiveHeld'
      <3> USE <1>7 DEF InstallLost, Goto, ControlInv, TypeOK
      <3> SUFFICES ASSUME NEW c \in Conn, Live(c)
                   PROVE  \/ \E j \in MsgId : hp'[j] = "install" /\ hc'[j] = c
                          \/ \E t \in Server : backends'[t] = c
                          \/ \E q \in Proc : drop'[q] = c
        BY DEF HolderInv, LiveHeld, Live
      <3>1. CASE hc[i] = c BY <3>1, ProcFacts DEF HandlerInv
      <3>2. CASE \E j \in MsgId : j # i /\ hp[j] = "install" /\ hc[j] = c
        BY <3>2
      <3>3. CASE \E t \in Server : backends[t] = c BY <3>3, ProcFacts
      <3>4. CASE \E q \in Proc : drop[q] = c
        <4>1. PICK q \in Proc : drop[q] = c
          BY <3>4
        <4>2. drop[HandlerOf(i)] = NoConn /\ c # NoConn
          BY DEF HandlerInv
        <4>3. drop' = [drop EXCEPT ![HandlerOf(i)] = hc[i]] /\ q # HandlerOf(i)
          BY <4>1, <4>2
        <4>4. drop'[q] = c
          BY <4>1, <4>3
        <4> QED BY <4>4
      <3> QED BY <3>1, <3>2, <3>3, <3>4 DEF HolderInv, LiveHeld
    <2> QED BY <2>2, <2>3, <2>4, <2>5 DEF HolderInv
  <1>8. CASE Touch(i)
    <2>1. ControlInv'
      <3>1. TypeOK' /\ HandlerInv' /\ PumpInv'
        BY <1>8, ProcFacts DEF Touch, Goto, ControlInv, TypeOK, HandlerInv,
           PumpInv, HandlerStates, ReaderStates
      <3>2. ReaderInv'
        BY <1>8 DEF Touch, Goto, ControlInv, TypeOK, ReaderInv, MsgId
      <3> QED BY <3>1, <3>2 DEF ControlInv
    <2>2. Frame
      BY <1>8 DEF Frame, Touch, Goto, ControlInv, TypeOK
    <2> QED BY <1>8, <2>1, <2>2, QuietStep DEF Touch
  <1>9. CASE WriteOk(i)
    <2>1. ControlInv'
      <3>1. TypeOK'
        BY <1>9, ProcFacts DEF ControlInv, WriteOk, Goto, TypeOK,
           HandlerStates, ReaderStates, MsgId
      <3>2. HandlerInv'
        BY <1>9, ProcFacts DEF ControlInv, WriteOk, Goto, TypeOK, HandlerInv,
           ReaderInv
      <3>3. ReaderInv'
        BY <1>9, ProcFacts DEF ControlInv, WriteOk, Goto, TypeOK, ReaderInv,
           MsgId
      <3>4. PumpInv'
        BY <1>9, ProcFacts DEF ControlInv, WriteOk, Goto, TypeOK, PumpInv
      <3> QED BY <3>1, <3>2, <3>3, <3>4 DEF ControlInv
    <2>2. Frame
      BY <1>9 DEF Frame, WriteOk, Goto, ControlInv, TypeOK
    <2> QED BY <1>9, <2>1, <2>2, QuietStep DEF WriteOk
  <1>10. CASE Account(i)
    <2>1. ControlInv'
      <3>1. TypeOK' /\ HandlerInv' /\ PumpInv'
        BY <1>10, ProcFacts DEF Account, Return, Goto, ControlInv, TypeOK,
           HandlerInv, PumpInv, HandlerStates, ReaderStates
      <3>2. ReaderInv'
        BY <1>10 DEF Account, Return, Goto, ControlInv, TypeOK, ReaderInv, MsgId
      <3> QED BY <3>1, <3>2 DEF ControlInv
    <2>2. Frame
      BY <1>10 DEF Frame, Account, Return, Goto, ControlInv, TypeOK
    <2> QED BY <1>10, <2>1, <2>2, QuietStep DEF Account
  <1>11. CASE WriteFail(i)
    <2>1. ControlInv'
      <3>1. TypeOK' /\ HandlerInv' /\ PumpInv'
        BY <1>11, ProcFacts DEF WriteFail, Goto, ControlInv, TypeOK,
           HandlerInv, PumpInv, HandlerStates, ReaderStates
      <3>2. ReaderInv'
        BY <1>11 DEF WriteFail, Goto, ControlInv, TypeOK, ReaderInv, MsgId
      <3> QED BY <3>1, <3>2 DEF ControlInv
    <2>2. Frame
      BY <1>11 DEF Frame, WriteFail, Goto, ControlInv, TypeOK
    <2> QED BY <1>11, <2>1, <2>2, QuietStep DEF WriteFail
  <1>12. CASE HandlerDrop(i)
    <2>1. HandlerOf(i) \in Proc /\ Route(msg[i]) \in Server /\ drop[HandlerOf(i)] = NoConn
      BY <1>12, ProcFacts DEF HandlerDrop, ControlInv, HandlerInv
    <2>2. ControlInv'
      <3>1. TypeOK' /\ HandlerInv' /\ PumpInv'
        BY <1>12, <2>1, ProcFacts DEF HandlerDrop, Take, Goto, ControlInv,
           TypeOK, HandlerInv, PumpInv, HandlerStates, ReaderStates
      <3>2. ReaderInv'
        BY <1>12 DEF HandlerDrop, Goto, ControlInv, TypeOK, ReaderInv, MsgId
      <3> QED BY <3>1, <3>2 DEF ControlInv
    <2>3. Frame
      BY <1>12 DEF Frame, HandlerDrop, Goto, ControlInv, TypeOK
    <2> QED BY <1>12, <2>1, <2>2, <2>3, TakeStep DEF HandlerDrop, ControlInv
  <1>13. CASE Fail(i)
    <2>1. ControlInv'
      <3>1. TypeOK' /\ HandlerInv' /\ PumpInv'
        BY <1>13, ProcFacts DEF Fail, Reply, Return, Goto, ControlInv, TypeOK,
           HandlerInv, PumpInv, HandlerStates, ReaderStates
      <3>2. ReaderInv'
        BY <1>13 DEF Fail, Return, Goto, ControlInv, TypeOK, ReaderInv, MsgId
      <3> QED BY <3>1, <3>2 DEF ControlInv
    <2>2. Frame
      BY <1>13 DEF Frame, Fail, Reply, Return, Goto, ControlInv, TypeOK
    <2> QED BY <1>13, <2>1, <2>2, QuietStep DEF Fail
  <1> QED
    BY <1>1, <1>2, <1>3, <1>4, <1>5, <1>6, <1>7, <1>8, <1>9, <1>10, <1>11,
       <1>12, <1>13 DEF HandlerStep

(* Run, Close and the deferred calls preserve ownership. *)
LEMMA OwnReader == ASSUME OwnInv, ReaderStep PROVE OwnInv'
  <1> USE DEF OwnInv
  <1>1. ASSUME NEW m \in Message, ReadInvalid(m) PROVE OwnInv'
    <2>1. ControlInv'
      BY <1>1, ProcFacts DEF ReadInvalid, Read, Reply, Goto, ControlInv,
         TypeOK, HandlerInv, ReaderInv, PumpInv, HandlerStates, ReaderStates,
         MsgId
    <2>2. Frame
      BY <1>1 DEF Frame, ReadInvalid, Read, Reply, Goto, ControlInv, TypeOK,
         ReaderInv, MsgId
    <2> QED BY <1>1, <2>1, <2>2, QuietStep DEF ReadInvalid
  <1>2. ASSUME NEW m \in Message, ReadNotification(m) PROVE OwnInv'
    <2>1. ControlInv'
      BY <1>2, ProcFacts DEF ReadNotification, Read, Goto, ControlInv, TypeOK,
         HandlerInv, ReaderInv, PumpInv, HandlerStates, ReaderStates, MsgId
    <2>2. Frame
      BY <1>2 DEF Frame, ReadNotification, Read, Goto, ControlInv, TypeOK,
         ReaderInv, MsgId
    <2> QED BY <1>2, <2>1, <2>2, QuietStep DEF ReadNotification
  <1>3. ASSUME NEW m \in Message, ReadRequest(m) PROVE OwnInv'
    <2>1. ControlInv'
      BY <1>3, ProcFacts DEF ReadRequest, Read, ControlInv, TypeOK,
         HandlerInv, ReaderInv, PumpInv, HandlerStates, ReaderStates, MsgId
    <2>2. Frame
      BY <1>3 DEF Frame, ReadRequest, Read, ControlInv, TypeOK, ReaderInv,
         MsgId
    <2> QED BY <1>3, <2>1, <2>2, QuietStep DEF ReadRequest
  <1>4. CASE NotificationHandled
    <2>1. ControlInv'
      <3>1. TypeOK' /\ HandlerInv' /\ PumpInv'
        BY <1>4, ProcFacts DEF NotificationHandled, ControlInv, TypeOK,
           HandlerInv, PumpInv, HandlerStates, ReaderStates
      <3>2. ReaderInv'
        BY <1>4 DEF NotificationHandled, ControlInv, TypeOK, ReaderInv, MsgId
      <3> QED BY <3>1, <3>2 DEF ControlInv
    <2>2. Frame
      BY <1>4 DEF Frame, NotificationHandled, ControlInv, TypeOK
    <2> QED BY <1>4, <2>1, <2>2, QuietStep DEF NotificationHandled
  <1>5. CASE Spawn
    <2>1. ControlInv'
      <3>1. TypeOK'
        BY <1>5, ProcFacts DEF ControlInv, Spawn, Goto, TypeOK, HandlerStates,
           ReaderStates, MsgId
      <3>2. HandlerInv'
        BY <1>5, ProcFacts DEF ControlInv, Spawn, Goto, TypeOK, HandlerInv,
           ReaderInv
      <3>3. ReaderInv'
        BY <1>5, ProcFacts DEF ControlInv, Spawn, Goto, TypeOK, ReaderInv,
           MsgId
      <3>4. PumpInv'
        BY <1>5, ProcFacts DEF ControlInv, Spawn, Goto, TypeOK, PumpInv
      <3> QED BY <3>1, <3>2, <3>3, <3>4 DEF ControlInv
    <2>2. Frame
      BY <1>5 DEF Frame, Spawn, Goto, ControlInv, TypeOK, ReaderInv, MsgId
    <2> QED BY <1>5, <2>1, <2>2, QuietStep DEF Spawn
  <1>6. CASE ReadError
    <2>1. ControlInv'
      <3>1. TypeOK' /\ HandlerInv' /\ PumpInv'
        BY <1>6, ProcFacts DEF ReadError, ControlInv, TypeOK, HandlerInv,
           PumpInv, HandlerStates, ReaderStates
      <3>2. ReaderInv'
        BY <1>6 DEF ReadError, ControlInv, TypeOK, ReaderInv, MsgId
      <3> QED BY <3>1, <3>2 DEF ControlInv
    <2>2. Frame
      BY <1>6 DEF Frame, ReadError, ControlInv, TypeOK
    <2> QED BY <1>6, <2>1, <2>2, QuietStep DEF ReadError
  <1>7. CASE CloseSnapshot
    <2>1. ControlInv'
      <3>1. TypeOK' /\ HandlerInv' /\ PumpInv'
        BY <1>7, ProcFacts DEF CloseSnapshot, Cached, ControlInv, TypeOK,
           HandlerInv, PumpInv, HandlerStates, ReaderStates, HolderInv,
           HeldLive, Live
      <3>2. ReaderInv'
        BY <1>7 DEF CloseSnapshot, ControlInv, TypeOK, ReaderInv, MsgId
      <3> QED BY <3>1, <3>2 DEF ControlInv
    <2>2. Frame
      BY <1>7 DEF Frame, CloseSnapshot, Cached, ControlInv, TypeOK
    <2> QED BY <1>7, <2>1, <2>2, QuietStep DEF CloseSnapshot
  <1>8. ASSUME NEW c \in Conn, CloseBackend(c) PROVE OwnInv'
    <2>1. ControlInv'
      <3>1. TypeOK' /\ HandlerInv' /\ PumpInv'
        BY <1>8, ProcFacts DEF CloseBackend, ControlInv, TypeOK, HandlerInv,
           PumpInv, HandlerStates, ReaderStates
      <3>2. ReaderInv'
        BY <1>8 DEF CloseBackend, ControlInv, TypeOK, ReaderInv, MsgId
      <3> QED BY <3>1, <3>2 DEF ControlInv
    <2>2. Frame
      BY <1>8 DEF Frame, CloseBackend, ControlInv, TypeOK, PumpInv
    <2> QED BY <1>8, <2>1, <2>2, QuietStep DEF CloseBackend
  <1>9. CASE ClosePool
    <2>1. ControlInv'
      <3>1. TypeOK' /\ HandlerInv' /\ PumpInv'
        BY <1>9, ProcFacts DEF ClosePool, ControlInv, TypeOK, HandlerInv,
           PumpInv, HandlerStates, ReaderStates
      <3>2. ReaderInv'
        BY <1>9 DEF ClosePool, ControlInv, TypeOK, ReaderInv, MsgId
      <3> QED BY <3>1, <3>2 DEF ControlInv
    <2>2. Frame
      BY <1>9 DEF Frame, ClosePool, ControlInv, TypeOK
    <2> QED BY <1>9, <2>1, <2>2, QuietStep DEF ClosePool
  <1>10. CASE CloseClient
    <2>1. ControlInv'
      <3>1. TypeOK' /\ HandlerInv' /\ PumpInv'
        BY <1>10, ProcFacts DEF CloseClient, ControlInv, TypeOK, HandlerInv,
           PumpInv, HandlerStates, ReaderStates
      <3>2. ReaderInv'
        BY <1>10 DEF CloseClient, ControlInv, TypeOK, ReaderInv, MsgId
      <3> QED BY <3>1, <3>2 DEF ControlInv
    <2>2. Frame
      BY <1>10 DEF Frame, CloseClient, ControlInv, TypeOK
    <2> QED BY <1>10, <2>1, <2>2, QuietStep DEF CloseClient
  <1>11. CASE WaitHandlers
    <2>1. ControlInv'
      <3>1. TypeOK' /\ HandlerInv' /\ PumpInv'
        BY <1>11, ProcFacts DEF WaitHandlers, ControlInv, TypeOK, HandlerInv,
           PumpInv, HandlerStates, ReaderStates
      <3>2. ReaderInv'
        BY <1>11 DEF WaitHandlers, ControlInv, TypeOK, ReaderInv, MsgId
      <3> QED BY <3>1, <3>2 DEF ControlInv
    <2>2. Frame
      BY <1>11 DEF Frame, WaitHandlers, ControlInv, TypeOK
    <2> QED BY <1>11, <2>1, <2>2, QuietStep DEF WaitHandlers
  <1>12. CASE Finish
    <2>1. ControlInv'
      <3>1. TypeOK' /\ HandlerInv' /\ PumpInv'
        BY <1>12, ProcFacts DEF Finish, ControlInv, TypeOK, HandlerInv,
           PumpInv, HandlerStates, ReaderStates
      <3>2. ReaderInv'
        BY <1>12 DEF Finish, ControlInv, TypeOK, ReaderInv, MsgId
      <3> QED BY <3>1, <3>2 DEF ControlInv
    <2>2. Frame
      BY <1>12 DEF Frame, Finish, ControlInv, TypeOK
    <2> QED BY <1>12, <2>1, <2>2, QuietStep DEF Finish
  <1> QED
    BY <1>1, <1>2, <1>3, <1>4, <1>5, <1>6, <1>7, <1>8, <1>9, <1>10, <1>11,
       <1>12 DEF ReaderStep

(* The pumps preserve ownership. *)
LEMMA OwnPump == ASSUME OwnInv, NEW c \in Conn, PumpStep(c) PROVE OwnInv'
  <1> USE DEF OwnInv
  <1>1. CASE PumpRelay(c)
    <2>1. ControlInv'
      <3>1. TypeOK' /\ HandlerInv' /\ PumpInv'
        BY <1>1, ProcFacts DEF PumpRelay, ControlInv, TypeOK, HandlerInv,
           PumpInv, HandlerStates, ReaderStates
      <3>2. ReaderInv'
        BY <1>1 DEF PumpRelay, ControlInv, TypeOK, ReaderInv, MsgId
      <3> QED BY <3>1, <3>2 DEF ControlInv
    <2>2. Frame
      BY <1>1 DEF Frame, PumpRelay, ControlInv, TypeOK
    <2> QED BY <1>1, <2>1, <2>2, QuietStep DEF PumpRelay
  <1>2. CASE PumpClientFail(c)
    <2>1. ControlInv'
      <3>1. TypeOK' /\ HandlerInv' /\ PumpInv'
        BY <1>2, ProcFacts DEF PumpClientFail, ControlInv, TypeOK, HandlerInv,
           PumpInv, HandlerStates, ReaderStates
      <3>2. ReaderInv'
        BY <1>2 DEF PumpClientFail, ControlInv, TypeOK, ReaderInv, MsgId
      <3> QED BY <3>1, <3>2 DEF ControlInv
    <2>2. Frame
      BY <1>2 DEF Frame, PumpClientFail, ControlInv, TypeOK
    <2> QED BY <1>2, <2>1, <2>2, QuietStep DEF PumpClientFail
  <1>3. CASE PumpReadFail(c)
    <2>1. ControlInv'
      <3>1. TypeOK' /\ HandlerInv' /\ PumpInv'
        BY <1>3, ProcFacts DEF PumpReadFail, ControlInv, TypeOK, HandlerInv,
           PumpInv, HandlerStates, ReaderStates
      <3>2. ReaderInv'
        BY <1>3 DEF PumpReadFail, ControlInv, TypeOK, ReaderInv, MsgId
      <3> QED BY <3>1, <3>2 DEF ControlInv
    <2>2. Frame
      BY <1>3 DEF Frame, PumpReadFail, ControlInv, TypeOK
    <2> QED BY <1>3, <2>1, <2>2, QuietStep DEF PumpReadFail
  <1>4. CASE PumpDrop(c)
    <2>1. PumpOf(c) \in Proc /\ srv[c] \in Server /\ drop[PumpOf(c)] = NoConn
      BY <1>4, ProcFacts DEF PumpDrop, ControlInv, TypeOK, PumpInv
    <2>2. ControlInv'
      <3>1. TypeOK' /\ HandlerInv' /\ PumpInv'
        BY <1>4, <2>1, ProcFacts DEF PumpDrop, Take, ControlInv, TypeOK,
           HandlerInv, PumpInv, HandlerStates, ReaderStates
      <3>2. ReaderInv'
        BY <1>4 DEF PumpDrop, ControlInv, TypeOK, ReaderInv, MsgId
      <3> QED BY <3>1, <3>2 DEF ControlInv
    <2>3. Frame
      BY <1>4 DEF Frame, PumpDrop, ControlInv, TypeOK
    <2> QED BY <1>4, <2>1, <2>2, <2>3, TakeStep DEF PumpDrop, ControlInv
  <1>5. CASE PumpCtxDone(c)
    <2>1. ControlInv'
      <3>1. TypeOK' /\ HandlerInv' /\ PumpInv'
        BY <1>5, ProcFacts DEF PumpCtxDone, CtxDone, ControlInv, TypeOK,
           HandlerInv, PumpInv, HandlerStates, ReaderStates
      <3>2. ReaderInv'
        BY <1>5 DEF PumpCtxDone, ControlInv, TypeOK, ReaderInv, MsgId
      <3> QED BY <3>1, <3>2 DEF ControlInv
    <2>2. Frame
      BY <1>5 DEF Frame, PumpCtxDone, CtxDone, ControlInv, TypeOK
    <2> QED BY <1>5, <2>1, <2>2, QuietStep DEF PumpCtxDone
  <1> QED BY <1>1, <1>2, <1>3, <1>4, <1>5 DEF PumpStep

(* The reaper preserves ownership. *)
LEMMA OwnReaper == ASSUME OwnInv, ReaperStep PROVE OwnInv'
  <1> USE DEF OwnInv
  <1>1. CASE ReapScan
    <2>1. ControlInv'
      <3>1. TypeOK' /\ HandlerInv' /\ PumpInv'
        BY <1>1, ProcFacts DEF ReapScan, ControlInv, TypeOK, HandlerInv,
           PumpInv, HandlerStates, ReaderStates
      <3>2. ReaderInv'
        BY <1>1 DEF ReapScan, ControlInv, TypeOK, ReaderInv, MsgId
      <3> QED BY <3>1, <3>2 DEF ControlInv
    <2>2. Frame
      BY <1>1 DEF Frame, ReapScan, ControlInv, TypeOK
    <2> QED BY <1>1, <2>1, <2>2, QuietStep DEF ReapScan
  <1>2. ASSUME NEW s \in Server, ReapDrop(s) PROVE OwnInv'
    <2>1. Reaper \in Proc /\ s \in Server /\ drop[Reaper] = NoConn
      BY <1>2, ProcFacts DEF ReapDrop
    <2>2. ControlInv'
      <3>1. TypeOK' /\ HandlerInv' /\ PumpInv'
        BY <1>2, <2>1, ProcFacts DEF ReapDrop, Take, ControlInv, TypeOK,
           HandlerInv, PumpInv, HandlerStates, ReaderStates
      <3>2. ReaderInv'
        BY <1>2 DEF ReapDrop, ControlInv, TypeOK, ReaderInv, MsgId
      <3> QED BY <3>1, <3>2 DEF ControlInv
    <2>3. Frame
      BY <1>2 DEF Frame, ReapDrop, ControlInv, TypeOK
    <2> QED BY <1>2, <2>1, <2>2, <2>3, TakeStep DEF ReapDrop, ControlInv
  <1> QED BY <1>1, <1>2 DEF ReaperStep

(* Returning a connection to the pool preserves ownership: its only holder *)
(* gives it up.                                                            *)
LEMMA OwnDispose == ASSUME OwnInv, NEW p \in Proc, Dispose(p) PROVE OwnInv'
  <1> USE DEF OwnInv
  <1>1. Live(drop[p])
    BY DEF Dispose, HolderInv, HeldLive
  <1>2. ControlInv'
    <2>1. TypeOK' /\ HandlerInv' /\ PumpInv'
      BY <1>1, ProcFacts DEF Dispose, ControlInv, TypeOK, HandlerInv,
         PumpInv, HandlerStates, ReaderStates, Live
    <2>2. ReaderInv'
      BY DEF Dispose, ControlInv, TypeOK, ReaderInv, MsgId
    <2> QED BY <2>1, <2>2 DEF ControlInv
  <1>3. HeldLive'
    BY <1>1, ProcFacts DEF Dispose, ControlInv, TypeOK, HolderInv,
       HeldLive, HeldOnce, HandlerInv, PumpInv, Live
  <1>4. HeldOnce'
    BY <1>1, ProcFacts DEF Dispose, ControlInv, TypeOK, HolderInv,
       HeldLive, HeldOnce, HandlerInv, PumpInv, Live
  <1>5. LiveHeld'
    BY <1>1, ProcFacts DEF Dispose, ControlInv, TypeOK, HolderInv,
       HeldLive, HeldOnce, HandlerInv, PumpInv, Live, LiveHeld
  <1> QED BY <1>2, <1>3, <1>4, <1>5 DEF HolderInv

(* What the client, the backends, the pool and time do preserves it. *)
LEMMA OwnEnv == ASSUME OwnInv, EnvStep PROVE OwnInv'
  <1> USE DEF OwnInv
  <1>1. CASE ClientGone
    <2>1. ControlInv'
      <3>1. TypeOK' /\ HandlerInv' /\ PumpInv'
        BY <1>1, ProcFacts DEF ClientGone, ControlInv, TypeOK, HandlerInv,
           PumpInv, HandlerStates, ReaderStates
      <3>2. ReaderInv'
        BY <1>1 DEF ClientGone, ControlInv, TypeOK, ReaderInv, MsgId
      <3> QED BY <3>1, <3>2 DEF ControlInv
    <2>2. Frame
      BY <1>1 DEF Frame, ClientGone, ControlInv, TypeOK
    <2> QED BY <1>1, <2>1, <2>2, QuietStep DEF ClientGone
  <1>2. ASSUME NEW c \in Conn, BackendLost(c) PROVE OwnInv'
    <2>1. ControlInv'
      <3>1. TypeOK' /\ HandlerInv' /\ PumpInv'
        BY <1>2, ProcFacts DEF BackendLost, ControlInv, TypeOK, HandlerInv,
           PumpInv, HandlerStates, ReaderStates
      <3>2. ReaderInv'
        BY <1>2 DEF BackendLost, ControlInv, TypeOK, ReaderInv, MsgId
      <3> QED BY <3>1, <3>2 DEF ControlInv
    <2>2. Frame
      BY <1>2 DEF Frame, BackendLost, ControlInv, TypeOK
    <2> QED BY <1>2, <2>1, <2>2, QuietStep DEF BackendLost
  <1>3. ASSUME NEW c \in Conn, GoIdle(c) PROVE OwnInv'
    <2>1. ControlInv'
      <3>1. TypeOK' /\ HandlerInv' /\ PumpInv'
        BY <1>3, ProcFacts DEF GoIdle, ControlInv, TypeOK, HandlerInv,
           PumpInv, HandlerStates, ReaderStates
      <3>2. ReaderInv'
        BY <1>3 DEF GoIdle, ControlInv, TypeOK, ReaderInv, MsgId
      <3> QED BY <3>1, <3>2 DEF ControlInv
    <2>2. Frame
      BY <1>3 DEF Frame, GoIdle, ControlInv, TypeOK
    <2> QED BY <1>3, <2>1, <2>2, QuietStep DEF GoIdle
  <1>4. ASSUME NEW c \in Conn, PoolInvalidate(c) PROVE OwnInv'
    <2>1. ControlInv'
      <3>1. TypeOK' /\ HandlerInv' /\ PumpInv'
        BY <1>4, ProcFacts DEF PoolInvalidate, ControlInv, TypeOK, HandlerInv,
           PumpInv, HandlerStates, ReaderStates
      <3>2. ReaderInv'
        BY <1>4 DEF PoolInvalidate, ControlInv, TypeOK, ReaderInv, MsgId
      <3> QED BY <3>1, <3>2 DEF ControlInv
    <2>2. Frame
      BY <1>4 DEF Frame, PoolInvalidate, ControlInv, TypeOK
    <2> QED BY <1>4, <2>1, <2>2, QuietStep DEF PoolInvalidate
  <1> QED BY <1>1, <1>2, <1>3, <1>4 DEF EnvStep

LEMMA OwnNext == OwnInv /\ [Next]_vars => OwnInv'
  <1> SUFFICES ASSUME OwnInv, [Next]_vars PROVE OwnInv'
    OBVIOUS
  <1>1. CASE UNCHANGED vars
    <2>1. ControlInv'
      BY <1>1 DEF OwnInv, vars, ControlInv, TypeOK, HandlerInv, ReaderInv,
         PumpInv
    <2>2. Frame BY <1>1 DEF vars, Frame
    <2> QED BY <1>1, <2>1, <2>2, QuietStep DEF OwnInv, vars
  <1> QED BY <1>1, OwnHandler, OwnReader, OwnPump, OwnReaper, OwnDispose,
             OwnEnv DEF Next, Terminated

(* The holders of a connection, read off the invariant. *)
LEMMA OwnInvOwnership == OwnInv => Ownership
  <1> SUFFICES ASSUME OwnInv, NEW c \in Conn
               PROVE  \/ cstate[c] = "fresh" /\ puts[c] = 0 /\ Holders(c) = {}
                      \/ /\ cstate[c] # "fresh" /\ puts[c] = 0
                         /\ \E h \in Holders(c) : Holders(c) = {h}
                      \/ cstate[c] # "fresh" /\ puts[c] = 1 /\ Holders(c) = {}
    BY DEF Ownership
  <1> USE DEF OwnInv, ControlInv, HolderInv
  <1>1. ASSUME ~Live(c) PROVE Holders(c) = {}
    BY <1>1 DEF Holders, HeldLive
  <1>2. ASSUME Live(c) PROVE \E h \in Holders(c) : Holders(c) = {h}
    <2>1. CASE \E i \in MsgId : hp[i] = "install" /\ hc[i] = c
      <3>1. PICK i \in MsgId : hp[i] = "install" /\ hc[i] = c BY <2>1
      <3>2. Holders(c) = {<<"dialler", i>>}
        BY <3>1 DEF Holders, HeldOnce
      <3> QED BY <3>2
    <2>2. CASE \E s \in Server : backends[s] = c
      <3>1. PICK s \in Server : backends[s] = c BY <2>2
      <3>2. Holders(c) = {<<"cache", s>>}
        BY <3>1 DEF Holders, HeldOnce, HeldLive
      <3> QED BY <3>2
    <2>3. CASE \E p \in Proc : drop[p] = c
      <3>1. PICK p \in Proc : drop[p] = c BY <2>3
      <3>2. Holders(c) = {p}
        BY <3>1 DEF Holders, HeldOnce
      <3> QED BY <3>2
    <2> QED BY <1>2, <2>1, <2>2, <2>3 DEF LiveHeld
  <1> QED BY <1>1, <1>2 DEF LiveHeld, PumpInv, Live

(* Every variable keeps its type, whatever the goroutines do. *)
THEOREM TypeCorrect == Spec => []TypeOK
  <1>1. OwnInv => TypeOK BY DEF OwnInv, ControlInv
  <1> QED BY OwnInit, OwnNext, <1>1, PTL DEF Spec

(* Every connection the session dials has exactly one holder until it is   *)
(* returned to the pool, and is returned at most once.                     *)
THEOREM OwnershipHolds == Spec => []Ownership
  BY OwnInit, OwnNext, OwnInvOwnership, PTL DEF Spec
-----------------------------------------------------------------------------
(* What else is proved of the session rests on OwnInv and on the following *)
(* invariants about pumps, requests in flight, the reader and Close.       *)

(* A connection that is cached, that a handler is about to write to or     *)
(* that carries requests has got a pump, and the pump of a connection that *)
(* works stops only when the client is no longer there.                    *)
PumpedInv ==
  /\ \A c \in Conn :
       /\ pump[c] \in {"drop", "done"} /\ cstate[c] = "up" => client # "up"
       /\ inflight[c] # {} => pump[c] # "none"
  /\ \A s \in Server : backends[s] # NoConn => pump[backends[s]] # "none"
  /\ \A i \in MsgId : hp[i] \in {"touch", "write"} =>
       /\ hc[i] \in Conn /\ pump[hc[i]] # "none"
       /\ cstate[hc[i]] # "fresh" /\ srv[hc[i]] = Route(msg[i])
  /\ rd \in {"wait", "untrack", "done"} => client = "closed"

(* A request is in flight on one connection, the one of its server, and    *)
(* has no answer; nothing is answered before its handler has written or    *)
(* given up.                                                               *)
FlightInv ==
  /\ \A i \in sent : i <= nread /\ hp[i] \in {"account", "done"}
  /\ \A c \in Conn : \A i \in inflight[c] :
       i \in sent /\ Route(msg[i]) = srv[c] /\ replies[i] = 0
  /\ \A c, d \in Conn : \A i \in inflight[c] : i \in inflight[d] => c = d
  /\ \A i \in MsgId : /\ replies[i] \in {0, 1}
                      /\ hp[i] \notin {"account", "done"} => replies[i] = 0

(* Whose handler runs: requests, and the notification that the reader is   *)
(* busy with.  Whatever was read has a handler, except the request that    *)
(* waits for a slot.  Nothing runs once the session is untracked.          *)
KindInv ==
  /\ \A i \in MsgId : i <= nread /\ hp[i] = "idle" => rd = "sem" /\ i = nread
  /\ \A i \in MsgId : hp[i] \notin {"idle", "done"} =>
       /\ msg[i] \in Message
       /\ msg[i].kind = "request" \/ (rd = "notify" /\ i = nread)
  /\ rd = "sem" => msg[nread] \in Message /\ msg[nread].kind = "request"
  /\ rd \in {"untrack", "done"} => \A i \in MsgId : hp[i] \in {"idle", "done"}

(* A handler has a connection from the dial or the lookup on, has written  *)
(* when it accounts, and leaves its event when it is done.                 *)
Tracked(i) ==
  /\ hp[i] \in {"idle", "route", "dial"} => hc[i] = NoConn
  /\ hp[i] \notin {"idle", "route", "dial", "done"} => hc[i] # NoConn
  /\ hp[i] = "account" => i \in sent
  /\ usage[i] = IF hp[i] = "done" THEN Outcome(i) ELSE "none"

TrackInv == \A i \in MsgId : Tracked(i)

(* From the write on, a request without an answer is in flight, unless its *)
(* connection has failed or was closed.                                    *)
Waits(i) ==
  /\ i \in sent /\ hc[i] \in Conn
  /\ i \in inflight[hc[i]] \/ cstate[hc[i]] \notin {"fresh", "up"}

ForgotInv ==
  \A i \in MsgId :
    /\ client = "up" /\ hp[i] \in {"account", "done"}
    /\ msg[i].kind = "request" /\ replies[i] = 0
    => Waits(i)

(* Only Close closes what has not been returned, and from its snapshot on  *)
(* a cached connection is in it, closed, or late.                          *)
CloseInv ==
  /\ rd \in {"read", "sem", "notify", "snapshot"} =>
       \A c \in Conn : cstate[c] = "closed" => puts[c] # 0
  /\ \A c \in Conn : puts[c] # 0 => cstate[c] = "closed"
  /\ rd = "closing" => \A s \in Server : backends[s] # NoConn =>
       backends[s] \in late \cup toClose \/ cstate[backends[s]] = "closed"
  /\ PoolClosed => \A s \in Server : backends[s] # NoConn =>
       backends[s] \in late \/ cstate[backends[s]] = "closed"


(* Close and the connections: only Close itself closes a connection that   *)
(* is still held, and what it does not see is late.                        *)
LEMMA CloseNext ==
  ASSUME OwnInv, CloseInv, [Next]_vars PROVE CloseInv'
  <1> USE DEF CloseInv, PoolClosed, OwnInv, ControlInv, TypeOK
  <1>1. ASSUME UNCHANGED <<toClose, late, puts, cstate>>,
               \/ rd' = rd
               \/ /\ rd \in {"read", "sem", "notify"}
                  /\ rd' \in {"read", "sem", "notify", "snapshot"}
               \/ /\ rd \in {"client", "wait", "untrack", "done"}
                  /\ rd' \in {"client", "wait", "untrack", "done"},
               \A s \in Server : backends'[s] \in {backends[s], NoConn}
        PROVE CloseInv'
    BY <1>1
  <1>2. ASSUME NEW i \in MsgId, Dial(i) PROVE CloseInv'
    <2>1. PICK c \in Conn : cstate[c] = "fresh"
                            /\ cstate' = [cstate EXCEPT ![c] = "up"]
      BY <1>2 DEF Dial
    <2>2. puts[c] = 0 /\ UNCHANGED <<puts, backends, late, toClose, rd>>
      BY <1>2, <2>1 DEF Dial, PumpInv
    <2>3. \A s \in Server : backends[s] # c
      BY <2>1 DEF HolderInv, HeldLive, Live
    <2> QED BY <2>1, <2>2, <2>3
  <1>3. ASSUME NEW i \in MsgId, Install(i) PROVE CloseInv'
    <2>1. /\ UNCHANGED <<puts, cstate, toClose, rd>>
          /\ \A s \in Server : backends'[s] \in {backends[s], hc[i]}
          /\ late \subseteq late'
          /\ rd \notin {"read", "sem", "notify", "snapshot"} => hc[i] \in late'
      BY <1>3 DEF Install
    <2> QED BY <2>1
  <1>4. ASSUME NEW i \in MsgId, HandlerStep(i) PROVE CloseInv'
    <2>1. CASE LookupMiss(i) \/ HandlerDrop(i)
      BY <1>1, <2>1 DEF LookupMiss, HandlerDrop, Take
    <2> QED
      BY <1>1, <1>2, <1>3, <1>4, <2>1 DEF HandlerStep, Reject, LookupHit,
         DialFail, InstallLost, Touch, WriteOk, Account, WriteFail, Fail
  <1>5. CASE CloseSnapshot
    BY <1>5 DEF CloseSnapshot, Cached
  <1>6. ASSUME NEW c \in Conn, CloseBackend(c) PROVE CloseInv'
    <2>1. /\ rd = "closing" /\ UNCHANGED <<rd, puts, backends, late>>
          /\ \A d \in Conn : cstate'[d] = IF d = c THEN "closed" ELSE cstate[d]
          /\ toClose' = toClose \ {c}
      BY <1>6 DEF CloseBackend
    <2>2. \A s \in Server : backends[s] # NoConn => backends[s] \in Conn
      OBVIOUS
    <2>3. \A s \in Server : backends[s] # NoConn =>
            backends[s] \in late \cup toClose \/ cstate[backends[s]] = "closed"
      BY <2>1
    <2>4. \A s \in Server : backends[s] # NoConn =>
            backends[s] \in late \cup (toClose \ {c})
              \/ cstate'[backends[s]] = "closed"
      BY <2>1, <2>2, <2>3
    <2> QED BY <2>1, <2>4
  <1>7. CASE ClosePool
    BY <1>7 DEF ClosePool
  <1>8. CASE ReaderStep
    BY <1>1, <1>5, <1>6, <1>7, <1>8 DEF ReaderStep, ReadInvalid,
       ReadNotification, ReadRequest, Read, NotificationHandled, Spawn,
       ReadError, CloseClient, WaitHandlers, Finish
  <1>9. ASSUME NEW c \in Conn, PumpStep(c) PROVE CloseInv'
    <2>1. CASE PumpDrop(c)
      BY <1>1, <2>1 DEF PumpDrop, Take
    <2> QED
      BY <1>1, <1>9, <2>1 DEF PumpStep, PumpRelay, PumpClientFail,
         PumpReadFail, PumpCtxDone
  <1>10. CASE ReaperStep
    BY <1>1, <1>10 DEF ReaperStep, ReapScan, ReapDrop, Take
  <1>11. ASSUME NEW p \in Proc, Dispose(p) PROVE CloseInv'
    <2>1. /\ drop[p] \in Conn /\ UNCHANGED <<rd, toClose, late, backends>>
          /\ \A d \in Conn : cstate'[d] = IF d = drop[p] THEN "closed" ELSE cstate[d]
          /\ \A d \in Conn : puts'[d] = IF d = drop[p] THEN puts[d] + 1 ELSE puts[d]
      BY <1>11 DEF Dispose
    <2>2. \A d \in Conn : puts[d] \in Nat
      OBVIOUS
    <2>3. \A d \in Conn : d = drop[p] => puts'[d] # 0 /\ cstate'[d] = "closed"
      BY <2>1, <2>2
    <2>4. \A s \in Server : backends[s] # NoConn => backends[s] \in Conn
      OBVIOUS
    <2>5. \A s \in Server : backends[s] # NoConn /\ cstate[backends[s]] = "closed" =>
            cstate'[backends[s]] = "closed"
      BY <2>1, <2>4
    <2> QED BY <2>1, <2>3, <2>5
  <1>12. CASE EnvStep
    <2>1. ASSUME NEW c \in Conn, BackendLost(c) PROVE CloseInv'
      <3>1. /\ cstate[c] = "up" /\ UNCHANGED <<rd, toClose, late, backends, puts>>
            /\ \A d \in Conn : cstate'[d] = IF d = c THEN "broken" ELSE cstate[d]
        BY <2>1 DEF BackendLost
      <3>2. \A s \in Server : backends[s] # NoConn => backends[s] \in Conn
        OBVIOUS
      <3>3. \A s \in Server : backends[s] # NoConn /\ cstate[backends[s]] = "closed" =>
              cstate'[backends[s]] = "closed"
        BY <3>1, <3>2
      <3> QED BY <3>1, <3>3
    <2> QED
      BY <1>1, <1>12, <2>1 DEF EnvStep, ClientGone, GoIdle, PoolInvalidate
  <1>13. CASE UNCHANGED vars
    BY <1>1, <1>13 DEF vars
  <1> QED
    BY <1>4, <1>8, <1>9, <1>10, <1>11, <1>12, <1>13 DEF Next, Terminated


(* Only the reader starts handlers, and a handler moves only itself. *)
LEMMA HandlerMoves ==
  ASSUME TypeOK, NEW i \in MsgId, HandlerStep(i)
  PROVE  /\ hp[i] \notin {"idle", "done"} /\ UNCHANGED <<rd, nread, msg, client>>
         /\ \A j \in MsgId : j # i => hp'[j] = hp[j] /\ hc'[j] = hc[j]
         /\ hp'[i] # "idle"
  BY DEF HandlerStep, Reject, LookupHit, LookupMiss, Admitted, Dial, DialFail,
     Install, InstallLost, Touch, WriteOk, Account, WriteFail, HandlerDrop,
     Fail, Goto, Return, TypeOK

(* Everything but the handlers and the reader leaves both alone. *)
LEMMA OthersStill ==
  ASSUME \/ \E c \in Conn : PumpStep(c)
         \/ ReaperStep \/ EnvStep \/ UNCHANGED vars
         \/ \E p \in Proc : Dispose(p)
  PROVE  UNCHANGED <<rd, nread, msg, hp, hc, sent, usage, srv>>
  BY DEF PumpStep, PumpRelay, PumpClientFail, PumpReadFail, PumpDrop,
     PumpCtxDone, ReaperStep, ReapScan, ReapDrop, EnvStep, ClientGone,
     BackendLost, GoIdle, PoolInvalidate, Dispose, vars

(* Reading a message: it is a new one, and nothing knows of it yet. *)
LEMMA ReadFacts ==
  ASSUME OwnInv, NEW m \in Message, NEW state, Read(m, state)
  PROVE  /\ nread + 1 \in MsgId /\ nread' = nread + 1 /\ rd = "read" /\ rd' = state
         /\ hp[nread + 1] = "idle" /\ nread \in Nat
         /\ msg'[nread + 1] = m /\ \A i \in MsgId : i # nread + 1 => msg'[i] = msg[i]
  BY DEF OwnInv, ControlInv, TypeOK, ReaderInv, Read, MsgId

LEMMA KindNext ==
  ASSUME OwnInv, KindInv, [Next]_vars PROVE KindInv'
  <1>0. TypeOK /\ ReaderInv
    BY DEF OwnInv, ControlInv
  <1>1. ASSUME NEW i \in MsgId, HandlerStep(i) PROVE KindInv'
    <2>1. /\ hp[i] \notin {"idle", "done"} /\ UNCHANGED <<rd, nread, msg>>
          /\ \A j \in MsgId : j # i => hp'[j] = hp[j]
          /\ hp'[i] # "idle"
      BY <1>0, <1>1, HandlerMoves
    <2> QED BY <2>1 DEF KindInv
  <1>2. ASSUME NEW m \in Message,
               ReadInvalid(m) \/ ReadNotification(m) \/ ReadRequest(m)
        PROVE KindInv'
    <2>1. PICK state \in {"read", "notify", "sem"} :
            /\ Read(m, state)
            /\ state = "sem" => m.kind = "request"
            /\ hp'[nread + 1] \notin {"idle", "done"} => state = "notify"
            /\ hp'[nread + 1] = "idle" => state = "sem"
            /\ \A j \in MsgId : j # nread + 1 => hp'[j] = hp[j]
      <3>1. nread + 1 \in MsgId
        BY <1>2, ReadFacts DEF ReadInvalid, ReadNotification, ReadRequest
      <3>2. CASE ReadInvalid(m)
        BY <3>1, <3>2, <1>0 DEF ReadInvalid, Goto, TypeOK
      <3>3. CASE ReadNotification(m)
        BY <3>1, <3>3, <1>0 DEF ReadNotification, Goto, TypeOK
      <3>4. CASE ReadRequest(m)
        <4>1. Read(m, "sem") /\ hp' = hp
          BY <3>4 DEF ReadRequest
        <4>2. hp[nread + 1] = "idle"
          BY <4>1, ReadFacts
        <4> QED BY <4>1, <4>2, <3>4 DEF ReadRequest
      <3> QED BY <1>2, <3>2, <3>3, <3>4
    <2>2. /\ nread + 1 \in MsgId /\ nread' = nread + 1 /\ nread \in Nat
          /\ rd = "read" /\ rd' = state
          /\ msg'[nread + 1] = m
          /\ \A i \in MsgId : i # nread + 1 => msg'[i] = msg[i]
      BY <2>1, ReadFacts
    <2>3. ASSUME NEW i \in MsgId, i <= nread', hp'[i] = "idle"
          PROVE  rd' = "sem" /\ i = nread'
      <3>1. CASE i = nread + 1
        BY <3>1, <2>1, <2>2, <2>3
      <3>2. CASE i # nread + 1
        <4>1. i <= nread /\ hp[i] = "idle"
          BY <3>2, <2>1, <2>2, <2>3 DEF MsgId
        <4> QED BY <4>1, <2>2 DEF KindInv
      <3> QED BY <3>1, <3>2
    <2> QED BY <2>1, <2>2, <2>3 DEF KindInv
  <1>3. CASE Spawn
    <2>1. /\ nread \in MsgId /\ rd = "sem" /\ rd' = "read"
          /\ UNCHANGED <<nread, msg>> /\ hp'[nread] = "route"
          /\ \A j \in MsgId : j # nread => hp'[j] = hp[j]
      BY <1>0, <1>3 DEF Spawn, Goto, TypeOK, ReaderInv
    <2> QED BY <2>1 DEF KindInv
  <1>4. CASE NotificationHandled
    BY <1>4 DEF NotificationHandled, KindInv
  <1>5. CASE WaitHandlers
    BY <1>0, <1>5 DEF WaitHandlers, KindInv, Active
  <1>6. ASSUME NEW c \in Conn, CloseBackend(c) PROVE KindInv'
    BY <1>6 DEF CloseBackend, KindInv
  <1>7. CASE ReadError \/ CloseSnapshot \/ ClosePool \/ CloseClient \/ Finish
    BY <1>7 DEF ReadError, CloseSnapshot, ClosePool, CloseClient, Finish,
       KindInv
  <1>8. CASE UNCHANGED <<rd, nread, msg, hp>>
    BY <1>8 DEF KindInv
  <1> QED
    BY <1>1, <1>2, <1>3, <1>4, <1>5, <1>6, <1>7, <1>8, OthersStill
       DEF Next, ReaderStep, Terminated

LEMMA TrackNext ==
  ASSUME OwnInv, FlightInv, TrackInv, [Next]_vars PROVE TrackInv'
  <1>0. TypeOK /\ ReaderInv
    BY DEF OwnInv, ControlInv
  (* The messages whose handlers do not move keep what they have. *)
  <1>1. ASSUME NEW j \in MsgId, hp'[j] = hp[j], hc'[j] = hc[j],
               hp[j] # "idle" => msg'[j] = msg[j],
               usage'[j] = usage[j], j \in sent' <=> j \in sent
        PROVE  Tracked(j)'
    <2>1. Tracked(j)
      BY DEF TrackInv
    <2>2. CASE hp[j] = "done"
      BY <1>1, <2>1, <2>2 DEF Tracked, Outcome
    <2>3. CASE hp[j] # "done"
      BY <1>1, <2>1, <2>3 DEF Tracked
    <2> QED BY <2>2, <2>3
  <1>2. ASSUME NEW i \in MsgId, HandlerStep(i) PROVE TrackInv'
    <2>1. /\ hp[i] \notin {"idle", "done"} /\ UNCHANGED msg
          /\ \A j \in MsgId : j # i => hp'[j] = hp[j] /\ hc'[j] = hc[j]
      BY <1>0, <1>2, HandlerMoves
    <2>2. \A j \in MsgId : j # i =>
            usage'[j] = usage[j] /\ (j \in sent' <=> j \in sent)
      BY <1>0, <1>2 DEF HandlerStep, Reject, LookupHit, LookupMiss, Dial,
         DialFail, Install, InstallLost, Touch, WriteOk, Account, WriteFail,
         HandlerDrop, Fail, TypeOK
    <2>3. Tracked(i) /\ NoConn \notin Conn /\ i \in DOMAIN hp /\ i \in DOMAIN hc
      BY <1>0 DEF TrackInv, TypeOK
    <2>4. Tracked(i)'
      <3>1. CASE Reject(i) \/ DialFail(i)
        BY <2>3, <3>1 DEF Reject, DialFail, Return, Goto, Tracked, Outcome
      <3>2. CASE LookupMiss(i) \/ Install(i) \/ Touch(i) \/ WriteFail(i)
                 \/ HandlerDrop(i)
        BY <2>3, <3>2 DEF LookupMiss, Admitted, Install, Touch, WriteFail,
           HandlerDrop, Goto, Tracked
      <3>3. CASE LookupHit(i) \/ Dial(i) \/ InstallLost(i)
        <4>1. /\ hc'[i] # NoConn /\ usage'[i] = usage[i]
              /\ hp'[i] \in {"install", "touch"}
              /\ hp[i] \in {"route", "dial", "install"}
          BY <1>0, <2>3, <3>3 DEF LookupHit, Admitted, Dial, InstallLost, Goto,
             TypeOK
        <4> QED BY <2>3, <4>1 DEF Tracked
      <3>4. CASE WriteOk(i)
        BY <2>3, <3>4 DEF WriteOk, Goto, Tracked
      <3>5. CASE Account(i)
        <4>1. /\ hp[i] = "account" /\ hp'[i] = "done" /\ hc' = hc /\ sent' = sent
              /\ usage'[i] = IF msg[i].call THEN "ok" ELSE usage[i]
          BY <1>0, <2>3, <3>5 DEF Account, Return, Goto, TypeOK
        <4> QED BY <2>1, <2>3, <4>1 DEF Tracked, Outcome
      <3>6. CASE Fail(i)
        <4>1. /\ hp[i] = "fail" /\ hp'[i] = "done" /\ hc' = hc /\ sent' = sent
              /\ usage'[i] = IF msg[i].call THEN "failed" ELSE usage[i]
          BY <1>0, <2>3, <3>6 DEF Fail, Return, Goto, TypeOK
        <4>2. i \notin sent
          BY <4>1 DEF FlightInv
        <4> QED BY <2>1, <2>3, <4>1, <4>2 DEF Tracked, Outcome
      <3> QED
        BY <1>2, <3>1, <3>2, <3>3, <3>4, <3>5, <3>6 DEF HandlerStep
    <2>5. ASSUME NEW j \in MsgId, j # i PROVE Tracked(j)'
      BY <1>1, <2>1, <2>2, <2>5
    <2> QED BY <2>4, <2>5 DEF TrackInv
  <1>3. ASSUME NEW m \in Message,
               ReadInvalid(m) \/ ReadNotification(m) \/ ReadRequest(m)
        PROVE TrackInv'
    <2>0. nread + 1 \in MsgId
      BY <1>3, ReadFacts DEF ReadInvalid, ReadNotification, ReadRequest
    <2> PICK n \in MsgId : n = nread + 1
      BY <2>0
    <2>1. /\ hp[n] = "idle"
          /\ \A i \in MsgId : i # n => msg'[i] = msg[i]
      BY <1>3, ReadFacts DEF ReadInvalid, ReadNotification, ReadRequest
    <2>2. /\ UNCHANGED <<sent, usage, hc>>
          /\ \A j \in MsgId : j # n => hp'[j] = hp[j]
          /\ hp'[n] \in {"idle", "route", "done"}
      BY <1>0, <1>3, <2>1 DEF ReadInvalid, ReadNotification, ReadRequest, Goto,
         TypeOK
    <2>3. Tracked(n)'
      BY <2>1, <2>2 DEF TrackInv, Tracked, Outcome
    <2>4. ASSUME NEW j \in MsgId, j # n PROVE Tracked(j)'
      BY <1>1, <2>1, <2>2, <2>4
    <2> QED BY <2>3, <2>4 DEF TrackInv
  <1>4. CASE Spawn
    <2> PICK n \in MsgId : n = nread
      BY <1>4, <1>0 DEF Spawn, ReaderInv
    <2>1. /\ UNCHANGED <<sent, usage, msg, hc>>
          /\ hp[n] = "idle" /\ hp'[n] = "route"
          /\ \A j \in MsgId : j # n => hp'[j] = hp[j]
      BY <1>4, <1>0 DEF Spawn, Goto, TypeOK, ReaderInv
    <2>2. Tracked(n)'
      BY <2>1 DEF TrackInv, Tracked
    <2>3. ASSUME NEW j \in MsgId, j # n PROVE Tracked(j)'
      BY <1>1, <2>1, <2>3
    <2> QED BY <2>2, <2>3 DEF TrackInv
  <1>5. ASSUME UNCHANGED <<sent, usage, msg, hp, hc>> PROVE TrackInv'
    BY <1>1, <1>5 DEF TrackInv
  <1> QED
    BY <1>2, <1>3, <1>4, <1>5, OthersStill DEF Next, ReaderStep, Terminated,
       NotificationHandled, ReadError, CloseSnapshot, CloseBackend, ClosePool,
       CloseClient, WaitHandlers, Finish


LEMMA FlightNext ==
  ASSUME OwnInv, PumpedInv, FlightInv, [Next]_vars PROVE FlightInv'
  <1>0. TypeOK /\ ReaderInv /\ PumpInv /\ \A i \in sent : i \in MsgId /\ i <= nread
    BY DEF OwnInv, ControlInv, TypeOK, FlightInv
  <1>n. /\ nread \in Nat /\ \A i \in MsgId : i \in Nat /\ i # 0
        /\ \A i \in MsgId : hp[i] # "idle" => i <= nread
    BY <1>0 DEF TypeOK, ReaderInv, MsgId
  (* What is in flight stays where it is, or is given up. *)
  <1>1. ASSUME UNCHANGED <<nread, msg, hp, sent, srv, replies>>,
               \A c \in Conn : inflight'[c] \subseteq inflight[c]
        PROVE FlightInv'
    <2>1. \A c \in Conn : \A i \in inflight'[c] : i \in inflight[c]
      BY <1>1
    <2> QED BY <1>1, <2>1 DEF FlightInv
  (* A handler that has not written moves on, with an answer or without. *)
  <1>2. ASSUME NEW i \in MsgId, hp[i] \notin {"account", "done"},
               UNCHANGED <<nread, msg, sent, inflight>>,
               \A c \in Conn : inflight[c] # {} => srv'[c] = srv[c],
               \A j \in MsgId : j # i => hp'[j] = hp[j] /\ replies'[j] = replies[j],
               \/ replies'[i] = replies[i] /\ hp'[i] \notin {"account", "done"}
               \/ replies'[i] = replies[i] + 1 /\ hp'[i] = "done"
        PROVE FlightInv'
    <2>1. i \notin sent /\ replies[i] = 0
      BY <1>2 DEF FlightInv
    <2>2. \A c \in Conn : i \notin inflight[c]
      BY <2>1 DEF FlightInv
    <2>3. \A j \in sent' : j <= nread' /\ hp'[j] \in {"account", "done"}
      BY <1>2, <2>1, <1>0 DEF FlightInv
    <2>4. \A c \in Conn : \A j \in inflight'[c] :
            j \in sent' /\ Route(msg[j])' = srv'[c] /\ replies'[j] = 0
      <3> SUFFICES ASSUME NEW c \in Conn, NEW j \in inflight[c]
                   PROVE j \in sent /\ Route(msg[j]) = srv'[c] /\ replies'[j] = 0
        BY <1>2
      <3>1. j \in sent /\ Route(msg[j]) = srv[c] /\ replies[j] = 0 /\ j \in MsgId
        BY <1>0 DEF FlightInv
      <3> QED BY <1>2, <2>2, <3>1
    <2>5. \A j \in MsgId : /\ replies'[j] \in {0, 1}
                           /\ hp'[j] \notin {"account", "done"} => replies'[j] = 0
      BY <1>2, <2>1 DEF FlightInv
    <2> QED BY <1>2, <2>3, <2>4, <2>5 DEF FlightInv
  <1>3. ASSUME NEW i \in MsgId, Reject(i) \/ DialFail(i) \/ Fail(i) PROVE FlightInv'
    <2>1. /\ hp[i] \notin {"account", "done"} /\ hp'[i] = "done"
          /\ UNCHANGED <<nread, msg, sent, inflight, srv>>
          /\ replies'[i] = replies[i] + 1
          /\ \A j \in MsgId : j # i => hp'[j] = hp[j] /\ replies'[j] = replies[j]
      BY <1>3, <1>0 DEF Reject, DialFail, Fail, Reply, Return, Goto, TypeOK
    <2> QED BY <1>2, <2>1
  <1>4. ASSUME NEW i \in MsgId,
               \/ LookupHit(i) \/ LookupMiss(i) \/ Install(i) \/ InstallLost(i)
               \/ Touch(i) \/ WriteFail(i) \/ HandlerDrop(i)
        PROVE FlightInv'
    <2>1. /\ hp[i] \notin {"account", "done"} /\ hp'[i] \notin {"account", "done"}
          /\ UNCHANGED <<nread, msg, sent, inflight, srv, replies>>
          /\ \A j \in MsgId : j # i => hp'[j] = hp[j]
      BY <1>4, <1>0 DEF LookupHit, LookupMiss, Admitted, Install, InstallLost,
         Touch, WriteFail, HandlerDrop, Goto, TypeOK
    <2> QED BY <1>2, <2>1
  <1>5. ASSUME NEW i \in MsgId, Dial(i) PROVE FlightInv'
    <2>1. /\ hp[i] = "dial" /\ hp'[i] = "install"
          /\ UNCHANGED <<nread, msg, sent, inflight, replies>>
          /\ \A j \in MsgId : j # i => hp'[j] = hp[j]
      BY <1>5, <1>0 DEF Dial, Goto, TypeOK
    <2>2. \A c \in Conn : inflight[c] # {} => srv'[c] = srv[c]
      <3>1. \A c \in Conn : inflight[c] # {} => cstate[c] # "fresh"
        BY <1>0 DEF PumpedInv, PumpInv
      <3> QED BY <1>5, <3>1, <1>0 DEF Dial, TypeOK
    <2> QED BY <1>2, <2>1, <2>2
  <1>6. ASSUME NEW i \in MsgId, WriteOk(i) PROVE FlightInv'
    <2>1. /\ hp[i] = "write" /\ hp'[i] = "account" /\ sent' = sent \cup {i}
          /\ UNCHANGED <<nread, msg, replies, srv>>
          /\ \A j \in MsgId : j # i => hp'[j] = hp[j]
      BY <1>6, <1>0 DEF WriteOk, Goto, TypeOK
    <2>2. i \notin sent /\ replies[i] = 0 /\ i <= nread
          /\ \A c \in Conn : i \notin inflight[c]
      BY <2>1, <1>n DEF FlightInv
    <2>3. hc[i] \in Conn /\ srv[hc[i]] = Route(msg[i])
      BY <2>1 DEF PumpedInv
    <2>4. \A c \in Conn : \A j \in inflight'[c] :
            j \in inflight[c] \/ (j = i /\ c = hc[i])
      BY <1>6, <2>3, <1>0 DEF WriteOk, TypeOK
    <2>5. \A j \in sent' : j <= nread' /\ hp'[j] \in {"account", "done"}
      BY <2>1, <2>2, <1>0 DEF FlightInv
    <2>6. \A c \in Conn : \A j \in inflight'[c] :
            j \in sent' /\ Route(msg[j])' = srv'[c] /\ replies'[j] = 0
      BY <2>1, <2>2, <2>3, <2>4 DEF FlightInv
    <2>7. \A c, d \in Conn : \A j \in inflight'[c] : j \in inflight'[d] => c = d
      BY <2>2, <2>4 DEF FlightInv
    <2>8. \A j \in MsgId : /\ replies'[j] \in {0, 1}
                           /\ hp'[j] \notin {"account", "done"} => replies'[j] = 0
      BY <2>1 DEF FlightInv
    <2> QED BY <2>5, <2>6, <2>7, <2>8 DEF FlightInv
  <1>7. ASSUME NEW i \in MsgId, Account(i) PROVE FlightInv'
    <2>1. /\ UNCHANGED <<nread, msg, sent, inflight, srv, replies>>
          /\ hp[i] = "account" /\ hp'[i] = "done"
          /\ \A j \in MsgId : j # i => hp'[j] = hp[j]
      BY <1>7, <1>0 DEF Account, Return, Goto, TypeOK
    <2> QED BY <2>1, <1>0 DEF FlightInv
  <1>8. ASSUME NEW m \in Message,
               ReadInvalid(m) \/ ReadNotification(m) \/ ReadRequest(m)
        PROVE FlightInv'
    <2> DEFINE n == nread + 1
    <2>1. /\ n \in MsgId /\ nread' = nread + 1 /\ hp[n] = "idle"
          /\ \A i \in MsgId : i # n => msg'[i] = msg[i]
      BY <1>8, ReadFacts DEF ReadInvalid, ReadNotification, ReadRequest
    <2>2. /\ UNCHANGED <<sent, inflight, srv>>
          /\ \A j \in MsgId : j # n => hp'[j] = hp[j] /\ replies'[j] = replies[j]
          /\ \/ replies'[n] = replies[n] /\ hp'[n] \notin {"account", "done"}
             \/ replies'[n] = replies[n] + 1 /\ hp'[n] = "done"
      BY <1>8, <2>1, <1>0 DEF ReadInvalid, ReadNotification, ReadRequest, Reply,
         Goto, TypeOK
    <2>3. n \notin sent /\ replies[n] = 0 /\ \A c \in Conn : n \notin inflight[c]
      BY <2>1 DEF FlightInv
    <2>4. \A j \in sent : j <= nread + 1
      BY <1>0, <1>n
    <2> HIDE DEF n
    <2>5. \A j \in sent' : j <= nread' /\ hp'[j] \in {"account", "done"}
      BY <2>1, <2>2, <2>3, <2>4, <1>0 DEF FlightInv
    <2>6. \A c \in Conn : \A j \in inflight'[c] :
            j \in sent' /\ Route(msg'[j]) = srv'[c] /\ replies'[j] = 0
      BY <2>1, <2>2, <2>3, <1>0 DEF FlightInv
    <2>7. \A j \in MsgId : /\ replies'[j] \in {0, 1}
                           /\ hp'[j] \notin {"account", "done"} => replies'[j] = 0
      BY <2>2, <2>3 DEF FlightInv
    <2> QED BY <2>2, <2>5, <2>6, <2>7 DEF FlightInv
  <1>9. CASE Spawn
    <2>1. /\ nread \in MsgId /\ hp[nread] = "idle" /\ hp'[nread] = "route"
          /\ UNCHANGED <<nread, msg, sent, inflight, srv, replies>>
          /\ \A j \in MsgId : j # nread => hp'[j] = hp[j]
      BY <1>9, <1>0 DEF Spawn, Goto, TypeOK, ReaderInv
    <2> QED BY <1>2, <2>1
  <1>10. ASSUME NEW c \in Conn, CloseBackend(c) PROVE FlightInv'
    <2>1. \A d \in Conn : inflight'[d] \subseteq inflight[d]
      BY <1>10, <1>0 DEF CloseBackend, TypeOK
    <2> QED BY <1>1, <1>10, <2>1 DEF CloseBackend
  <1>11. ASSUME NEW p \in Proc, Dispose(p) PROVE FlightInv'
    <2>1. \A d \in Conn : inflight'[d] \subseteq inflight[d]
      BY <1>11, <1>0 DEF Dispose, TypeOK
    <2> QED BY <1>1, <1>11, <2>1 DEF Dispose
  <1>12. ASSUME NEW c \in Conn, PumpClientFail(c) PROVE FlightInv'
    <2>1. \A d \in Conn : inflight'[d] \subseteq inflight[d]
      BY <1>12, <1>0 DEF PumpClientFail, TypeOK
    <2> QED BY <1>1, <1>12, <2>1 DEF PumpClientFail
  (* The answer: the request leaves the only connection it was on. *)
  <1>13. ASSUME NEW c \in Conn, PumpRelay(c) PROVE FlightInv'
    <2>1. PICK i \in inflight[c] \cup {0} :
            /\ inflight' = [inflight EXCEPT ![c] = @ \ {i}]
            /\ replies' = [k \in MsgId |->
                             IF k = i THEN replies[k] + 1 ELSE replies[k]]
      BY <1>13 DEF PumpRelay
    <2>2. UNCHANGED <<nread, msg, hp, sent, srv>>
      BY <1>13 DEF PumpRelay
    <2>3. \A d \in Conn : \A j \in inflight'[d] : j \in inflight[d] /\ j # i
      BY <2>1, <1>0, <1>n DEF FlightInv, TypeOK
    <2>4. \A d \in Conn : \A j \in inflight'[d] :
            j \in sent' /\ Route(msg[j])' = srv'[d] /\ replies'[j] = 0
      BY <2>1, <2>2, <2>3, <1>0 DEF FlightInv
    <2>5. \A j \in MsgId : j = i => j \in sent /\ replies[j] = 0
      BY <2>1, <1>n DEF FlightInv
    <2>6. \A j \in MsgId : /\ replies'[j] \in {0, 1}
                           /\ hp'[j] \notin {"account", "done"} => replies'[j] = 0
      BY <2>1, <2>2, <2>5 DEF FlightInv
    <2> QED BY <2>2, <2>3, <2>4, <2>6 DEF FlightInv
  <1>14. ASSUME UNCHANGED <<nread, msg, hp, sent, srv, replies, inflight>>
         PROVE FlightInv'
    BY <1>1, <1>14
  <1>15. ASSUME NEW c \in Conn, PumpStep(c) PROVE FlightInv'
    BY <1>12, <1>13, <1>14, <1>15 DEF PumpStep, PumpReadFail, PumpDrop,
       PumpCtxDone
  <1>16. ASSUME NEW i \in MsgId, HandlerStep(i) PROVE FlightInv'
    BY <1>3, <1>4, <1>5, <1>6, <1>7, <1>16 DEF HandlerStep
  <1>17. CASE ReaderStep
    BY <1>8, <1>9, <1>10, <1>14, <1>17 DEF ReaderStep, NotificationHandled,
       ReadError, CloseSnapshot, ClosePool, CloseClient, WaitHandlers, Finish
  <1>18. CASE ReaperStep \/ EnvStep \/ UNCHANGED vars
    BY <1>14, <1>18 DEF ReaperStep, ReapScan, ReapDrop, EnvStep, ClientGone,
       BackendLost, GoIdle, PoolInvalidate, vars
  <1> QED
    BY <1>11, <1>15, <1>16, <1>17, <1>18 DEF Next, Terminated


LEMMA PumpedNext ==
  ASSUME OwnInv, PumpedInv, FlightInv, CloseInv, [Next]_vars PROVE PumpedInv'
  <1>0. TypeOK /\ ReaderInv /\ PumpInv /\ HandlerInv /\ HeldLive
    BY DEF OwnInv, ControlInv, HolderInv
  <1>b. \A s \in Server : backends[s] # NoConn => backends[s] \in Conn
    BY <1>0 DEF TypeOK
  <1>t. ASSUME NEW p \in Proc, NEW t, Take(p, t)
        PROVE \A s \in Server : backends'[s] \in {backends[s], NoConn}
    <2>1. backends' = [backends EXCEPT ![t] = NoConn]
      BY <1>t DEF Take
    <2>2. backends \in [Server -> Conn \cup {NoConn}]
      BY <1>0 DEF TypeOK
    <2> QED BY <2>1, <2>2
  (* A step that starts no handler and no pump: a pump that stops has a     *)
  (* reason, and connections only get worse.                                *)
  <1>1. ASSUME srv' = srv, rd' = rd \/ rd' \notin {"wait", "untrack", "done"}
                                 \/ rd \in {"wait", "untrack", "done"},
               client' # "up" \/ client' = client,
               rd \in {"wait", "untrack", "done"} => client' = client,
               \A s \in Server : backends'[s] \in {backends[s], NoConn},
               \A i \in MsgId : hp'[i] \in {"touch", "write"} =>
                 /\ hp[i] \in {"touch", "write"} /\ hc'[i] = hc[i]
                 /\ msg'[i] = msg[i],
               \A c \in Conn :
                 /\ pump[c] # "none" => pump'[c] # "none"
                 /\ pump'[c] # pump[c] =>
                      cstate[c] # "up" \/ client # "up" \/ pump'[c] = "read"
                 /\ inflight'[c] \subseteq inflight[c]
                 /\ cstate'[c] = "up" => cstate[c] = "up"
                 /\ cstate'[c] = "fresh" => cstate[c] = "fresh"
        PROVE PumpedInv'
    <2>1. \A c \in Conn :
            /\ pump'[c] \in {"drop", "done"} /\ cstate'[c] = "up" => client' # "up"
            /\ inflight'[c] # {} => pump'[c] # "none"
      BY <1>1 DEF PumpedInv
    <2>2. \A s \in Server : backends'[s] # NoConn => pump'[backends'[s]] # "none"
      BY <1>1, <1>b DEF PumpedInv
    <2>3. \A i \in MsgId : hp'[i] \in {"touch", "write"} =>
            /\ hc'[i] \in Conn /\ pump'[hc'[i]] # "none"
            /\ cstate'[hc'[i]] # "fresh" /\ srv'[hc'[i]] = Route(msg'[i])
      BY <1>1 DEF PumpedInv
    <2>4. rd' \in {"wait", "untrack", "done"} => client' = "closed"
      BY <1>1 DEF PumpedInv
    <2> QED BY <2>1, <2>2, <2>3, <2>4 DEF PumpedInv
  <1>2. ASSUME NEW i \in MsgId,
               \/ Reject(i) \/ DialFail(i) \/ Touch(i) \/ Account(i)
               \/ WriteFail(i) \/ Fail(i)
        PROVE PumpedInv'
    <2>1. /\ UNCHANGED <<srv, rd, client, backends, pump, inflight, cstate, msg>>
          /\ \A j \in MsgId : hp'[j] \in {"touch", "write"} =>
               hp[j] \in {"touch", "write"} /\ hc'[j] = hc[j]
      BY <1>2, <1>0 DEF Reject, DialFail, Touch, Account, WriteFail, Fail, Goto,
         Return, TypeOK
    <2> QED BY <1>1, <2>1
  <1>3. ASSUME NEW i \in MsgId, LookupMiss(i) \/ HandlerDrop(i) PROVE PumpedInv'
    <2>1. /\ UNCHANGED <<srv, rd, client, pump, inflight, cstate, msg, hc>>
          /\ \A j \in MsgId : hp'[j] \in {"touch", "write"} =>
               hp[j] \in {"touch", "write"}
      BY <1>3, <1>0 DEF LookupMiss, HandlerDrop, Goto, TypeOK
    <2>2. HandlerOf(i) \in Proc
      BY DEF Proc
    <2>3. Take(HandlerOf(i), Route(msg[i]))
      BY <1>3 DEF LookupMiss, HandlerDrop
    <2>4. \A s \in Server : backends'[s] \in {backends[s], NoConn}
      BY <1>t, <2>2, <2>3
    <2> QED BY <1>1, <2>1, <2>4
  <1>4. ASSUME NEW i \in MsgId, LookupHit(i) \/ InstallLost(i) PROVE PumpedInv'
    <2> DEFINE c == backends[Route(msg[i])]
    <2>1. Route(msg[i]) \in Server /\ c # NoConn
      BY <1>4, <1>0 DEF LookupHit, Admitted, InstallLost, HandlerInv, TypeOK
    <2>2. c \in Conn /\ pump[c] # "none" /\ cstate[c] # "fresh"
          /\ srv[c] = Route(msg[i])
      BY <2>1, <1>0, <1>b DEF PumpedInv, HeldLive, Live
    <2>3. /\ UNCHANGED <<srv, rd, client, backends, pump, inflight, cstate, msg>>
          /\ hc'[i] = c /\ hp'[i] = "touch"
          /\ \A j \in MsgId : j # i => hp'[j] = hp[j] /\ hc'[j] = hc[j]
      BY <1>4, <1>0 DEF LookupHit, InstallLost, Goto, TypeOK
    <2> HIDE DEF c
    <2>4. \A j \in MsgId : hp'[j] \in {"touch", "write"} =>
            /\ hc'[j] \in Conn /\ pump[hc'[j]] # "none"
            /\ cstate[hc'[j]] # "fresh" /\ srv[hc'[j]] = Route(msg[j])
      BY <2>2, <2>3 DEF PumpedInv
    <2> QED BY <2>3, <2>4 DEF PumpedInv
  <1>5. ASSUME NEW i \in MsgId, Dial(i) PROVE PumpedInv'
    <2>1. PICK c \in Conn :
            /\ cstate[c] = "fresh" /\ cstate' = [cstate EXCEPT ![c] = "up"]
            /\ srv' = [srv EXCEPT ![c] = Route(msg[i])]
      BY <1>5 DEF Dial
    <2>2. /\ UNCHANGED <<rd, client, backends, pump, inflight, msg>>
          /\ hp'[i] = "install"
          /\ \A j \in MsgId : j # i => hp'[j] = hp[j] /\ hc'[j] = hc[j]
      BY <1>5, <1>0 DEF Dial, Goto, TypeOK
    <2>3. pump[c] = "none"
      BY <2>1, <1>0 DEF PumpInv
    <2>4. \A d \in Conn : d # c => cstate'[d] = cstate[d] /\ srv'[d] = srv[d]
      BY <2>1, <1>0 DEF TypeOK
    <2>5. \A j \in MsgId : hp'[j] \in {"touch", "write"} =>
            /\ hc'[j] \in Conn /\ pump[hc'[j]] # "none"
            /\ cstate'[hc'[j]] # "fresh" /\ srv'[hc'[j]] = Route(msg[j])
      BY <2>2, <2>3, <2>4 DEF PumpedInv
    <2>6. \A d \in Conn :
            pump[d] \in {"drop", "done"} /\ cstate'[d] = "up" => client # "up"
      BY <2>3, <2>4 DEF PumpedInv
    <2> QED BY <2>2, <2>5, <2>6 DEF PumpedInv
  <1>6. ASSUME NEW i \in MsgId, Install(i) PROVE PumpedInv'
    <2>1. /\ hc[i] \in Conn /\ cstate[hc[i]] # "fresh"
          /\ srv[hc[i]] = Route(msg[i]) /\ Route(msg[i]) \in Server
      BY <1>6, <1>0 DEF Install, HeldLive, Live, HandlerInv
    <2>2. /\ UNCHANGED <<rd, client, inflight, msg, hc, cstate, srv>>
          /\ \A d \in Conn : pump'[d] = IF d = hc[i] THEN "read" ELSE pump[d]
          /\ \A s \in Server : backends'[s] \in {backends[s], hc[i]}
          /\ \A j \in MsgId : j # i => hp'[j] = hp[j]
      BY <1>6, <2>1, <1>0 DEF Install, Goto, TypeOK
    <2>3. \A s \in Server : backends'[s] # NoConn => pump'[backends'[s]] # "none"
      BY <2>1, <2>2, <1>b DEF PumpedInv
    <2>4. \A j \in MsgId : hp'[j] \in {"touch", "write"} =>
            /\ hc[j] \in Conn /\ pump'[hc[j]] # "none"
            /\ cstate[hc[j]] # "fresh" /\ srv[hc[j]] = Route(msg[j])
      BY <2>1, <2>2 DEF PumpedInv
    <2> QED BY <2>2, <2>3, <2>4 DEF PumpedInv
  <1>7. ASSUME NEW i \in MsgId, WriteOk(i) PROVE PumpedInv'
    <2>1. hc[i] \in Conn /\ pump[hc[i]] # "none"
      BY <1>7 DEF WriteOk, PumpedInv
    <2>2. /\ UNCHANGED <<rd, client, backends, pump, msg, hc, cstate, srv>>
          /\ hp'[i] = "account" /\ \A j \in MsgId : j # i => hp'[j] = hp[j]
          /\ \A d \in Conn : d # hc[i] => inflight'[d] = inflight[d]
      BY <1>7, <2>1, <1>0 DEF WriteOk, Goto, TypeOK
    <2>3. \A d \in Conn : inflight'[d] # {} => pump[d] # "none"
      BY <2>1, <2>2 DEF PumpedInv
    <2> QED BY <2>2, <2>3 DEF PumpedInv
  <1>8. ASSUME NEW i \in MsgId, HandlerStep(i) PROVE PumpedInv'
    BY <1>2, <1>3, <1>4, <1>5, <1>6, <1>7, <1>8 DEF HandlerStep
  <1>9. ASSUME NEW m \in Message,
               ReadInvalid(m) \/ ReadNotification(m) \/ ReadRequest(m)
        PROVE PumpedInv'
    <2>1. /\ nread + 1 \in MsgId /\ hp[nread + 1] = "idle"
          /\ \A i \in MsgId : i # nread + 1 => msg'[i] = msg[i]
      BY <1>9, ReadFacts DEF ReadInvalid, ReadNotification, ReadRequest
    <2>2. /\ UNCHANGED <<srv, client, backends, pump, inflight, cstate, hc>>
          /\ rd' \in {"read", "notify", "sem"}
          /\ hp'[nread + 1] \notin {"touch", "write"}
          /\ \A j \in MsgId : j # nread + 1 => hp'[j] = hp[j]
          /\ rd \notin {"wait", "untrack", "done"}
      BY <1>9, <2>1, <1>0 DEF ReadInvalid, ReadNotification, ReadRequest, Read,
         Goto, TypeOK
    <2>3. \A i \in MsgId : hp'[i] \in {"touch", "write"} =>
            /\ hp[i] \in {"touch", "write"} /\ hc'[i] = hc[i] /\ msg'[i] = msg[i]
      BY <2>1, <2>2
    <2> QED BY <1>1, <2>2, <2>3
  <1>10. CASE Spawn
    <2>1. /\ UNCHANGED <<srv, client, backends, pump, inflight, cstate, msg, hc>>
          /\ rd' = "read"
          /\ \A j \in MsgId : hp'[j] \in {"touch", "write"} =>
               hp[j] \in {"touch", "write"}
          /\ rd \notin {"wait", "untrack", "done"}
      BY <1>10, <1>0 DEF Spawn, Goto, TypeOK
    <2> QED BY <1>1, <2>1
  <1>11. CASE CloseClient
    BY <1>11 DEF CloseClient, PumpedInv
  <1>12. ASSUME NEW c \in Conn, CloseBackend(c) PROVE PumpedInv'
    <2>1. /\ UNCHANGED <<srv, rd, client, backends, pump, msg, hp, hc>>
          /\ \A d \in Conn : inflight'[d] \subseteq inflight[d]
          /\ \A d \in Conn : cstate'[d] \in {cstate[d], "closed"}
      BY <1>12, <1>0 DEF CloseBackend, TypeOK
    <2> QED BY <1>1, <2>1
  <1>13. CASE NotificationHandled \/ ReadError \/ CloseSnapshot \/ ClosePool
              \/ WaitHandlers \/ Finish
    <2>1. /\ UNCHANGED <<srv, client, backends, pump, inflight, cstate, msg, hp, hc>>
          /\ \/ rd' \notin {"wait", "untrack", "done"}
             \/ rd \in {"wait", "untrack", "done"}
      BY <1>13 DEF NotificationHandled, ReadError, CloseSnapshot, ClosePool,
         WaitHandlers, Finish
    <2> QED BY <1>1, <2>1
  <1>14. CASE ReaderStep
    BY <1>9, <1>10, <1>11, <1>12, <1>13, <1>14 DEF ReaderStep
  <1>15. ASSUME NEW c \in Conn, PumpStep(c) PROVE PumpedInv'
    <2>1. CtxDone => client # "up"
      BY DEF CtxDone, PumpedInv
    <2>2. CASE PumpRelay(c)
      <3>1. /\ UNCHANGED <<srv, rd, client, backends, pump, cstate, msg, hp, hc>>
            /\ \A d \in Conn : inflight'[d] \subseteq inflight[d]
        BY <2>2, <1>0 DEF PumpRelay, TypeOK
      <3> QED BY <1>1, <3>1
    <2>3. CASE PumpClientFail(c) \/ PumpReadFail(c) \/ PumpCtxDone(c)
      <3>1. /\ UNCHANGED <<srv, rd, client, backends, cstate, msg, hp, hc>>
            /\ \A d \in Conn : inflight'[d] \subseteq inflight[d]
            /\ \A d \in Conn : d # c => pump'[d] = pump[d]
            /\ pump'[c] # "none" /\ (cstate[c] # "up" \/ client # "up")
        BY <2>1, <2>3, <1>0 DEF PumpClientFail, PumpReadFail, PumpCtxDone, TypeOK
      <3> QED BY <1>1, <3>1
    <2>4. CASE PumpDrop(c)
      <3>1. /\ UNCHANGED <<srv, rd, client, inflight, cstate, msg, hp, hc>>
            /\ \A d \in Conn : d # c => pump'[d] = pump[d]
            /\ pump'[c] = "done" /\ pump[c] = "drop"
        BY <2>4, <1>0 DEF PumpDrop, TypeOK
      <3>2. cstate[c] # "up" \/ client # "up"
        BY <3>1 DEF PumpedInv
      <3>3. PumpOf(c) \in Proc
        BY DEF Proc
      <3>4. \A s \in Server : backends'[s] \in {backends[s], NoConn}
        BY <1>t, <2>4, <3>3 DEF PumpDrop
      <3> QED BY <1>1, <3>1, <3>2, <3>4
    <2> QED BY <1>15, <2>2, <2>3, <2>4 DEF PumpStep
  <1>16. ASSUME NEW p \in Proc, Dispose(p) PROVE PumpedInv'
    <2>1. /\ UNCHANGED <<srv, rd, client, backends, pump, msg, hp, hc>>
          /\ \A d \in Conn : inflight'[d] \subseteq inflight[d]
          /\ \A d \in Conn : cstate'[d] \in {cstate[d], "closed"}
      BY <1>16, <1>0 DEF Dispose, TypeOK
    <2> QED BY <1>1, <2>1
  <1>17. CASE EnvStep
    <2>1. /\ UNCHANGED <<srv, rd, backends, pump, inflight, msg, hp, hc>>
          /\ \A d \in Conn : cstate'[d] \in {cstate[d], "broken"}
          /\ \A d \in Conn : cstate'[d] = "fresh" => cstate[d] = "fresh"
          /\ client' # "up" \/ client' = client
          /\ client = "closed" => client' = client
      BY <1>17, <1>0 DEF EnvStep, ClientGone, BackendLost, GoIdle,
         PoolInvalidate, TypeOK
    <2>2. rd \in {"wait", "untrack", "done"} => client' = client
      BY <2>1 DEF PumpedInv
    <2> QED BY <1>1, <2>1, <2>2
  <1>18. CASE ReaperStep \/ UNCHANGED vars
    <2>1. UNCHANGED <<srv, rd, client, pump, inflight, cstate, msg, hp, hc>>
      BY <1>18 DEF ReaperStep, ReapScan, ReapDrop, vars, clientVars, msgVars,
         handlerVars, connVars, pumpVars
    <2>2. Reaper \in Proc
      BY DEF Proc
    <2>3. \A s \in Server : backends'[s] \in {backends[s], NoConn}
      <3>1. ASSUME NEW s \in Server, ReapDrop(s)
            PROVE \A u \in Server : backends'[u] \in {backends[u], NoConn}
        BY <1>t, <2>2, <3>1 DEF ReapDrop
      <3>2. CASE backends' = backends
        BY <3>2
      <3> QED BY <1>18, <3>1, <3>2 DEF ReaperStep, ReapScan, vars, cacheVars
    <2> QED BY <1>1, <2>1, <2>3
  <1> QED
    BY <1>8, <1>14, <1>15, <1>16, <1>17, <1>18 DEF Next, Terminated

(* No step forgets a request that has no answer yet. *)
LEMMA ForgotNext ==
  ASSUME OwnInv, PumpedInv, FlightInv, ForgotInv, [Next]_vars PROVE ForgotInv'
  <1>0. TypeOK /\ ReaderInv /\ \A i \in MsgId : replies[i] \in {0, 1}
    BY DEF OwnInv, ControlInv, FlightInv
  (* A message whose handler does not move. *)
  <1>1. ASSUME NEW j \in MsgId, client' = "up" => client = "up",
               hp'[j] = hp[j], hp[j] # "idle" => msg'[j] = msg[j],
               replies'[j] = 0 => replies[j] = 0,
               Waits(j) /\ replies'[j] = 0 => Waits(j)'
        PROVE  /\ client' = "up" /\ hp'[j] \in {"account", "done"}
               /\ msg'[j].kind = "request" /\ replies'[j] = 0
               => Waits(j)'
    BY <1>1 DEF ForgotInv
  <1>2. ASSUME NEW i \in MsgId, HandlerStep(i) PROVE ForgotInv'
    <2>1. /\ hp[i] \notin {"idle", "done"} /\ UNCHANGED <<msg, client>>
          /\ \A j \in MsgId : j # i => hp'[j] = hp[j] /\ hc'[j] = hc[j]
      BY <1>0, <1>2, HandlerMoves
    <2>2. \A j \in MsgId : j # i => replies'[j] = replies[j]
      BY <1>0, <1>2 DEF HandlerStep, Reject, LookupHit, LookupMiss, Dial,
         DialFail, Install, InstallLost, Touch, WriteOk, Account, WriteFail,
         HandlerDrop, Fail, Reply, TypeOK
    <2>3. /\ sent \subseteq sent'
          /\ \A c \in Conn : inflight[c] \subseteq inflight'[c]
      BY <1>0, <1>2 DEF HandlerStep, Reject, LookupHit, LookupMiss, Dial,
         DialFail, Install, InstallLost, Touch, WriteOk, Account, WriteFail,
         HandlerDrop, Fail, TypeOK
    <2>4. \A c \in Conn : cstate[c] \notin {"fresh", "up"} => cstate'[c] = cstate[c]
      <3>1. CASE Dial(i)
        BY <1>0, <3>1 DEF Dial, TypeOK
      <3>2. CASE ~Dial(i)
        BY <1>2, <3>2 DEF HandlerStep, Reject, LookupHit, LookupMiss, DialFail,
           Install, InstallLost, Touch, WriteOk, Account, WriteFail,
           HandlerDrop, Fail
      <3> QED BY <3>1, <3>2
    <2>5. \A j \in MsgId : Waits(j) /\ hc'[j] = hc[j] => Waits(j)'
      BY <2>3, <2>4 DEF Waits
    <2>6. ASSUME NEW j \in MsgId, j # i, client' = "up",
                 hp'[j] \in {"account", "done"},
                 msg'[j].kind = "request", replies'[j] = 0
          PROVE Waits(j)'
      BY <2>1, <2>2, <2>5, <2>6 DEF ForgotInv
    <2>7. ASSUME client' = "up", hp'[i] \in {"account", "done"},
                 msg'[i].kind = "request", replies'[i] = 0
          PROVE Waits(i)'
      <3>1. CASE WriteOk(i)
        <4>1. /\ hp[i] = "write" /\ sent' = sent \cup {i} /\ hc' = hc
              /\ cstate[hc[i]] \in {"up", "broken"} /\ cstate' = cstate
          BY <3>1 DEF WriteOk
        <4>2. hc[i] \in Conn
          BY <4>1 DEF PumpedInv
        <4>3. cstate[hc[i]] = "up" => i \in inflight'[hc[i]]
          BY <1>0, <2>1, <2>7, <3>1, <4>2 DEF WriteOk, TypeOK
        <4> QED BY <4>1, <4>2, <4>3 DEF Waits
      <3>2. CASE Account(i)
        <4>1. hp[i] = "account" /\ hc' = hc /\ replies' = replies
          BY <3>2 DEF Account, Return
        <4> QED BY <2>1, <2>5, <2>7, <4>1 DEF ForgotInv
      <3>3. CASE Reject(i) \/ DialFail(i) \/ Fail(i)
        BY <1>0, <2>7, <3>3 DEF Reject, DialFail, Fail, Reply, TypeOK
      <3>4. CASE \/ LookupHit(i) \/ LookupMiss(i) \/ Dial(i) \/ Install(i)
                 \/ InstallLost(i) \/ Touch(i) \/ WriteFail(i) \/ HandlerDrop(i)
        BY <1>0, <2>7, <3>4 DEF LookupHit, LookupMiss, Dial, Install,
           InstallLost, Touch, WriteFail, HandlerDrop, Goto, TypeOK
      <3> QED BY <1>2, <3>1, <3>2, <3>3, <3>4 DEF HandlerStep
    <2> QED BY <2>6, <2>7 DEF ForgotInv
  <1>3. ASSUME NEW m \in Message,
               ReadInvalid(m) \/ ReadNotification(m) \/ ReadRequest(m)
        PROVE ForgotInv'
    <2> DEFINE n == nread + 1
    <2>1. /\ n \in MsgId /\ hp[n] = "idle" /\ msg'[n] = m
          /\ \A i \in MsgId : i # n => msg'[i] = msg[i]
      BY <1>3, ReadFacts DEF ReadInvalid, ReadNotification, ReadRequest
    <2>2. /\ UNCHANGED <<client, sent, hc, inflight, cstate>>
          /\ \A j \in MsgId : j # n =>
               hp'[j] = hp[j] /\ replies'[j] = replies[j]
      BY <1>0, <1>3, <2>1 DEF ReadInvalid, ReadNotification, ReadRequest, Goto,
         Reply, TypeOK
    <2>3. hp'[n] \notin {"account", "done"} \/ msg'[n].kind # "request"
      BY <1>0, <1>3, <2>1 DEF ReadInvalid, ReadNotification, ReadRequest, Goto,
         TypeOK
    <2> HIDE DEF n
    <2>4. \A j \in MsgId : Waits(j) => Waits(j)'
      BY <2>2 DEF Waits
    <2> QED BY <2>1, <2>2, <2>3, <2>4 DEF ForgotInv
  <1>4. CASE Spawn
    <2>1. /\ UNCHANGED <<client, replies, sent, msg, hc, inflight, cstate>>
          /\ hp'[nread] = "route" /\ \A j \in MsgId : j # nread => hp'[j] = hp[j]
      BY <1>4, <1>0 DEF Spawn, Goto, TypeOK, ReaderInv
    <2>2. \A j \in MsgId : Waits(j) => Waits(j)'
      BY <2>1 DEF Waits
    <2> QED BY <2>1, <2>2 DEF ForgotInv
  (* Closing a connection ends the wait for what is in flight on it. *)
  <1>5. ASSUME UNCHANGED <<client, replies, sent, msg, hc, hp>>, NEW d \in Conn,
               cstate' = [cstate EXCEPT ![d] = "closed"],
               inflight' = [inflight EXCEPT ![d] = {}]
        PROVE ForgotInv'
    <2>1. \A c \in Conn : /\ cstate'[c] = IF c = d THEN "closed" ELSE cstate[c]
                          /\ c # d => inflight'[c] = inflight[c]
      BY <1>0, <1>5 DEF TypeOK
    <2>2. \A j \in MsgId : Waits(j) => Waits(j)'
      BY <1>5, <2>1 DEF Waits
    <2> QED BY <1>5, <2>2 DEF ForgotInv
  <1>6. ASSUME NEW p \in Proc, Dispose(p) PROVE ForgotInv'
    <2>1. drop[p] \in Conn
      BY <1>0, <1>6 DEF Dispose, TypeOK
    <2> QED BY <1>5, <1>6, <2>1 DEF Dispose
  <1>7. ASSUME NEW c \in Conn, CloseBackend(c) PROVE ForgotInv'
    BY <1>5, <1>7 DEF CloseBackend
  <1>8. CASE client' # "up"
    BY <1>8 DEF ForgotInv
  <1>9. CASE UNCHANGED <<client, replies, sent, msg, hc, hp, inflight, cstate>>
    BY <1>9 DEF ForgotInv, Waits
  <1>10. CASE ReaderStep
    BY <1>3, <1>4, <1>7, <1>8, <1>9, <1>10 DEF ReaderStep, NotificationHandled,
       ReadError, CloseSnapshot, ClosePool, CloseClient, WaitHandlers, Finish
  <1>11. ASSUME NEW c \in Conn, PumpStep(c) PROVE ForgotInv'
    <2>1. CASE PumpRelay(c)
      <3>1. PICK i \in inflight[c] \cup {0} :
              /\ inflight' = [inflight EXCEPT ![c] = @ \ {i}]
              /\ replies' = [k \in MsgId |->
                               IF k = i THEN replies[k] + 1 ELSE replies[k]]
        BY <2>1 DEF PumpRelay
      <3>2. UNCHANGED <<client, sent, msg, hc, hp, cstate>>
        BY <2>1 DEF PumpRelay
      <3>3. \A j \in MsgId : replies'[j] = 0 => replies[j] = 0 /\ j # i
        BY <1>0, <3>1
      <3>4. \A d \in Conn : inflight[d] \ {i} \subseteq inflight'[d]
        BY <1>0, <3>1 DEF TypeOK
      <3>5. \A j \in MsgId : Waits(j) /\ replies'[j] = 0 => Waits(j)'
        BY <3>2, <3>3, <3>4 DEF Waits
      <3> QED BY <3>2, <3>3, <3>5 DEF ForgotInv
    <2>2. CASE PumpClientFail(c)
      BY <1>8, <2>2 DEF PumpClientFail
    <2> QED
      BY <1>9, <1>11, <2>1, <2>2 DEF PumpStep, PumpReadFail, PumpDrop,
         PumpCtxDone
  <1>12. CASE EnvStep
    <2>1. ASSUME NEW c \in Conn, BackendLost(c) PROVE ForgotInv'
      <3>1. /\ UNCHANGED <<client, replies, sent, msg, hc, hp, inflight>>
            /\ \A d \in Conn : cstate'[d] = IF d = c THEN "broken" ELSE cstate[d]
        BY <1>0, <2>1 DEF BackendLost, TypeOK
      <3>2. \A j \in MsgId : Waits(j) => Waits(j)'
        BY <3>1 DEF Waits
      <3> QED BY <3>1, <3>2 DEF ForgotInv
    <2> QED
      BY <1>8, <1>9, <1>12, <2>1 DEF EnvStep, ClientGone, GoIdle,
         PoolInvalidate
  <1>13. CASE ReaperStep \/ UNCHANGED vars
    BY <1>9, <1>13 DEF ReaperStep, ReapScan, ReapDrop, vars
  <1> QED
    BY <1>2, <1>6, <1>10, <1>11, <1>12, <1>13 DEF Next, Terminated

(* The inductive invariant of the whole session. *)
SessInv ==
  /\ OwnInv /\ PumpedInv /\ FlightInv /\ KindInv
  /\ TrackInv /\ ForgotInv /\ CloseInv

LEMMA SessInit == Init => SessInv
  <1> SUFFICES ASSUME Init PROVE SessInv
    OBVIOUS
  <1>1. OwnInv
    BY OwnInit
  <1>2. PumpedInv
    BY DEF Init, PumpedInv
  <1>3. FlightInv
    BY DEF Init, FlightInv
  <1>4. KindInv
    BY DEF Init, KindInv, MsgId
  <1>5. TrackInv /\ ForgotInv
    BY DEF Init, TrackInv, Tracked, ForgotInv
  <1>6. CloseInv
    BY DEF Init, CloseInv, PoolClosed
  <1> QED BY <1>1, <1>2, <1>3, <1>4, <1>5, <1>6 DEF SessInv

LEMMA SessNext == SessInv /\ [Next]_vars => SessInv'
  <1> SUFFICES ASSUME SessInv, [Next]_vars PROVE SessInv'
    OBVIOUS
  <1>1. OwnInv' /\ CloseInv'
    BY OwnNext, CloseNext DEF SessInv
  <1>2. PumpedInv' /\ FlightInv'
    BY PumpedNext, FlightNext DEF SessInv
  <1>3. KindInv' /\ TrackInv'
    BY KindNext, TrackNext DEF SessInv
  <1>4. ForgotInv'
    BY ForgotNext DEF SessInv
  <1> QED BY <1>1, <1>2, <1>3, <1>4 DEF SessInv

LEMMA SessInvHolds == Spec => []SessInv
  BY SessInit, SessNext, PTL DEF Spec

(* While the client is connected no request is lost in silence: once its  *)
(* handler has returned it is answered, in flight, or its connection has   *)
(* failed, for any number of servers, messages and connections.            *)
THEOREM NoneForgottenHolds == Spec => []NoneForgotten
  <1>1. SessInv => NoneForgotten
    BY DEF SessInv, ForgotInv, Waits, NoneForgotten
  <1> QED BY <1>1, SessInvHolds, PTL

(* getBackend never finds in the cache a connection that the gateway has   *)
(* closed, except while session.Close runs.                                *)
THEOREM CachedIsOpenHolds == Spec => []CachedIsOpen
  <1>1. SessInv => CachedIsOpen
    <2> SUFFICES ASSUME SessInv, NEW s \in Server, backends[s] # NoConn,
                        cstate[backends[s]] = "closed"
                 PROVE  rd \notin {"read", "sem", "notify", "snapshot"}
      BY DEF CachedIsOpen, Cached
    <2>1. backends[s] \in Conn /\ puts[backends[s]] = 0
      BY DEF SessInv, OwnInv, HolderInv, HeldLive, Live
    <2> QED BY <2>1 DEF SessInv, CloseInv
  <1> QED BY <1>1, SessInvHolds, PTL

(* As long as the client is there, whatever waits for an answer on a       *)
(* connection that works has a pump that reads it.                         *)
THEOREM AnswersHaveReaderHolds == Spec => []AnswersHaveReader
  <1>1. SessInv => AnswersHaveReader
    BY DEF SessInv, OwnInv, ControlInv, TypeOK, PumpedInv, AnswersHaveReader
  <1> QED BY <1>1, SessInvHolds, PTL

(* A request is only ever in flight on a connection of the server that     *)
(* routeMessage chose for it.                                              *)
THEOREM DeliveryHolds == Spec => []Delivery
  <1>1. SessInv => Delivery
    BY DEF SessInv, FlightInv, Delivery
  <1> QED BY <1>1, SessInvHolds, PTL

(* The client gets at most one answer to a message, whether the gateway or *)
(* a backend gives it.                                                     *)
THEOREM AtMostOneReplyHolds == Spec => []AtMostOneReply
  <1>1. SessInv => AtMostOneReply
    BY DEF SessInv, FlightInv, AtMostOneReply
  <1> QED BY <1>1, SessInvHolds, PTL

(* When the session is untracked no handler runs any more, and the usage   *)
(* events are exactly those of the calls whose handlers got a connection:  *)
(* success for what was written, failure for what was not.                 *)
THEOREM UsageSettledHolds == Spec => []UsageSettled
  <1>1. SessInv => UsageSettled
    <2> SUFFICES ASSUME SessInv, rd \in {"untrack", "done"}, NEW i \in MsgId
                 PROVE  hp[i] \in {"idle", "done"} /\ usage[i] = Outcome(i)
      BY DEF UsageSettled
    <2>1. hp[i] \in {"idle", "done"} /\ Tracked(i)
      BY DEF SessInv, KindInv, TrackInv
    <2> QED BY <2>1 DEF Tracked, Outcome
  <1> QED BY <1>1, SessInvHolds, PTL

(* A session that is over leaves no transport open, except of a connection *)
(* whose holder is about to close it and of one that a handler installed   *)
(* after Close had listed the cache.                                       *)
THEOREM LeakOnlyLateHolds == Spec => []LeakOnlyLate
  <1>1. SessInv => LeakOnlyLate
    <2> SUFFICES ASSUME SessInv, rd = "done", NEW c \in Conn,
                        cstate[c] \notin {"fresh", "closed"},
                        c \notin late
                 PROVE  \E p \in Proc : drop[p] = c
      BY DEF LeakOnlyLate
    <2>1. puts[c] = 0
      BY DEF SessInv, CloseInv
    <2>2. Live(c)
      BY <2>1 DEF Live
    <2>3. \A i \in MsgId : hp[i] # "install"
      BY DEF SessInv, KindInv
    <2>4. \A s \in Server : backends[s] # c
      BY DEF SessInv, CloseInv, PoolClosed
    <2> QED BY <2>2, <2>3, <2>4 DEF SessInv, OwnInv, HolderInv, LiveHeld
  <1> QED BY <1>1, SessInvHolds, PTL

(* Nothing that the client sent after a notification reaches a backend     *)
(* before the notification has been handled: the reader handles it before  *)
(* it reads the next message.                                              *)
THEOREM NotificationOrderHolds == Spec => NotificationOrder
  <1> DEFINE Ordered == \A i \in sent' \ sent : \A j \in 1..(i - 1) :
                          msg[j].kind = "notification" => hp[j] = "done"
  <1>1. SessInv /\ [Next]_vars => [Ordered]_vars
    <2> SUFFICES ASSUME SessInv, Next,
                        NEW i \in sent', i \notin sent,
                        NEW j \in 1..(i - 1),
                        msg[j].kind = "notification"
                 PROVE  hp[j] = "done"
      OBVIOUS
    <2>1. i \in MsgId /\ hp[i] = "write"
      <3>1. ASSUME NEW k \in MsgId, WriteOk(k)
            PROVE i \in MsgId /\ hp[i] = "write"
        BY <3>1 DEF WriteOk
      <3>2. ASSUME NEW k \in MsgId, HandlerStep(k)
            PROVE i \in MsgId /\ hp[i] = "write"
        BY <3>1, <3>2 DEF HandlerStep, Reject, LookupHit, LookupMiss, Dial,
           DialFail, Install, InstallLost, Touch, Account, WriteFail,
           HandlerDrop, Fail
      <3>3. CASE ReaderStep
        BY <3>3 DEF ReaderStep, ReadInvalid, ReadNotification, ReadRequest,
           NotificationHandled, Spawn, ReadError, CloseSnapshot, CloseBackend,
           ClosePool, CloseClient, WaitHandlers, Finish
      <3>4. ~Terminated
        BY DEF Terminated, vars
      <3> QED BY <3>2, <3>3, <3>4, OthersStill DEF Next
    <2>2. i <= nread /\ nread \in Nat
      BY <2>1 DEF SessInv, OwnInv, ControlInv, TypeOK, ReaderInv, MsgId
    <2>3. j \in MsgId /\ j < nread
      BY <2>1, <2>2 DEF MsgId
    <2>4. hp[j] # "idle"
      BY <2>2, <2>3 DEF SessInv, KindInv, MsgId
    <2>5. hp[j] \in {"done"}
      BY <2>2, <2>3, <2>4 DEF SessInv, KindInv, MsgId
    <2> QED BY <2>5
  <1> HIDE DEF Ordered
  <1>2. Spec => [][Ordered]_vars
    BY <1>1, SessInvHolds, PTL DEF Spec
  <1> QED BY <1>2 DEF NotificationOrder, Ordered

=============================================================================
