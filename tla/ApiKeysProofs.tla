--------------------------- MODULE ApiKeysProofs ---------------------------
(***************************************************************************)
(* Theorems about ApiKeys, for any number of keys, users and goroutines,   *)
(* both stores and any limits.                                             *)
(***************************************************************************)
EXTENDS ApiKeys, TLAPS, FiniteSetTheorems

(* Goroutines that a handler has given a key whose owner it has verified,  *)
(* and background goroutines that record the use of a key.                 *)
Owned == {p \in Proc : \/ pc[p] \in {"rotate", "get", "revoke"}
                       \/ p \in rotating /\ pc[p] \in {"count", "create"}}
Using == {p \in Proc : pc[p] \in {"useGet", "useUpdate"}}
Writing == {p \in Proc : pc[p] \in {"revoke", "useUpdate"}}

(* Who runs Rotate, and for whom a key is created. *)
ControlInv ==
  \A p \in Proc :
    /\ p \in rotating =>
         pc[p] \in {"rotate", "count", "create", "get", "revoke"}
    /\ pc[p] \in {"count", "create"} => user[p] \in User

(* The key a goroutine works with exists. *)
TargetInv ==
  \A p \in Owned \cup Using : target[p] \in Key /\ rec[target[p]] # NoKey

(* A request works with a key of its own user. *)
OwnerInv == \A p \in Owned : user[p] = rec[target[p]].user

(* The copy that will be written back is a key of the same user. *)
CopyInv ==
  \A p \in Writing : copy[p] \in Record /\ copy[p].user = rec[target[p]].user

IInv == TypeOK /\ ControlInv /\ TargetInv /\ OwnerInv /\ CopyInv

(* An existing key keeps its owner. *)
KeepsOwners ==
  \A k \in Key : rec[k] # NoKey => rec'[k] # NoKey /\ rec'[k].user = rec[k].user

LEMMA InitHolds == Init => IInv
BY KeysAssumption DEF Init, IInv, TypeOK, ControlInv, TargetInv, OwnerInv,
   CopyInv, Owned, Using, Writing, States

(* Every write to the store either adds a key or replaces one by a copy of *)
(* the same owner.                                                         *)
LEMMA OwnersKept == ASSUME IInv, [Next]_vars PROVE KeepsOwners
<1>1. CASE UNCHANGED rec
  BY <1>1 DEF KeepsOwners
<1>2. ASSUME NEW p \in Proc, StoreCreate(p) PROVE KeepsOwners
  BY <1>2, NoKeyAssumption DEF StoreCreate, KeepsOwners, IInv, TypeOK
<1>3. ASSUME NEW p \in Proc, RevokeUpdate(p) PROVE KeepsOwners
  <2>1. /\ copy[p] \in Record /\ target[p] \in Key
        /\ copy[p].user = rec[target[p]].user
    BY <1>3 DEF RevokeUpdate, IInv, CopyInv, TargetInv, Owned, Writing
  <2>2. [copy[p] EXCEPT !.revoked = TRUE] \in Record
    BY <2>1 DEF Record
  <2>3. [copy[p] EXCEPT !.revoked = TRUE].user = copy[p].user
    BY <2>1 DEF Record
  <2> QED
    BY <1>3, <2>1, <2>2, <2>3, NoKeyAssumption
    DEF RevokeUpdate, KeepsOwners, IInv, TypeOK
<1>4. ASSUME NEW p \in Proc, UseUpdate(p) PROVE KeepsOwners
  <2>1. /\ copy[p] \in Record /\ target[p] \in Key
        /\ copy[p].user = rec[target[p]].user
    BY <1>4 DEF UseUpdate, IInv, CopyInv, TargetInv, Using, Writing
  <2> QED
    BY <1>4, <2>1, NoKeyAssumption DEF UseUpdate, KeepsOwners, IInv, TypeOK
<1> QED
  BY <1>1, <1>2, <1>3, <1>4
  DEF Next, ProcStep, vars, Tick, BeginCreate, BeginRevoke, BeginRotate,
      BeginOwned, Authenticate, RotateGet, CountOk, CountFull, RevokeGet,
      UseGet, StoreFail

LEMMA TypePreserved == ASSUME IInv, [Next]_vars PROVE TypeOK'
<1> USE DEF IInv, TypeOK, States
<1>1. CASE UNCHANGED vars
  BY <1>1 DEF vars
<1>2. CASE Tick
  BY <1>2, KeysAssumption DEF Tick
<1>3. ASSUME NEW p \in Proc, BeginCreate(p) PROVE TypeOK'
  BY <1>3, KeysAssumption DEF BeginCreate, Goto
<1>4. ASSUME NEW p \in Proc, NEW k \in Key, BeginRevoke(p, k) PROVE TypeOK'
  BY <1>4 DEF BeginRevoke, BeginOwned, Goto
<1>5. ASSUME NEW p \in Proc, NEW k \in Key, BeginRotate(p, k) PROVE TypeOK'
  BY <1>5 DEF BeginRotate, BeginOwned, Goto
<1>6. ASSUME NEW p \in Proc, NEW k \in Key, Authenticate(p, k) PROVE TypeOK'
  BY <1>6 DEF Authenticate, Goto
<1>7. ASSUME NEW p \in Proc, RotateGet(p) PROVE TypeOK'
  <2>1. target[p] \in Key /\ rec[target[p]] \in Record
    BY <1>7 DEF RotateGet, TargetInv, Owned
  <2>2. ASSUME rec[target[p]].expires # Never, rec[target[p]].expires > now
        PROVE  rec[target[p]].expires - now \in Nat
    BY <2>1, <2>2, KeysAssumption DEF Record
  <2>3. expiry' \in [Proc -> Nat]
    BY <1>7, <2>2 DEF RotateGet
  <2> QED
    BY <1>7, <2>1, <2>3 DEF RotateGet, Goto
<1>8. ASSUME NEW p \in Proc, CountOk(p) PROVE TypeOK'
  BY <1>8 DEF CountOk, Goto
<1>9. ASSUME NEW p \in Proc, CountFull(p) PROVE TypeOK'
  BY <1>9 DEF CountFull, Finish, Goto
<1>10. ASSUME NEW p \in Proc, StoreCreate(p) PROVE TypeOK'
  <2>1. user[p] \in User
    BY <1>10 DEF StoreCreate, ControlInv
  <2>2. ExpiresAt(expiry[p]) \in Nat \cup {Never}
    BY KeysAssumption DEF ExpiresAt
  <2>3. rec' \in [Key -> Record \cup {NoKey}]
    BY <1>10, <2>1, <2>2 DEF StoreCreate, Record
  <2> QED
    BY <1>10, <2>3 DEF StoreCreate, Finish, Goto
<1>11. ASSUME NEW p \in Proc, RevokeGet(p) PROVE TypeOK'
  BY <1>11 DEF RevokeGet, Goto, TargetInv, Owned
<1>12. ASSUME NEW p \in Proc, RevokeUpdate(p) PROVE TypeOK'
  <2>1. copy[p] \in Record /\ target[p] \in Key
    BY <1>12 DEF RevokeUpdate, CopyInv, TargetInv, Owned, Writing
  <2>2. [copy[p] EXCEPT !.revoked = TRUE] \in Record
    BY <2>1 DEF Record
  <2> QED
    BY <1>12, <2>1, <2>2 DEF RevokeUpdate, Finish, Goto
<1>13. ASSUME NEW p \in Proc, UseGet(p) PROVE TypeOK'
  BY <1>13 DEF UseGet, Goto, TargetInv, Using
<1>14. ASSUME NEW p \in Proc, UseUpdate(p) PROVE TypeOK'
  BY <1>14 DEF UseUpdate, Finish, Goto, CopyInv, TargetInv, Using, Writing
<1>15. ASSUME NEW p \in Proc, StoreFail(p) PROVE TypeOK'
  BY <1>15 DEF StoreFail, Finish, Goto, TargetInv, Owned
<1> QED
  BY <1>1, <1>2, <1>3, <1>4, <1>5, <1>6, <1>7, <1>8, <1>9, <1>10, <1>11,
     <1>12, <1>13, <1>14, <1>15
  DEF Next, ProcStep

(* What a goroutine relies on survives the steps of the others, because    *)
(* keys keep their owners, and its own steps establish it.                 *)
LEMMA RestPreserved ==
  ASSUME IInv, [Next]_vars
  PROVE  ControlInv' /\ TargetInv' /\ OwnerInv' /\ CopyInv'
<1> USE DEF IInv, TypeOK, States, ControlInv, TargetInv, OwnerInv, CopyInv,
            Owned, Using, Writing
<1>0. KeepsOwners
  BY OwnersKept
<1>1. CASE UNCHANGED vars
  BY <1>1 DEF vars
<1>2. CASE Tick
  BY <1>2 DEF Tick
<1>3. ASSUME NEW p \in Proc, BeginCreate(p)
      PROVE  ControlInv' /\ TargetInv' /\ OwnerInv' /\ CopyInv'
  BY <1>3 DEF BeginCreate, Goto
<1>4. ASSUME NEW p \in Proc, NEW k \in Key, BeginRevoke(p, k)
      PROVE  ControlInv' /\ TargetInv' /\ OwnerInv' /\ CopyInv'
  BY <1>4 DEF BeginRevoke, BeginOwned, Owns, Goto
<1>5. ASSUME NEW p \in Proc, NEW k \in Key, BeginRotate(p, k)
      PROVE  ControlInv' /\ TargetInv' /\ OwnerInv' /\ CopyInv'
  BY <1>5 DEF BeginRotate, BeginOwned, Owns, Goto
<1>6. ASSUME NEW p \in Proc, NEW k \in Key, Authenticate(p, k)
      PROVE  ControlInv' /\ TargetInv' /\ OwnerInv' /\ CopyInv'
  BY <1>6 DEF Authenticate, Validate, Goto
<1>7. ASSUME NEW p \in Proc, RotateGet(p)
      PROVE  ControlInv' /\ TargetInv' /\ OwnerInv' /\ CopyInv'
  BY <1>7 DEF RotateGet, Goto, Record
<1>8. ASSUME NEW p \in Proc, CountOk(p)
      PROVE  ControlInv' /\ TargetInv' /\ OwnerInv' /\ CopyInv'
  BY <1>8 DEF CountOk, Goto
<1>9. ASSUME NEW p \in Proc, CountFull(p)
      PROVE  ControlInv' /\ TargetInv' /\ OwnerInv' /\ CopyInv'
  BY <1>9 DEF CountFull, Finish, Goto
<1>10. ASSUME NEW p \in Proc, StoreCreate(p)
       PROVE  ControlInv' /\ TargetInv' /\ OwnerInv' /\ CopyInv'
  BY <1>10, <1>0 DEF StoreCreate, KeepsOwners, Finish, Goto
<1>11. ASSUME NEW p \in Proc, RevokeGet(p)
       PROVE  ControlInv' /\ TargetInv' /\ OwnerInv' /\ CopyInv'
  BY <1>11 DEF RevokeGet, Goto
<1>12. ASSUME NEW p \in Proc, RevokeUpdate(p)
       PROVE  ControlInv' /\ TargetInv' /\ OwnerInv' /\ CopyInv'
  BY <1>12, <1>0 DEF RevokeUpdate, KeepsOwners, Finish, Goto
<1>13. ASSUME NEW p \in Proc, UseGet(p)
       PROVE  ControlInv' /\ TargetInv' /\ OwnerInv' /\ CopyInv'
  BY <1>13 DEF UseGet, Goto
<1>14. ASSUME NEW p \in Proc, UseUpdate(p)
       PROVE  ControlInv' /\ TargetInv' /\ OwnerInv' /\ CopyInv'
  BY <1>14, <1>0 DEF UseUpdate, KeepsOwners, Finish, Goto
<1>15. ASSUME NEW p \in Proc, StoreFail(p)
       PROVE  ControlInv' /\ TargetInv' /\ OwnerInv' /\ CopyInv'
  BY <1>15 DEF StoreFail, Finish, Goto
<1> QED
  BY <1>1, <1>2, <1>3, <1>4, <1>5, <1>6, <1>7, <1>8, <1>9, <1>10, <1>11,
     <1>12, <1>13, <1>14, <1>15
  DEF Next, ProcStep

LEMMA IInvHolds == Spec => []IInv
<1>1. IInv /\ [Next]_vars => IInv'
  BY TypePreserved, RestPreserved DEF IInv
<1> QED
  BY InitHolds, <1>1, PTL DEF Spec

(* KeysTypeCorrect: the type invariant holds in every reachable state. *)
THEOREM KeysTypeCorrect == Spec => []TypeOK
<1>1. IInv => TypeOK
  BY DEF IInv
<1> QED
  BY IInvHolds, <1>1, PTL

(* OwnerOnlyHolds: whatever happens between the handler's check of the     *)
(* owner and the manager's write, only the owner's request and the record  *)
(* of a use change an existing key.                                        *)
THEOREM OwnerOnlyHolds == Spec => OwnerOnly
<1>1. ASSUME IInv, Next, NEW k \in Key, rec[k] # NoKey, rec'[k] # rec[k]
      PROVE  \E p \in Proc : /\ target[p] = k
                             /\ \/ pc[p] = "revoke" /\ user[p] = rec[k].user
                                \/ pc[p] = "useUpdate"
  <2> USE DEF IInv, TypeOK
  <2>1. ASSUME NEW p \in Proc, StoreCreate(p) PROVE FALSE
    BY <1>1, <2>1 DEF StoreCreate
  <2>2. ASSUME NEW p \in Proc, RevokeUpdate(p)
        PROVE  target[p] = k /\ pc[p] = "revoke" /\ user[p] = rec[k].user
    BY <1>1, <2>2 DEF RevokeUpdate, OwnerInv, Owned
  <2>3. ASSUME NEW p \in Proc, UseUpdate(p)
        PROVE  target[p] = k /\ pc[p] = "useUpdate"
    BY <1>1, <2>3 DEF UseUpdate
  <2> QED
    BY <1>1, <2>1, <2>2, <2>3
    DEF Next, ProcStep, Tick, BeginCreate, BeginRevoke, BeginRotate,
        BeginOwned, Authenticate, RotateGet, CountOk, CountFull, RevokeGet,
        UseGet, StoreFail
<1>2. IInv /\ [Next]_vars =>
        [\A k \in Key : rec[k] # NoKey /\ rec'[k] # rec[k] =>
           \E p \in Proc : /\ target[p] = k
                           /\ \/ pc[p] = "revoke" /\ user[p] = rec[k].user
                              \/ pc[p] = "useUpdate"]_vars
  BY <1>1
<1> QED
  BY IInvHolds, <1>2, PTL DEF Spec, OwnerOnly

(* RevocationSettlesHolds: once a key is revoked and no UpdateLastUsed     *)
(* that read it earlier is still to write, it is never valid again.        *)
THEOREM RevocationSettlesHolds == Spec => RevocationSettles
<1>1. ASSUME IInv, Next, NEW k \in Key, Settled(k) PROVE Settled(k)'
  <2> USE <1>1 DEF IInv, TypeOK, States, Settled, StaleUse
  <2>1. CASE Tick
    BY <2>1 DEF Tick
  <2>2. ASSUME NEW p \in Proc, BeginCreate(p) PROVE Settled(k)'
    BY <2>2 DEF BeginCreate, Goto
  <2>3. ASSUME NEW p \in Proc, NEW j \in Key,
               BeginRevoke(p, j) \/ BeginRotate(p, j)
        PROVE  Settled(k)'
    BY <2>3 DEF BeginRevoke, BeginRotate, BeginOwned, Goto
  <2>4. ASSUME NEW p \in Proc, NEW j \in Key, Authenticate(p, j)
        PROVE  Settled(k)'
    BY <2>4 DEF Authenticate, Goto
  <2>5. ASSUME NEW p \in Proc, RotateGet(p) \/ CountOk(p) \/ RevokeGet(p)
        PROVE  Settled(k)'
    BY <2>5 DEF RotateGet, CountOk, RevokeGet, Goto
  <2>6. ASSUME NEW p \in Proc, CountFull(p) \/ StoreFail(p) PROVE Settled(k)'
    BY <2>6 DEF CountFull, StoreFail, Finish, Goto
  <2>7. ASSUME NEW p \in Proc, StoreCreate(p) PROVE Settled(k)'
    <3>1. rec'[k] = rec[k]
      BY <2>7 DEF StoreCreate
    <3> QED
      BY <2>7, <3>1 DEF StoreCreate, Finish, Goto
  <2>8. ASSUME NEW p \in Proc, RevokeUpdate(p) PROVE Settled(k)'
    <3>1. copy[p] \in Record /\ target[p] \in Key
      BY <2>8 DEF RevokeUpdate, CopyInv, TargetInv, Owned, Writing
    <3>2. /\ [copy[p] EXCEPT !.revoked = TRUE] \in Record
          /\ [copy[p] EXCEPT !.revoked = TRUE].revoked
      BY <3>1 DEF Record
    <3>3. rec'[k] # NoKey /\ rec'[k].revoked
      BY <2>8, <3>1, <3>2, NoKeyAssumption DEF RevokeUpdate
    <3> QED
      BY <2>8, <3>3 DEF RevokeUpdate, Finish, Goto
  <2>9. ASSUME NEW p \in Proc, UseGet(p) PROVE Settled(k)'
    BY <2>9 DEF UseGet, Goto
  <2>10. ASSUME NEW p \in Proc, UseUpdate(p) PROVE Settled(k)'
    <3>1. copy[p] \in Record /\ target[p] \in Key
      BY <2>10 DEF UseUpdate, CopyInv, TargetInv, Using, Writing
    <3>2. target[p] = k => copy[p].revoked
      BY <2>10 DEF UseUpdate
    <3>3. rec'[k] # NoKey /\ rec'[k].revoked
      BY <2>10, <3>1, <3>2, NoKeyAssumption DEF UseUpdate
    <3> QED
      BY <2>10, <3>3 DEF UseUpdate, Finish, Goto
  <2> QED
    BY <2>1, <2>2, <2>3, <2>4, <2>5, <2>6, <2>7, <2>8, <2>9, <2>10
    DEF Next, ProcStep
<1>2. IInv /\ [Next]_vars =>
        [\A k \in Key : Settled(k) => Settled(k)']_vars
  BY <1>1
<1> QED
  BY IInvHolds, <1>2, PTL DEF Spec, RevocationSettles
-----------------------------------------------------------------------------
(* The limit on the keys of a user *)

(* A revoked key has been reported, a copy that says so is of a reported   *)
(* key, and no copy disagrees with its key about the expiry: a write of    *)
(* UpdateLastUsed makes no key count again except a reported one.          *)
MarkInv ==
  /\ \A k \in Key : rec[k] # NoKey /\ rec[k].revoked => k \in reported
  /\ \A p \in Writing : /\ copy[p].revoked => target[p] \in reported
                        /\ copy[p].expires = rec[target[p]].expires

(* The keys that count for u, and the requests that will add one. *)
Standing(u) == Counted(u) \ reported
Creating(u) == {p \in Proc : pc[p] = "create" /\ user[p] = u}

(* The strengthening of LimitOvershoot: a request that has passed the      *)
(* count has its key already.                                              *)
CreateInv ==
  \A u \in User : Limited(u) =>
    Cardinality(Standing(u)) + Cardinality(Creating(u))
      <= MaxKeysPerUser + Cardinality(Proc) - 1

LimitInv == IInv /\ MarkInv /\ CreateInv

LEMMA CountsFinite ==
  ASSUME NEW u, NEW S, NEW T, S \subseteq Standing(u), T \subseteq Creating(u)
  PROVE /\ IsFiniteSet(Standing(u)) /\ IsFiniteSet(Creating(u))
        /\ IsFiniteSet(S) /\ IsFiniteSet(T)
        /\ Cardinality(S) \in Nat /\ Cardinality(Standing(u)) \in Nat
        /\ Cardinality(S) <= Cardinality(Standing(u))
        /\ Cardinality(T) \in Nat /\ Cardinality(Creating(u)) \in Nat
        /\ Cardinality(T) <= Cardinality(Creating(u))
        /\ Cardinality(Creating(u)) <= Cardinality(Proc)
        /\ Cardinality(Proc) \in Nat
<1>1. Standing(u) \subseteq Key /\ Creating(u) \subseteq Proc
  BY DEF Standing, Counted, Creating
<1>2. IsFiniteSet(Standing(u)) /\ IsFiniteSet(Creating(u))
      /\ Cardinality(Creating(u)) <= Cardinality(Proc)
  BY <1>1, KeysAssumption, FS_Subset
<1> QED BY <1>2, KeysAssumption, FS_Subset, FS_CardinalityType

LEMMA LimitInit == Init => LimitInv
<1> SUFFICES ASSUME Init PROVE LimitInv
  OBVIOUS
<1>1. MarkInv
  BY DEF Init, MarkInv, Writing
<1>2. \A u \in User : Standing(u) = {} /\ Creating(u) = {}
  BY DEF Init, Standing, Counted, Creating
<1>3. Cardinality({}) = 0 /\ Cardinality(Proc) \in Nat
  BY FS_EmptySet, FS_CardinalityType, KeysAssumption
<1>4. CreateInv
  <2> SUFFICES ASSUME NEW u \in User, MaxKeysPerUser > 0
               PROVE Cardinality(Standing(u)) + Cardinality(Creating(u))
                       <= MaxKeysPerUser + Cardinality(Proc) - 1
    BY DEF CreateInv, Limited
  <2>1. Cardinality(Standing(u)) = 0 /\ Cardinality(Creating(u)) = 0
    BY <1>2, <1>3
  <2> QED BY <2>1, <1>3, KeysAssumption
<1> QED BY InitHolds, <1>1, <1>4 DEF LimitInv

(* Steps that add neither a key that counts nor a request for one. *)
LEMMA CreateShrinks ==
  ASSUME LimitInv, \A u \in User : /\ Standing(u)' \subseteq Standing(u)
                                   /\ Creating(u)' \subseteq Creating(u)
  PROVE CreateInv'
<1> SUFFICES ASSUME NEW u \in User, Limited(u)
             PROVE Cardinality(Standing(u)') + Cardinality(Creating(u)')
                     <= MaxKeysPerUser + Cardinality(Proc) - 1
  BY DEF CreateInv, Limited
<1>1. Cardinality(Standing(u)) + Cardinality(Creating(u))
        <= MaxKeysPerUser + Cardinality(Proc) - 1
  BY DEF LimitInv, CreateInv
<1>2. \E S, T : S = Standing(u)' /\ T = Creating(u)'
  OBVIOUS
<1>3. PICK S, T : S = Standing(u)' /\ T = Creating(u)'
  BY <1>2
<1>4. S \subseteq Standing(u) /\ T \subseteq Creating(u)
  BY <1>3
<1>5. /\ Cardinality(S) \in Nat /\ Cardinality(Standing(u)) \in Nat
      /\ Cardinality(S) <= Cardinality(Standing(u))
      /\ Cardinality(T) \in Nat /\ Cardinality(Creating(u)) \in Nat
      /\ Cardinality(T) <= Cardinality(Creating(u))
      /\ Cardinality(Proc) \in Nat
  BY <1>4, CountsFinite
<1>6. Cardinality(S) + Cardinality(T) <= MaxKeysPerUser + Cardinality(Proc) - 1
  BY <1>1, <1>5, KeysAssumption
<1> QED BY <1>3, <1>6

LEMMA MarkPreserved == ASSUME LimitInv, [Next]_vars PROVE MarkInv'
<1> USE DEF LimitInv, MarkInv, IInv, TypeOK, States, TargetInv, CopyInv, Owned,
            Using, Writing
<1>1. CASE UNCHANGED vars
  BY <1>1 DEF vars
<1>2. CASE Tick
  BY <1>2 DEF Tick
<1>3. ASSUME NEW p \in Proc, BeginCreate(p) PROVE MarkInv'
  BY <1>3 DEF BeginCreate, Goto
<1>4. ASSUME NEW p \in Proc, NEW k \in Key, BeginRevoke(p, k) \/ BeginRotate(p, k)
      PROVE MarkInv'
  BY <1>4 DEF BeginRevoke, BeginRotate, BeginOwned, Goto
<1>5. ASSUME NEW p \in Proc, NEW k \in Key, Authenticate(p, k) PROVE MarkInv'
  BY <1>5 DEF Authenticate, Goto
<1>6. ASSUME NEW p \in Proc, RotateGet(p) \/ CountOk(p) PROVE MarkInv'
  BY <1>6 DEF RotateGet, CountOk, Goto
<1>7. ASSUME NEW p \in Proc, CountFull(p) \/ StoreFail(p) PROVE MarkInv'
  BY <1>7 DEF CountFull, StoreFail, Finish, Goto
<1>8. ASSUME NEW p \in Proc, StoreCreate(p) PROVE MarkInv'
  <2>1. PICK k \in Key :
          /\ rec[k] = NoKey
          /\ rec' = [rec EXCEPT ![k] = [user |-> user[p], revoked |-> FALSE,
                                        expires |-> ExpiresAt(expiry[p])]]
    BY <1>8 DEF StoreCreate
  <2>2. \A j \in Key : IF j = k THEN rec'[j].revoked = FALSE ELSE rec'[j] = rec[j]
    BY <2>1
  <2>3. \A q \in Proc : pc'[q] \in {"revoke", "useUpdate"} =>
          /\ pc[q] = pc'[q] /\ copy'[q] = copy[q] /\ target'[q] = target[q]
          /\ target[q] # k /\ target[q] \in Key
    BY <1>8, <2>1 DEF StoreCreate, Finish, Goto
  <2>4. reported' = reported
    BY <1>8 DEF StoreCreate
  <2> QED BY <2>2, <2>3, <2>4
<1>9. ASSUME NEW p \in Proc, RevokeGet(p) \/ UseGet(p) PROVE MarkInv'
  BY <1>9 DEF RevokeGet, UseGet, Goto
<1>10. ASSUME NEW p \in Proc, RevokeUpdate(p) \/ UseUpdate(p) PROVE MarkInv'
  <2>1. copy[p] \in Record /\ target[p] \in Key
        /\ copy[p].expires = rec[target[p]].expires
        /\ copy[p].revoked => target[p] \in reported
    BY <1>10 DEF RevokeUpdate, UseUpdate
  <2>2. /\ [copy[p] EXCEPT !.revoked = TRUE].expires = copy[p].expires
        /\ [copy[p] EXCEPT !.revoked = TRUE].revoked = TRUE
    BY <2>1 DEF Record
  <2>3. /\ reported \subseteq reported'
        /\ \A k \in Key : k # target[p] => rec'[k] = rec[k]
        /\ rec'[target[p]].expires = rec[target[p]].expires
        /\ rec'[target[p]].revoked => target[p] \in reported'
    BY <1>10, <2>1, <2>2 DEF RevokeUpdate, UseUpdate
  <2>4. \A q \in Proc : pc'[q] \in {"revoke", "useUpdate"} =>
          /\ pc[q] = pc'[q] /\ copy'[q] = copy[q] /\ target'[q] = target[q]
          /\ target[q] \in Key
    BY <1>10 DEF RevokeUpdate, UseUpdate, Finish, Goto
  <2> QED BY <2>1, <2>3, <2>4
<1> QED
  BY <1>1, <1>2, <1>3, <1>4, <1>5, <1>6, <1>7, <1>8, <1>9, <1>10
  DEF Next, ProcStep

LEMMA CreatePreserved == ASSUME LimitInv, [Next]_vars PROVE CreateInv'
<1>0. TypeOK /\ IInv
  BY DEF LimitInv, IInv
<1>1. CASE UNCHANGED vars
  <2>1. \A u \in User : Standing(u)' = Standing(u) /\ Creating(u)' = Creating(u)
    BY <1>1 DEF vars, Standing, Counted, IsValid, IsExpired, Creating
  <2> QED BY <2>1, CreateShrinks
<1>2. CASE Tick
  <2>1. now' = now + 1 /\ now \in Nat /\ UNCHANGED <<rec, pc, user, reported>>
    BY <1>2, <1>0, KeysAssumption DEF Tick, TypeOK
  <2>2. \A k \in Key : rec[k] # NoKey => (IsExpired(rec[k]) => IsExpired(rec[k])')
    BY <2>1, <1>0, KeysAssumption DEF IsExpired, TypeOK, Record
  <2>3. \A u \in User : Standing(u)' \subseteq Standing(u)
    BY <2>1, <2>2 DEF Standing, Counted, IsValid
  <2>4. \A u \in User : Creating(u)' \subseteq Creating(u)
    BY <2>1 DEF Creating
  <2> QED BY <2>3, <2>4, CreateShrinks
<1>3. ASSUME NEW p \in Proc, UNCHANGED <<now, rec>>, reported \subseteq reported',
             \A q \in Proc : pc'[q] = "create" => pc[q] = "create" /\ user'[q] = user[q]
      PROVE CreateInv'
  <2>1. \A u \in User : Standing(u)' \subseteq Standing(u)
    BY <1>3 DEF Standing, Counted, IsValid, IsExpired
  <2>2. \A u \in User : Creating(u)' \subseteq Creating(u)
    BY <1>3 DEF Creating
  <2> QED BY <2>1, <2>2, CreateShrinks
<1>4. ASSUME NEW p \in Proc,
             \/ BeginCreate(p)
             \/ \E k \in Key : BeginRevoke(p, k) \/ BeginRotate(p, k)
                               \/ Authenticate(p, k)
             \/ RotateGet(p) \/ CountFull(p) \/ RevokeGet(p) \/ UseGet(p)
             \/ StoreFail(p)
      PROVE CreateInv'
  <2>1. UNCHANGED <<now, rec>> /\ reported \subseteq reported'
    BY <1>4 DEF BeginCreate, BeginRevoke, BeginRotate, BeginOwned, Authenticate,
       RotateGet, CountFull, RevokeGet, UseGet, StoreFail
  <2>2. \A q \in Proc : pc'[q] = "create" => pc[q] = "create" /\ user'[q] = user[q]
    BY <1>4, <1>0 DEF TypeOK, BeginCreate, BeginRevoke, BeginRotate, BeginOwned,
       Authenticate, RotateGet, CountFull, RevokeGet, UseGet, StoreFail, Finish,
       Goto
  <2> QED BY <2>1, <2>2, <1>3
<1>5. ASSUME NEW p \in Proc, CountOk(p) PROVE CreateInv'
  <2>1. UNCHANGED <<now, rec, reported, user>> /\ pc' = [pc EXCEPT ![p] = "create"]
        /\ UnderLimit(user[p])
    BY <1>5 DEF CountOk, Goto
  <2>2. \A u \in User : Standing(u)' = Standing(u)
    BY <2>1 DEF Standing, Counted, IsValid, IsExpired
  <2>3. \A u \in User : u # user[p] => Creating(u)' = Creating(u)
    BY <2>1, <1>0 DEF Creating, TypeOK
  <2> SUFFICES ASSUME NEW u \in User, Limited(u)
               PROVE Cardinality(Standing(u)') + Cardinality(Creating(u)')
                       <= MaxKeysPerUser + Cardinality(Proc) - 1
    BY DEF CreateInv, Limited
  <2>4. CASE u = user[p]
    <3>1. Cardinality(Counted(u)) < MaxKeysPerUser
      BY <2>1, <2>4 DEF UnderLimit
    <3>2. Standing(u) \subseteq Counted(u) /\ Counted(u) \subseteq Key
          /\ Creating(u)' \subseteq Proc
      BY DEF Standing, Counted, Creating
    <3>3. /\ Cardinality(Standing(u)) <= Cardinality(Counted(u))
          /\ Cardinality(Standing(u)) \in Nat /\ Cardinality(Counted(u)) \in Nat
          /\ Cardinality(Creating(u)') <= Cardinality(Proc)
          /\ Cardinality(Creating(u)') \in Nat /\ Cardinality(Proc) \in Nat
      BY <3>2, KeysAssumption, FS_Subset, FS_CardinalityType
    <3>4. Cardinality(Standing(u)) + Cardinality(Creating(u)')
            <= MaxKeysPerUser + Cardinality(Proc) - 1
      BY <3>1, <3>3, KeysAssumption
    <3> QED BY <3>4, <2>2
  <2>5. CASE u # user[p]
    BY <2>2, <2>3, <2>5 DEF LimitInv, CreateInv
  <2> QED BY <2>4, <2>5
<1>6. ASSUME NEW p \in Proc, RevokeUpdate(p) \/ UseUpdate(p) PROVE CreateInv'
  <2>1. /\ copy[p] \in Record /\ target[p] \in Key /\ rec[target[p]] # NoKey
        /\ copy[p].expires = rec[target[p]].expires
        /\ copy[p].user = rec[target[p]].user
        /\ rec[target[p]].revoked => target[p] \in reported
    BY <1>6 DEF RevokeUpdate, UseUpdate, LimitInv, MarkInv, IInv, TargetInv,
       CopyInv, Owned, Using, Writing
  <2>2. /\ now' = now /\ reported \subseteq reported'
        /\ \A k \in Key : k # target[p] => rec'[k] = rec[k]
        /\ target[p] \in reported' \/ rec'[target[p]] = copy[p]
    BY <1>6, <2>1, <1>0 DEF RevokeUpdate, UseUpdate, TypeOK
  <2>3. ASSUME NEW u \in User, NEW k \in Standing(u)'
        PROVE k \in Standing(u)
    <3>1. k \in Key /\ k \notin reported' /\ k \notin reported /\ rec'[k] # NoKey
          /\ rec'[k].user = u
          /\ IF Memory THEN IsValid(rec[k])' ELSE ~rec'[k].revoked
      BY <2>2 DEF Standing, Counted
    <3>2. CASE k # target[p]
      BY <2>2, <3>1, <3>2 DEF Standing, Counted, IsValid, IsExpired
    <3>3. CASE k = target[p]
      <4>1. rec'[k] = copy[p] /\ ~rec[k].revoked
        BY <2>1, <2>2, <3>1, <3>3
      <4>2. IsValid(rec[k])' => IsValid(rec[k])
        BY <2>1, <2>2, <3>3, <4>1 DEF IsValid, IsExpired
      <4> QED BY <2>1, <3>1, <3>3, <4>1, <4>2 DEF Standing, Counted
    <3> QED BY <3>2, <3>3
  <2>4. \A u \in User : Creating(u)' \subseteq Creating(u)
    BY <1>6, <1>0 DEF RevokeUpdate, UseUpdate, Finish, Goto, Creating, TypeOK
  <2> QED BY <2>3, <2>4, CreateShrinks
<1>7. ASSUME NEW p \in Proc, StoreCreate(p) PROVE CreateInv'
  <2>1. PICK k \in Key :
          /\ rec[k] = NoKey
          /\ rec' = [rec EXCEPT ![k] = [user |-> user[p], revoked |-> FALSE,
                                        expires |-> ExpiresAt(expiry[p])]]
    BY <1>7 DEF StoreCreate
  <2>2. rec'[k].user = user[p] /\ \A j \in Key : j # k => rec'[j] = rec[j]
    BY <2>1, <1>0 DEF TypeOK
  <2>3. UNCHANGED <<now, reported>>
    BY <1>7 DEF StoreCreate
  <2>4. \A u \in User : Standing(u)' \subseteq
                          IF u = user[p] THEN Standing(u) \cup {k} ELSE Standing(u)
    BY <2>2, <2>3 DEF Standing, Counted, IsValid, IsExpired
  <2>5. \A u \in User : Creating(u)' \subseteq
                          IF u = user[p] THEN Creating(u) \ {p} ELSE Creating(u)
    BY <1>7, <1>0 DEF StoreCreate, Finish, Goto, Creating, TypeOK
  <2>6. \A u \in User : u = user[p] => p \in Creating(u)
    BY <1>7 DEF StoreCreate, Creating
  <2> SUFFICES ASSUME NEW u \in User, Limited(u)
               PROVE Cardinality(Standing(u)') + Cardinality(Creating(u)')
                       <= MaxKeysPerUser + Cardinality(Proc) - 1
    BY DEF CreateInv, Limited
  <2>7. Cardinality(Standing(u)) + Cardinality(Creating(u))
          <= MaxKeysPerUser + Cardinality(Proc) - 1
    BY DEF LimitInv, CreateInv
  <2>8. PICK S, T : S = Standing(u)' /\ T = Creating(u)'
    OBVIOUS
  <2>9. /\ IsFiniteSet(Standing(u)) /\ IsFiniteSet(Creating(u))
        /\ Cardinality(Standing(u)) \in Nat /\ Cardinality(Creating(u)) \in Nat
        /\ Cardinality(Proc) \in Nat
    BY CountsFinite
  <2>10. CASE u = user[p]
    <3>1. S \subseteq Standing(u) \cup {k} /\ T \subseteq Creating(u) \ {p}
          /\ p \in Creating(u)
      BY <2>4, <2>5, <2>6, <2>8, <2>10
    <3>2. /\ IsFiniteSet(Standing(u) \cup {k})
          /\ Cardinality(Standing(u) \cup {k}) <= Cardinality(Standing(u)) + 1
          /\ Cardinality(Standing(u) \cup {k}) \in Nat
      <4>1. \A R : IsFiniteSet(R) => IsFiniteSet(R \cup {k})
        BY FS_AddElement
      <4>2. \A R : IsFiniteSet(R) => Cardinality(R \cup {k}) =
                      IF k \in R THEN Cardinality(R) ELSE Cardinality(R) + 1
        BY FS_AddElement
      <4> QED BY <2>9, <4>1, <4>2, FS_CardinalityType
    <3>3. /\ IsFiniteSet(Creating(u) \ {p})
          /\ Cardinality(Creating(u) \ {p}) = Cardinality(Creating(u)) - 1
          /\ Cardinality(Creating(u) \ {p}) \in Nat
      BY <2>9, <3>1, FS_RemoveElement, FS_CardinalityType
    <3>4. /\ Cardinality(S) <= Cardinality(Standing(u) \cup {k})
          /\ Cardinality(T) <= Cardinality(Creating(u) \ {p})
          /\ Cardinality(S) \in Nat /\ Cardinality(T) \in Nat
      BY <3>1, <3>2, <3>3, FS_Subset, FS_CardinalityType
    <3>5. Cardinality(S) + Cardinality(T) <= MaxKeysPerUser + Cardinality(Proc) - 1
      BY <2>7, <2>9, <3>2, <3>3, <3>4, KeysAssumption
    <3> QED BY <3>5, <2>8
  <2>11. CASE u # user[p]
    <3>1. S \subseteq Standing(u) /\ T \subseteq Creating(u)
      BY <2>4, <2>5, <2>8, <2>11
    <3>2. /\ Cardinality(S) <= Cardinality(Standing(u)) /\ Cardinality(S) \in Nat
          /\ Cardinality(T) <= Cardinality(Creating(u)) /\ Cardinality(T) \in Nat
      BY <3>1, CountsFinite
    <3>3. Cardinality(S) + Cardinality(T) <= MaxKeysPerUser + Cardinality(Proc) - 1
      BY <2>7, <2>9, <3>2, KeysAssumption
    <3> QED BY <3>3, <2>8
  <2> QED BY <2>10, <2>11
<1> QED
  BY <1>1, <1>2, <1>4, <1>5, <1>6, <1>7 DEF Next, ProcStep

(* LimitOvershootHolds: the count and the insertion of a key are two       *)
(* accesses of the store, so that requests that count together exceed      *)
(* MaxKeysPerUser; by at most one less than there are goroutines, whatever *)
(* is revoked, rotated, used or expires meanwhile (manager.go, Create).    *)
THEOREM LimitOvershootHolds == Spec => []LimitOvershoot
<1>1. LimitInv /\ [Next]_vars => LimitInv'
  <2>1. IInv /\ [Next]_vars => IInv'
    BY TypePreserved, RestPreserved DEF IInv
  <2> QED BY <2>1, MarkPreserved, CreatePreserved DEF LimitInv
<1>2. LimitInv => LimitOvershoot
  <2> SUFFICES ASSUME LimitInv, NEW u \in User, Limited(u)
               PROVE Cardinality(Standing(u)) <= MaxKeysPerUser + Cardinality(Proc) - 1
    BY DEF LimitOvershoot, Standing
  <2>1. Cardinality(Standing(u)) + Cardinality(Creating(u))
          <= MaxKeysPerUser + Cardinality(Proc) - 1
    BY DEF LimitInv, CreateInv
  <2>2. /\ Cardinality(Standing(u)) \in Nat /\ Cardinality(Creating(u)) \in Nat
        /\ Cardinality(Proc) \in Nat
    BY CountsFinite
  <2> QED BY <2>1, <2>2, KeysAssumption
<1> QED BY LimitInit, <1>1, <1>2, PTL DEF Spec

=============================================================================
