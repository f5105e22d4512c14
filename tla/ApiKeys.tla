------------------------------ MODULE ApiKeys ------------------------------
(***************************************************************************)
(* API keys: the REST handlers (internal/httpapi/server.go), the manager   *)
(* and its stores (internal/apikeys) and the authenticator that records a  *)
(* key's last use in the background (internal/auth/apikey.go).             *)
(*                                                                         *)
(* Every call of the store is atomic; the manager reads a key, changes its *)
(* copy and writes the whole copy back.  A goroutine is one REST request   *)
(* or one background UpdateLastUsed.  Tenants are left out: a user stands  *)
(* for a pair of tenant and subject.                                       *)
(***************************************************************************)
EXTENDS Naturals, FiniteSets

CONSTANTS
  Key,            \* key IDs (bounds the number of keys created)
  User,           \* principals
  Anonymous,      \* the principal without a subject, or none of User
  Proc,           \* goroutines
  MaxKeysPerUser, \* cfg.MaxKeysPerUser, 0 for unlimited
  DefaultExpiry,  \* cfg.DefaultExpiry, 0 for none
  ExpiresIn,      \* expiries a client asks for, 0 for none
  MaxTime,        \* bound on the clock
  Memory,         \* cfg.Store = "memory"; otherwise Postgres
  KeyAuth,        \* is APIKeyAuthenticator in use?
  Never, NoKey,   \* no expiry; no such key
  NoUser, NoId    \* a goroutine that runs nothing

ASSUME KeysAssumption ==
  /\ IsFiniteSet(Key) /\ IsFiniteSet(Proc)
  /\ MaxKeysPerUser \in Nat /\ DefaultExpiry \in Nat /\ MaxTime \in Nat
  /\ ExpiresIn \subseteq Nat
  /\ Memory \in BOOLEAN /\ KeyAuth \in BOOLEAN
  /\ Never \notin Nat /\ NoUser \notin User /\ NoId \notin Key

Record == [user : User, expires : Nat \cup {Never}, revoked : BOOLEAN]

ASSUME NoKeyAssumption == NoKey \notin Record

VARIABLES
  now,      \* the clock
  rec,      \* the store: per ID its key, or NoKey
  pc,       \* control state of each goroutine
  rotating, \* goroutines that run Rotate
  user,     \* per goroutine: the principal of its request
  target,   \* per goroutine: the key ID it was given
  copy,     \* per goroutine: the key it has read
  expiry,   \* per goroutine: ExpiresIn of the key to create
  reported  \* keys that Revoke or Rotate has reported as revoked

vars == <<now, rec, pc, rotating, user, target, copy, expiry, reported>>

States == {"idle", "rotate", "count", "create", "get", "revoke",
           "useGet", "useUpdate"}

Init ==
  /\ now = 0
  /\ rec = [k \in Key |-> NoKey]
  /\ pc = [p \in Proc |-> "idle"]
  /\ rotating = {}
  /\ user = [p \in Proc |-> NoUser]
  /\ target = [p \in Proc |-> NoId]
  /\ copy = [p \in Proc |-> NoKey]
  /\ expiry = [p \in Proc |-> 0]
  /\ reported = {}

Goto(p, state) == pc' = [pc EXCEPT ![p] = state]

(* The request is answered, or the background goroutine returns. *)
Finish(p) ==
  /\ Goto(p, "idle")
  /\ rotating' = rotating \ {p}
  /\ user' = [user EXCEPT ![p] = NoUser]
  /\ target' = [target EXCEPT ![p] = NoId]
  /\ copy' = [copy EXCEPT ![p] = NoKey]
  /\ expiry' = [expiry EXCEPT ![p] = 0]

IsExpired(r) == r.expires # Never /\ now > r.expires
IsValid(r) == ~r.revoked /\ ~IsExpired(r)

(* CountByUser: the memory store counts valid keys, Postgres all that are  *)
(* not revoked.                                                            *)
Counted(u) ==
  {k \in Key : /\ rec[k] # NoKey /\ rec[k].user = u
               /\ IF Memory THEN IsValid(rec[k]) ELSE ~rec[k].revoked}

Limited(u) == MaxKeysPerUser > 0 /\ u # Anonymous

-----------------------------------------------------------------------------
(* The requests. *)

(* Bound: a request that may create a key starts only while an ID is left  *)
(* for every such request.                                                 *)
IdLeft ==
  Cardinality({p \in Proc : pc[p] \in {"rotate", "count", "create"}})
    < Cardinality({k \in Key : rec[k] = NoKey})

(* handleCreateKey *)
BeginCreate(p) ==
  /\ pc[p] = "idle" /\ IdLeft
  /\ \E u \in User : user' = [user EXCEPT ![p] = u]
  /\ \E x \in ExpiresIn : expiry' = [expiry EXCEPT ![p] = x]
  /\ Goto(p, "count")
  /\ UNCHANGED <<now, rec, rotating, target, copy, reported>>

(* Mutant: the caller's ownership of the key is not verified. *)
Owns_Anyone(u, k) == rec[k] # NoKey

(* The handlers read the key and compare its owner with the caller. *)
Owns(u, k) == rec[k] # NoKey /\ rec[k].user = u

(* handleRevokeKey and handleRotateKey up to the call of the manager. *)
BeginOwned(p, k, state) ==
  /\ pc[p] = "idle"
  /\ \E u \in User : /\ Owns(u, k)
                     /\ user' = [user EXCEPT ![p] = u]
  /\ target' = [target EXCEPT ![p] = k]
  /\ Goto(p, state)
  /\ UNCHANGED <<now, rec, copy, expiry, reported>>

BeginRevoke(p, k) == BeginOwned(p, k, "get") /\ UNCHANGED rotating

BeginRotate(p, k) ==
  /\ IdLeft
  /\ BeginOwned(p, k, "rotate")
  /\ rotating' = rotating \cup {p}

(* Validate, for the hash of key k. *)
Validate(k) == rec[k] # NoKey /\ IsValid(rec[k])

(* Authenticate: Validate succeeds and UpdateLastUsed is started. *)
Authenticate(p, k) ==
  /\ KeyAuth
  /\ pc[p] = "idle"
  /\ Validate(k)
  /\ target' = [target EXCEPT ![p] = k]
  /\ Goto(p, "useGet")
  /\ UNCHANGED <<now, rec, rotating, user, copy, expiry, reported>>

-----------------------------------------------------------------------------
(* The manager. *)

(* Mutant: a key that has expired is asked for with its negative rest. *)
RotateGet_Negative(p) ==
  LET old == rec[target[p]] IN
  /\ pc[p] = "rotate"
  /\ copy' = [copy EXCEPT ![p] = old]
  /\ expiry' = [expiry EXCEPT ![p] =
                  IF old.expires # Never THEN old.expires - now ELSE 0]
  /\ Goto(p, "count")
  /\ UNCHANGED <<now, rec, rotating, user, target, reported>>

(* Rotate: read the old key; what is left of its life is asked for the new *)
(* key, and nothing if the key has none or has expired.                    *)
RotateGet(p) ==
  LET old == rec[target[p]] IN
  /\ pc[p] = "rotate"
  /\ copy' = [copy EXCEPT ![p] = old]
  /\ expiry' = [expiry EXCEPT ![p] =
                  IF old.expires # Never /\ old.expires > now
                    THEN old.expires - now ELSE 0]
  /\ Goto(p, "count")
  /\ UNCHANGED <<now, rec, rotating, user, target, reported>>

(* Mutant: the comparison is off by one. *)
UnderLimit_OffByOne(u) ==
  Limited(u) => Cardinality(Counted(u)) <= MaxKeysPerUser

UnderLimit(u) == Limited(u) => Cardinality(Counted(u)) < MaxKeysPerUser

(* Create, the limit: CountByUser and the comparison. *)
CountOk(p) ==
  /\ pc[p] = "count"
  /\ UnderLimit(user[p])
  /\ Goto(p, "create")
  /\ UNCHANGED <<now, rec, rotating, user, target, copy, expiry, reported>>

(* ErrTooManyKeys *)
CountFull(p) ==
  /\ pc[p] = "count"
  /\ ~UnderLimit(user[p])
  /\ Finish(p)
  /\ UNCHANGED <<now, rec, reported>>

ExpiresAt(x) ==
  IF x > 0 THEN now + x
  ELSE IF DefaultExpiry > 0 THEN now + DefaultExpiry ELSE Never

(* Create, the insertion; Rotate goes on to revoke the old key. *)
StoreCreate(p) ==
  /\ pc[p] = "create"
  /\ \E k \in Key :
       /\ rec[k] = NoKey
       /\ rec' = [rec EXCEPT ![k] = [user |-> user[p], revoked |-> FALSE,
                                     expires |-> ExpiresAt(expiry[p])]]
  /\ IF p \in rotating
       THEN /\ Goto(p, "get")
            /\ UNCHANGED <<rotating, user, target, copy, expiry>>
       ELSE Finish(p)
  /\ UNCHANGED <<now, reported>>

(* Revoke: read the key ... *)
RevokeGet(p) ==
  /\ pc[p] = "get"
  /\ copy' = [copy EXCEPT ![p] = rec[target[p]]]
  /\ Goto(p, "revoke")
  /\ UNCHANGED <<now, rec, rotating, user, target, expiry, reported>>

(* ... and write it back with RevokedAt set. *)
RevokeUpdate(p) ==
  /\ pc[p] = "revoke"
  /\ rec' = [rec EXCEPT ![target[p]] = [copy[p] EXCEPT !.revoked = TRUE]]
  /\ reported' = reported \cup {target[p]}
  /\ Finish(p)
  /\ UNCHANGED now

(* UpdateLastUsed: read the key ... *)
UseGet(p) ==
  /\ pc[p] = "useGet"
  /\ copy' = [copy EXCEPT ![p] = rec[target[p]]]
  /\ Goto(p, "useUpdate")
  /\ UNCHANGED <<now, rec, rotating, user, target, expiry, reported>>

(* Mutant: the copy loses RevokedAt on its way. *)
UseUpdate_NoMark(p) ==
  /\ pc[p] = "useUpdate"
  /\ rec' = [rec EXCEPT ![target[p]] = [copy[p] EXCEPT !.revoked = FALSE]]
  /\ Finish(p)
  /\ UNCHANGED <<now, reported>>

(* ... and write it back with LastUsedAt set. *)
UseUpdate(p) ==
  /\ pc[p] = "useUpdate"
  /\ rec' = [rec EXCEPT ![target[p]] = copy[p]]
  /\ Finish(p)
  /\ UNCHANGED <<now, reported>>

(* A call of the store fails.  The request is answered with an error,      *)
(* except that Rotate, once the new key exists, reports success: a failed  *)
(* revocation of the old key is only logged.                               *)
StoreFail(p) ==
  /\ pc[p] # "idle" /\ ~Memory
  /\ reported' = IF p \in rotating /\ pc[p] \in {"get", "revoke"}
                   THEN reported \cup {target[p]} ELSE reported
  /\ Finish(p)
  /\ UNCHANGED <<now, rec>>

Tick ==
  /\ now < MaxTime
  /\ now' = now + 1
  /\ UNCHANGED <<rec, pc, rotating, user, target, copy, expiry, reported>>

ProcStep(p) ==
  \/ BeginCreate(p)
  \/ \E k \in Key : BeginRevoke(p, k) \/ BeginRotate(p, k)
                      \/ Authenticate(p, k)
  \/ RotateGet(p) \/ CountOk(p) \/ CountFull(p) \/ StoreCreate(p)
  \/ RevokeGet(p) \/ RevokeUpdate(p)
  \/ UseGet(p) \/ UseUpdate(p)
  \/ StoreFail(p)

Next == Tick \/ \E p \in Proc : ProcStep(p)

Spec == Init /\ [][Next]_vars

-----------------------------------------------------------------------------
(* Properties *)

(* The values every variable may take. *)
TypeOK ==
  /\ now \in 0..MaxTime
  /\ rec \in [Key -> Record \cup {NoKey}]
  /\ pc \in [Proc -> States]
  /\ rotating \subseteq Proc
  /\ user \in [Proc -> User \cup {NoUser}]
  /\ target \in [Proc -> Key \cup {NoId}]
  /\ copy \in [Proc -> Record \cup {NoKey}]
  /\ expiry \in [Proc -> Nat]
  /\ reported \subseteq Key

(* A background update that read k before it was revoked. *)
StaleUse(k) ==
  \E p \in Proc : /\ pc[p] = "useUpdate" /\ target[p] = k
                  /\ ~copy[p].revoked

(* RevocationSettles: once a key is revoked and no UpdateLastUsed that     *)
(* read it earlier is still to write, it stays revoked for ever: no        *)
(* interleaving of Revoke, Rotate and later uses brings it back.           *)
Settled(k) == rec[k] # NoKey /\ rec[k].revoked /\ ~StaleUse(k)
RevocationSettles == [][\A k \in Key : Settled(k) => Settled(k)']_vars

(* OwnerOnly: an existing key is changed only by a request of its owner or *)
(* by recording its use, although the handlers check the owner on an       *)
(* earlier read than the one the manager works with.                       *)
OwnerOnly ==
  [][\A k \in Key : rec[k] # NoKey /\ rec'[k] # rec[k] =>
       \E p \in Proc : /\ target[p] = k
                       /\ \/ pc[p] = "revoke" /\ user[p] = rec[k].user
                          \/ pc[p] = "useUpdate"]_vars

(* LimitOvershoot: the requests that pass the count together can exceed    *)
(* MaxKeysPerUser, but only by one less than there are goroutines.  Keys   *)
(* reported as revoked are left aside: a late UpdateLastUsed revives them. *)
LimitOvershoot ==
  \A u \in User : Limited(u) =>
    Cardinality(Counted(u) \ reported) <= MaxKeysPerUser + Cardinality(Proc) - 1

(* RevokedForGood: a key reported as revoked is revoked. *)
RevokedForGood == \A k \in reported : rec[k].revoked
=============================================================================
