--------------------------- MODULE GatewayProofs ---------------------------
(***************************************************************************)
(* Theorems about Gateway, for any clients, calls, requests, tokens, keys, *)
(* configurations of the authenticator, routes, policy and quota.          *)
(***************************************************************************)
EXTENDS Gateway, TLAPS, FiniteSetTheorems, SequenceTheorems

-----------------------------------------------------------------------------
(* Authentication *)

LEMMA Kinds ==
  /\ \A s, t : Principal(s, t).kind = "principal"
  /\ \A b : Refused(b).kind # "principal"
  /\ \A b \in BOOLEAN : Refused(b) = IF b THEN Unauthorized ELSE Anonymous
  /\ Unauthorized # Anonymous
BY DEF Principal, Refused, Unauthorized, Anonymous

(* What the composite makes of the answers of two methods. *)
LEMMA CompositeOfTwo ==
  ASSUME NEW j, NEW k, NEW required
  PROVE  Composite(<<j, k>>, required) =
           IF j.kind = "principal" THEN j
           ELSE IF k.kind = "principal" THEN k ELSE Refused(required)
<1> DEFINE answers == <<j, k>>
           found == {i \in DOMAIN answers : answers[i].kind = "principal"}
<1>1. DOMAIN answers = 1..2 /\ answers[1] = j /\ answers[2] = k
  OBVIOUS
<1> HIDE DEF answers
<1>2. CASE j.kind = "principal"
  <2>1. 1 \in found /\ \A i \in found : 1 <= i /\ i \in Int
    BY <1>1, <1>2
  <2>2. (CHOOSE i \in found : \A l \in found : i <= l) = 1
    <3>1. \A i \in found : (\A l \in found : i <= l) => i = 1
      BY <2>1
    <3> QED
      BY <2>1, <3>1
  <2> QED
    BY <1>1, <1>2, <2>1, <2>2 DEF Composite, answers
<1>3. CASE j.kind # "principal" /\ k.kind = "principal"
  <2>1. found = {2}
    BY <1>1, <1>3
  <2>2. (CHOOSE i \in found : \A l \in found : i <= l) = 2
    BY <2>1
  <2> QED
    BY <1>1, <1>3, <2>1, <2>2 DEF Composite, answers
<1>4. CASE j.kind # "principal" /\ k.kind # "principal"
  <2>1. found = {}
    BY <1>1, <1>4
  <2> QED
    BY <1>4, <2>1 DEF Composite, answers
<1> QED
  BY <1>2, <1>3, <1>4

(* The three ways the builder's choice of methods can go. *)
LEMMA AuthenticateCases ==
  ASSUME NEW a \in AuthConfig, NEW r, NEW t
  PROVE  LET j == JWTAuthenticate(a, r, t)
             k == APIKeyAuthenticate(a, r)
         IN  Authenticate(a, r, t) =
               IF a.jwt /\ a.apiKey
                 THEN IF j.kind = "principal" THEN j
                      ELSE IF k.kind = "principal" THEN k
                      ELSE Refused(a.required)
               ELSE IF a.jwt THEN j
               ELSE IF a.apiKey THEN k
               ELSE Anonymous
<1> DEFINE j == JWTAuthenticate(a, r, t)
           k == APIKeyAuthenticate(a, r)
<1>1. a.jwt \in BOOLEAN /\ a.apiKey \in BOOLEAN
  BY DEF AuthConfig
<1>2. Answers(a, r, t) = (IF a.jwt THEN <<j>> ELSE <<>>)
                           \o (IF a.apiKey THEN <<k>> ELSE <<>>)
  BY DEF Answers
<1> HIDE DEF j, k
<1>3. CASE a.jwt /\ a.apiKey
  <2>1. Answers(a, r, t) = <<j, k>>
    <3>1. Answers(a, r, t) = <<j>> \o <<k>>
      BY <1>2, <1>3
    <3>2. <<j>> \o <<k>> = <<j, k>>
      <4>1. /\ <<j>> \in Seq({j, k}) /\ <<k>> \in Seq({j, k})
            /\ <<j, k>> \in Seq({j, k}) /\ Len(<<j, k>>) = 2
            /\ Len(<<j>>) = 1 /\ Len(<<k>>) = 1
        OBVIOUS
      <4>2. /\ <<j>> \o <<k>> \in Seq({j, k}) /\ Len(<<j>> \o <<k>>) = 2
            /\ (<<j>> \o <<k>>)[1] = j /\ (<<j>> \o <<k>>)[2] = k
        BY <4>1, ConcatProperties
      <4>3. \A i \in 1..2 : (<<j>> \o <<k>>)[i] = <<j, k>>[i]
        <5>1. \A i \in 1..2 : i = 1 \/ i = 2
          OBVIOUS
        <5>2. <<j, k>>[1] = j /\ <<j, k>>[2] = k
          OBVIOUS
        <5> QED
          BY <4>2, <5>1, <5>2
      <4> QED
        BY <4>1, <4>2, <4>3, SeqEqual
    <3> QED
      BY <3>1, <3>2
  <2>2. Len(<<j, k>>) = 2
    OBVIOUS
  <2>3. Authenticate(a, r, t) = Composite(<<j, k>>, a.required)
    BY <2>1, <2>2 DEF Authenticate
  <2> QED
    BY <1>3, <2>3, CompositeOfTwo DEF j, k
<1>4. CASE a.jwt /\ ~a.apiKey
  <2>1. Answers(a, r, t) = <<j>>
    BY <1>2, <1>4
  <2>2. Len(<<j>>) = 1 /\ <<j>>[1] = j
    OBVIOUS
  <2>3. Authenticate(a, r, t) = j
    BY <2>1, <2>2 DEF Authenticate
  <2> QED
    BY <1>4, <2>3 DEF j
<1>5. CASE ~a.jwt /\ a.apiKey
  <2>1. Answers(a, r, t) = <<k>>
    BY <1>2, <1>5
  <2>2. Len(<<k>>) = 1 /\ <<k>>[1] = k
    OBVIOUS
  <2>3. Authenticate(a, r, t) = k
    BY <2>1, <2>2 DEF Authenticate
  <2> QED
    BY <1>5, <2>3 DEF k
<1>6. CASE ~a.jwt /\ ~a.apiKey
  <2>1. Answers(a, r, t) = <<>>
    BY <1>2, <1>6
  <2>2. Authenticate(a, r, t) = Anonymous
    BY <2>1 DEF Authenticate
  <2> QED
    BY <1>6, <2>2
<1> QED
  BY <1>1, <1>3, <1>4, <1>5, <1>6

(* A bearer token is accepted exactly when it is worth something: the      *)
(* clock skew adds nothing to what the parser has checked.                 *)
LEMMA TokenGood ==
  ASSUME NEW a, NEW r \in Requests, NEW t \in Int
  PROVE  LET j == JWTAuthenticate(a, r, t)
             cred == r.authorization.cred
         IN  /\ j.kind = "principal" <=>
                  /\ r.authorization.scheme # "other" /\ cred \in Token
                  /\ Trusted(cred) /\ InTime(cred, t)
             /\ j.kind = "principal" => j = Principal(cred.sub, cred.tenant)
             /\ j.kind # "principal" => j = Refused(a.jwtRequired)
<1> DEFINE cred == r.authorization.cred
           tok == BearerToken(r.authorization)
<1>1. /\ r.authorization.scheme # "other" => tok = cred
      /\ r.authorization.scheme = "other" => tok = NoName
  BY RequestAssumption DEF BearerToken
<1>2. NoName \notin Token
  BY RequestAssumption
<1>3. ASSUME cred \in Token
      PROVE  ParseWithClaims(cred, t) /\ ValidateRegisteredClaims(cred, t)
               <=> Trusted(cred) /\ InTime(cred, t)
  <2>1. /\ cred.exp \in Int \cup {NoTime} /\ cred.nbf \in Int \cup {NoTime}
        /\ cred.signed \in BOOLEAN /\ ClockSkew \in Nat /\ NoTime \notin Int
    BY <1>3, AuthAssumption, GatewayAssumption
  <2>2. InTime(cred, t) <=> /\ cred.exp = NoTime \/ t < cred.exp
                            /\ cred.nbf = NoTime \/ t >= cred.nbf
    BY <2>1 DEF InTime
  <2>3. InTime(cred, t) => /\ cred.exp # NoTime => t <= cred.exp + ClockSkew
                           /\ cred.nbf # NoTime => t >= cred.nbf - ClockSkew
    BY <2>1 DEF InTime
  <2>4. Trusted(cred) <=>
          /\ cred.signed
          /\ Issuer # NoName => cred.iss = Issuer
          /\ Audiences # {} => cred.aud \cap Audiences # {}
    BY DEF Trusted
  <2> QED
    BY <1>3, <2>2, <2>3, <2>4 DEF ParseWithClaims, ValidateRegisteredClaims
<1>4. JWTAuthenticate(a, r, t) =
        IF tok # NoName /\ ParseWithClaims(tok, t)
             /\ ValidateRegisteredClaims(tok, t)
          THEN Principal(tok.sub, tok.tenant) ELSE Refused(a.jwtRequired)
  BY DEF JWTAuthenticate
<1>5. ParseWithClaims(cred, t) => cred \in Token
  BY DEF ParseWithClaims
<1> HIDE DEF cred, tok
<1>6. tok # NoName /\ ParseWithClaims(tok, t) /\ ValidateRegisteredClaims(tok, t)
        <=> /\ r.authorization.scheme # "other" /\ cred \in Token
            /\ Trusted(cred) /\ InTime(cred, t)
  BY <1>1, <1>2, <1>3, <1>5
<1> QED
  BY <1>1, <1>4, <1>6, Kinds DEF cred

(* The API keys that request r presents, in either header. *)
Given(r) ==
  {x \in DOMAIN KeyOwner :
     \/ r.apiKey = x
     \/ /\ r.apiKey = NoName
        /\ r.authorization = [scheme |-> "Bearer x", cred |-> x]}

LEMMA KeyGood ==
  ASSUME NEW a, NEW r \in Requests
  PROVE  LET k == APIKeyAuthenticate(a, r)
         IN  /\ k.kind = "principal" => \E x \in Given(r) :
                  k = Principal(KeyOwner[x].sub, KeyOwner[x].tenant)
             /\ k.kind # "principal" =>
                  Given(r) = {} /\ k = Refused(a.keyRequired)
<1> DEFINE key == PresentedKey(r)
<1>1. key = IF r.apiKey # NoName THEN r.apiKey
            ELSE IF r.authorization.scheme = "Bearer x"
                   THEN r.authorization.cred ELSE NoName
  BY DEF PresentedKey
<1>2. /\ r.authorization = [scheme |-> r.authorization.scheme,
                            cred |-> r.authorization.cred]
      /\ NoName \notin DOMAIN KeyOwner
  BY RequestAssumption
<1>3. APIKeyAuthenticate(a, r) =
        IF key \in DOMAIN KeyOwner
          THEN Principal(KeyOwner[key].sub, KeyOwner[key].tenant)
          ELSE Refused(a.keyRequired)
  BY DEF APIKeyAuthenticate
<1> HIDE DEF key
<1>4. ASSUME NEW x, r.authorization = [scheme |-> "Bearer x", cred |-> x]
      PROVE  r.authorization.scheme = "Bearer x" /\ r.authorization.cred = x
  <2>1. \A y : /\ [scheme |-> "Bearer x", cred |-> y].scheme = "Bearer x"
               /\ [scheme |-> "Bearer x", cred |-> y].cred = y
    OBVIOUS
  <2> QED
    BY <1>4, <2>1, Zenon
<1>5. key \in DOMAIN KeyOwner => key \in Given(r)
  <2>1. CASE r.apiKey # NoName
    BY <1>1, <2>1 DEF Given
  <2>2. CASE r.apiKey = NoName
    BY <1>1, <1>2, <2>2 DEF Given
  <2> QED
    BY <2>1, <2>2
<1>6. \A x \in Given(r) : x \in DOMAIN KeyOwner /\ x = key
  BY <1>1, <1>2, <1>4 DEF Given
<1>7. CASE key \in DOMAIN KeyOwner
  BY <1>3, <1>5, <1>7, Kinds
<1>8. CASE key \notin DOMAIN KeyOwner
  <2>1. Given(r) = {}
    BY <1>6, <1>8
  <2> QED
    BY <1>3, <1>8, <2>1, Kinds
<1> QED
  BY <1>7, <1>8

(* Authenticate gives a name exactly to those for whom some credential of  *)
(* the request vouches, and one that is vouched for.                       *)
LEMMA AuthenticateGood ==
  ASSUME NEW a \in AuthConfig, NEW r \in Requests, NEW t \in Int
  PROVE  LET who == Authenticate(a, r, t)
             vouched == Vouched(a, r, t)
         IN  /\ who.kind = "principal" <=> vouched # {}
             /\ who.kind = "principal" => who \in vouched
             /\ who.kind # "principal" =>
                  who = IF Mandatory(a) THEN Unauthorized ELSE Anonymous
<1> DEFINE j == JWTAuthenticate(a, r, t)
           k == APIKeyAuthenticate(a, r)
           cred == r.authorization.cred
           toks == {tok \in Token :
                      /\ a.jwt /\ Trusted(tok) /\ InTime(tok, t)
                      /\ r.authorization.scheme # "other"
                      /\ r.authorization.cred = tok}
           keys == {x \in DOMAIN KeyOwner :
                      /\ a.apiKey
                      /\ \/ r.apiKey = x
                         \/ /\ r.apiKey = NoName
                            /\ r.authorization = [scheme |-> "Bearer x", cred |-> x]}
           vouched == Vouched(a, r, t)
<1>1. /\ a.jwt \in BOOLEAN /\ a.apiKey \in BOOLEAN /\ a.required \in BOOLEAN
      /\ a.jwtRequired \in BOOLEAN /\ a.keyRequired \in BOOLEAN
  BY DEF AuthConfig
<1>2. vouched = {Principal(tok.sub, tok.tenant) : tok \in toks}
                  \cup {Principal(KeyOwner[x].sub, KeyOwner[x].tenant) : x \in keys}
  BY DEF Vouched
<1>3. /\ a.jwt /\ j.kind = "principal" => j \in vouched
      /\ a.jwt /\ j.kind # "principal" => toks = {} /\ j = Refused(a.jwtRequired)
      /\ ~a.jwt => toks = {}
  <2>1. /\ j.kind = "principal" <=>
             /\ r.authorization.scheme # "other" /\ cred \in Token
             /\ Trusted(cred) /\ InTime(cred, t)
        /\ j.kind = "principal" => j = Principal(cred.sub, cred.tenant)
        /\ j.kind # "principal" => j = Refused(a.jwtRequired)
    BY TokenGood
  <2>2. a.jwt /\ j.kind = "principal" => cred \in toks
    BY <2>1
  <2>3. a.jwt /\ j.kind # "principal" => toks = {}
    BY <2>1
  <2> HIDE DEF toks, keys, j
  <2>4. a.jwt /\ j.kind = "principal" => j \in vouched
    BY <1>2, <2>1, <2>2
  <2> QED
    BY <2>1, <2>3, <2>4 DEF toks
<1>4. /\ a.apiKey /\ k.kind = "principal" => k \in vouched
      /\ a.apiKey /\ k.kind # "principal" => keys = {} /\ k = Refused(a.keyRequired)
      /\ ~a.apiKey => keys = {}
  <2>1. /\ k.kind = "principal" => \E x \in Given(r) :
              k = Principal(KeyOwner[x].sub, KeyOwner[x].tenant)
        /\ k.kind # "principal" => Given(r) = {} /\ k = Refused(a.keyRequired)
    BY KeyGood
  <2>2. a.apiKey => keys = Given(r)
    BY DEF Given
  <2>3. ~a.apiKey => keys = {}
    OBVIOUS
  <2> HIDE DEF toks, keys, k
  <2> QED
    BY <1>2, <2>1, <2>2, <2>3
<1>5. Authenticate(a, r, t) =
        IF a.jwt /\ a.apiKey
          THEN IF j.kind = "principal" THEN j
               ELSE IF k.kind = "principal" THEN k
               ELSE Refused(a.required)
        ELSE IF a.jwt THEN j
        ELSE IF a.apiKey THEN k
        ELSE Anonymous
  BY AuthenticateCases
<1> HIDE DEF toks, keys, j, k
<1>6. toks = {} /\ keys = {} => vouched = {}
  BY <1>2
<1> HIDE DEF vouched
<1>7. Anonymous.kind # "principal"
  BY DEF Anonymous
<1>8. CASE a.jwt /\ a.apiKey
  BY <1>1, <1>3, <1>4, <1>5, <1>6, <1>8, Kinds DEF Mandatory, vouched
<1>9. CASE a.jwt /\ ~a.apiKey
  BY <1>1, <1>3, <1>4, <1>5, <1>6, <1>9, Kinds DEF Mandatory, vouched
<1>10. CASE ~a.jwt /\ a.apiKey
  BY <1>1, <1>3, <1>4, <1>5, <1>6, <1>10, Kinds DEF Mandatory, vouched
<1>11. CASE ~a.jwt /\ ~a.apiKey
  BY <1>1, <1>3, <1>4, <1>5, <1>6, <1>7, <1>11 DEF Mandatory, vouched
<1> QED
  BY <1>1, <1>8, <1>9, <1>10, <1>11

LEMMA AnswerCases ==
  ASSUME NEW r
  PROVE  /\ Answer(r) = 401 => Authenticate(cfg, r, now) = Unauthorized
         /\ Answer(r) = 101 => Authenticate(cfg, r, now) # Unauthorized
<1>1. Answer(r) = IF Authenticate(cfg, r, now) = Unauthorized THEN 401
                  ELSE IF ~ServerExistsAndHubDeployable(r.server) THEN 400
                  ELSE 101
  BY DEF Answer
<1> QED
  BY <1>1

(* Whoever opens a session is one of Users. *)
LEMMA OpenedUser ==
  ASSUME cfg \in Configs, now \in Int, NEW r \in Requests, Answer(r) = 101
  PROVE  Authenticate(cfg, r, now) \in Users
<1> DEFINE who == Authenticate(cfg, r, now)
<1>1. cfg \in AuthConfig
  BY GatewayAssumption
<1>2. who # Unauthorized
  BY AnswerCases
<1>3. /\ who.kind = "principal" => who \in Vouched(cfg, r, now)
      /\ who.kind # "principal" => who \in {Unauthorized, Anonymous}
  BY <1>1, AuthenticateGood
<1>4. Vouched(cfg, r, now) \subseteq Users
  BY DEF Vouched, Users
<1>5. Anonymous \in Users
  BY DEF Users
<1> HIDE DEF who
<1>6. who \in Users
  BY <1>2, <1>3, <1>4, <1>5
<1> QED
  BY <1>6 DEF who

-----------------------------------------------------------------------------
(* The sessions *)

Session == [open : BOOLEAN, at : 0..MaxTime, server : Server \cup {NoName},
            who : Users]

SessionType ==
  /\ cfg \in Configs
  /\ now \in Times
  /\ sess \in [Client -> Session]
  /\ \A c \in Client : sess[c].open => sess[c].at \in Times
  /\ sessions \in [Times -> Client \cup {NoClient}]
  /\ active \in Int /\ byTenant \in [Tenants -> Int]

(* An entry of g.sessions is an open session with that id. *)
EntryInv ==
  \A i \in Times : sessions[i] # NoClient =>
    sess[sessions[i]].open /\ sess[sessions[i]].at = i

(* Sessions that share an id are of tenants that have clashed; every other *)
(* session is found under its id.                                          *)
ClashInv ==
  /\ \A c, d \in Client :
       c # d /\ sess[c].open /\ sess[d].open /\ sess[c].at = sess[d].at
         => sess[c].who.tenant \in clash
  /\ \A c \in Client : sess[c].open /\ sess[c].who.tenant \notin clash
         => sessions[sess[c].at] = c

(* A running handler works for an open session of its owner (End waits for *)
(* the handlers).                                                          *)
Handler == [pc : {"idle", "write", "charge", "track", "trackFailure", "done"},
            by : Client \cup {NoClient}, owner : Users,
            msg : Messages \cup {NoMessage}, server : Server \cup {NoName},
            start : 0..MaxTime]

HandlerInv ==
  /\ call \in [Call -> Handler]
  /\ \A k \in Call :
       call[k].pc \in {"write", "charge", "track", "trackFailure"} =>
         /\ call[k].by \in Client /\ sess[call[k].by].open
         /\ sess[call[k].by].who = call[k].owner

IInv == SessionType /\ EntryInv /\ ClashInv /\ HandlerInv /\ GaugesExact

LEMMA UserTenants ==
  ASSUME NEW u \in Users
  PROVE  u.tenant = NoName \/ u.tenant \in Tenants
BY DEF Tenants

LEMMA InitHolds == Init => IInv
<1> SUFFICES ASSUME Init PROVE IInv
  OBVIOUS
<1>1. \A c \in Client : /\ sess[c].open = FALSE
                        /\ sess[c].who = Anonymous
  BY DEF Init, NoSession
<1>2. Anonymous \in Users /\ 1 \in Times /\ 0 \in 0..MaxTime
  BY GatewayAssumption DEF Users, Times
<1>3. SessionType
  <2>1. NoSession \in Session
    BY <1>2 DEF NoSession, Session
  <2>2. /\ sessions \in [Times -> Client \cup {NoClient}]
        /\ active \in Int /\ byTenant \in [Tenants -> Int]
        /\ cfg \in Configs /\ now \in Times /\ sess \in [Client -> Session]
    BY <1>2, <2>1 DEF Init
  <2> QED
    BY <1>1, <2>2 DEF SessionType
<1>4. EntryInv /\ ClashInv
  BY <1>1 DEF Init, EntryInv, ClashInv
<1>5. HandlerInv
  <2>1. NoCall \in Handler /\ NoCall.pc = "idle"
    BY <1>2 DEF NoCall, Handler
  <2> QED
    BY <2>1 DEF Init, HandlerInv
<1>6. GaugesExact
  <2>1. {c \in Client : sess[c].open} = {}
    BY <1>1
  <2>2. \A t : {c \in Client : sess[c].open /\ sess[c].who.tenant = t} = {}
    BY <1>1
  <2> QED
    BY <2>1, <2>2, FS_EmptySet DEF Init, GaugesExact
<1> QED
  BY <1>3, <1>4, <1>5, <1>6 DEF IInv

(* Steps that leave the sessions alone. *)
LEMMA SessionsUntouched ==
  ASSUME IInv, UNCHANGED <<cfg, sessionVars>>, now' \in Times
  PROVE  SessionType' /\ EntryInv' /\ ClashInv' /\ GaugesExact'
<1>1. SessionType'
  BY DEF IInv, SessionType, sessionVars
<1>2. EntryInv' /\ ClashInv' /\ GaugesExact'
  BY DEF IInv, EntryInv, ClashInv, GaugesExact, sessionVars
<1> QED
  BY <1>1, <1>2

LEMMA OpenKeeps ==
  ASSUME IInv, NEW c \in Client, NEW r \in Requests, Open(c, r) PROVE IInv'
<1> DEFINE who == Authenticate(cfg, r, now)
           new == [open |-> TRUE, at |-> now, server |-> r.server, who |-> who]
           same == {d \in Client : sess[d].open /\ sess[d].at = now}
<1>1. /\ ~sess[c].open /\ Answer(r) = 101
      /\ sess' = [sess EXCEPT ![c] = new]
      /\ sessions' = [sessions EXCEPT ![now] = c]
      /\ clash' = IF same = {} THEN clash
                  ELSE clash \cup {who.tenant}
                             \cup {sess[d].who.tenant : d \in same}
      /\ active' = active + 1
      /\ byTenant' = Bump(byTenant, who.tenant, 1)
      /\ UNCHANGED <<cfg, now, call>>
  BY DEF Open
<1>2. who \in Users
  <2>1. now \in Int
    BY GatewayAssumption DEF IInv, SessionType, Times
  <2> QED
    BY <1>1, <2>1, OpenedUser DEF IInv, SessionType
<1>3. new.open = TRUE /\ new.at = now /\ new.who = who /\ new \in Session
  <2>1. r.server \in Server
    <3>1. Answer(r) = IF Authenticate(cfg, r, now) = Unauthorized THEN 401
                      ELSE IF ~ServerExistsAndHubDeployable(r.server) THEN 400
                      ELSE 101
      BY DEF Answer
    <3> QED
      BY <1>1, <3>1 DEF ServerExistsAndHubDeployable
  <2>2. now \in 0..MaxTime
    BY GatewayAssumption DEF IInv, SessionType, Times
  <2> QED
    BY <1>2, <2>1, <2>2 DEF Session
<1> HIDE DEF who, new, same
<1>4. /\ sess'[c] = new
      /\ \A d \in Client : d # c => sess'[d] = sess[d]
      /\ sess' \in [Client -> Session]
  BY <1>1, <1>3 DEF IInv, SessionType
<1>5. /\ sessions'[now] = c
      /\ \A i \in Times : i # now => sessions'[i] = sessions[i]
      /\ sessions' \in [Times -> Client \cup {NoClient}]
  BY <1>1 DEF IInv, SessionType
<1>6. who.tenant = NoName \/ who.tenant \in Tenants
  BY <1>2, UserTenants
<1>7. SessionType'
  <2>1. byTenant' \in [Tenants -> Int]
    BY <1>1, <1>6 DEF IInv, SessionType, Bump
  <2>2. cfg' \in Configs /\ now' \in Times /\ active' \in Int
    BY <1>1 DEF IInv, SessionType
  <2>3. \A d \in Client : sess'[d].open => sess'[d].at \in Times
    BY <1>3, <1>4 DEF IInv, SessionType
  <2> QED
    BY <1>4, <1>5, <2>1, <2>2, <2>3 DEF SessionType
<1>8. EntryInv'
  <2> SUFFICES ASSUME NEW i \in Times, sessions'[i] # NoClient
               PROVE  sess'[sessions'[i]].open /\ sess'[sessions'[i]].at = i
    BY DEF EntryInv
  <2>1. CASE i = now
    BY <1>3, <1>4, <1>5, <2>1
  <2>2. CASE i # now
    <3>1. /\ sessions'[i] = sessions[i] /\ sessions[i] \in Client
          /\ sess[sessions[i]].open /\ sess[sessions[i]].at = i
      BY <1>5, <2>2 DEF IInv, SessionType, EntryInv
    <3>2. sessions[i] # c
      BY <1>1, <3>1
    <3> QED
      BY <1>4, <3>1, <3>2
  <2> QED
    BY <2>1, <2>2
<1>9. /\ clash \subseteq clash'
      /\ same # {} => who.tenant \in clash'
      /\ \A d \in same : sess[d].who.tenant \in clash'
  BY <1>1
<1>10. ClashInv'
  <2>1. ASSUME NEW d \in Client, NEW e \in Client, d # e, sess'[d].open,
               sess'[e].open, sess'[d].at = sess'[e].at
        PROVE  sess'[d].who.tenant \in clash'
    <3>1. CASE d = c
      <4>1. e \in same
        BY <1>3, <1>4, <2>1, <3>1 DEF same
      <4> QED
        BY <1>3, <1>4, <1>9, <3>1, <4>1
    <3>2. CASE e = c
      <4>1. d \in same
        BY <1>3, <1>4, <2>1, <3>2 DEF same
      <4> QED
        BY <1>4, <1>9, <2>1, <3>2, <4>1
    <3>3. CASE d # c /\ e # c
      BY <1>4, <1>9, <2>1, <3>3 DEF IInv, ClashInv
    <3> QED
      BY <3>1, <3>2, <3>3
  <2>2. ASSUME NEW d \in Client, sess'[d].open, sess'[d].who.tenant \notin clash'
        PROVE  sessions'[sess'[d].at] = d
    <3>1. CASE d = c
      BY <1>3, <1>4, <1>5, <3>1
    <3>2. CASE d # c
      <4>1. sess[d].open /\ sess[d].who.tenant \notin clash /\ d \notin same
        BY <1>4, <1>9, <2>2, <3>2
      <4>2. sess[d].at # now /\ sess[d].at \in Times
        BY <4>1 DEF same, IInv, SessionType
      <4> QED
        BY <1>4, <1>5, <3>2, <4>1, <4>2 DEF IInv, ClashInv
    <3> QED
      BY <3>1, <3>2
  <2> QED
    BY <2>1, <2>2 DEF ClashInv
<1>11. HandlerInv'
  <2> SUFFICES ASSUME NEW k \in Call,
                      call[k].pc \in {"write", "charge", "track", "trackFailure"}
               PROVE  /\ call[k].by \in Client /\ sess'[call[k].by].open
                      /\ sess'[call[k].by].who = call[k].owner
    BY <1>1 DEF IInv, HandlerInv
  <2>1. /\ call[k].by \in Client /\ sess[call[k].by].open
        /\ sess[call[k].by].who = call[k].owner
    BY DEF IInv, HandlerInv
  <2>2. call[k].by # c
    BY <1>1, <2>1
  <2> QED
    BY <1>4, <2>1, <2>2
<1>12. GaugesExact'
  <2> DEFINE all == {d \in Client : sess[d].open}
             of(t) == {d \in Client : sess[d].open /\ sess[d].who.tenant = t}
  <2>1. /\ IsFiniteSet(all) /\ c \notin all
        /\ \A t : IsFiniteSet(of(t)) /\ c \notin of(t)
    BY <1>1, GatewayAssumption, FS_Subset
  <2>2. {d \in Client : sess'[d].open} = all \cup {c}
    BY <1>3, <1>4
  <2>3. Cardinality(all \cup {c}) = Cardinality(all) + 1
    BY <2>1, FS_AddElement
  <2>4. active = Cardinality(all)
    BY DEF IInv, GaugesExact
  <2>5. ASSUME NEW t \in Tenants \ clash'
        PROVE  byTenant'[t] = Cardinality({d \in Client :
                 sess'[d].open /\ sess'[d].who.tenant = t})
    <3>1. byTenant[t] = Cardinality(of(t)) /\ byTenant[t] \in Int
      BY <1>9 DEF IInv, SessionType, GaugesExact
    <3>2. t # NoName
      BY DEF Tenants
    <3>3. CASE who.tenant = t
      <4>1. {d \in Client : sess'[d].open /\ sess'[d].who.tenant = t}
              = of(t) \cup {c}
        BY <1>3, <1>4, <3>3
      <4>2. Cardinality(of(t) \cup {c}) = Cardinality(of(t)) + 1
        <5>1. IsFiniteSet(of(t)) /\ c \notin of(t)
          BY <2>1
        <5> HIDE DEF of
        <5> QED
          BY <5>1, FS_AddElement
      <4>3. byTenant'[t] = byTenant[t] + 1
        BY <1>1, <3>2, <3>3 DEF Bump, IInv, SessionType
      <4> QED
        BY <3>1, <4>1, <4>2, <4>3
    <3>4. CASE who.tenant # t
      <4>1. {d \in Client : sess'[d].open /\ sess'[d].who.tenant = t} = of(t)
        BY <1>1, <1>3, <1>4, <3>4
      <4>2. byTenant'[t] = byTenant[t]
        BY <1>1, <3>4 DEF Bump, IInv, SessionType
      <4> QED
        BY <3>1, <4>1, <4>2
    <3> QED
      BY <3>3, <3>4
  <2>6. active' = Cardinality({d \in Client : sess'[d].open})
    BY <1>1, <2>2, <2>3, <2>4
  <2> QED
    BY <2>5, <2>6 DEF GaugesExact
<1> QED
  BY <1>7, <1>8, <1>10, <1>11, <1>12 DEF IInv

LEMMA EndKeeps == ASSUME IInv, NEW c \in Client, End(c) PROVE IInv'
<1> DEFINE id == sess[c].at
           d == sessions[id]
<1>1. /\ sess[c].open
      /\ \A k \in Call : call[k].by # c
      /\ byTenant' = IF d = NoClient THEN byTenant
                     ELSE Bump(byTenant, sess[d].who.tenant, -1)
      /\ sessions' = [sessions EXCEPT ![id] = NoClient]
      /\ active' = active - 1
      /\ sess' = [sess EXCEPT ![c] = NoSession]
      /\ UNCHANGED <<cfg, now, clash, call>>
  BY DEF End, UntrackSession
<1>2. id \in Times /\ d \in Client \cup {NoClient}
  BY <1>1 DEF IInv, SessionType
<1>3. NoSession \in Session /\ NoSession.open = FALSE
  BY GatewayAssumption DEF NoSession, Session, Users
<1>4. /\ sess'[c] = NoSession
      /\ \A e \in Client : e # c => sess'[e] = sess[e]
      /\ sess' \in [Client -> Session]
  BY <1>1, <1>3 DEF IInv, SessionType
<1>5. /\ sessions'[id] = NoClient
      /\ \A i \in Times : i # id => sessions'[i] = sessions[i]
      /\ sessions' \in [Times -> Client \cup {NoClient}]
  BY <1>1, <1>2 DEF IInv, SessionType
<1>6. d # NoClient => d \in Client /\ sess[d].open /\ sess[d].at = id
  BY <1>2 DEF IInv, EntryInv
<1>7. d # c => /\ sess[c].who.tenant \in clash
               /\ d # NoClient => sess[d].who.tenant \in clash
  <2>1. d # c => sess[c].who.tenant \in clash
    BY <1>1 DEF IInv, ClashInv
  <2>2. d # c /\ d # NoClient => sess[d].who.tenant \in clash
    BY <1>1, <1>6 DEF IInv, ClashInv
  <2> QED
    BY <2>1, <2>2
<1>8. SessionType'
  <2>1. byTenant' \in [Tenants -> Int]
    <3>1. CASE d = NoClient
      BY <1>1, <3>1 DEF IInv, SessionType
    <3>2. CASE d # NoClient
      <4>1. sess[d].who \in Users
        BY <1>6, <3>2 DEF IInv, SessionType, Session
      <4>2. sess[d].who.tenant = NoName \/ sess[d].who.tenant \in Tenants
        BY <4>1, UserTenants
      <4>3. PICK t : sess[d].who.tenant = t
        OBVIOUS
      <4>4. byTenant' = Bump(byTenant, t, -1) /\ byTenant \in [Tenants -> Int]
        BY <1>1, <3>2, <4>3 DEF IInv, SessionType
      <4> QED
        BY <4>2, <4>3, <4>4 DEF Bump
    <3> QED
      BY <3>1, <3>2
  <2>2. cfg' \in Configs /\ now' \in Times /\ active' \in Int
    BY <1>1 DEF IInv, SessionType
  <2>3. \A e \in Client : sess'[e].open => sess'[e].at \in Times
    BY <1>3, <1>4 DEF IInv, SessionType
  <2> QED
    BY <1>4, <1>5, <2>1, <2>2, <2>3 DEF SessionType
<1>9. EntryInv'
  <2> SUFFICES ASSUME NEW i \in Times, sessions'[i] # NoClient
               PROVE  sess'[sessions'[i]].open /\ sess'[sessions'[i]].at = i
    BY DEF EntryInv
  <2>1. i # id /\ sessions'[i] = sessions[i]
    BY <1>5
  <2>2. /\ sessions[i] \in Client /\ sess[sessions[i]].open
        /\ sess[sessions[i]].at = i
    BY <2>1 DEF IInv, SessionType, EntryInv
  <2>3. sessions[i] # c
    BY <2>1, <2>2
  <2> QED
    BY <1>4, <2>1, <2>2, <2>3
<1>10. ClashInv'
  <2>1. ASSUME NEW e \in Client, NEW f \in Client, e # f, sess'[e].open,
               sess'[f].open, sess'[e].at = sess'[f].at
        PROVE  sess'[e].who.tenant \in clash'
    BY <1>1, <1>3, <1>4, <2>1 DEF IInv, ClashInv
  <2>2. ASSUME NEW e \in Client, sess'[e].open, sess'[e].who.tenant \notin clash'
        PROVE  sessions'[sess'[e].at] = e
    <3>1. e # c /\ sess'[e] = sess[e]
      BY <1>3, <1>4, <2>2
    <3>2. sess[e].open /\ sess[e].who.tenant \notin clash
      BY <1>1, <2>2, <3>1
    <3>3. sess[e].at \in Times /\ sess[e].at # id
      BY <1>1, <3>1, <3>2 DEF IInv, SessionType, ClashInv
    <3> QED
      BY <1>5, <3>1, <3>2, <3>3 DEF IInv, ClashInv
  <2> QED
    BY <2>1, <2>2 DEF ClashInv
<1>11. HandlerInv'
  <2> SUFFICES ASSUME NEW k \in Call,
                      call[k].pc \in {"write", "charge", "track", "trackFailure"}
               PROVE  /\ call[k].by \in Client /\ sess'[call[k].by].open
                      /\ sess'[call[k].by].who = call[k].owner
    BY <1>1 DEF IInv, HandlerInv
  <2>1. /\ call[k].by \in Client /\ sess[call[k].by].open
        /\ sess[call[k].by].who = call[k].owner /\ call[k].by # c
    BY <1>1 DEF IInv, HandlerInv
  <2> QED
    BY <1>4, <2>1
<1> HIDE DEF id, d
<1>12. GaugesExact'
  <2> DEFINE all == {e \in Client : sess[e].open}
             of(t) == {e \in Client : sess[e].open /\ sess[e].who.tenant = t}
  <2>1. /\ IsFiniteSet(all) /\ c \in all
        /\ \A t : IsFiniteSet(of(t))
    BY <1>1, GatewayAssumption, FS_Subset
  <2>2. {e \in Client : sess'[e].open} = all \ {c}
    BY <1>3, <1>4
  <2>3. Cardinality(all \ {c}) = Cardinality(all) - 1
    BY <2>1, FS_RemoveElement
  <2>4. active = Cardinality(all)
    BY DEF IInv, GaugesExact
  <2>5. ASSUME NEW t \in Tenants \ clash'
        PROVE  byTenant'[t] = Cardinality({e \in Client :
                 sess'[e].open /\ sess'[e].who.tenant = t})
    <3>1. byTenant[t] = Cardinality(of(t)) /\ byTenant[t] \in Int
      BY <1>1 DEF IInv, SessionType, GaugesExact
    <3>2. t # NoName /\ t \notin clash
      BY <1>1 DEF Tenants
    <3>3. CASE sess[c].who.tenant = t
      <4>1. d = c /\ d # NoClient
        BY <1>7, <3>2, <3>3, GatewayAssumption
      <4>2. {e \in Client : sess'[e].open /\ sess'[e].who.tenant = t}
              = of(t) \ {c}
        BY <1>3, <1>4
      <4>3. Cardinality(of(t) \ {c}) = Cardinality(of(t)) - 1
        <5>1. IsFiniteSet(of(t)) /\ c \in of(t)
          BY <1>1, <2>1, <3>3
        <5> HIDE DEF of
        <5> QED
          BY <5>1, FS_RemoveElement
      <4>4. byTenant'[t] = byTenant[t] - 1
        BY <1>1, <3>2, <3>3, <4>1 DEF Bump, IInv, SessionType
      <4> QED
        BY <3>1, <4>2, <4>3, <4>4
    <3>4. CASE sess[c].who.tenant # t
      <4>1. {e \in Client : sess'[e].open /\ sess'[e].who.tenant = t} = of(t)
        BY <1>1, <1>3, <1>4, <3>4
      <4>2. d # NoClient => sess[d].who.tenant # t
        BY <1>7, <3>2, <3>4
      <4>3. byTenant'[t] = byTenant[t]
        BY <1>1, <4>2 DEF Bump, IInv, SessionType
      <4> QED
        BY <3>1, <4>1, <4>3
    <3> QED
      BY <3>3, <3>4
  <2>6. active' = Cardinality({e \in Client : sess'[e].open})
    BY <1>1, <2>2, <2>3, <2>4
  <2> QED
    BY <2>5, <2>6 DEF GaugesExact
<1> QED
  BY <1>8, <1>9, <1>10, <1>11, <1>12 DEF IInv

-----------------------------------------------------------------------------
(* The handlers *)

LEMMA NoCallType == NoCall \in Handler /\ NoCall.pc = "idle"
                    /\ [NoCall EXCEPT !.pc = "done"] \in Handler
                    /\ [NoCall EXCEPT !.pc = "done"].pc = "done"
<1>1. 0 \in 0..MaxTime /\ Anonymous \in Users
  BY GatewayAssumption DEF Users
<1> QED
  BY <1>1 DEF NoCall, Handler

(* A handler that goes on serves the same session. *)
LEMMA HandlerStep ==
  ASSUME IInv, UNCHANGED sess, NEW k \in Call, NEW h \in Handler,
         call' = [call EXCEPT ![k] = h],
         h.pc \in {"write", "charge", "track", "trackFailure"} =>
            /\ h.by \in Client /\ sess[h.by].open
            /\ sess[h.by].who = h.owner
  PROVE  HandlerInv'
BY DEF IInv, HandlerInv

LEMMA HandlersKeep ==
  ASSUME IInv, NEW k \in Call,
         \/ \E c \in Client, m \in Messages : Arrive(k, c, m)
         \/ NoBackend(k) \/ Write(k) \/ WriteFail(k)
         \/ Charge(k) \/ TrackUsage(k)
  PROVE  IInv'
<1>1. UNCHANGED <<cfg, sessionVars, now>> /\ UNCHANGED sess
  BY DEF Arrive, NoBackend, Write, WriteFail, Charge, TrackUsage, sessionVars
<1>2. now' \in Times /\ now \in 0..MaxTime
  BY <1>1, GatewayAssumption DEF IInv, SessionType, Times
<1>3. SessionType' /\ EntryInv' /\ ClashInv' /\ GaugesExact'
  BY <1>1, <1>2, SessionsUntouched
<1>4. call[k] \in Handler
  BY DEF IInv, HandlerInv
<1>5. HandlerInv'
  <2>1. ASSUME NEW c \in Client, NEW m \in Messages, Arrive(k, c, m)
        PROVE  HandlerInv'
    <3> DEFINE server == RouteMessage(m, sess[c].server)
               h == [pc |-> "write", by |-> c, owner |-> sess[c].who, msg |-> m,
                     server |-> server, start |-> 0]
    <3>1. server \in Server /\ sess[c].open /\ call' = [call EXCEPT ![k] = h]
      BY <2>1 DEF Arrive, ServerExistsAndHubDeployable
    <3>2. sess[c].who \in Users
      BY DEF IInv, SessionType, Session
    <3> HIDE DEF server
    <3>3. h \in Handler /\ h.by = c /\ h.owner = sess[c].who
      BY <3>1, <3>2, GatewayAssumption DEF Handler
    <3> HIDE DEF h
    <3> QED
      BY <1>1, <3>1, <3>3, HandlerStep
  <2>2. CASE call' = [call EXCEPT ![k] = NoCall]
    BY <1>1, <2>2, NoCallType, HandlerStep
  <2>3. CASE \E pc \in {"charge", "trackFailure"} :
               /\ call[k].pc = "write"
               /\ call' = [call EXCEPT ![k].pc = pc, ![k].start = now]
    <3>1. PICK pc \in {"charge", "trackFailure"} :
            /\ call[k].pc = "write"
            /\ call' = [call EXCEPT ![k].pc = pc, ![k].start = now]
      BY <2>3
    <3> DEFINE h == [call[k] EXCEPT !.pc = pc, !.start = now]
    <3>2. call' = [call EXCEPT ![k] = h]
      BY <3>1 DEF IInv, HandlerInv
    <3>3. h \in Handler /\ h.by = call[k].by /\ h.owner = call[k].owner
      BY <1>2, <1>4 DEF Handler
    <3>4. /\ call[k].by \in Client /\ sess[call[k].by].open
          /\ sess[call[k].by].who = call[k].owner
      BY <3>1 DEF IInv, HandlerInv
    <3> HIDE DEF h
    <3> QED
      BY <1>1, <3>2, <3>3, <3>4, HandlerStep
  <2>4. CASE Charge(k)
    <3> DEFINE h == [call[k] EXCEPT !.pc = "track"]
    <3>1. call' = [call EXCEPT ![k] = h] /\ call[k].pc = "charge"
      BY <2>4 DEF Charge, Goto, IInv, HandlerInv
    <3>2. h \in Handler /\ h.by = call[k].by /\ h.owner = call[k].owner
      BY <1>4 DEF Handler
    <3>3. /\ call[k].by \in Client /\ sess[call[k].by].open
          /\ sess[call[k].by].who = call[k].owner
      BY <3>1 DEF IInv, HandlerInv
    <3> HIDE DEF h
    <3> QED
      BY <1>1, <3>1, <3>2, <3>3, HandlerStep
  <2>5. CASE TrackUsage(k)
    <3> DEFINE h == [NoCall EXCEPT !.pc = "done"]
    <3>1. call' = [call EXCEPT ![k] = h] /\ h \in Handler /\ h.pc = "done"
      BY <2>5, NoCallType DEF TrackUsage
    <3> HIDE DEF h
    <3> QED
      BY <1>1, <3>1, HandlerStep
  <2> QED
    BY <2>1, <2>2, <2>3, <2>4, <2>5 DEF NoBackend, Write, WriteFail, Return
<1> QED
  BY <1>3, <1>5 DEF IInv

LEMMA IInvHolds == Spec => []IInv
<1>1. ASSUME IInv, [Next]_vars PROVE IInv'
  <2>1. ASSUME UNCHANGED <<cfg, sessionVars, call>>, now' \in Times PROVE IInv'
    <3>1. HandlerInv'
      BY <1>1, <2>1 DEF IInv, HandlerInv, sessionVars
    <3> QED
      BY <1>1, <2>1, <3>1, SessionsUntouched DEF IInv
  <2>2. now \in Times
    BY <1>1 DEF IInv, SessionType
  <2>3. CASE UNCHANGED vars
    BY <2>1, <2>2, <2>3 DEF vars
  <2>4. CASE Tick
    <3>1. now' \in Times
      BY <2>2, <2>4, GatewayAssumption DEF Tick, Times
    <3> QED
      BY <2>1, <2>4, <3>1 DEF Tick
  <2>5. ASSUME NEW S \in SUBSET open, Commit(S) \/ GiveUp(S) PROVE IInv'
    BY <2>1, <2>2, <2>5 DEF Commit, GiveUp
  <2> QED
    BY <1>1, <2>3, <2>4, <2>5, OpenKeeps, EndKeeps, HandlersKeep DEF Next
<1> QED
  BY InitHolds, <1>1, PTL DEF Spec

(* GaugesExactHolds: the session gauges count the connected clients, per   *)
(* tenant unless sessions of that tenant shared an id, for any number of   *)
(* clients and any order of trackSession and untrackSession.               *)
THEOREM GaugesExactHolds == Spec => []GaugesExact
<1>1. IInv => GaugesExact
  BY DEF IInv
<1> QED
  BY IInvHolds, <1>1, PTL

(* WhoItSaysHolds: Authenticate gives a session a name for which one of    *)
(* the request's credentials vouches, and refuses only whom none does,     *)
(* for any tokens, keys, clock skew and setting of the authenticator.      *)
THEOREM WhoItSaysHolds == Spec => WhoItSays
<1>1. ASSUME IInv, NEW r \in Requests
      PROVE  LET vouched == Vouched(cfg, r, now) IN
             /\ Answer(r) = 401 => vouched = {} /\ Mandatory(cfg)
             /\ RequireAuth(cfg, r, now) <=> vouched # {}
             /\ \A c \in Client : Open(c, r) =>
                  IF sess'[c].who = Anonymous
                    THEN vouched = {} /\ ~Mandatory(cfg)
                    ELSE sess'[c].who \in vouched
  <2> DEFINE who == Authenticate(cfg, r, now)
             vouched == Vouched(cfg, r, now)
  <2>1. cfg \in AuthConfig /\ now \in Int
    BY <1>1, GatewayAssumption DEF IInv, SessionType, Times
  <2>2. /\ who.kind = "principal" <=> vouched # {}
        /\ who.kind = "principal" => who \in vouched
        /\ who.kind # "principal" =>
             who = IF Mandatory(cfg) THEN Unauthorized ELSE Anonymous
    BY <2>1, AuthenticateGood
  <2>3. /\ Unauthorized.kind # "principal" /\ Anonymous.kind # "principal"
        /\ Unauthorized # Anonymous
    BY DEF Unauthorized, Anonymous
  <2>4. RequireAuth(cfg, r, now) <=> who.kind = "principal"
    BY DEF RequireAuth
  <2>5. /\ Answer(r) = 401 => who = Unauthorized
        /\ Answer(r) = 101 => who # Unauthorized
    BY AnswerCases
  <2>6. ASSUME NEW c \in Client, Open(c, r)
        PROVE  sess'[c].who = who /\ who # Unauthorized
    <3> DEFINE new == [open |-> TRUE, at |-> now, server |-> r.server,
                       who |-> who]
    <3>1. sess' = [sess EXCEPT ![c] = new] /\ Answer(r) = 101
      BY <2>6 DEF Open
    <3>2. new.who = who
      OBVIOUS
    <3> HIDE DEF new, who
    <3>3. sess'[c] = new
      BY <1>1, <3>1 DEF IInv, SessionType
    <3> QED
      BY <2>5, <3>1, <3>2, <3>3
  <2> HIDE DEF who, vouched
  <2>7. Answer(r) = 401 => vouched = {} /\ Mandatory(cfg)
    BY <2>2, <2>3, <2>5
  <2>8. \A c \in Client : Open(c, r) =>
          IF sess'[c].who = Anonymous THEN vouched = {} /\ ~Mandatory(cfg)
                                      ELSE sess'[c].who \in vouched
    BY <2>2, <2>3, <2>6
  <2> QED
    BY <2>2, <2>4, <2>7, <2>8 DEF vouched
<1>2. IInv /\ [Next]_vars =>
        [sess' # sess => \A r \in Requests :
           LET vouched == Vouched(cfg, r, now) IN
           /\ Answer(r) = 401 => vouched = {} /\ Mandatory(cfg)
           /\ RequireAuth(cfg, r, now) <=> vouched # {}
           /\ \A c \in Client : Open(c, r) =>
                IF sess'[c].who = Anonymous
                  THEN vouched = {} /\ ~Mandatory(cfg)
                  ELSE sess'[c].who \in vouched]_vars
  BY <1>1
<1> QED
  BY IInvHolds, <1>2, PTL DEF Spec, WhoItSays

-----------------------------------------------------------------------------
(* The books: what the quota counted, what the tracker has, what the table *)
(* shows.                                                                  *)

(* Calls whose event was handed to the tracker. *)
Tracked == open \cup stored \cup reported

(* The handler is done when its event is with the tracker; the event names *)
(* the owner of the call.                                                  *)
EventInv ==
  /\ DOMAIN evt = Call
  /\ Tracked \subseteq Call
  /\ \A k \in Call : k \in Tracked <=> call[k].pc = "done"
  /\ \A k \in Tracked :
       /\ evt[k].success \in BOOLEAN /\ evt[k].owner \in Users
       /\ evt[k].tenant = evt[k].owner.tenant
       /\ evt[k].user = evt[k].owner.sub /\ evt[k].ts \in Int

(* Calls of u for which Increment has been called. *)
Charged(u) ==
  {k \in Call : \/ call[k].pc = "track" /\ call[k].owner = u
                \/ k \in Tracked /\ evt[k].success /\ evt[k].owner = u}

(* Every one of them was counted, or its increment failed; nothing else    *)
(* was counted.                                                            *)
ChargeInv ==
  /\ count \in [Users -> Nat] /\ failed \in [Users -> Nat]
  /\ \A u \in Users : /\ count[u] <= Cardinality(Charged(u))
                      /\ Cardinality(Charged(u)) <= count[u] + failed[u]

(* The table holds stored events, one for each id that was stored. *)
RowInv ==
  /\ rows \subseteq stored
  /\ \A j, k \in rows : evt[j].id = evt[k].id => j = k
  /\ \A k \in stored \ rows : \E j \in rows : evt[j].id = evt[k].id

BookInv == EventInv /\ ChargeInv /\ RowInv

(* The events and the counts, as far as they depend on the handlers. *)
LEMMA SameBooks ==
  ASSUME EventInv, ChargeInv, evt' = evt, UNCHANGED quotaVars,
         Tracked' = Tracked,
         \A k \in Call : /\ call'[k].pc = "done" <=> call[k].pc = "done"
                         /\ call'[k].pc = "track" <=> call[k].pc = "track"
                         /\ call[k].pc = "track" => call'[k].owner = call[k].owner
  PROVE  EventInv' /\ ChargeInv'
<1>1. EventInv'
  BY DEF EventInv
<1>2. ASSUME NEW u \in Users PROVE Charged(u)' = Charged(u)
  BY DEF Charged
<1>3. ChargeInv'
  BY <1>2 DEF ChargeInv, quotaVars
<1> QED
  BY <1>1, <1>3

LEMMA SameRows ==
  ASSUME RowInv, EventInv, rows' = rows, stored' = stored,
         \A k \in stored : evt'[k] = evt[k]
  PROVE  RowInv'
BY DEF RowInv

(* A message arrives, is written or comes to nothing. *)
LEMMA WriteBooks ==
  ASSUME IInv, BookInv, NEW k \in Call, NEW h,
         call' = [call EXCEPT ![k] = h],
         call[k].pc \notin {"track", "done"}, h.pc \notin {"track", "done"},
         UNCHANGED <<quotaVars, usageVars>>
  PROVE  BookInv'
<1>1. \A j \in Call : call'[j] = IF j = k THEN h ELSE call[j]
  BY DEF IInv, HandlerInv
<1>2. UNCHANGED <<evt, open, stored, reported, rows>>
  BY DEF usageVars, ledgerVars
<1>3. Tracked' = Tracked
  BY <1>2 DEF Tracked
<1>4. EventInv' /\ ChargeInv'
  BY <1>1, <1>2, <1>3, SameBooks DEF BookInv
<1>5. RowInv'
  BY <1>2, SameRows DEF BookInv
<1> QED
  BY <1>4, <1>5 DEF BookInv

(* Increment: the call is charged once, to the owner of its session. *)
LEMMA ChargeBooks ==
  ASSUME IInv, BookInv, NEW k \in Call, Charge(k) PROVE BookInv'
<1> DEFINE o == call[k].owner
<1>1. /\ call[k] \in Handler /\ call[k].pc = "charge" /\ Who(k) = o
      /\ o \in Users
  BY DEF Charge, IInv, HandlerInv, Handler, Who
<1>2. /\ UNCHANGED <<evt, open, stored, reported, rows>>
      /\ \A j \in Call : j # k => call'[j] = call[j]
      /\ call'[k].pc = "track" /\ call'[k].owner = o
  BY <1>1 DEF Charge, Goto, usageVars, ledgerVars, IInv, HandlerInv, Handler
<1>3. Tracked' = Tracked /\ k \notin Tracked
  BY <1>1, <1>2 DEF Tracked, BookInv, EventInv
<1>4. EventInv'
  BY <1>1, <1>2, <1>3 DEF BookInv, EventInv
<1>5. RowInv'
  BY <1>2, SameRows DEF BookInv
<1>6. ASSUME NEW u \in Users
      PROVE  /\ Charged(u)' = IF u = o THEN Charged(u) \cup {k} ELSE Charged(u)
             /\ k \notin Charged(u) /\ Charged(u) \subseteq Call
  BY <1>1, <1>2, <1>3 DEF Charged
<1>7. /\ count' \in [Users -> Nat] /\ failed' \in [Users -> Nat]
      /\ \A u \in Users : u # o => count'[u] = count[u] /\ failed'[u] = failed[u]
      /\ \/ count'[o] = count[o] + 1 /\ failed'[o] \in {failed[o], failed[o] + 1}
         \/ count'[o] = count[o] /\ failed'[o] = failed[o] + 1
  BY <1>1 DEF Charge, BookInv, ChargeInv
<1>8. ASSUME NEW u \in Users
      PROVE  /\ count'[u] <= Cardinality(Charged(u)')
             /\ Cardinality(Charged(u)') <= count'[u] + failed'[u]
  <2> DEFINE n == Cardinality(Charged(u))
  <2>1. IsFiniteSet(Charged(u)) /\ n \in Nat
    BY <1>6, GatewayAssumption, FS_Subset, FS_CardinalityType
  <2>2. /\ count[u] \in Nat /\ failed[u] \in Nat
        /\ count[u] <= n /\ n <= count[u] + failed[u]
    BY DEF BookInv, ChargeInv
  <2>3. Cardinality(Charged(u) \cup {k}) = n + 1
    BY <1>6, <2>1, FS_AddElement
  <2> HIDE DEF n, o
  <2>4. CASE u = o
    <3>1. Cardinality(Charged(u)') = n + 1
      BY <1>6, <2>3, <2>4
    <3> QED
      BY <1>7, <2>1, <2>2, <2>4, <3>1
  <2>5. CASE u # o
    <3>1. Cardinality(Charged(u)') = n
      BY <1>6, <2>5 DEF n
    <3> QED
      BY <1>7, <2>1, <2>2, <2>5, <3>1
  <2> QED
    BY <2>4, <2>5
<1>9. ChargeInv'
  BY <1>7, <1>8 DEF ChargeInv
<1> QED
  BY <1>4, <1>5, <1>9 DEF BookInv

(* trackUsage: a call that was charged stays so by its event. *)
LEMMA TrackBooks ==
  ASSUME IInv, BookInv, NEW k \in Call, TrackUsage(k) PROVE BookInv'
<1> DEFINE o == call[k].owner
           h == [NoCall EXCEPT !.pc = "done"]
<1>1. /\ call[k] \in Handler /\ call[k].pc \in {"track", "trackFailure"}
      /\ Who(k) = o /\ o \in Users
  BY DEF TrackUsage, IInv, HandlerInv, Handler, Who
<1>2. /\ k \notin Tracked /\ Tracked' = Tracked \cup {k}
      /\ stored' = stored /\ rows' = rows /\ UNCHANGED quotaVars
      /\ k \notin stored
  BY DEF TrackUsage, Ledger!Accept, Tracked
<1>3. /\ DOMAIN evt' = Call /\ \A j \in Call : j # k => evt'[j] = evt[j]
      /\ evt'[k] = NewEvent(k)
  BY DEF TrackUsage, BookInv, EventInv
<1>4. /\ NewEvent(k).success = (call[k].pc = "track")
      /\ NewEvent(k).owner = o
      /\ NewEvent(k).tenant = o.tenant /\ NewEvent(k).user = o.sub
      /\ NewEvent(k).ts = call[k].start
  BY <1>1 DEF NewEvent
<1>5. /\ \A j \in Call : j # k => call'[j] = call[j]
      /\ call'[k].pc = "done"
  BY NoCallType DEF TrackUsage, IInv, HandlerInv
<1> HIDE DEF o
<1>6. EventInv'
  <2>1. NewEvent(k).success \in BOOLEAN /\ NewEvent(k).ts \in Int
    BY <1>1, <1>4, GatewayAssumption DEF NewEvent, Handler
  <2>2. DOMAIN evt' = Call /\ Tracked' \subseteq Call
    BY <1>2, <1>3 DEF BookInv, EventInv
  <2>3. \A j \in Call : j \in Tracked' <=> call'[j].pc = "done"
    BY <1>2, <1>5 DEF BookInv, EventInv
  <2>4. ASSUME NEW j \in Tracked'
        PROVE  /\ evt'[j].success \in BOOLEAN /\ evt'[j].owner \in Users
               /\ evt'[j].tenant = evt'[j].owner.tenant
               /\ evt'[j].user = evt'[j].owner.sub /\ evt'[j].ts \in Int
    <3>1. CASE j = k
      BY <1>1, <1>3, <1>4, <2>1, <3>1
    <3>2. CASE j # k
      BY <1>2, <1>3, <3>2 DEF BookInv, EventInv
    <3> QED
      BY <3>1, <3>2
  <2> QED
    BY <2>2, <2>3, <2>4 DEF EventInv
<1>7. RowInv'
  <2>1. stored \subseteq Call
    BY DEF BookInv, EventInv, Tracked
  <2> QED
    BY <1>2, <1>3, <2>1, SameRows DEF BookInv
<1>8. ASSUME NEW u \in Users PROVE Charged(u)' = Charged(u)
  <2>1. ASSUME NEW j \in Call, j # k
        PROVE j \in Charged(u)' <=> j \in Charged(u)
    BY <2>1, <1>2, <1>3, <1>5 DEF Charged
  <2>2. k \in Charged(u)' <=> k \in Charged(u)
    <3>1. k \in Charged(u)' <=> call[k].pc = "track" /\ o = u
      <4>1. evt'[k].success = (call[k].pc = "track") /\ evt'[k].owner = o
        BY <1>3, <1>4
      <4>2. k \in Tracked' /\ call'[k].pc # "track"
        BY <1>2, <1>5
      <4> QED
        BY <4>1, <4>2 DEF Charged
    <3>2. k \in Charged(u) <=> call[k].pc = "track" /\ o = u
      BY <1>2 DEF Charged, o
    <3> QED
      BY <3>1, <3>2
  <2>3. Charged(u) \subseteq Call /\ Charged(u)' \subseteq Call
    BY DEF Charged
  <2> QED
    BY <2>1, <2>2, <2>3
<1>9. ChargeInv'
  BY <1>2, <1>8 DEF BookInv, ChargeInv, quotaVars
<1> QED
  BY <1>6, <1>7, <1>9 DEF BookInv

(* The tracker moves a batch on; ON CONFLICT DO NOTHING keeps the ids of   *)
(* the table distinct, and a row is left out only for one with its id.     *)
LEMMA BatchBooks ==
  ASSUME IInv, BookInv, NEW S \in SUBSET open, Commit(S) \/ GiveUp(S)
  PROVE  BookInv'
<1>1. UNCHANGED <<call, quotaVars, evt>>
  BY DEF Commit, GiveUp
<1>2. Tracked' = Tracked
  BY DEF Commit, GiveUp, Ledger!Commit, Ledger!CommitUnknown, Ledger!GiveUp,
     Tracked
<1>3. EventInv' /\ ChargeInv'
  BY <1>1, <1>2, SameBooks DEF BookInv
<1>4. CASE GiveUp(S)
  <2>1. rows' = rows /\ stored' = stored
    BY <1>4 DEF GiveUp, Ledger!GiveUp
  <2> QED
    BY <1>1, <1>3, <2>1, SameRows DEF BookInv
<1>5. CASE Commit(S)
  <2>1. stored' = stored \cup S
    BY <1>5 DEF Commit, Ledger!Commit, Ledger!CommitUnknown
  <2>2. PICK N \in Inserted(S) : rows' = rows \cup N
    BY <1>5 DEF Commit
  <2>3. /\ N \subseteq S
        /\ \A k \in S : k \in N <=>
             \A j \in rows \cup (N \ {k}) : evt[j].id # evt[k].id
    BY DEF Inserted
  <2>4. rows' \subseteq stored'
    BY <2>1, <2>2, <2>3 DEF BookInv, RowInv
  <2>5. \A j, k \in rows' : evt[j].id = evt[k].id => j = k
    BY <2>2, <2>3 DEF BookInv, RowInv
  <2>6. \A k \in stored' \ rows' : \E j \in rows' : evt[j].id = evt[k].id
    BY <2>1, <2>2, <2>3 DEF BookInv, RowInv
  <2>7. RowInv'
    BY <1>1, <2>4, <2>5, <2>6 DEF RowInv
  <2> QED
    BY <1>3, <2>7 DEF BookInv
<1> QED
  BY <1>3, <1>4, <1>5 DEF BookInv

LEMMA BookInit == Init => BookInv
<1> SUFFICES ASSUME Init PROVE BookInv
  OBVIOUS
<1>1. Tracked = {} /\ stored = {} /\ rows = {}
  BY DEF Init, Ledger!LedgerInit, Tracked
<1>2. \A k \in Call : call[k].pc = "idle"
  BY NoCallType DEF Init
<1>3. EventInv
  <2>1. evt = [k \in Call |-> NoEvent]
    BY DEF Init
  <2>2. DOMAIN evt = Call
    BY <2>1
  <2> QED
    BY <1>1, <1>2, <2>2 DEF EventInv
<1>4. \A u \in Users : Charged(u) = {}
  BY <1>1, <1>2 DEF Charged
<1>5. Cardinality({}) = 0
  BY FS_EmptySet
<1>6. ChargeInv
  <2>1. /\ count = [u \in Users |-> 0]
        /\ failed = [u \in Users |-> 0]
    BY DEF Init
  <2> QED
    BY <1>4, <1>5, <2>1 DEF ChargeInv
<1>7. RowInv
  BY <1>1 DEF RowInv
<1> QED
  BY <1>3, <1>6, <1>7 DEF BookInv

LEMMA BookInvHolds == Spec => [](IInv /\ BookInv)
<1>1. ASSUME IInv, BookInv, [Next]_vars PROVE BookInv'
  <2>1. ASSUME UNCHANGED <<call, quotaVars, usageVars>> PROVE BookInv'
    <3>1. UNCHANGED <<evt, open, stored, reported, rows>>
      BY <2>1 DEF usageVars, ledgerVars
    <3>2. Tracked' = Tracked
      BY <3>1 DEF Tracked
    <3>3. EventInv' /\ ChargeInv'
      BY <1>1, <2>1, <3>1, <3>2, SameBooks DEF BookInv
    <3> QED
      BY <1>1, <3>1, <3>3, SameRows DEF BookInv
  <2>2. ASSUME NEW k \in Call, NEW c \in Client, NEW m \in Messages,
               Arrive(k, c, m)
        PROVE  BookInv'
    <3> DEFINE h == [pc |-> "write", by |-> c, owner |-> sess[c].who, msg |-> m,
                     server |-> RouteMessage(m, sess[c].server), start |-> 0]
    <3>1. /\ call' = [call EXCEPT ![k] = h] /\ call[k].pc = "idle"
          /\ UNCHANGED <<quotaVars, usageVars>>
      BY <2>2 DEF Arrive
    <3>2. h.pc = "write"
      OBVIOUS
    <3> HIDE DEF h
    <3> QED
      BY <1>1, <3>1, <3>2, WriteBooks
  <2>3. ASSUME NEW k \in Call, NoBackend(k) \/ Write(k) \/ WriteFail(k)
        PROVE  BookInv'
    <3>1. call[k].pc = "write" /\ UNCHANGED <<quotaVars, usageVars>>
      BY <2>3 DEF NoBackend, Write, WriteFail
    <3>2. CASE call' = [call EXCEPT ![k] = NoCall]
      BY <1>1, <3>1, <3>2, NoCallType, WriteBooks
    <3>3. ASSUME NEW pc \in {"charge", "trackFailure"},
                 call' = [call EXCEPT ![k].pc = pc, ![k].start = now]
          PROVE  BookInv'
      <4> DEFINE h == [call[k] EXCEPT !.pc = pc, !.start = now]
      <4>1. call' = [call EXCEPT ![k] = h]
        BY <1>1, <3>3 DEF IInv, HandlerInv
      <4>2. h.pc = pc
        BY <1>1 DEF IInv, HandlerInv, Handler
      <4> HIDE DEF h
      <4> QED
        BY <1>1, <3>1, <4>1, <4>2, WriteBooks
    <3> QED
      BY <2>3, <3>2, <3>3 DEF NoBackend, Write, WriteFail, Return
  <2> QED
    BY <1>1, <2>1, <2>2, <2>3, ChargeBooks, TrackBooks, BatchBooks
       DEF Next, Tick, Open, End, vars
<1>2. Spec => []IInv
  BY IInvHolds
<1> QED
  BY BookInit, <1>1, <1>2, PTL DEF Spec

-----------------------------------------------------------------------------
(* What the reports show of the books. *)

(* Somebody with a tenant is known by sub and tenant. *)
LEMMA UserByName ==
  ASSUME NEW u \in Users, u.tenant # NoName
  PROVE  u = Principal(u.sub, u.tenant)
BY DEF Users, Principal, Anonymous

(* The filter of the stores finds the user's own events. *)
LEMMA OwnEvent ==
  ASSUME BookInv, NEW u \in Identified, NEW e \in Rows
  PROVE  /\ e.success \in BOOLEAN /\ e.ts \in Int
         /\ e.tenant = u.tenant /\ e.user = u.sub <=> e.owner = u
<1>1. PICK k \in rows : e = evt[k]
  BY DEF Rows
<1>2. /\ e.success \in BOOLEAN /\ e.owner \in Users /\ e.ts \in Int
      /\ e.tenant = e.owner.tenant /\ e.user = e.owner.sub
  BY <1>1 DEF BookInv, EventInv, RowInv, Tracked
<1>3. u \in Users /\ u.tenant # NoName
  BY DEF Identified
<1>4. ASSUME e.tenant = u.tenant, e.user = u.sub PROVE e.owner = u
  <2>1. e.owner = Principal(e.owner.sub, e.owner.tenant)
    BY <1>2, <1>3, <1>4, UserByName
  <2>2. u = Principal(u.sub, u.tenant)
    BY <1>3, UserByName
  <2> QED
    BY <1>2, <1>4, <2>1, <2>2
<1> QED
  BY <1>2, <1>4

(* Calls whose event the table shows as a success of u. *)
ShownCalls(u) == {k \in rows : evt[k].success /\ evt[k].owner = u}

(* The table's rows have distinct ids, so that no two calls are shown as   *)
(* one.                                                                    *)
LEMMA ShownCount ==
  ASSUME BookInv, NEW u \in Identified
  PROVE  Cardinality({e \in Rows : e.owner = u /\ e.success}) =
           Cardinality(ShownCalls(u))
<1> DEFINE T == {e \in Rows : e.owner = u /\ e.success}
           f == [k \in ShownCalls(u) |-> evt[k]]
<1>1. IsFiniteSet(ShownCalls(u))
  <2>1. ShownCalls(u) \subseteq Call
    BY DEF ShownCalls, BookInv, RowInv, EventInv, Tracked
  <2> QED
    BY <2>1, GatewayAssumption, FS_Subset
<1>2. f \in [ShownCalls(u) -> T]
  BY DEF ShownCalls, Rows
<1>3. \A j, k \in ShownCalls(u) : f[j] = f[k] => j = k
  BY DEF ShownCalls, BookInv, RowInv
<1>4. \A e \in T : \E k \in ShownCalls(u) : f[k] = e
  BY DEF ShownCalls, Rows
<1> HIDE DEF T, f
<1>5. ExistsBijection(ShownCalls(u), T)
  BY <1>2, <1>3, <1>4 DEF ExistsBijection, Bijection, Injection, Surjection,
     IsInjective
<1> QED
  BY <1>1, <1>5, FS_Bijection DEF T

(* UsageQuery counts as this module does. *)
LEMMA SameCardinality == \A S : Usage!Cardinality(S) = Cardinality(S)
BY DEF Usage!Cardinality, Cardinality

LEMMA TotalSuccess ==
  ASSUME BookInv, NEW u \in Identified
  PROVE  LET own == Usage!Found(Rows, u.tenant, u.sub, NoTime, NoTime)
         IN  Usage!Totals(own).success = Cardinality(ShownCalls(u))
<1> DEFINE found == Usage!Found(Rows, u.tenant, u.sub, NoTime, NoTime)
<1>1. Usage!Totals(found).success = Cardinality({e \in found : e.success})
  BY SameCardinality DEF Usage!Totals
<1>2. \A e \in Rows : e \in found <=> e.owner = u
  BY OwnEvent DEF Usage!Found, Usage!InSummary, Identified
<1>3. {e \in found : e.success} = {e \in Rows : e.owner = u /\ e.success}
  BY <1>2 DEF Usage!Found
<1> QED
  BY <1>1, <1>3, ShownCount

(* ReconciledHolds: whatever the tracker and the quota store do, what the  *)
(* quota counted for a user and what the usage report shows differ only by *)
(* increments that failed, calls between Increment and Track, and events   *)
(* that the table does not hold.                                           *)
THEOREM ReconciledHolds == Spec => []Reconciled
<1>1. ASSUME IInv, BookInv, NEW u \in Identified
      PROVE  LET own == Usage!Found(Rows, u.tenant, u.sub, NoTime, NoTime)
                 shown == Usage!Totals(own).success
                 between == {k \in Call : call[k].pc = "track"
                                          /\ call[k].owner = u}
             IN  /\ shown <= count[u] + failed[u]
                 /\ count[u] <= shown + Cardinality(between)
                                  + Cardinality(Absent(u))
  <2> DEFINE between == {k \in Call : call[k].pc = "track"
                                      /\ call[k].owner = u}
             n == Cardinality(Charged(u))
             a == Cardinality(ShownCalls(u))
             b == Cardinality(between)
             c == Cardinality(Absent(u))
  <2>1. u \in Users
    BY DEF Identified
  <2>2. /\ count[u] \in Nat /\ failed[u] \in Nat
        /\ count[u] <= n /\ n <= count[u] + failed[u]
    BY <1>1, <2>1 DEF BookInv, ChargeInv
  <2>3. rows \subseteq Tracked /\ Tracked \subseteq Call
    BY <1>1 DEF BookInv, RowInv, EventInv, Tracked
  <2>4. /\ ShownCalls(u) \subseteq Charged(u) /\ Charged(u) \subseteq Call
        /\ Charged(u) = (ShownCalls(u) \cup between) \cup Absent(u)
    BY <2>3 DEF ShownCalls, Charged, Absent, Tracked
  <2>5. /\ IsFiniteSet(Charged(u)) /\ IsFiniteSet(ShownCalls(u))
        /\ IsFiniteSet(between) /\ IsFiniteSet(Absent(u))
    BY <2>4, GatewayAssumption, FS_Subset
  <2>6. a <= n
    BY <2>4, <2>5, FS_Subset
  <2> HIDE DEF between
  <2> DEFINE d == Cardinality(ShownCalls(u) \cup between)
  <2>7. /\ IsFiniteSet(ShownCalls(u) \cup between)
        /\ d = a + b - Cardinality(ShownCalls(u) \cap between)
    BY <2>5, FS_Union
  <2>8. n = d + c - Cardinality((ShownCalls(u) \cup between) \cap Absent(u))
    BY <2>4, <2>5, <2>7, FS_Union
  <2>9. /\ n \in Nat /\ a \in Nat /\ b \in Nat /\ c \in Nat /\ d \in Nat
        /\ Cardinality(ShownCalls(u) \cap between) \in Nat
        /\ Cardinality((ShownCalls(u) \cup between) \cap Absent(u)) \in Nat
    BY <2>5, <2>7, FS_CardinalityType, FS_Intersection
  <2> HIDE DEF n, a, b, c, d
  <2>10. a <= count[u] + failed[u] /\ count[u] <= a + b + c
    BY <2>2, <2>6, <2>7, <2>8, <2>9
  <2>11. Usage!Totals(Usage!Found(Rows, u.tenant, u.sub, NoTime, NoTime)).success
           = a
    BY <1>1, TotalSuccess DEF a
  <2> QED
    BY <2>10, <2>11 DEF b, c, between
<1>2. IInv /\ BookInv => Reconciled
  BY <1>1 DEF Reconciled, BookInv, RowInv
<1> QED
  BY BookInvHolds, <1>2, PTL

(* ReportsOwn for every window, time of asking and limit. *)
OwnOnly ==
  \A u \in Identified, start, end \in Int \cup {NoTime}, asked, limit \in Int :
    OwnReport(u, start, end, asked, limit)

LEMMA RowsFinite == ASSUME BookInv PROVE IsFiniteSet(Rows)
<1> DEFINE f == [k \in rows |-> evt[k]]
<1>1. IsFiniteSet(rows)
  <2>1. rows \subseteq Call
    BY DEF BookInv, RowInv, EventInv, Tracked
  <2> QED
    BY <2>1, GatewayAssumption, FS_Subset
<1>2. f \in Surjection(rows, Rows)
  BY DEF Surjection, Rows
<1> QED
  BY <1>1, <1>2, FS_Surjection

(* Query from the start: the newest of the events found, as many as the    *)
(* limit allows.                                                           *)
LEMMA QueryNewest ==
  ASSUME NEW events, NEW p, p.offset = 0, p.limit \in Nat \ {0},
         IsFiniteSet({e \in events : Usage!Matches(e, p)}),
         NEW R \in Usage!Query(events, p)
  PROVE  LET own == {e \in events : Usage!Matches(e, p)} IN
         /\ R \subseteq own
         /\ R = own \/ Cardinality(R) = p.limit
         /\ \A e \in R, f \in own \ R : e.ts >= f.ts
<1> DEFINE own == {e \in events : Usage!Matches(e, p)}
           n == Usage!Cardinality(own)
           first == IF p.offset < n THEN p.offset ELSE n
           last == IF p.limit > 0 /\ first + p.limit < n
                     THEN first + p.limit ELSE n
<1>1. n = Cardinality(own) /\ n \in Nat
  BY SameCardinality, FS_CardinalityType
<1>2. Usage!Query(events, p) =
        UNION {{b \ a : a \in Usage!Newest(own, first) \cap SUBSET b} :
                 b \in Usage!Newest(own, last)}
  BY DEF Usage!Query
<1>3. IsFiniteSet(own)
  OBVIOUS
<1> HIDE DEF own, n
<1>4. first = 0 /\ last \in {p.limit, n}
  BY <1>1
<1> HIDE DEF first, last
<1>5. PICK b \in Usage!Newest(own, last) :
        R \in {b \ a : a \in Usage!Newest(own, first) \cap SUBSET b}
  BY <1>2
<1>6. PICK a \in Usage!Newest(own, first) : R = b \ a
  BY <1>5
<1>7. /\ b \subseteq own /\ Cardinality(b) = last
      /\ \A e \in b, f \in own \ b : e.ts >= f.ts
      /\ a \subseteq own /\ Cardinality(a) = 0
  BY <1>4, SameCardinality DEF Usage!Newest, Usage!kSubset
<1>8. a = {}
  <2>1. IsFiniteSet(a)
    BY <1>3, <1>7, FS_Subset
  <2> QED
    BY <1>7, <2>1, FS_EmptySet
<1>9. last = n => b = own
  BY <1>1, <1>3, <1>7, FS_Subset
<1>10. /\ R \subseteq own
       /\ R = own \/ Cardinality(R) = p.limit
       /\ \A e \in R, f \in own \ R : e.ts >= f.ts
  BY <1>4, <1>6, <1>7, <1>8, <1>9
<1> QED
  BY <1>10 DEF own

(* The filter of the stores finds in a table what is of u's own calls. *)
LEMMA FoundOwn ==
  ASSUME BookInv, NEW u \in Identified, NEW from \in Int, NEW to \in Int,
         NEW table \in SUBSET Rows
  PROVE  /\ Usage!Found(table, u.tenant, u.sub, from, to) =
              OwnEvents(u, from, to, table)
         /\ IsFiniteSet(OwnEvents(u, from, to, table))
<1>1. from # NoTime /\ to # NoTime
  BY GatewayAssumption
<1>2. u.tenant # NoName /\ u.sub # NoName
  BY DEF Identified
<1>3. \A e \in table : Usage!InSummary(e, u.tenant, u.sub, from, to) <=>
                         e.owner = u /\ from <= e.ts /\ e.ts <= to
  BY <1>1, <1>2, OwnEvent DEF Usage!InSummary
<1>4. OwnEvents(u, from, to, table) \subseteq Rows
  BY DEF OwnEvents
<1> QED
  BY <1>3, <1>4, RowsFinite, FS_Subset DEF Usage!Found, OwnEvents

(* The two queries of GetSummary, the first of a table that has grown      *)
(* since.                                                                  *)
LEMMA SummaryOwn ==
  ASSUME BookInv, NEW u \in Identified, NEW from \in Int, NEW to \in Int,
         NEW first \in SUBSET Rows,
         NEW s \in Usage!GetSummary(first, Rows, u.tenant, u.sub, from, to)
  PROVE  OwnSummary(u, from, to, first, s)
<1> DEFINE then == OwnEvents(u, from, to, first)
           own == OwnEvents(u, from, to, Rows)
<1>1. /\ Usage!Found(first, u.tenant, u.sub, from, to) = then
      /\ Usage!Found(Rows, u.tenant, u.sub, from, to) = own
      /\ IsFiniteSet(own)
  BY FoundOwn
<1> HIDE DEF then, own
<1>2. PICK b \in Usage!Breakdowns(own) : s = [totals |-> Usage!Totals(then),
                                              tools |-> b]
  BY <1>1 DEF Usage!GetSummary
<1>3. /\ s.totals.total = Cardinality(then)
      /\ s.totals.success = Cardinality({e \in then : e.success})
  BY <1>2, SameCardinality DEF Usage!Totals
<1>4. PICK L \in SUBSET Usage!Tools(own) : b = [x \in L |-> Usage!Calls(own, x)]
  BY DEF Usage!Breakdowns, Usage!Busiest
<1>5. ASSUME NEW x \in DOMAIN s.tools
      PROVE  /\ s.tools[x] > 0
             /\ s.tools[x] = Cardinality({e \in own : e.tool = x})
  <2> DEFINE S == {e \in own : e.tool = x}
  <2>1. x \in Usage!Tools(own) /\ s.tools[x] = Cardinality(S)
    BY <1>2, <1>4, <1>5, SameCardinality DEF Usage!Calls
  <2>2. S # {}
    BY <2>1 DEF Usage!Tools
  <2>3. IsFiniteSet(S)
    BY <1>1, FS_Subset
  <2> HIDE DEF S
  <2>4. Cardinality(S) \in Nat /\ Cardinality(S) # 0
    BY <2>2, <2>3, FS_CardinalityType, FS_EmptySet
  <2> QED
    BY <2>1, <2>4 DEF S
<1> QED
  BY <1>3, <1>5 DEF OwnSummary, then, own

(* One query of the whole table. *)
LEMMA ExportOwn ==
  ASSUME BookInv, NEW u \in Identified, NEW from \in Int, NEW to \in Int,
         NEW limit \in Int,
         NEW R \in Usage!HandleExportUsage(Rows, u, from, to, limit)
  PROVE  OwnExport(u, from, to, limit, R)
<1> DEFINE own == OwnEvents(u, from, to, Rows)
           p == [tenant |-> u.tenant, user |-> u.sub, tool |-> <<>>,
                 start |-> from, end |-> to,
                 offset |-> 0, limit |-> Usage!ExportLimit(limit)]
<1>1. R \in Usage!Query(Rows, p)
  BY DEF Usage!HandleExportUsage
<1>2. Usage!ExportLimit(limit) \in Nat \ {0}
  BY GatewayAssumption DEF Usage!ExportLimit
<1>3. p.offset = 0 /\ p.limit = Usage!ExportLimit(limit)
  OBVIOUS
<1>4. /\ from # NoTime /\ to # NoTime
      /\ u.tenant # NoName /\ u.sub # NoName
  BY GatewayAssumption DEF Identified
<1>5. \A e \in Rows : Usage!Matches(e, p) <=>
        /\ e.tenant = u.tenant /\ e.user = u.sub
        /\ e.ts >= from /\ e.ts <= to
  BY <1>4 DEF Usage!Matches
<1>6. \A e \in Rows : e.ts \in Int
  BY OwnEvent
<1>7. own = {e \in Rows : Usage!Matches(e, p)}
  BY <1>5, <1>6, OwnEvent DEF OwnEvents
<1>8. IsFiniteSet(own)
  BY FoundOwn
<1> HIDE DEF p, own
<1>9. /\ p.limit \in Nat \ {0}
      /\ IsFiniteSet({e \in Rows : Usage!Matches(e, p)})
  BY <1>2, <1>3, <1>7, <1>8
<1>10. LET found == {e \in Rows : Usage!Matches(e, p)} IN
       /\ R \subseteq found
       /\ R = found \/ Cardinality(R) = p.limit
       /\ \A e \in R, f \in found \ R : e.ts >= f.ts
  BY <1>1, <1>3, <1>9, QueryNewest
<1> QED
  BY <1>3, <1>7, <1>10 DEF OwnExport, own

(* OwnOnlyHolds: whenever a user asks, and for any window and limit, the   *)
(* totals of the summary are those of the user's calls in the table that   *)
(* the first query saw, an entry of its breakdown, if it is there, counts  *)
(* the user's calls in the table that the second one saw, and the export   *)
(* is of the user's newest calls: never is one of another tenant's or      *)
(* another user's calls counted or returned.                               *)
THEOREM OwnOnlyHolds == Spec => []OwnOnly
<1>1. ASSUME IInv, BookInv, NEW u \in Identified,
             NEW start \in Int \cup {NoTime}, NEW end \in Int \cup {NoTime},
             NEW asked \in Int, NEW limit \in Int
      PROVE  OwnReport(u, start, end, asked, limit)
  <2> DEFINE from == IF start = NoTime THEN asked - Day ELSE start
             to == IF end = NoTime THEN asked ELSE end
  <2>1. from \in Int /\ to \in Int
    BY GatewayAssumption
  <2>2. \A first : Usage!HandleGetUsage(first, Rows, u, start, end, asked) =
          Usage!GetSummary(first, Rows, u.tenant, u.sub, from, to)
    BY DEF Usage!HandleGetUsage
  <2> HIDE DEF from, to
  <2>3. ASSUME NEW first \in SUBSET Rows,
               NEW s \in Usage!HandleGetUsage(first, Rows, u, start, end, asked)
        PROVE  OwnSummary(u, from, to, first, s)
    BY <1>1, <2>1, <2>2, <2>3, SummaryOwn
  <2>4. ASSUME NEW R \in Usage!HandleExportUsage(Rows, u, from, to, limit)
        PROVE  OwnExport(u, from, to, limit, R)
    BY <1>1, <2>1, <2>4, ExportOwn
  <2> QED
    BY <2>3, <2>4 DEF OwnReport, from, to
<1>2. IInv /\ BookInv => OwnOnly
  BY <1>1 DEF OwnOnly
<1> QED
  BY BookInvHolds, <1>2, PTL

(* ReportsOwnHolds: what the usage API tells any user is of that user's    *)
(* own calls, also when events are stored between the two queries of the   *)
(* summary and when its breakdown is cut or lost.                          *)
THEOREM ReportsOwnHolds == Spec => []ReportsOwn
<1>1. ASSUME IInv, OwnOnly PROVE ReportsOwn
  <2>1. now \in Int /\ now - 1 \in Int /\ 0 \in Int /\ 1 \in Int
    BY <1>1 DEF IInv, SessionType, Times
  <2> QED
    BY <1>1, <2>1 DEF OwnOnly, ReportsOwn
<1> QED
  BY IInvHolds, OwnOnlyHolds, <1>1, PTL

=============================================================================
