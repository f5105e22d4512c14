-------------------------------- MODULE Auth --------------------------------
(***************************************************************************)
(* Who a request comes from (internal/auth), as operators: the JWT and the *)
(* API key authenticators, the composite that tries them in order, and the *)
(* builder that chooses between them.                                      *)
(*                                                                         *)
(* A credential is a token (a record of what matters in it), the name of   *)
(* an API key, or anything else.  A request is a record of authorization   *)
(* (scheme and credential), apiKey (the X-API-Key header) and server.      *)
(***************************************************************************)
EXTENDS Integers, Sequences

CONSTANTS
  NoName,     \* an empty string or a missing header
  NoTime,     \* a claim that is missing
  Token,      \* the tokens clients hold
  KeyOwner,   \* per API key that Validate accepts: sub and tenant
  Issuer,     \* cfg.Issuer, NoName for no check
  Audiences,  \* cfg.Audiences, {} for no check
  ClockSkew   \* cfg.ClockSkew

ASSUME AuthAssumption ==
  /\ ClockSkew \in Nat
  /\ \A tok \in Token : /\ tok.signed \in BOOLEAN
                        /\ tok.exp \in Int \cup {NoTime}
                        /\ tok.nbf \in Int \cup {NoTime}

(* Which methods are set up, and which of them, or all together, are       *)
(* required.                                                               *)
AuthConfig == [jwt : BOOLEAN, apiKey : BOOLEAN, jwtRequired : BOOLEAN,
               keyRequired : BOOLEAN, required : BOOLEAN]

(* The three results of Authenticate. *)
Principal(sub, tenant) ==
  [kind |-> "principal", sub |-> sub, tenant |-> tenant]
Anonymous == [kind |-> "anonymous", sub |-> NoName, tenant |-> NoName]
Unauthorized == [kind |-> "unauthorized", sub |-> NoName, tenant |-> NoName]

Refused(required) == IF required THEN Unauthorized ELSE Anonymous

-----------------------------------------------------------------------------
(* JWT *)

(* "Bearer" is cut off, with or without a space after it. *)
BearerToken(h) ==
  IF h.scheme \in {"Bearer x", "Bearerx"} THEN h.cred ELSE NoName

(* The parser checks the signature against the JWKS and the times of the   *)
(* token against its own clock, without any skew.                          *)
ParseWithClaims(tok, t) ==
  /\ tok \in Token /\ tok.signed
  /\ tok.exp = NoTime \/ t < tok.exp
  /\ tok.nbf = NoTime \/ t >= tok.nbf

(* Mutant: the audience is not compared. *)
ValidateRegisteredClaims_NoAudience(tok, t) ==
  /\ Issuer # NoName => tok.iss = Issuer
  /\ tok.exp # NoTime => t <= tok.exp + ClockSkew
  /\ tok.nbf # NoTime => t >= tok.nbf - ClockSkew

ValidateRegisteredClaims(tok, t) ==
  /\ Issuer # NoName => tok.iss = Issuer
  /\ Audiences # {} => tok.aud \cap Audiences # {}
  /\ tok.exp # NoTime => t <= tok.exp + ClockSkew
  /\ tok.nbf # NoTime => t >= tok.nbf - ClockSkew

JWTAuthenticate(a, r, t) ==
  LET tok == BearerToken(r.authorization) IN
  IF /\ tok # NoName
     /\ ParseWithClaims(tok, t)
     /\ ValidateRegisteredClaims(tok, t)
    THEN Principal(tok.sub, tok.tenant)
    ELSE Refused(a.jwtRequired)

-----------------------------------------------------------------------------
(* API keys *)

(* X-API-Key, or what follows "Bearer " when there is no such header. *)
PresentedKey(r) ==
  CASE r.apiKey # NoName -> r.apiKey
    [] r.apiKey = NoName /\ r.authorization.scheme = "Bearer x" ->
         r.authorization.cred
    [] OTHER -> NoName

APIKeyAuthenticate(a, r) ==
  LET key == PresentedKey(r) IN
  IF key \in DOMAIN KeyOwner
    THEN Principal(KeyOwner[key].sub, KeyOwner[key].tenant)
    ELSE Refused(a.keyRequired)

-----------------------------------------------------------------------------
(* The answers of the methods that WithJWT and WithAPIKey have added. *)
Answers(a, r, t) ==
  (IF a.jwt THEN <<JWTAuthenticate(a, r, t)>> ELSE <<>>)
    \o (IF a.apiKey THEN <<APIKeyAuthenticate(a, r)>> ELSE <<>>)

(* CompositeAuthenticator: the first principal, or else what required says *)
Composite(answers, required) ==
  LET found == {i \in DOMAIN answers : answers[i].kind = "principal"} IN
  IF found = {} THEN Refused(required)
                ELSE answers[CHOOSE i \in found : \A j \in found : i <= j]

(* Build, then Authenticate: no method is NoAuth, and a single one is used *)
(* as it is, whatever the builder was told about required.                 *)
Authenticate(a, r, t) ==
  LET answers == Answers(a, r, t) IN
  CASE Len(answers) = 0 -> Anonymous
    [] Len(answers) = 1 -> answers[1]
    [] OTHER -> Composite(answers, a.required)

(* requireAuth of the HTTP API: only a principal will do. *)
RequireAuth(a, r, t) == Authenticate(a, r, t).kind = "principal"

-----------------------------------------------------------------------------
(* What the credentials of a request are worth, without the code's steps.  *)

(* The interval in which a token is accepted; ClockSkew does not widen it. *)
InTime(tok, t) ==
  (tok.nbf # NoTime => tok.nbf <= t) /\ (tok.exp # NoTime => t < tok.exp)

(* Issued to this gateway by the one who may. *)
Trusted(tok) ==
  /\ tok.signed
  /\ Issuer \in {NoName, tok.iss}
  /\ Audiences = {} \/ \E x \in tok.aud : x \in Audiences

(* The identities request r can claim at time t by the methods of a. *)
Vouched(a, r, t) ==
  LET toks == {tok \in Token :
                 /\ a.jwt /\ Trusted(tok) /\ InTime(tok, t)
                 /\ r.authorization.scheme # "other"
                 /\ r.authorization.cred = tok}
      keys == {k \in DOMAIN KeyOwner :
                 /\ a.apiKey
                 /\ \/ r.apiKey = k
                    \/ /\ r.apiKey = NoName
                       /\ r.authorization = [scheme |-> "Bearer x", cred |-> k]}
  IN  {Principal(tok.sub, tok.tenant) : tok \in toks}
        \cup {Principal(KeyOwner[k].sub, KeyOwner[k].tenant) : k \in keys}

(* The flag that decides about a request without a principal. *)
Mandatory(a) ==
  IF a.jwt /\ a.apiKey THEN a.required
  ELSE (a.jwt /\ a.jwtRequired) \/ (a.apiKey /\ a.keyRequired)
=============================================================================
