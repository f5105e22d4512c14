--------------------------- MODULE OneShotProofs ---------------------------
(***************************************************************************)
(* Proofs about the one-shot tool call: for every registry, every set of   *)
(* policies and any number of messages that the backend sends on its own.  *)
(***************************************************************************)
EXTENDS OneShot, TLAPS, SequenceTheorems

Words == {"initialize", "initialized", "tools/call"}
Message == [kind : {"response", "request", "notification", "garbage"},
            id : {0, InitID, CallID}, body : {"none", "ok", "error"}]

(* The types of what the call and the backend exchange. *)
TypeInv ==
  /\ cp \in {"handle", "dial", "sendInit", "initHead", "initRead", "notify",
             "sendCall", "callHead", "callRead", "answered"}
  /\ toBackend \in Seq(Words) /\ got \in Seq(Words)
  /\ toClient \in Seq(Message)
  /\ replied \in [{InitID, CallID} -> {"none", "ok", "error"}]

(* The messages of the call in their order. *)
Word(i) == IF i = 1 THEN "initialize"
           ELSE IF i = 2 THEN "initialized" ELSE "tools/call"

(* How many of them the call has sent when it is at stage s. *)
SentAt(s) == CASE s \in {"handle", "dial", "sendInit"} -> 0
               [] s \in {"initHead", "initRead", "notify"} -> 1
               [] s = "sendCall" -> 2
               [] OTHER -> 3

(* What the backend has read and what is on its way are the messages of    *)
(* the call in their order, as many as its stage says; a call that failed  *)
(* has stopped anywhere.                                                   *)
WireInv ==
  /\ \A i \in 1..Len(got) : got[i] = Word(i)
  /\ \A i \in 1..Len(toBackend) : toBackend[i] = Word(Len(got) + i)
  /\ Len(got) + Len(toBackend) <= 3
  /\ cp # "answered" => Len(got) + Len(toBackend) = SentAt(cp)

(* Past its first message the call has read that the initialization has    *)
(* succeeded.                                                              *)
InitInv ==
  /\ cp \in {"notify", "sendCall", "callHead", "callRead"} =>
       replied[InitID] = "ok"
  /\ Len(got) + Len(toBackend) > 1 => replied[InitID] = "ok"

(* A response on its way to the call that carries one of its ids is the    *)
(* answer of the backend to that request.                                  *)
ReplyInv ==
  \A i \in 1..Len(toClient) : \A id \in {InitID, CallID} :
    toClient[i].kind = "response" /\ toClient[i].id = id =>
      toClient[i].body = replied[id] /\ replied[id] # "none"

(* A transport exists only for a request that the handler has accepted. *)
AcceptInv ==
  /\ cp \notin {"handle", "answered"} => Refusal(req) = "none"
  /\ conn # "none" \/ watch # "none" => Refusal(req) = "none"

IInv == /\ TypeInv /\ WireInv /\ InitInv /\ ReplyInv /\ AcceptInv
        /\ AnswerIsResult

-----------------------------------------------------------------------------
LEMMA InitIInv == Init => IInv
  BY DEF Init, IInv, TypeInv, WireInv, InitInv, ReplyInv, AcceptInv,
         AnswerIsResult, SentAt, Message, InitID, CallID

(* No step changes the policy or the request, nor what the handler thinks  *)
(* of it.                                                                  *)
LEMMA SameRequest == [Next]_vars => (Refusal(req) = "none")' = (Refusal(req) = "none")
<1> SUFFICES ASSUME [Next]_vars
             PROVE (Refusal(req) = "none")' = (Refusal(req) = "none")
  OBVIOUS
<1>1. pol' = pol /\ req' = req
  BY DEF Next, Call, Watch, Backend, Finished, vars, callVars, Refuse, Accept,
     Dial, DialFail, SendInitialize, SendInitialized, SendCall, Send, SendFail,
     Abort, RecvNext, RecvContextDone, RecvSkip, RecvInit, RecvResult,
     RecvError, RecvFail, Expire, WatchContext, WatchDone, BackendRead,
     BackendReply, BackendUnrelated, BackendStall, BackendGone
<1> QED
  BY <1>1 DEF Refusal, Authorize

LEMMA StepIInv == IInv /\ [Next]_vars => IInv'
<1> SUFFICES ASSUME IInv, [Next]_vars PROVE IInv'
  OBVIOUS
<1> USE DEF IInv
<1>r. (Refusal(req) = "none")' = (Refusal(req) = "none")
  BY SameRequest
<1>d. InitID = 1 /\ CallID = 2
  BY DEF InitID, CallID
<1>1. CASE Refuse \/ Accept \/ Dial \/ DialFail \/ RecvNext
  <2>1. /\ UNCHANGED <<toBackend, toClient, got, replied>>
        /\ cp \in {"handle", "dial", "initHead", "callHead"}
        /\ cp' = "answered" \/ SentAt(cp') = SentAt(cp)
        /\ cp' \in {"answered", "dial", "sendInit", "initRead", "callRead"}
        /\ cp' = "callRead" => cp = "callHead"
    BY <1>1 DEF Refuse, Accept, Dial, DialFail, RecvNext, backendVars, SentAt
  <2>2. answer' = "ok" => answer = "ok"
    BY <1>1 DEF Refuse, Accept, Dial, DialFail, RecvNext, Refusal
  <2>3. AcceptInv'
    BY <1>1, <1>r DEF AcceptInv, Refuse, Accept, Dial, DialFail, RecvNext,
                      connVars
  <2> QED
    BY <2>1, <2>2, <2>3 DEF TypeInv, WireInv, InitInv, ReplyInv,
                            AnswerIsResult
<1>2. CASE SendFail \/ RecvContextDone \/ RecvError \/ RecvFail
  <2>1. /\ UNCHANGED <<toBackend, toClient, got, replied>>
        /\ cp \notin {"handle", "answered"}
        /\ cp' = "answered" /\ answer' = "badGateway"
    BY <1>2 DEF SendFail, RecvContextDone, RecvError, RecvFail, Abort, Return,
                backendVars, Readable, Reading
  <2>2. SentAt(cp) \in 0..3
    BY DEF SentAt
  <2> QED
    BY <2>1, <1>r DEF TypeInv, WireInv, InitInv, ReplyInv, AnswerIsResult,
                      AcceptInv
<1>3. CASE SendInitialize \/ SendInitialized \/ SendCall
  <2> DEFINE m == Word(SentAt(cp) + 1)
  <2>1. /\ m \in Words
        /\ toBackend' = Append(toBackend, m)
        /\ UNCHANGED <<toClient, got, replied, answer, conn, watch>>
        /\ cp \in {"sendInit", "notify", "sendCall"}
        /\ cp' \in {"initHead", "sendCall", "callHead"}
        /\ SentAt(cp') = SentAt(cp) + 1 /\ SentAt(cp) \in 0..2
        /\ SentAt(cp) > 0 => cp \in {"notify", "sendCall"}
        /\ cp' # "initHead" => cp \in {"notify", "sendCall"}
    <3>0. /\ Word(1) = "initialize" /\ Word(2) = "initialized"
          /\ Word(3) = "tools/call"
      BY DEF Word
    <3>1. CASE SendInitialize
      <4>1. cp = "sendInit" /\ cp' = "initHead" /\ SentAt(cp) = 0 /\ SentAt(cp') = 1
        BY <3>1 DEF SendInitialize, Send, SentAt
      <4>2. m = "initialize"
        BY <4>1, <3>0
      <4> HIDE DEF m
      <4>3. m \in Words
        BY <4>2 DEF Words
      <4>4. /\ toBackend' = Append(toBackend, m)
            /\ UNCHANGED <<toClient, got, replied, answer, conn, watch>>
        BY <3>1, <4>2 DEF SendInitialize, Send, backendVars, connVars
      <4> QED BY <4>1, <4>3, <4>4
    <3>2. CASE SendInitialized
      <4>1. cp = "notify" /\ cp' = "sendCall" /\ SentAt(cp) = 1 /\ SentAt(cp') = 2
        BY <3>2 DEF SendInitialized, Send, SentAt
      <4>2. m = "initialized"
        BY <4>1, <3>0
      <4> HIDE DEF m
      <4>3. m \in Words
        BY <4>2 DEF Words
      <4>4. /\ toBackend' = Append(toBackend, m)
            /\ UNCHANGED <<toClient, got, replied, answer, conn, watch>>
        BY <3>2, <4>2 DEF SendInitialized, Send, backendVars, connVars
      <4> QED BY <4>1, <4>3, <4>4
    <3>3. CASE SendCall
      <4>1. cp = "sendCall" /\ cp' = "callHead" /\ SentAt(cp) = 2 /\ SentAt(cp') = 3
        BY <3>3 DEF SendCall, Send, SentAt
      <4>2. m = "tools/call"
        BY <4>1, <3>0
      <4> HIDE DEF m
      <4>3. m \in Words
        BY <4>2 DEF Words
      <4>4. /\ toBackend' = Append(toBackend, m)
            /\ UNCHANGED <<toClient, got, replied, answer, conn, watch>>
        BY <3>3, <4>2 DEF SendCall, Send, backendVars, connVars
      <4> QED BY <4>1, <4>3, <4>4
    <3> QED BY <1>3, <3>1, <3>2, <3>3
  <2> HIDE DEF m
  <2>2. TypeInv'
    BY <2>1 DEF TypeInv
  <2>3. /\ Len(toBackend') = Len(toBackend) + 1
        /\ \A i \in 1..Len(toBackend) : toBackend'[i] = toBackend[i]
        /\ toBackend'[Len(toBackend) + 1] = m
        /\ Len(toBackend) \in Nat /\ Len(got) \in Nat
        /\ Len(got) + Len(toBackend) = SentAt(cp)
    BY <2>1 DEF TypeInv, WireInv
  <2>4. WireInv'
    BY <2>1, <2>3 DEF WireInv, m
  <2>5. InitInv'
    BY <2>1, <2>3 DEF InitInv
  <2> QED
    BY <2>1, <2>2, <2>4, <2>5, <1>r DEF ReplyInv, AnswerIsResult, AcceptInv
<1>4. CASE RecvSkip \/ RecvInit \/ RecvResult
  <2>1. /\ UNCHANGED <<toBackend, got, replied>>
        /\ toClient # <<>> /\ toClient' = Tail(toClient)
        /\ cp \in {"initRead", "callRead"}
        /\ cp' \in {"initHead", "callHead", "notify", "answered"}
        /\ cp' # "answered" => SentAt(cp') = SentAt(cp)
        /\ conn # "none"
    BY <1>4 DEF RecvSkip, RecvInit, RecvResult, Return, backendVars, SentAt,
                Readable, Reading
  <2>2. TypeInv' /\ Head(toClient) = toClient[1] /\ Len(toClient) >= 1
    BY <2>1 DEF TypeInv
  <2>3. WireInv'
    BY <2>1 DEF WireInv
  <2>4. ReplyInv'
    <3>1. \A i \in 1..Len(Tail(toClient)) :
            i + 1 \in 1..Len(toClient) /\ Tail(toClient)[i] = toClient[i + 1]
      BY <2>1 DEF TypeInv
    <3> QED BY <3>1, <2>1 DEF ReplyInv
  <2>5. InitInv'
    <3>1. CASE RecvInit
      BY <3>1, <2>1, <2>2, <1>d DEF RecvInit, Matches, WantID, ReplyInv,
                                    InitInv, TypeInv
    <3>2. CASE RecvSkip \/ RecvResult
      BY <3>2, <2>1 DEF RecvSkip, RecvResult, Return, InitInv
    <3> QED BY <1>4, <3>1, <3>2
  <2>6. AnswerIsResult'
    <3>1. CASE RecvResult
      BY <3>1, <2>1, <2>2, <1>d DEF RecvResult, Matches, WantID, ReplyInv,
                                    AnswerIsResult, TypeInv
    <3>2. CASE RecvSkip \/ RecvInit
      BY <3>2, <2>1 DEF RecvSkip, RecvInit, AnswerIsResult
    <3> QED BY <1>4, <3>1, <3>2
  <2>7. AcceptInv'
    BY <2>1, <1>r DEF AcceptInv
  <2> QED BY <2>2, <2>3, <2>4, <2>5, <2>6, <2>7
<1>5. CASE Expire \/ WatchContext \/ WatchDone \/ BackendStall \/ BackendGone
           \/ UNCHANGED vars
  <2>1. /\ UNCHANGED <<toBackend, toClient, got, replied, cp, answer>>
        /\ conn' # "none" \/ watch' # "none" => conn # "none" \/ watch # "none"
    BY <1>5 DEF Expire, WatchContext, WatchDone, BackendStall, BackendGone,
                vars, callVars, connVars, backendVars
  <2> QED
    BY <2>1, <1>r DEF TypeInv, WireInv, InitInv, ReplyInv, AnswerIsResult,
                      AcceptInv
<1>6. CASE BackendRead
  <2>1. /\ got' = Append(got, toBackend[1]) /\ toBackend' = Tail(toBackend)
        /\ UNCHANGED <<toClient, replied, cp, answer, conn, watch>>
        /\ toBackend # <<>> /\ Len(toBackend) >= 1 /\ toBackend[1] \in Words
    BY <1>6 DEF BackendRead, TypeInv, callVars, connVars
  <2>2. TypeInv'
    BY <2>1 DEF TypeInv
  <2>3. /\ Len(got') = Len(got) + 1 /\ got'[Len(got) + 1] = toBackend[1]
        /\ \A i \in 1..Len(got) : got'[i] = got[i]
        /\ Len(toBackend') = Len(toBackend) - 1
        /\ \A i \in 1..Len(toBackend') : toBackend'[i] = toBackend[i + 1]
        /\ Len(got) \in Nat /\ Len(toBackend) \in Nat
    BY <2>1 DEF TypeInv
  <2>4. WireInv'
    BY <2>1, <2>3 DEF WireInv
  <2>5. InitInv'
    BY <2>1, <2>3 DEF InitInv
  <2> QED
    BY <2>1, <2>2, <2>4, <2>5, <1>r DEF ReplyInv, AnswerIsResult, AcceptInv
<1>7. CASE BackendReply
  <2>1. PICK id \in {1, 2}, body \in {"ok", "error"} :
          /\ replied[id] = "none"
          /\ toClient' = Append(toClient, [kind |-> "response", id |-> id,
                                           body |-> body])
          /\ replied' = [replied EXCEPT ![id] = body]
          /\ UNCHANGED <<toBackend, got, cp, answer, conn, watch>>
    BY <1>7 DEF BackendReply, Reply, callVars, connVars, InitID, CallID
  <2>2. TypeInv'
    BY <2>1, <1>d DEF TypeInv, Message
  <2>3. /\ Len(toClient') = Len(toClient) + 1 /\ Len(toClient) \in Nat
        /\ \A i \in 1..Len(toClient) : toClient'[i] = toClient[i]
        /\ toClient'[Len(toClient) + 1] = [kind |-> "response", id |-> id,
                                           body |-> body]
    BY <2>1, <1>d DEF TypeInv, Message
  <2>4. ReplyInv'
    BY <2>1, <2>3, <1>d DEF ReplyInv, TypeInv
  <2>5. InitInv' /\ AnswerIsResult' /\ WireInv' /\ AcceptInv'
    BY <2>1, <1>r, <1>d DEF InitInv, AnswerIsResult, WireInv, AcceptInv, TypeInv
  <2> QED BY <2>2, <2>4, <2>5
<1>8. CASE BackendUnrelated
  <2>1. PICK m \in Message :
          /\ m.kind = "response" => m.id = 0
          /\ toClient' = Append(toClient, m)
          /\ UNCHANGED <<toBackend, got, replied, cp, answer, conn, watch>>
    BY <1>8 DEF BackendUnrelated, Message, callVars, connVars, InitID, CallID
  <2>2. TypeInv'
    BY <2>1 DEF TypeInv
  <2>3. /\ Len(toClient') = Len(toClient) + 1 /\ Len(toClient) \in Nat
        /\ \A i \in 1..Len(toClient) : toClient'[i] = toClient[i]
        /\ toClient'[Len(toClient) + 1] = m
    BY <2>1 DEF TypeInv
  <2>4. ReplyInv'
    BY <2>1, <2>3, <1>d DEF ReplyInv
  <2> QED
    BY <2>1, <2>2, <2>4, <1>r DEF WireInv, InitInv, AnswerIsResult, AcceptInv
<1> QED
  BY <1>1, <1>2, <1>3, <1>4, <1>5, <1>6, <1>7, <1>8
     DEF Next, Call, Watch, Backend, Finished

LEMMA IInvHolds == Spec => []IInv
  BY InitIInv, StepIInv, PTL DEF Spec

(* A 200 stands for the answer that the backend gave to tools/call,        *)
(* whatever it sends besides and whenever the context ends (oneshot.go,    *)
(* recvResponse).                                                          *)
THEOREM AnswerIsResultHolds == Spec => []AnswerIsResult
<1>1. IInv => AnswerIsResult
  BY DEF IInv
<1> QED BY IInvHolds, <1>1, PTL

(* A backend reads tools/call last, after an initialization that it has    *)
(* accepted (oneshot.go, CallTool).                                        *)
THEOREM HandshakeHolds == Spec => []Handshake
<1>1. IInv => Handshake
  <2> SUFFICES ASSUME IInv, NEW k \in 1..Len(got), got[k] = "tools/call"
               PROVE /\ replied[InitID] = "ok"
                     /\ got = <<"initialize", "initialized", "tools/call">>
    BY DEF Handshake, Contains
  <2>1. Len(got) = 3 /\ \A i \in 1..3 : got[i] = Word(i)
    <3>1. Word(k) = "tools/call" /\ Len(got) \in Nat /\ Len(toBackend) \in Nat
      BY DEF IInv, WireInv, TypeInv
    <3>2. k \notin {1, 2}
      BY <3>1 DEF Word
    <3>3. Len(got) + Len(toBackend) <= 3
      BY DEF IInv, WireInv
    <3>4. Len(got) = 3
      <4> DEFINE n == Len(got)
                 m == Len(toBackend)
      <4>1. n \in Nat /\ m \in Nat /\ n + m <= 3 /\ k \in 1..n
        BY <3>1, <3>3
      <4> HIDE DEF n, m
      <4>2. n = 3
        BY <3>2, <4>1
      <4> QED BY <4>2 DEF n
    <3> QED BY <3>4 DEF IInv, WireInv
  <2>2. got = <<"initialize", "initialized", "tools/call">>
    BY <2>1 DEF IInv, TypeInv, Word
  <2> QED BY <2>1, <2>2 DEF IInv, InitInv, TypeInv
<1> QED BY IInvHolds, <1>1, PTL

(* A backend is contacted only for a server of the hub and a tool that is  *)
(* listed for that very server, and only when the policy of the gateway    *)
(* authorizes the call (tools.go, handleInvokeTool).                       *)
THEOREM ContactAuthorized ==
  Spec => [](conn # "none" => /\ req.server \in Server \ LocalOnly
                              /\ IsToolAlwaysAllowed(req.server, req.tool)
                              /\ Authorize(pol, ToolsCall, req.tool))
<1>1. IInv => (conn # "none" => /\ req.server \in Server \ LocalOnly
                                /\ IsToolAlwaysAllowed(req.server, req.tool)
                                /\ Authorize(pol, ToolsCall, req.tool))
  BY DEF IInv, AcceptInv, Refusal
<1> QED BY IInvHolds, <1>1, PTL

-----------------------------------------------------------------------------
(* The patterns of the policy *)

LEMMA PrefixMeans ==
  ASSUME NEW S, NEW T, NEW s \in Seq(S), NEW t \in Seq(T)
  PROVE  IsPrefix(s, t) <=>
           Len(s) <= Len(t) /\ \A j \in 1..Len(s) : s[j] = t[j]
<1>1. Len(s) \in Nat /\ Len(t) \in Nat
  OBVIOUS
<1>2. ASSUME Len(s) <= Len(t)
      PROVE  SubSeq(s, 1, Len(s)) = SubSeq(t, 1, Len(s)) <=>
               \A j \in 1..Len(s) : s[j] = t[j]
  <2>1. SubSeq(s, 1, Len(s)) = [j \in 1..Len(s) |-> s[j]]
    BY <1>1
  <2>2. SubSeq(t, 1, Len(s)) = [j \in 1..Len(s) |-> t[j]]
    BY <1>1, <1>2
  <2> QED
    BY <2>1, <2>2
<1> QED
  BY <1>2 DEF IsPrefix

LEMMA SuffixMeans ==
  ASSUME NEW S, NEW T, NEW s \in Seq(S), NEW t \in Seq(T)
  PROVE  IsSuffix(s, t) <=>
           /\ Len(s) <= Len(t)
           /\ \A j \in 1..Len(s) : s[j] = t[Len(t) - Len(s) + j]
<1>1. ASSUME NEW U, NEW u \in Seq(U)
      PROVE  /\ Reverse(u) \in Seq(U) /\ Len(Reverse(u)) = Len(u)
             /\ \A j \in 1..Len(u) : Reverse(u)[j] = u[Len(u) - j + 1]
  BY DEF Reverse
<1> DEFINE m == Len(s)
           n == Len(t)
<1>2. m \in Nat /\ n \in Nat
  OBVIOUS
<1>3. IsSuffix(s, t) <=>
        m <= n /\ \A j \in 1..m : Reverse(s)[j] = Reverse(t)[j]
  BY <1>1, PrefixMeans DEF IsSuffix
<1>4. /\ \A j \in 1..m : Reverse(s)[j] = s[m - j + 1]
      /\ \A j \in 1..n : Reverse(t)[j] = t[n - j + 1]
  BY <1>1
<1> HIDE DEF m, n
<1>5. ASSUME m <= n
      PROVE  (\A j \in 1..m : Reverse(s)[j] = Reverse(t)[j]) <=>
               \A j \in 1..m : s[j] = t[n - m + j]
  <2>1. ASSUME \A j \in 1..m : Reverse(s)[j] = Reverse(t)[j],
               NEW j \in 1..m
        PROVE  s[j] = t[n - m + j]
    <3>1. /\ m - j + 1 \in 1..m /\ m - j + 1 \in 1..n
          /\ m - (m - j + 1) + 1 = j /\ n - (m - j + 1) + 1 = n - m + j
      BY <1>2, <1>5
    <3> QED
      BY <1>4, <2>1, <3>1
  <2>2. ASSUME \A j \in 1..m : s[j] = t[n - m + j], NEW j \in 1..m
        PROVE  Reverse(s)[j] = Reverse(t)[j]
    <3>1. /\ m - j + 1 \in 1..m /\ j \in 1..n
          /\ n - m + (m - j + 1) = n - j + 1
      BY <1>2, <1>5
    <3> QED
      BY <1>4, <2>2, <3>1
  <2> QED
    BY <2>1, <2>2
<1> QED
  BY <1>3, <1>5 DEF m, n

(* matchPattern decides whether the pattern stands for the value. *)
LEMMA MatchIsGlob ==
  ASSUME NEW S, NEW T, NEW value \in Seq(S), NEW pattern \in Seq(T),
         value # <<>>
  PROVE  MatchPattern(value, pattern) <=> Glob(pattern, value)
<1> DEFINE n == Len(pattern)
           len == Len(value)
           Star(i) == i \in 1..n /\ pattern[i] = "*"
           Fits(i) ==
             /\ n <= len + 1
             /\ \A j \in 1..n \ {i} :
                  pattern[j] = value[IF j < i THEN j ELSE len + j - n]
<1>1. Glob(pattern, value) <=>
        \/ Star(n) /\ Fits(n)
        \/ ~Star(n) /\ Star(1) /\ Fits(1)
        \/ ~Star(n) /\ ~Star(1) /\ value = pattern
  BY DEF Glob
<1>2. n \in Nat /\ len \in Nat
  OBVIOUS
<1>3. CASE pattern = <<>>
  <2>1. n = 0
    BY <1>3
  <2>2. ~Star(n) /\ ~Star(1) /\ value # pattern
    BY <1>3, <2>1
  <2> QED
    BY <1>1, <1>3, <2>2 DEF MatchPattern
<1>4. CASE pattern # <<>>
  <2>1. n > 0
    BY <1>4, EmptySeq
  <2>2. Last(pattern) = pattern[n] /\ Head(pattern) = pattern[1]
    BY <1>4 DEF Last
  <2>3. n \in 1..n /\ 1 \in 1..n
    BY <1>2, <2>1
  <2>4. CASE Star(n) /\ n = 1
    <3>1. pattern = <<"*">>
      BY <2>4
    <3>2. 1..n \ {n} = {} /\ n <= len + 1
      BY <1>2, <2>4
    <3> QED
      BY <1>1, <1>4, <2>4, <3>1, <3>2 DEF MatchPattern
  <2>5. CASE Star(n) /\ n > 1
    <3>1. /\ Front(pattern) \in Seq(T) /\ Len(Front(pattern)) = n - 1
          /\ \A j \in 1..(n - 1) : Front(pattern)[j] = pattern[j]
      BY <1>2, <2>5 DEF Front
    <3>2. IsPrefix(Front(pattern), value) <=>
            n - 1 <= len /\ \A j \in 1..(n - 1) : pattern[j] = value[j]
      <4> DEFINE front == Front(pattern)
      <4>1. /\ front \in Seq(T) /\ Len(front) = n - 1
            /\ \A j \in 1..(n - 1) : front[j] = pattern[j]
        BY <3>1
      <4> HIDE DEF front
      <4>2. IsPrefix(front, value) <=>
              Len(front) <= len /\ \A j \in 1..Len(front) : front[j] = value[j]
        BY <4>1, PrefixMeans
      <4>3. IsPrefix(front, value) <=>
              n - 1 <= len /\ \A j \in 1..(n - 1) : pattern[j] = value[j]
        BY <4>1, <4>2
      <4> QED
        BY <4>3 DEF front
    <3>3. pattern # <<"*">>
      BY <2>5
    <3>4. MatchPattern(value, pattern) <=> IsPrefix(Front(pattern), value)
      BY <1>4, <2>2, <2>5, <3>3 DEF MatchPattern
    <3>5. Fits(n) <=>
            n - 1 <= len /\ \A j \in 1..(n - 1) : pattern[j] = value[j]
      <4>1. 1..n \ {n} = 1..(n - 1) /\ \A j \in 1..(n - 1) : j < n
        BY <1>2
      <4>2. n <= len + 1 <=> n - 1 <= len
        BY <1>2
      <4> QED
        BY <4>1, <4>2
    <3> QED
      BY <1>1, <2>5, <3>2, <3>4, <3>5
  <2>6. CASE ~Star(n) /\ Star(1)
    <3>0. n # 1
      BY <2>6
    <3>1. n > 1 /\ n # 1
      <4> HIDE DEF Star, Fits, n
      <4> QED
        BY <1>2, <2>1, <3>0
    <3>2. /\ Tail(pattern) \in Seq(T) /\ Len(Tail(pattern)) = n - 1
          /\ \A j \in 1..(n - 1) : Tail(pattern)[j] = pattern[j + 1]
      BY <1>4, HeadTailProperties
    <3>3. IsSuffix(Tail(pattern), value) <=>
            /\ n - 1 <= len
            /\ \A j \in 1..(n - 1) :
                 pattern[j + 1] = value[len - (n - 1) + j]
      <4> DEFINE rest == Tail(pattern)
      <4>1. rest \in Seq(T)
        BY <3>2
      <4>2. Len(rest) = n - 1 /\ \A j \in 1..(n - 1) : rest[j] = pattern[j + 1]
        BY <3>2
      <4> HIDE DEF rest
      <4>3. IsSuffix(rest, value) <=>
              /\ Len(rest) <= Len(value)
              /\ \A j \in 1..Len(rest) :
                   rest[j] = value[Len(value) - Len(rest) + j]
        BY <4>1, SuffixMeans
      <4>4. IsSuffix(rest, value) <=>
              /\ n - 1 <= len
              /\ \A j \in 1..(n - 1) : rest[j] = value[len - (n - 1) + j]
        BY <4>3, <4>2
      <4>5. IsSuffix(rest, value) <=>
              /\ n - 1 <= len
              /\ \A j \in 1..(n - 1) :
                   pattern[j + 1] = value[len - (n - 1) + j]
        BY <4>2, <4>4
      <4> QED
        BY <4>5 DEF rest
    <3>4. pattern # <<"*">>
      BY <3>1
    <3>5. MatchPattern(value, pattern) <=> IsSuffix(Tail(pattern), value)
      BY <1>4, <2>2, <2>3, <2>6, <3>1, <3>4 DEF MatchPattern
    <3>6. Fits(1) <=>
            /\ n - 1 <= len
            /\ \A j \in 1..(n - 1) :
                 pattern[j + 1] = value[len - (n - 1) + j]
      <4>1. n <= len + 1 <=> n - 1 <= len
        BY <1>2
      <4>2. ASSUME Fits(1), NEW j \in 1..(n - 1)
            PROVE  pattern[j + 1] = value[len - (n - 1) + j]
        <5>1. /\ j + 1 \in 1..n \ {1} /\ ~(j + 1 < 1)
              /\ len + (j + 1) - n = len - (n - 1) + j
          BY <1>2
        <5> QED
          BY <4>2, <5>1
      <4>3. ASSUME \A j \in 1..(n - 1) :
                     pattern[j + 1] = value[len - (n - 1) + j],
                   NEW j \in 1..n \ {1}
            PROVE  pattern[j] = value[IF j < 1 THEN j ELSE len + j - n]
        <5>1. /\ j - 1 \in 1..(n - 1) /\ ~(j < 1) /\ (j - 1) + 1 = j
              /\ len - (n - 1) + (j - 1) = len + j - n
          BY <1>2
        <5> QED
          BY <4>3, <5>1
      <4> QED
        BY <4>1, <4>2, <4>3
    <3> QED
      BY <1>1, <2>6, <3>3, <3>5, <3>6
  <2>7. CASE ~Star(n) /\ ~Star(1)
    <3>1. pattern # <<"*">>
      BY <2>3, <2>7
    <3>2. MatchPattern(value, pattern) <=> value = pattern
      BY <1>4, <2>2, <2>3, <2>7, <3>1 DEF MatchPattern
    <3> QED
      BY <1>1, <2>7, <3>2
  <2>8. n = 1 \/ n > 1
    <3> HIDE DEF n
    <3> QED
      BY <1>2, <2>1
  <2> HIDE DEF Star, Fits, n
  <2> QED
    BY <2>4, <2>5, <2>6, <2>7, <2>8
<1> QED
  BY <1>3, <1>4

LEMMA MatchAnyLists ==
  ASSUME NEW S, NEW T, NEW value \in Seq(S), value # <<>>,
         NEW patterns \in SUBSET Seq(T)
  PROVE  MatchAny(value, patterns) <=> Lists(patterns, value)
<1>1. \A p \in patterns : MatchPattern(value, p) <=> Glob(p, value)
  BY MatchIsGlob
<1> QED
  BY <1>1 DEF MatchAny, Lists

(* A backend is contacted only for a call that the lists of the policy, as *)
(* their patterns are meant, allow, whatever the lists and the registry    *)
(* (policy.go, Authorize and matchPattern).                                *)
THEOREM OnlyAllowedHolds == Spec => []OnlyAllowed
<1> DEFINE Drawn == pol \in Policies /\ req \in Request
<1>1. Spec => []Drawn
  <2>1. Init => Drawn
    BY DEF Init
  <2>2. Drawn /\ [Next]_vars => Drawn'
    <3>1. [Next]_vars => pol' = pol /\ req' = req
      BY DEF Next, Call, Watch, Backend, Finished, vars, callVars, Refuse,
         Accept, Dial, DialFail, SendInitialize, SendInitialized, SendCall,
         Send, SendFail, Abort, RecvNext, RecvContextDone, RecvSkip, RecvInit,
         RecvResult, RecvError, RecvFail, Expire, WatchContext, WatchDone,
         BackendRead, BackendReply, BackendUnrelated, BackendStall,
         BackendGone
    <3> QED
      BY <3>1
  <2> QED
    BY <2>1, <2>2, PTL DEF Spec
<1>2. ASSUME Drawn, IInv PROVE OnlyAllowed
  <2> SUFFICES ASSUME conn # "none"
               PROVE  /\ req.server \in Server \ LocalOnly
                      /\ req.tool \in AlwaysAllow[req.server]
                      /\ ~Lists(pol.denyTools, req.tool)
                      /\ ~Lists(pol.denyMethods, ToolsCall)
                      /\ pol.allowMethods = {} \/ Lists(pol.allowMethods, ToolsCall)
                      /\ \/ pol.respect
                         \/ Lists(pol.allowTools, req.tool)
                         \/ pol.allowTools = {} /\ pol.defaultAllow
    BY DEF OnlyAllowed
  <2>1. /\ req.server \in Server \ LocalOnly
        /\ req.tool \in AlwaysAllow[req.server]
        /\ Authorize(pol, ToolsCall, req.tool)
    BY <1>2 DEF IInv, AcceptInv, Refusal, IsToolAlwaysAllowed
  <2>2. req.tool \in Seq(STRING) /\ req.tool # <<>>
    BY <1>2, <2>1, OneShotAssumption DEF Request, Authorize
  <2>3. ToolsCall \in Seq({"tools/", "call"}) /\ ToolsCall # <<>>
    BY DEF ToolsCall
  <2>4. /\ pol.denyTools \subseteq Seq(STRING)
        /\ pol.allowTools \subseteq Seq(STRING)
        /\ pol.denyMethods \subseteq Seq(STRING)
        /\ pol.allowMethods \subseteq Seq(STRING)
    BY <1>2, OneShotAssumption
  <2>5. /\ MatchAny(req.tool, pol.denyTools) <=> Lists(pol.denyTools, req.tool)
        /\ MatchAny(req.tool, pol.allowTools) <=> Lists(pol.allowTools, req.tool)
    BY <2>2, <2>4, MatchAnyLists
  <2>6. /\ MatchAny(ToolsCall, pol.denyMethods)
             <=> Lists(pol.denyMethods, ToolsCall)
        /\ MatchAny(ToolsCall, pol.allowMethods)
             <=> Lists(pol.allowMethods, ToolsCall)
    BY <2>3, <2>4, MatchAnyLists
  <2> QED
    BY <2>1, <2>5, <2>6 DEF Authorize
<1> QED
  BY <1>1, <1>2, IInvHolds, PTL

=============================================================================
