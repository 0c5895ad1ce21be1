----------------------------- MODULE HttpProofs -----------------------------
(***************************************************************************)
(* Theorems about the two ends of HTTP: HttpServer, for any connections,   *)
(* any number of io threads and any requests, and HttpClient, for any      *)
(* answers and any way the network may cut them.                           *)
(*                                                                         *)
(* Each session is its own state machine, so the invariant of the server   *)
(* is stated of one connection (SessionInv) and every action moves one of  *)
(* them: the operation that holds the session fixes how many answers are   *)
(* behind the requests, and the rest follows.                              *)
(*                                                                         *)
(* The invariant of the client says what the buffer and the wire hold      *)
(* together (the answer), where the decoder stands in it (behind the       *)
(* header, or behind the k-th chunk) and that body is the data up to       *)
(* there; the lemmas before it say which tokens stand where.               *)
(***************************************************************************)
EXTENDS HttpServer, HttpClient, TLAPS, FiniteSetTheorems, WellFoundedInduction, SequenceTheorems

Answered(c) == got[c] = Len(answers[c])
OneBehind(c) == got[c] = Len(answers[c]) + 1

PlaceInv(c) ==
    /\ got[c] <= Len(sent[c])
    /\ ~accepted[c] => ops[c] = {} /\ got[c] = 0
    /\ \/ ops[c] = {} /\ Answered(c)
       \/ ops[c] = {} /\ OneBehind(c) /\ ended[c] = "cut" /\ (client[c] = "gone" \/ late[c])
       \/ ops[c] = {"read"} /\ Answered(c)
       \/ ops[c] = {"handle"} /\ OneBehind(c)
       \/ ops[c] = {"write"} /\ OneBehind(c) /\ res[c] = got[c]

(* The answers are those of the first requests, and one that asked for      *)
(* close is the last.                                                      *)
OrderInv(c) ==
    \A i \in 1..Len(answers[c]) : /\ answers[c][i] = i
                                  /\ sent[c][i] = "close" => got[c] = i /\ ops[c] = {}

SessionInv(c) == PlaceInv(c) /\ OrderInv(c)

IInv == TypeOK /\ \A c \in Conns : SessionInv(c)

---------------------------------------------------------------------------
Operations == SUBSET {"read", "handle", "write"}

(* An operation that ends hands the session on, or lets it go. *)
LEMMA HandedOn ==
    ASSUME TypeOK, NEW c \in Conns, NEW from, NEW to \in Operations, Becomes(c, from, to)
    PROVE  /\ ops' \in [Conns -> Operations]
           /\ ops'[c] = (ops[c] \ {from}) \union to
           /\ \A d \in Conns \ {c} : ops'[d] = ops[d]
<1>1. ops \in [Conns -> Operations]
  BY DEF TypeOK, Operations
<1>2. (ops[c] \ {from}) \union to \in Operations
  BY <1>1 DEF Operations
<1> QED
  BY <1>1, <1>2 DEF Becomes

LEMMA TypeStep == TypeOK /\ [Next]_vars => TypeOK'
<1> SUFFICES ASSUME TypeOK, [Next]_vars PROVE TypeOK'
  OBVIOUS
<1> USE DEF TypeOK
<1>1. CASE UNCHANGED vars
  BY <1>1 DEF vars, clientVars, sessionVars
<1>2. CASE AcceptFails
  BY <1>2 DEF AcceptFails, clientVars, sessionVars
<1>3. ASSUME NEW c \in Conns, Connect(c) \/ (\E how \in {"closed", "gone"} : Leave(c, how))
      PROVE  TypeOK'
  BY <1>3 DEF Connect, Leave, server, sessionVars
<1>4. ASSUME NEW c \in Conns, NEW request \in Requests, Send(c, request)
      PROVE  TypeOK'
  <2>1. Append(sent[c], request) \in Seq(Requests)
    OBVIOUS
  <2> QED
    BY <1>4, <2>1 DEF Send, server, sessionVars
<1>5. ASSUME NEW c \in Conns, Accept(c)
      PROVE  TypeOK'
  <2>1. ops' \in [Conns -> SUBSET {"read", "handle", "write"}]
    BY <1>5 DEF Accept
  <2> QED
    BY <1>5, <2>1 DEF Accept, clientVars
<1>6. ASSUME NEW c \in Conns, OnRead(c) \/ OnReadTimeout(c) \/ OnReadEnd(c) \/ OnReadGone(c) \/ OnReadBad(c)
      PROVE  TypeOK'
  <2>1. ops' \in [Conns -> Operations]
    BY <1>6, HandedOn, {"handle"} \in Operations, {} \in Operations
       DEF OnRead, OnReadTimeout, OnReadEnd, OnReadGone, OnReadBad, Operations
  <2>2. got' \in [Conns -> Nat]
    BY <1>6 DEF OnRead, OnReadTimeout, OnReadEnd, OnReadGone, OnReadBad
  <2>3. ended' \in [Conns -> {"no", "timeout", "cut", "close", "bad"}]
    BY <1>6 DEF OnRead, OnReadTimeout, OnReadEnd, OnReadGone, OnReadBad
  <2> QED
    BY <1>6, <2>1, <2>2, <2>3 DEF OnRead, OnReadTimeout, OnReadEnd, OnReadGone, OnReadBad, others, clientVars, Operations
<1>7. ASSUME NEW c \in Conns, NEW slow \in BOOLEAN, Answer(c, slow)
      PROVE  TypeOK'
  <2>1. ops' \in [Conns -> Operations]
    BY <1>7, HandedOn, {"write"} \in Operations DEF Answer, Operations
  <2>2. res' \in [Conns -> Nat] /\ late' \in [Conns -> BOOLEAN]
    BY <1>7 DEF Answer
  <2> QED
    BY <1>7, <2>1, <2>2 DEF Answer, others, clientVars, Operations
<1>8. ASSUME NEW c \in Conns, HandlerThrows(c)
      PROVE  TypeOK'
  BY <1>8 DEF HandlerThrows, clientVars, sessionVars
<1>9. ASSUME NEW c \in Conns, OnWriteKeep(c) \/ OnWriteClose(c)
      PROVE  TypeOK'
  <2>1. ops' \in [Conns -> Operations]
    BY <1>9, HandedOn, {"read"} \in Operations, {} \in Operations
       DEF OnWriteKeep, OnWriteClose, Operations
  <2>2. Append(answers[c], res[c]) \in Seq(Nat)
    OBVIOUS
  <2>3. answers' \in [Conns -> Seq(Nat)]
    <3>1. Written(c)
      BY <1>9 DEF OnWriteKeep, OnWriteClose
    <3> QED
      BY <2>2, <3>1 DEF Written
  <2>4. res' \in [Conns -> Nat] /\ late' \in [Conns -> BOOLEAN]
        /\ ended' \in [Conns -> {"no", "timeout", "cut", "close", "bad"}]
    <3>1. CASE OnWriteKeep(c)
      BY <3>1 DEF OnWriteKeep
    <3>2. CASE OnWriteClose(c)
      BY <3>2 DEF OnWriteClose
    <3> QED
      BY <1>9, <3>1, <3>2
  <2> QED
    BY <1>9, <2>1, <2>3, <2>4
       DEF OnWriteKeep, OnWriteClose, Written, others, clientVars, Operations
<1>10. ASSUME NEW c \in Conns, OnWriteFails(c)
      PROVE  TypeOK'
  <2>1. ops' \in [Conns -> Operations]
    BY <1>10, HandedOn, {} \in Operations DEF OnWriteFails, Operations
  <2> QED
    BY <1>10, <2>1 DEF OnWriteFails, others, clientVars, Operations
<1> QED
  BY <1>1, <1>2, <1>3, <1>4, <1>5, <1>6, <1>7, <1>8, <1>10, <1>9 DEF Next, Ends, Returns
---------------------------------------------------------------------------
(* What a session is, and the steps that move it. *)
At(c) == <<client[c], accepted[c], sent[c], got[c], ops[c], res[c], answers[c], late[c], ended[c]>>

Moves(c) ==
    \/ Connect(c) \/ \E request \in Requests : Send(c, request)
    \/ \E how \in {"closed", "gone"} : Leave(c, how)
    \/ Accept(c) \/ OnRead(c) \/ OnReadTimeout(c) \/ Returns(c) \/ Ends(c)

LEMMA OthersStay ==
    ASSUME TypeOK, NEW c \in Conns, NEW d \in Conns \ {c}, Moves(c)
    PROVE  At(d)' = At(d)
BY DEF TypeOK, At, Moves, Connect, Send, Leave, Accept, OnRead, OnReadTimeout, Returns, Ends,
       Answer, HandlerThrows, OnReadEnd, OnReadGone, OnReadBad, OnWriteKeep, OnWriteClose, OnWriteFails,
       Written, Becomes, server, others, clientVars, sessionVars

LEMMA Kept ==
    ASSUME NEW c \in Conns, SessionInv(c), At(c)' = At(c)
    PROVE  SessionInv(c)'
BY DEF SessionInv, PlaceInv, OrderInv, Answered, OneBehind, At

(* A session is held by one operation: the next replaces it. *)
LEMMA SoleOperation ==
    ASSUME TypeOK, NEW c \in Conns, SessionInv(c), NEW from, NEW to \in Operations, Becomes(c, from, to)
    PROVE  ops[c] = {from} /\ ops'[c] = to
<1>1. from \in ops[c]
  BY DEF Becomes
<1>2. ops[c] = {from}
  BY <1>1 DEF SessionInv, PlaceInv
<1> QED
  BY <1>2, HandedOn

LEMMA SomeOperations == {} \in Operations /\ \A o \in {"read", "handle", "write"} : {o} \in Operations
BY DEF Operations

LEMMA ClientStep ==
    ASSUME TypeOK, NEW c \in Conns, SessionInv(c),
           \/ Connect(c) \/ \E request \in Requests : Send(c, request)
           \/ \E how \in {"closed", "gone"} : Leave(c, how)
    PROVE  SessionInv(c)'
<1>1. CASE Connect(c)
  BY <1>1 DEF TypeOK, SessionInv, PlaceInv, OrderInv, Answered, OneBehind, Connect, server, sessionVars
<1>2. ASSUME NEW request \in Requests, Send(c, request) PROVE SessionInv(c)'
  <2>1. /\ sent'[c] = Append(sent[c], request) /\ sent[c] \in Seq(Requests)
        /\ UNCHANGED <<client, accepted, got, ops, res, answers, late, ended>>
    BY <1>2 DEF Send, TypeOK, server, sessionVars
  <2>2. Len(sent'[c]) = Len(sent[c]) + 1 /\ \A i \in 1..Len(sent[c]) : sent'[c][i] = sent[c][i]
    BY <2>1
  <2>3. Len(answers[c]) \in Nat /\ Len(sent[c]) \in Nat /\ got[c] \in Nat
    BY DEF TypeOK
  <2> QED
    <3>1. PlaceInv(c)'
      BY <2>1, <2>2, <2>3 DEF SessionInv, PlaceInv, Answered, OneBehind
    <3>2. OrderInv(c)'
      <4>1. Len(answers[c]) <= Len(sent[c])
        BY <2>3 DEF SessionInv, PlaceInv, Answered, OneBehind
      <4> QED
        BY <2>1, <2>2, <2>3, <4>1 DEF SessionInv, OrderInv
    <3> QED
      BY <3>1, <3>2 DEF SessionInv
<1>3. ASSUME NEW how \in {"closed", "gone"}, Leave(c, how) PROVE SessionInv(c)'
  BY <1>3 DEF TypeOK, SessionInv, PlaceInv, OrderInv, Answered, OneBehind, Leave, server, sessionVars
<1> QED
  BY <1>1, <1>2, <1>3

LEMMA ReadStep ==
    ASSUME TypeOK, NEW c \in Conns, SessionInv(c),
           Accept(c) \/ OnRead(c) \/ OnReadTimeout(c) \/ OnReadEnd(c) \/ OnReadGone(c) \/ OnReadBad(c)
    PROVE  SessionInv(c)'
<1>1. /\ Len(answers[c]) \in Nat /\ Len(sent[c]) \in Nat /\ got[c] \in Nat
  BY DEF TypeOK
<1>2. CASE Accept(c)
  <2>1. /\ ops'[c] = {"read"} /\ accepted'[c]
        /\ UNCHANGED <<client, sent, got, res, answers, late, ended>>
    BY <1>2 DEF Accept, TypeOK, clientVars
  <2>2. got[c] = 0 /\ Len(answers[c]) = 0
    BY <1>1, <1>2 DEF Accept, SessionInv, PlaceInv, Answered, OneBehind
  <2>3. PlaceInv(c)'
    BY <1>1, <2>1, <2>2 DEF SessionInv, PlaceInv, Answered, OneBehind
  <2>4. OrderInv(c)'
    BY <1>1, <2>1, <2>2 DEF SessionInv, PlaceInv, OrderInv, Answered, OneBehind
  <2> QED
    BY <2>3, <2>4 DEF SessionInv
<1>3. CASE OnRead(c)
  <2>1. /\ ops[c] = {"read"} /\ ops'[c] = {"handle"} /\ got'[c] = got[c] + 1
        /\ UNCHANGED <<client, accepted, sent, res, answers, late, ended>>
    <3>1. Becomes(c, "read", {"handle"})
      BY <1>3 DEF OnRead
    <3> QED
      BY <1>3, <3>1, SoleOperation, SomeOperations DEF OnRead, TypeOK, others, clientVars
  <2>2. got[c] < Len(sent[c])
    BY <1>3 DEF OnRead
  <2>3. Answered(c) /\ accepted[c]
    BY <2>1 DEF SessionInv, PlaceInv
  <2>4. OneBehind(c)'
    BY <1>1, <2>1, <2>3 DEF Answered, OneBehind
  <2>5. PlaceInv(c)'
    BY <1>1, <2>1, <2>2, <2>3, <2>4 DEF PlaceInv
  <2>6. OrderInv(c)'
    BY <1>1, <2>1, <2>2 DEF SessionInv, PlaceInv, OrderInv, Answered, OneBehind
  <2> QED
    BY <2>5, <2>6 DEF SessionInv
<1>4. CASE OnReadTimeout(c) \/ OnReadEnd(c) \/ OnReadGone(c) \/ OnReadBad(c)
  <2>1. /\ ops[c] = {"read"} /\ ops'[c] = {}
        /\ UNCHANGED <<client, accepted, sent, got, res, answers, late>>
    <3>1. Becomes(c, "read", {})
      BY <1>4 DEF OnReadTimeout, OnReadEnd, OnReadGone, OnReadBad
    <3> QED
      BY <1>4, <3>1, SoleOperation, SomeOperations
         DEF OnReadTimeout, OnReadEnd, OnReadGone, OnReadBad, others, clientVars
  <2>2. PlaceInv(c)'
    BY <1>1, <2>1 DEF SessionInv, PlaceInv, Answered, OneBehind
  <2>3. OrderInv(c)'
    BY <1>1, <2>1 DEF SessionInv, PlaceInv, OrderInv, Answered, OneBehind
  <2> QED
    BY <2>2, <2>3 DEF SessionInv
<1> QED
  BY <1>2, <1>3, <1>4

LEMMA WriteStep ==
    ASSUME TypeOK, NEW c \in Conns, SessionInv(c),
           Returns(c) \/ OnWriteKeep(c) \/ OnWriteClose(c) \/ OnWriteFails(c)
    PROVE  SessionInv(c)'
<1>1. /\ Len(answers[c]) \in Nat /\ Len(sent[c]) \in Nat /\ got[c] \in Nat
  BY DEF TypeOK
<1>2. CASE HandlerThrows(c)
  BY <1>2, Kept DEF HandlerThrows, At, clientVars, sessionVars
<1>3. ASSUME NEW slow \in BOOLEAN, Answer(c, slow) PROVE SessionInv(c)'
  <2>1. /\ ops[c] = {"handle"} /\ ops'[c] = {"write"} /\ res'[c] = got[c]
        /\ UNCHANGED <<client, accepted, sent, got, answers, ended>>
    <3>1. Becomes(c, "handle", {"write"})
      BY <1>3 DEF Answer
    <3> QED
      BY <1>3, <3>1, SoleOperation, SomeOperations DEF Answer, TypeOK, others, clientVars
  <2>2. PlaceInv(c)'
    BY <1>1, <2>1 DEF SessionInv, PlaceInv, Answered, OneBehind
  <2>3. OrderInv(c)'
    BY <1>1, <2>1 DEF SessionInv, PlaceInv, OrderInv, Answered, OneBehind
  <2> QED
    BY <2>2, <2>3 DEF SessionInv
<1>4. CASE OnWriteKeep(c) \/ OnWriteClose(c)
  <2>1. /\ ops[c] = {"write"} /\ ops'[c] = (IF sent[c][got[c]] = "keep" THEN {"read"} ELSE {})
        /\ UNCHANGED <<client, accepted, sent, got>>
    <3>1. CASE OnWriteKeep(c)
      <4>1. Becomes(c, "write", {"read"}) /\ sent[c][res[c]] = "keep" /\ Written(c)
        BY <3>1 DEF OnWriteKeep
      <4>2. ops[c] = {"write"} /\ ops'[c] = {"read"}
        BY <4>1, SoleOperation, SomeOperations
      <4>3. res[c] = got[c]
        BY <4>2 DEF SessionInv, PlaceInv
      <4> QED
        BY <4>1, <4>2, <4>3 DEF Written, others, clientVars
    <3>2. CASE OnWriteClose(c)
      <4>1. Becomes(c, "write", {}) /\ sent[c][res[c]] # "keep" /\ Written(c)
        BY <3>2 DEF OnWriteClose
      <4>2. ops[c] = {"write"} /\ ops'[c] = {}
        BY <4>1, SoleOperation, SomeOperations
      <4>3. res[c] = got[c]
        BY <4>2 DEF SessionInv, PlaceInv
      <4> QED
        BY <4>1, <4>2, <4>3 DEF Written, others, clientVars
    <3> QED
      BY <1>4, <3>1, <3>2
  <2>2. answers'[c] = Append(answers[c], got[c]) /\ answers[c] \in Seq(Nat)
    <3>1. Written(c)
      BY <1>4 DEF OnWriteKeep, OnWriteClose
    <3> QED
      BY <2>1, <3>1 DEF Written, SessionInv, PlaceInv, TypeOK
  <2>3. /\ Len(answers'[c]) = Len(answers[c]) + 1 /\ answers'[c][Len(answers[c]) + 1] = got[c]
        /\ \A i \in 1..Len(answers[c]) : answers'[c][i] = answers[c][i]
    BY <1>1, <2>2
  <2>4. got[c] = Len(answers[c]) + 1
    BY <1>1, <2>1 DEF SessionInv, PlaceInv, Answered, OneBehind
  <2>5. PlaceInv(c)'
    BY <1>1, <2>1, <2>3, <2>4 DEF SessionInv, PlaceInv, Answered, OneBehind
  <2>6. OrderInv(c)'
    BY <1>1, <2>1, <2>3, <2>4 DEF SessionInv, PlaceInv, OrderInv, Answered, OneBehind
  <2> QED
    BY <2>5, <2>6 DEF SessionInv
<1>5. CASE OnWriteFails(c)
  <2>1. /\ ops[c] = {"write"} /\ ops'[c] = {} /\ ended'[c] = "cut"
        /\ client[c] = "gone" \/ late[c]
        /\ UNCHANGED <<client, accepted, sent, got, res, answers, late>>
    <3>1. Becomes(c, "write", {})
      BY <1>5 DEF OnWriteFails
    <3> QED
      BY <1>5, <3>1, SoleOperation, SomeOperations DEF OnWriteFails, TypeOK, others, clientVars
  <2>2. PlaceInv(c)'
    BY <1>1, <2>1 DEF SessionInv, PlaceInv, Answered, OneBehind
  <2>3. OrderInv(c)'
    BY <1>1, <2>1 DEF SessionInv, PlaceInv, OrderInv, Answered, OneBehind
  <2> QED
    BY <2>2, <2>3 DEF SessionInv
<1> QED
  BY <1>2, <1>3, <1>4, <1>5 DEF Returns

LEMMA InitInv == Init => IInv
<1> SUFFICES ASSUME Init PROVE IInv
  OBVIOUS
<1>1. << >> \in Seq(Requests) /\ << >> \in Seq(Nat) /\ Len(<< >>) = 0
  OBVIOUS
<1>2. TypeOK
  BY <1>1 DEF Init, TypeOK
<1> QED
  BY <1>1, <1>2 DEF Init, IInv, SessionInv, PlaceInv, OrderInv, Answered, OneBehind

LEMMA InvStep == IInv /\ [Next]_vars => IInv'
<1> SUFFICES ASSUME IInv, [Next]_vars PROVE IInv'
  OBVIOUS
<1>1. TypeOK'
  BY TypeStep DEF IInv
<1>2. ASSUME NEW d \in Conns PROVE SessionInv(d)'
  <2>1. CASE UNCHANGED vars \/ AcceptFails
    BY <2>1, Kept DEF IInv, vars, AcceptFails, At, clientVars, sessionVars
  <2>2. ASSUME NEW c \in Conns, Moves(c) PROVE SessionInv(d)'
    <3>1. CASE c = d
      BY <2>2, <3>1, ClientStep, ReadStep, WriteStep DEF IInv, Moves, Ends
    <3>2. CASE c # d
      BY <2>2, <3>2, OthersStay, Kept DEF IInv
    <3> QED
      BY <3>1, <3>2
  <2> QED
    BY <2>1, <2>2 DEF Next, Moves
<1> QED
  BY <1>1, <1>2 DEF IInv

---------------------------------------------------------------------------
(* Every variable of the server stays in its type (HttpServer.h, the        *)
(* members of session and listener).                                       *)
THEOREM TypeCorrect == Spec => []TypeOK
<1>1. IInv => TypeOK
  BY DEF IInv
<1> QED
  BY <1>1, InitInv, InvStep, PTL DEF Spec

(* A session has at most one operation, so that res_ and req_ are not       *)
(* replaced under one that uses them (HttpServer.cpp:449).                 *)
THEOREM OneOperationHolds == Spec => []OneOperation
<1>1. IInv => OneOperation
  <2> SUFFICES ASSUME IInv, NEW c \in Conns PROVE Cardinality(ops[c]) <= 1
    BY DEF OneOperation
  <2>1. ops[c] = {} \/ \E o : ops[c] = {o}
    BY DEF IInv, SessionInv, PlaceInv, OrderInv
  <2>2. Cardinality(ops[c]) \in {0, 1}
    BY <2>1, FS_EmptySet, FS_Singleton
  <2> QED
    BY <2>2
<1> QED
  BY <1>1, InitInv, InvStep, PTL DEF Spec

(* Pipelined requests are answered once each, in order, one at a time       *)
(* (HttpServer.cpp:476, 498).                                              *)
THEOREM AnsweredInOrderHolds == Spec => []AnsweredInOrder
<1>1. IInv => AnsweredInOrder
  <2> SUFFICES ASSUME IInv, NEW c \in Conns
               PROVE  /\ answers[c] = [i \in DOMAIN answers[c] |-> i]
                      /\ got[c] <= Len(answers[c]) + 1
    BY DEF AnsweredInOrder
  <2>1. answers[c] \in Seq(Nat) /\ got[c] \in Nat
    BY DEF IInv, TypeOK
  <2>2. Len(answers[c]) \in Nat /\ DOMAIN answers[c] = 1..Len(answers[c])
    BY <2>1
  <2>3. SessionInv(c)
    BY DEF IInv
  <2>4. \A i \in DOMAIN answers[c] : answers[c][i] = i
    <3>1. \A i \in 1..Len(answers[c]) : answers[c][i] = i
      BY <2>3 DEF SessionInv, OrderInv
    <3> QED
      BY <2>2, <3>1
  <2>5. answers[c] = [i \in DOMAIN answers[c] |-> answers[c][i]]
    BY <2>1
  <2>6. got[c] <= Len(answers[c]) + 1
    BY <2>1, <2>2, <2>3 DEF SessionInv, PlaceInv, Answered, OneBehind
  <2>7. [i \in DOMAIN answers[c] |-> answers[c][i]] = [i \in DOMAIN answers[c] |-> i]
    BY <2>4
  <2> QED
    BY <2>5, <2>6, <2>7
<1> QED
  BY <1>1, InitInv, InvStep, PTL DEF Spec

(* After an answer that closes nothing more of the connection is acted on   *)
(* (HttpServer.cpp:488).                                                   *)
THEOREM CloseIsObeyedHolds == Spec => []CloseIsObeyed
<1>1. IInv => CloseIsObeyed
  <2> SUFFICES ASSUME IInv, NEW c \in Conns, NEW i \in DOMAIN answers[c], sent[c][i] = "close"
               PROVE  got[c] = i
    BY DEF CloseIsObeyed
  <2>1. DOMAIN answers[c] = 1..Len(answers[c])
    BY DEF IInv, TypeOK
  <2> QED
    BY <2>1 DEF IInv, SessionInv, PlaceInv, OrderInv
<1> QED
  BY <1>1, InitInv, InvStep, PTL DEF Spec

(* What was acted on stays unanswered only when the answer was cut          *)
(* (HttpServer.cpp:452, 485).                                              *)
THEOREM UnansweredOnlyIfCutHolds == Spec => []UnansweredOnlyIfCut
<1>1. IInv => UnansweredOnlyIfCut
  <2> SUFFICES ASSUME IInv, NEW c \in Conns, ops[c] = {}, got[c] > Len(answers[c])
               PROVE  ended[c] = "cut" /\ (client[c] = "gone" \/ late[c])
    BY DEF UnansweredOnlyIfCut
  <2>1. got[c] \in Nat /\ Len(answers[c]) \in Nat
    BY DEF IInv, TypeOK
  <2>2. PlaceInv(c)
    BY DEF IInv, SessionInv
  <2>3. ~Answered(c) /\ ops[c] \notin {{"read"}, {"handle"}, {"write"}}
    BY <2>1 DEF Answered
  <2> QED
    BY <2>2, <2>3 DEF PlaceInv
<1> QED
  BY <1>1, InitInv, InvStep, PTL DEF Spec

---------------------------------------------------------------------------
(* HttpClient: what FlattenSeq does, one piece at a time.  It is the last   *)
(* value of a recursive function, which Flattens describes; the inductions  *)
(* over the pieces look at the first place that would be wrong.            *)
Flattens(s, n, f) == f = [i \in 1 .. n |-> IF i = 1 THEN s[i] ELSE f[i - 1] \o s[i]]

LEMMA FirstOf ==
    ASSUME NEW S \in SUBSET Nat, S # {}
    PROVE  \E x \in S : \A y \in S : x <= y
<1> DEFINE Smaller == OpToRel(<, Nat)
<1>1. IsWellFoundedOn(Smaller, Nat)
  BY NatLessThanWellFounded
<1>2. \A r, q \in Nat : r < q => <<r, q>> \in Smaller
  BY DEF OpToRel
<1> HIDE DEF Smaller
<1>3. PICK x \in S : \A y \in S : <<y, x>> \notin Smaller
  BY <1>1, WFMin
<1>4. \A y \in S : x <= y
  <2> TAKE y \in S
  <2>1. x \in Nat /\ y \in Nat /\ ~(y < x)
    BY <1>2, <1>3
  <2> QED
    BY <2>1
<1> QED
  BY <1>4

LEMMA FlattensValues ==
    ASSUME NEW s, NEW n \in Nat, NEW f
    PROVE  Flattens(s, n, f) <=>
               /\ f = [i \in 1 .. n |-> f[i]]
               /\ \A i \in 1 .. n : f[i] = IF i = 1 THEN s[i] ELSE f[i - 1] \o s[i]
<1> DEFINE v(i) == IF i = 1 THEN s[i] ELSE f[i - 1] \o s[i]
<1> HIDE DEF v
<1>1. f = [i \in 1 .. n |-> v(i)] <=> f = [i \in 1 .. n |-> f[i]] /\ \A i \in 1 .. n : f[i] = v(i)
  OBVIOUS
<1> QED
  BY <1>1 DEF Flattens, v

LEMMA FlattensExists ==
    ASSUME NEW s, NEW n \in Nat
    PROVE  \E f : Flattens(s, n, f)
<1> DEFINE bad == {m \in Nat : ~ \E f : Flattens(s, m, f)}
<1>1. SUFFICES ASSUME bad # {} PROVE FALSE
  OBVIOUS
<1>2. PICK m \in bad : \A k \in bad : m <= k
  BY <1>1, FirstOf
<1>3. CASE m = 0
  <2> DEFINE f == [i \in 1 .. 0 |-> s[i]]
  <2>1. f = [i \in 1 .. 0 |-> f[i]] /\ \A i \in 1 .. 0 : f[i] = IF i = 1 THEN s[i] ELSE f[i - 1] \o s[i]
    OBVIOUS
  <2> HIDE DEF f
  <2>2. Flattens(s, 0, f)
    BY <2>1, FlattensValues
  <2> QED
    BY <1>2, <1>3, <2>2
<1>4. CASE m # 0
  <2>1. m - 1 \in Nat /\ m - 1 \notin bad
    BY <1>2, <1>4
  <2>2. PICK f : Flattens(s, m - 1, f)
    BY <2>1
  <2>3. \A i \in 1 .. m - 1 : f[i] = IF i = 1 THEN s[i] ELSE f[i - 1] \o s[i]
    BY <2>1, <2>2, FlattensValues
  <2> DEFINE next == IF m = 1 THEN s[m] ELSE f[m - 1] \o s[m]
             g == [i \in 1 .. m |-> IF i < m THEN f[i] ELSE next]
  <2>4. \A i \in 1 .. m : g[i] = IF i < m THEN f[i] ELSE next
    OBVIOUS
  <2>5. g = [i \in 1 .. m |-> g[i]]
    OBVIOUS
  <2> HIDE DEF g
  <2>6. ASSUME NEW i \in 1 .. m
        PROVE  g[i] = IF i = 1 THEN s[i] ELSE g[i - 1] \o s[i]
    <3>1. CASE i = 1
      BY <1>2, <2>3, <2>4, <3>1
    <3>2. CASE i # 1
      <4>1. g[i - 1] = f[i - 1]
        BY <1>2, <2>4, <3>2
      <4>2. CASE i < m
        <5>1. i \in 1 .. m - 1
          BY <1>2, <4>2
        <5>2. f[i] = f[i - 1] \o s[i]
          BY <2>3, <3>2, <5>1
        <5>3. g[i] = f[i]
          BY <2>4, <4>2
        <5> QED
          BY <3>2, <4>1, <5>2, <5>3
      <4>3. CASE i = m
        <5>1. m \in 1 .. m /\ ~(m < m)
          BY <1>2, <1>4
        <5>2. g[m] = next
          BY <2>4, <5>1
        <5>3. next = f[m - 1] \o s[m]
          BY <3>2, <4>3
        <5> QED
          BY <3>2, <4>1, <4>3, <5>2, <5>3
      <4> QED
        BY <1>2, <4>2, <4>3
    <3> QED
      BY <3>1, <3>2
  <2>7. Flattens(s, m, g)
    BY <1>2, <2>5, <2>6, FlattensValues
  <2> QED
    BY <1>2, <2>7
<1> QED
  BY <1>3, <1>4

LEMMA FlattensAgree ==
    ASSUME NEW s, NEW t, NEW n \in Nat, NEW m \in Nat, n <= m,
           \A i \in 1 .. n : s[i] = t[i],
           NEW f, NEW g, Flattens(s, n, f), Flattens(t, m, g)
    PROVE  \A i \in 1 .. n : f[i] = g[i]
<1> DEFINE bad == {i \in 1 .. n : f[i] # g[i]}
<1>1. SUFFICES ASSUME bad # {} PROVE FALSE
  OBVIOUS
<1>2. PICK i \in bad : \A k \in bad : i <= k
  <2>1. bad \in SUBSET Nat
    OBVIOUS
  <2> QED
    BY <1>1, <2>1, FirstOf
<1>3. /\ f[i] = IF i = 1 THEN s[i] ELSE f[i - 1] \o s[i]
      /\ g[i] = IF i = 1 THEN t[i] ELSE g[i - 1] \o t[i]
  BY <1>2, FlattensValues
<1>4. i # 1 => i - 1 \in 1 .. n /\ i - 1 \notin bad
  BY <1>2
<1>5. i # 1 => f[i - 1] = g[i - 1]
  BY <1>4
<1> QED
  BY <1>2, <1>3, <1>5

LEMMA FlattenEmpty == FlattenSeq(<< >>) = << >>
BY DEF FlattenSeq

LEMMA FlattenIs ==
    ASSUME NEW T, NEW s \in Seq(T), s # << >>
    PROVE  \E f : Flattens(s, Len(s), f) /\ FlattenSeq(s) = f[Len(s)]
<1> DEFINE h == CHOOSE f : Flattens(s, Len(s), f)
<1>1. Flattens(s, Len(s), h)
  BY FlattensExists, LenProperties, Zenon
<1>2. Len(s) # 0
  OBVIOUS
<1>3. FlattenSeq(s) = h[Len(s)]
  BY <1>2, Zenon DEF FlattenSeq, Flattens
<1> QED
  BY <1>1, <1>3

LEMMA FlattenPrefixes ==
    ASSUME NEW T, NEW s \in Seq(T), NEW f, Flattens(s, Len(s), f)
    PROVE  \A k \in 0 .. Len(s) :
               FlattenSeq(SubSeq(s, 1, k)) = IF k = 0 THEN << >> ELSE f[k]
<1>1. FlattenSeq(SubSeq(s, 1, 0)) = << >>
  <2>1. SubSeq(s, 1, 0) = << >>
    BY SubSeqEmpty
  <2> QED
    BY <2>1, FlattenEmpty
<1>2. ASSUME NEW k \in 1 .. Len(s)
      PROVE  FlattenSeq(SubSeq(s, 1, k)) = f[k]
  <2> DEFINE t == SubSeq(s, 1, k)
  <2>1. t \in Seq(T) /\ Len(t) = k /\ \A i \in 1 .. k : t[i] = s[i]
    OBVIOUS
  <2>2. k \in Nat /\ k <= Len(s) /\ Len(s) \in Nat
    BY LenProperties
  <2> HIDE DEF t
  <2>3. t # << >>
    BY <2>1
  <2>4. PICK g : Flattens(t, k, g) /\ FlattenSeq(t) = g[k]
    BY <2>1, <2>3, FlattenIs
  <2>5. g[k] = f[k]
    BY <2>1, <2>2, <2>4, FlattensAgree
  <2> QED
    BY <2>4, <2>5 DEF t
<1> QED
  BY <1>1, <1>2

LEMMA FlattenType ==
    ASSUME NEW T, NEW s \in Seq(Seq(T)), NEW k \in 0 .. Len(s)
    PROVE  FlattenSeq(SubSeq(s, 1, k)) \in Seq(T)
<1>1. PICK f : Flattens(s, Len(s), f)
  BY FlattensExists, LenProperties
<1>2. \A i \in 1 .. Len(s) : f[i] = IF i = 1 THEN s[i] ELSE f[i - 1] \o s[i]
  <2>1. PICK n \in Nat : n = Len(s)
    BY LenProperties
  <2>2. Flattens(s, n, f)
    BY <1>1, <2>1
  <2>3. \A i \in 1 .. n : f[i] = IF i = 1 THEN s[i] ELSE f[i - 1] \o s[i]
    BY <2>2, FlattensValues
  <2> QED
    BY <2>1, <2>3
<1>3. \A i \in 1 .. Len(s) : f[i] \in Seq(T)
  <2> DEFINE bad == {i \in 1 .. Len(s) : f[i] \notin Seq(T)}
  <2>1. SUFFICES ASSUME bad # {} PROVE FALSE
    OBVIOUS
  <2>2. PICK i \in bad : \A j \in bad : i <= j
    <3>1. bad \in SUBSET Nat
      OBVIOUS
    <3> QED
      BY <2>1, <3>1, FirstOf
  <2>3. s[i] \in Seq(T)
    BY <2>2
  <2>4. i # 1 => i - 1 \in 1 .. Len(s) /\ i - 1 \notin bad
    BY <2>2
  <2>5. i # 1 => f[i - 1] \in Seq(T)
    BY <2>4
  <2>6. i # 1 => f[i - 1] \o s[i] \in Seq(T)
    BY <2>3, <2>5
  <2> QED
    BY <1>2, <2>2, <2>3, <2>6
<1>4. FlattenSeq(SubSeq(s, 1, k)) = IF k = 0 THEN << >> ELSE f[k]
  BY <1>1, FlattenPrefixes
<1>5. << >> \in Seq(T) /\ (k # 0 => k \in 1 .. Len(s))
  BY EmptySeq
<1> HIDE DEF Flattens
<1> QED
  BY <1>3, <1>4, <1>5, Zenon

LEMMA FlattenStep ==
    ASSUME NEW T, NEW s \in Seq(Seq(T)), NEW k \in 1 .. Len(s)
    PROVE  FlattenSeq(SubSeq(s, 1, k)) = FlattenSeq(SubSeq(s, 1, k - 1)) \o s[k]
<1>1. PICK f : Flattens(s, Len(s), f)
  BY FlattensExists, LenProperties
<1>2. f[k] = IF k = 1 THEN s[k] ELSE f[k - 1] \o s[k]
  <2>1. PICK n \in Nat : n = Len(s)
    BY LenProperties
  <2>2. Flattens(s, n, f)
    BY <1>1, <2>1
  <2>3. \A i \in 1 .. n : f[i] = IF i = 1 THEN s[i] ELSE f[i - 1] \o s[i]
    BY <2>2, FlattensValues
  <2> QED
    BY <2>1, <2>3
<1>3. /\ FlattenSeq(SubSeq(s, 1, k)) = f[k]
      /\ FlattenSeq(SubSeq(s, 1, k - 1)) = IF k = 1 THEN << >> ELSE f[k - 1]
  <2>1. k \in 0 .. Len(s) /\ k - 1 \in 0 .. Len(s) /\ k # 0 /\ (k - 1 = 0 <=> k = 1)
    OBVIOUS
  <2> QED
    BY <1>1, <2>1, FlattenPrefixes
<1>4. s[k] \in Seq(T) /\ << >> \o s[k] = s[k]
  <2>1. s[k] \in Seq(T)
    OBVIOUS
  <2> QED
    BY <2>1, ConcatEmptySeq
<1> QED
  BY <1>2, <1>3, <1>4

LEMMA FlattenAll ==
    ASSUME NEW T, NEW s \in Seq(Seq(T))
    PROVE  FlattenSeq(s) \in Seq(T) /\ FlattenSeq(s) = FlattenSeq(SubSeq(s, 1, Len(s)))
<1>1. SubSeq(s, 1, Len(s)) = s /\ Len(s) \in 0 .. Len(s)
  BY SubSeqFull, LenProperties
<1> QED
  BY <1>1, FlattenType

(* What comes after the first k pieces. *)
LEMMA FlattenRest ==
    ASSUME NEW T, NEW s \in Seq(Seq(T)), NEW k \in 0 .. Len(s)
    PROVE  \E r \in Seq(T) : FlattenSeq(s) = FlattenSeq(SubSeq(s, 1, k)) \o r
<1> DEFINE F(j) == FlattenSeq(SubSeq(s, 1, j))
           bad == {j \in 0 .. Len(s) : ~ \E r \in Seq(T) : FlattenSeq(s) = F(Len(s) - j) \o r}
<1>1. \A j \in 0 .. Len(s) : F(j) \in Seq(T)
  BY FlattenType
<1>2. \A j \in 1 .. Len(s) : F(j) = F(j - 1) \o s[j]
  BY FlattenStep
<1>3. FlattenSeq(s) = F(Len(s)) /\ Len(s) \in Nat
  BY FlattenAll, LenProperties
<1> HIDE DEF F
<1>4. bad = {}
  <2>1. SUFFICES ASSUME bad # {} PROVE FALSE
    OBVIOUS
  <2>2. PICK j \in bad : \A i \in bad : j <= i
    <3>1. bad \in SUBSET Nat
      OBVIOUS
    <3> QED
      BY <2>1, <3>1, FirstOf
  <2>3. CASE j = 0
    <3>1. F(Len(s)) \in Seq(T)
      BY <1>1, <1>3
    <3>2. F(Len(s)) = F(Len(s)) \o << >> /\ << >> \in Seq(T)
      BY <3>1, ConcatEmptySeq
    <3>3. Len(s) - j = Len(s)
      BY <1>3, <2>3
    <3>4. FlattenSeq(s) = F(Len(s) - j) \o << >>
      BY <1>3, <3>2, <3>3
    <3> QED
      BY <2>2, <3>2, <3>4
  <2>4. CASE j # 0
    <3> DEFINE n == Len(s) - j + 1
    <3>1. n \in 1 .. Len(s) /\ n - 1 = Len(s) - j /\ n = Len(s) - (j - 1)
      BY <1>3, <2>2, <2>4
    <3>2. j - 1 \in 0 .. Len(s) /\ j - 1 \notin bad
      <4>1. j \in 0 .. Len(s) /\ j - 1 \in 0 .. Len(s) /\ ~(j <= j - 1)
        BY <1>3, <2>2, <2>4
      <4> QED
        BY <2>2, <4>1
    <3>3. PICK r \in Seq(T) : FlattenSeq(s) = F(n) \o r
      BY <3>1, <3>2
    <3>4. F(n) = F(Len(s) - j) \o s[n] /\ s[n] \in Seq(T) /\ F(Len(s) - j) \in Seq(T)
      <4>1. n - 1 \in 0 .. Len(s)
        BY <3>1
      <4>2. F(n) = F(n - 1) \o s[n]
        BY <1>2, <3>1, Zenon
      <4>3. F(n - 1) \in Seq(T)
        BY <1>1, <4>1, Zenon
      <4>4. s[n] \in Seq(T)
        BY <3>1, ElementOfSeq
      <4> QED
        BY <3>1, <4>2, <4>3, <4>4
    <3>5. F(n) \o r = F(Len(s) - j) \o (s[n] \o r) /\ s[n] \o r \in Seq(T)
      <4> DEFINE u == F(Len(s) - j)
                 v == s[n]
      <4>1. F(n) = u \o v
        BY <3>4
      <4>2. u \in Seq(T) /\ v \in Seq(T)
        BY <3>4
      <4> HIDE DEF u, v, n, bad
      <4>3. r \in Seq(T)
        BY <3>3
      <4>4. (u \o v) \o r = u \o (v \o r) /\ v \o r \in Seq(T)
        <5>1. (u \o v) \o r = u \o (v \o r)
          BY <4>2, <4>3, ConcatAssociative
        <5>2. v \o r \in Seq(T)
          BY <4>2, <4>3, ConcatProperties
        <5> QED
          BY <5>1, <5>2
      <4> QED
        BY <4>1, <4>4 DEF u, v
    <3> QED
      BY <2>2, <3>3, <3>5
  <2> QED
    BY <2>3, <2>4
<1>5. Len(s) - k \in 0 .. Len(s) /\ Len(s) - (Len(s) - k) = k
  BY <1>3
<1> QED
  BY <1>4, <1>5 DEF F
(* c is a, then b. *)
Joins(c, a, b) ==
    /\ c \in Seq(Tokens) /\ Len(c) = Len(a) + Len(b)
    /\ \A i \in 1 .. Len(a) : c[i] = a[i]
    /\ \A i \in 1 .. Len(b) : c[Len(a) + i] = b[i]

LEMMA Concat ==
    ASSUME NEW a \in Seq(Tokens), NEW b \in Seq(Tokens)
    PROVE  Joins(a \o b, a, b)
<1> DEFINE c == a \o b
<1>1. Len(a) \in Nat /\ Len(b) \in Nat
  BY LenProperties
<1>2. c \in Seq(Tokens)
  BY ConcatProperties
<1>3. Len(c) = Len(a) + Len(b)
  BY ConcatProperties
<1>4. \A i \in 1 .. Len(a) + Len(b) : c[i] = IF i <= Len(a) THEN a[i] ELSE b[i - Len(a)]
  BY ConcatProperties
<1>5. \A i \in 1 .. Len(b) : /\ Len(a) + i \in 1 .. Len(a) + Len(b)
                             /\ ~(Len(a) + i <= Len(a)) /\ Len(a) + i - Len(a) = i
  BY <1>1
<1>6. \A i \in 1 .. Len(a) : i \in 1 .. Len(a) + Len(b) /\ i <= Len(a)
  BY <1>1
<1> HIDE DEF c
<1>7. Joins(c, a, b)
  BY <1>2, <1>3, <1>4, <1>5, <1>6 DEF Joins
<1> QED
  BY <1>7 DEF c

---------------------------------------------------------------------------
(* HttpClient: what comes over the wire.  A piece of n chunks ends at       *)
(* ReadTo, and DataTo is the data in it.                                   *)
Chunks(a) == [i \in DOMAIN a.parts |-> Chunk(a.parts[i])]
ReadTo(a, k) == Len(HeadTokens) + Len(FlattenSeq(SubSeq(Chunks(a), 1, k)))
DataTo(a, k) == FlattenSeq(SubSeq(a.parts, 1, k))

LEMMA TokenTypes ==
    /\ \A n \in Nat : Size(n) \in Tokens /\ Size(n).t = "size" /\ Size(n).n = n
    /\ LineEnd \in Tokens /\ LineEnd.t = "crlf"
    /\ HeadTokens \in Seq(Tokens) /\ Len(HeadTokens) = 3
    /\ HeadTokens[1].t = "head" /\ HeadTokens[2].t = "head" /\ HeadTokens[3].t = "end"
    /\ LastChunk \in Seq(Tokens) /\ Len(LastChunk) = 3
    /\ LastChunk[1] = Size(0) /\ LastChunk[2] = LineEnd
<1>1. \A n \in Nat : Size(n) \in Tokens /\ Size(n).t = "size" /\ Size(n).n = n
  BY DEF Size, Token, Tokens
<1>2. LineEnd \in Tokens /\ LineEnd.t = "crlf"
  BY DEF LineEnd, Token, Tokens
<1>3. /\ HeadTokens \in Seq(Tokens) /\ Len(HeadTokens) = 3
      /\ HeadTokens[1].t = "head" /\ HeadTokens[2].t = "head" /\ HeadTokens[3].t = "end"
  BY DEF HeadTokens, HeadEnd, Token, Tokens
<1>4. /\ LastChunk \in Seq(Tokens) /\ Len(LastChunk) = 3
      /\ LastChunk[1] = Size(0) /\ LastChunk[2] = LineEnd
  BY <1>1, <1>2 DEF LastChunk
<1> QED
  BY <1>1, <1>2, <1>3, <1>4

LEMMA PartTypes ==
    ASSUME NEW a \in Answers
    PROVE  /\ a.kind \in Kinds /\ a.parts \in Seq(Seq(Tokens))
           /\ Full(a) \in Seq(Tokens)
           /\ \A i \in 1 .. Len(a.parts) :
                  a.parts[i] \in Seq(Tokens) /\ (a.kind = "chunked" => Len(a.parts[i]) > 0)
<1>1. /\ a.kind \in Kinds /\ a.parts \in Seq(Seq(Tokens))
      /\ a.kind = "chunked" => \A i \in DOMAIN a.parts : a.parts[i] # << >>
  BY ClientConstants
<1>2. Full(a) \in Seq(Tokens)
  BY <1>1, FlattenAll DEF Full
<1>3. \A i \in 1 .. Len(a.parts) : a.parts[i] \in Seq(Tokens)
  BY <1>1
<1>4. DOMAIN a.parts = 1 .. Len(a.parts)
  BY <1>1
<1>5. \A d \in Seq(Tokens) : d # << >> => Len(d) > 0
  BY EmptySeq
<1> QED
  BY <1>1, <1>2, <1>3, <1>4, <1>5

LEMMA ChunkIs ==
    ASSUME NEW d \in Seq(Tokens)
    PROVE  /\ Chunk(d) \in Seq(Tokens) /\ Len(Chunk(d)) = Len(d) + 3
           /\ Chunk(d)[1] = Size(Len(d)) /\ Chunk(d)[2] = LineEnd
           /\ \A j \in 1 .. Len(d) : Chunk(d)[2 + j] = d[j]
<1> DEFINE s == Size(Len(d))
           u == <<s, LineEnd>>
           v == u \o d
<1>1. s \in Tokens /\ LineEnd \in Tokens
  BY TokenTypes, LenProperties
<1> HIDE DEF s
<1>2. u \in Seq(Tokens) /\ Len(u) = 2 /\ u[1] = s /\ u[2] = LineEnd
  BY <1>1
<1>3. <<LineEnd>> \in Seq(Tokens) /\ Len(<<LineEnd>>) = 1
  BY <1>1
<1> HIDE DEF u
<1>4. Joins(v, u, d)
  BY <1>2, Concat
<1> HIDE DEF v
<1>5. /\ v \in Seq(Tokens) /\ Len(v) = 2 + Len(d) /\ v[1] = s /\ v[2] = LineEnd
      /\ \A j \in 1 .. Len(d) : v[2 + j] = d[j]
  BY <1>2, <1>4 DEF Joins
<1>6. Joins(Chunk(d), v, <<LineEnd>>)
  <2>1. Chunk(d) = v \o <<LineEnd>>
    BY DEF Chunk, v, u, s
  <2> QED
    BY <1>3, <1>5, <2>1, Concat
<1>7. /\ Chunk(d) \in Seq(Tokens) /\ Len(Chunk(d)) = Len(v) + 1
      /\ \A i \in 1 .. Len(v) : Chunk(d)[i] = v[i]
  BY <1>3, <1>6 DEF Joins
<1>8. \A j \in 1 .. Len(d) : 2 + j \in 1 .. Len(v)
  BY <1>5, LenProperties
<1> QED
  BY <1>5, <1>7, <1>8 DEF s

LEMMA ChunksAre ==
    ASSUME NEW a \in Answers
    PROVE  /\ Chunks(a) \in Seq(Seq(Tokens)) /\ Len(Chunks(a)) = Len(a.parts)
           /\ \A i \in 1 .. Len(a.parts) : Chunks(a)[i] = Chunk(a.parts[i])
<1>1. a.parts \in Seq(Seq(Tokens))
  BY PartTypes
<1>2. PICK n \in Nat : n = Len(a.parts) /\ DOMAIN a.parts = 1 .. n
  BY <1>1
<1>3. \A i \in 1 .. n : Chunk(a.parts[i]) \in Seq(Tokens)
  BY <1>2, PartTypes, ChunkIs
<1>4. Chunks(a) = [i \in 1 .. n |-> Chunk(a.parts[i])]
  BY <1>2 DEF Chunks
<1> QED
  BY <1>2, <1>3, <1>4

(* An answer with no chunks: the header, then the data. *)
LEMMA WirePlain ==
    ASSUME NEW a \in Answers, a.kind # "chunked"
    PROVE  Joins(Wire(a), HeadTokens, Full(a))
<1>1. Wire(a) = HeadTokens \o Full(a)
  BY DEF Wire
<1>2. HeadTokens \in Seq(Tokens) /\ Full(a) \in Seq(Tokens)
  BY TokenTypes, PartTypes
<1> QED
  BY <1>1, <1>2, Concat

(* One with chunks: the header, the chunks, the last chunk. *)
LEMMA WireChunks ==
    ASSUME NEW a \in Answers, a.kind = "chunked"
    PROVE  \E w : /\ Joins(Wire(a), HeadTokens, w)
                  /\ Joins(w, FlattenSeq(Chunks(a)), LastChunk)
<1> DEFINE w == FlattenSeq(Chunks(a)) \o LastChunk
<1>1. HeadTokens \in Seq(Tokens) /\ LastChunk \in Seq(Tokens)
  BY TokenTypes
<1>2. FlattenSeq(Chunks(a)) \in Seq(Tokens)
  BY ChunksAre, FlattenAll
<1>3. Joins(w, FlattenSeq(Chunks(a)), LastChunk)
  BY <1>1, <1>2, Concat
<1>4. Wire(a) = HeadTokens \o w
  BY DEF Wire, Chunks
<1> HIDE DEF w
<1>5. w \in Seq(Tokens)
  BY <1>3 DEF Joins
<1>6. Joins(Wire(a), HeadTokens, w)
  BY <1>1, <1>4, <1>5, Concat
<1> QED
  BY <1>3, <1>6

LEMMA WireType ==
    ASSUME NEW a \in Answers
    PROVE  /\ Wire(a) \in Seq(Tokens) /\ Len(Wire(a)) >= 3
           /\ Wire(a)[1].t = "head" /\ Wire(a)[2].t = "head" /\ Wire(a)[3].t = "end"
<1>1. PICK w : Joins(Wire(a), HeadTokens, w) /\ Len(w) \in Nat
  <2>1. CASE a.kind # "chunked"
    <3>1. Joins(Wire(a), HeadTokens, Full(a)) /\ Full(a) \in Seq(Tokens)
      BY <2>1, WirePlain, PartTypes
    <3> QED
      BY <3>1, LenProperties
  <2>2. CASE a.kind = "chunked"
    <3>1. PICK w : /\ Joins(Wire(a), HeadTokens, w)
                   /\ Joins(w, FlattenSeq(Chunks(a)), LastChunk)
      BY <2>2, WireChunks
    <3>2. w \in Seq(Tokens)
      BY <3>1 DEF Joins
    <3> QED
      BY <3>1, <3>2, LenProperties
  <2> QED
    BY <2>1, <2>2
<1>2. Len(HeadTokens) = 3
  BY TokenTypes
<1>3. /\ Wire(a) \in Seq(Tokens) /\ Len(Wire(a)) = 3 + Len(w)
      /\ \A i \in 1 .. 3 : Wire(a)[i] = HeadTokens[i]
  BY <1>1, <1>2 DEF Joins
<1> QED
  BY <1>1, <1>3, TokenTypes

LEMMA FirstPiece ==
    ASSUME NEW a \in Answers
    PROVE  ReadTo(a, 0) = 3 /\ DataTo(a, 0) = << >>
<1>1. SubSeq(Chunks(a), 1, 0) = << >> /\ SubSeq(a.parts, 1, 0) = << >>
  BY SubSeqEmpty
<1>2. DataTo(a, 0) = << >>
  BY <1>1, FlattenEmpty DEF DataTo
<1>3. ReadTo(a, 0) = 3 + Len(<< >>)
  BY <1>1, FlattenEmpty, TokenTypes DEF ReadTo
<1> QED
  BY <1>2, <1>3

LEMMA DataStep ==
    ASSUME NEW a \in Answers, NEW k \in 1 .. Len(a.parts)
    PROVE  DataTo(a, k) = DataTo(a, k - 1) \o a.parts[k]
<1>1. a.parts \in Seq(Seq(Tokens))
  BY PartTypes
<1> QED
  BY <1>1, FlattenStep DEF DataTo

LEMMA DataAll ==
    ASSUME NEW a \in Answers
    PROVE  /\ Len(a.parts) \in Nat /\ DataTo(a, Len(a.parts)) = Full(a)
           /\ \A k \in 0 .. Len(a.parts) : DataTo(a, k) \in Seq(Tokens)
<1>1. a.parts \in Seq(Seq(Tokens))
  BY PartTypes
<1> QED
  BY <1>1, FlattenAll, FlattenType, LenProperties DEF DataTo, Full

(* The last chunk stands behind all the others. *)
LEMMA WireEnd ==
    ASSUME NEW a \in Answers, a.kind = "chunked"
    PROVE  LET p == ReadTo(a, Len(a.parts))
           IN  /\ p \in Nat /\ p >= 3 /\ Len(Wire(a)) = p + 3
               /\ Wire(a)[p + 1] = Size(0) /\ Wire(a)[p + 2] = LineEnd
<1> DEFINE G == FlattenSeq(Chunks(a))
           p == ReadTo(a, Len(a.parts))
<1>1. PICK w : Joins(Wire(a), HeadTokens, w) /\ Joins(w, G, LastChunk)
  BY WireChunks
<1>2. G \in Seq(Tokens) /\ p = 3 + Len(G)
  <2>1. G \in Seq(Tokens) /\ G = FlattenSeq(SubSeq(Chunks(a), 1, Len(Chunks(a))))
    BY ChunksAre, FlattenAll
  <2>2. p = 3 + Len(FlattenSeq(SubSeq(Chunks(a), 1, Len(a.parts))))
    BY TokenTypes DEF ReadTo
  <2> QED
    BY <2>1, <2>2, ChunksAre
<1>3. /\ Len(HeadTokens) = 3 /\ Len(LastChunk) = 3
      /\ LastChunk[1] = Size(0) /\ LastChunk[2] = LineEnd
  BY TokenTypes
<1>4. PICK g \in Nat : g = Len(G)
  BY <1>2, LenProperties
<1> HIDE DEF G, p
<1>5. Len(w) = g + 3 /\ w[g + 1] = Size(0) /\ w[g + 2] = LineEnd
  BY <1>1, <1>3, <1>4 DEF Joins
<1>6. g + 1 \in 1 .. Len(w) /\ g + 2 \in 1 .. Len(w)
  BY <1>5
<1>7. \A i \in 1 .. Len(w) : Wire(a)[3 + i] = w[i]
  BY <1>1, <1>3 DEF Joins
<1>8. Len(Wire(a)) = 3 + Len(w)
  BY <1>1, <1>3 DEF Joins
<1>9. p = 3 + g /\ p + 1 = 3 + (g + 1) /\ p + 2 = 3 + (g + 2)
  BY <1>2, <1>4
<1>10. Wire(a)[p + 1] = Size(0) /\ Wire(a)[p + 2] = LineEnd
  BY <1>5, <1>6, <1>7, <1>9
<1>11. p \in Nat /\ p >= 3 /\ Len(Wire(a)) = p + 3
  BY <1>5, <1>8, <1>9
<1> QED
  BY <1>10, <1>11 DEF p

(* The k-th chunk stands where ReadTo says. *)
LEMMA WireAt ==
    ASSUME NEW a \in Answers, a.kind = "chunked", NEW k \in 1 .. Len(a.parts)
    PROVE  LET p == ReadTo(a, k - 1)
               d == a.parts[k]
           IN  /\ p \in Nat /\ p >= 3
               /\ ReadTo(a, k) = p + Len(d) + 3 /\ ReadTo(a, k) + 3 <= Len(Wire(a))
               /\ Wire(a)[p + 1] = Size(Len(d)) /\ Wire(a)[p + 2] = LineEnd
               /\ \A j \in 1 .. Len(d) : Wire(a)[p + 2 + j] = d[j]
<1> DEFINE C == Chunks(a)
           G == FlattenSeq(C)
           F(j) == FlattenSeq(SubSeq(C, 1, j))
           d == a.parts[k]
           p == ReadTo(a, k - 1)
           before == F(k - 1)
           upto == F(k)
           c == C[k]
<1>1. PICK w : Joins(Wire(a), HeadTokens, w) /\ Joins(w, G, LastChunk)
  BY WireChunks
<1>2. /\ d \in Seq(Tokens) /\ Len(d) \in Nat
      /\ c \in Seq(Tokens) /\ Len(c) = Len(d) + 3
      /\ c[1] = Size(Len(d)) /\ c[2] = LineEnd /\ \A j \in 1 .. Len(d) : c[2 + j] = d[j]
  <2>1. d \in Seq(Tokens) /\ C[k] = Chunk(d)
    BY PartTypes, ChunksAre
  <2> QED
    BY <2>1, ChunkIs, LenProperties
<1>3. C \in Seq(Seq(Tokens)) /\ Len(C) = Len(a.parts)
  BY ChunksAre
<1>4. k \in 1 .. Len(C) /\ k \in 0 .. Len(C) /\ k - 1 \in 0 .. Len(C)
  BY <1>3
<1>5. before \in Seq(Tokens) /\ upto \in Seq(Tokens)
  BY <1>3, <1>4, FlattenType
<1>6. Joins(upto, before, c)
  <2>1. upto = before \o c
    BY <1>3, <1>4, FlattenStep
  <2> HIDE DEF upto, before, c
  <2> QED
    BY <1>2, <1>5, <2>1, Concat
<1>7. PICK r : Joins(G, upto, r) /\ Len(r) \in Nat
  <2>1. PICK r \in Seq(Tokens) : G = upto \o r
    BY <1>3, <1>4, FlattenRest
  <2> HIDE DEF G, upto
  <2>2. r \in Seq(Tokens) /\ Len(r) \in Nat
    BY <2>1, LenProperties
  <2>3. Joins(G, upto, r)
    BY <1>5, <2>1, <2>2, Concat
  <2> QED
    BY <2>2, <2>3
<1>8. /\ Len(HeadTokens) = 3 /\ Len(LastChunk) = 3
      /\ p = 3 + Len(before) /\ ReadTo(a, k) = 3 + Len(upto)
  BY TokenTypes DEF ReadTo
<1>9. Len(before) \in Nat /\ Len(upto) \in Nat
  BY <1>5, LenProperties
<1> HIDE DEF C, G, F, before, upto, c, p, d
<1>10. /\ Len(upto) = Len(before) + Len(c) /\ Len(G) = Len(upto) + Len(r)
       /\ Len(w) = Len(G) + 3 /\ Len(Wire(a)) = 3 + Len(w)
  BY <1>1, <1>6, <1>7, <1>8 DEF Joins
<1>11. ASSUME NEW i \in 1 .. Len(c)
       PROVE  Wire(a)[p + i] = c[i]
  <2> DEFINE q == Len(before) + i
  <2>1. q \in 1 .. Len(upto) /\ q \in 1 .. Len(G) /\ q \in 1 .. Len(w) /\ p + i = 3 + q
    <3>1. Len(r) \in Nat /\ Len(before) \in Nat /\ Len(c) \in Nat
      BY <1>2, <1>7, <1>9
    <3> QED
      BY <1>8, <1>10, <3>1
  <2>2. upto[q] = c[i]
    BY <1>6 DEF Joins
  <2> HIDE DEF q
  <2>3. G[q] = upto[q]
    BY <1>7, <2>1 DEF Joins
  <2>4. w[q] = G[q]
    BY <1>1, <2>1 DEF Joins
  <2>5. Wire(a)[3 + q] = w[q]
    BY <1>1, <1>8, <2>1 DEF Joins
  <2> QED
    BY <2>1, <2>2, <2>3, <2>4, <2>5
<1>12. p \in Nat /\ p >= 3 /\ ReadTo(a, k) = p + Len(d) + 3 /\ ReadTo(a, k) + 3 <= Len(Wire(a))
  <2>1. Len(r) \in Nat /\ Len(before) \in Nat /\ Len(d) \in Nat /\ Len(c) = Len(d) + 3
    BY <1>2, <1>7, <1>9
  <2> QED
    BY <1>8, <1>10, <2>1
<1>13. 1 \in 1 .. Len(c) /\ 2 \in 1 .. Len(c) /\ \A j \in 1 .. Len(d) : 2 + j \in 1 .. Len(c)
  BY <1>2
<1>14. Wire(a)[p + 1] = Size(Len(d)) /\ Wire(a)[p + 2] = LineEnd
  BY <1>2, <1>11, <1>13
<1>15. \A j \in 1 .. Len(d) : Wire(a)[p + 2 + j] = d[j]
  <2> TAKE j \in 1 .. Len(d)
  <2>1. p + 2 + j = p + (2 + j)
    BY <1>2, <1>12
  <2> QED
    BY <1>2, <1>11, <1>13, <2>1
<1> QED
  BY <1>12, <1>14, <1>15 DEF p, d
---------------------------------------------------------------------------
(* HttpClient: the inductive invariant.  While an answer comes in, what is  *)
(* in the buffer and what is on its way make up the answer.                *)
Receiving == pc \in {"recv", "header", "body", "chunk"}

WireInv ==
    /\ {buf, wire, body} \subseteq Seq(Tokens)
    /\ pc # "idle" => result = "none"
    /\ Receiving => buf \o wire = Wire(answer)

HeadInv ==
    Receiving /\ ~decoded =>
        /\ pos = 0 /\ length = 0 /\ is_chunk = stale
        /\ pc \in {"recv", "header"}
        /\ pc = "recv" => Len(buf) < 3

DecodedInv ==
    Receiving /\ decoded =>
        /\ pc # "header" /\ answer.kind # "broken"
        /\ length = IF answer.kind = "length" THEN Len(Full(answer)) ELSE 0
        /\ is_chunk = (stale \/ answer.kind = "chunked")
        /\ pc = "chunk" => is_chunk
        /\ Len(buf) >= 3

(* Without chunks, and none before, the data is all behind the header. *)
PlainInv ==
    Receiving /\ decoded /\ answer.kind # "chunked" /\ ~stale =>
        pos = 3 /\ (pc = "recv" => wire # << >>)

(* Chunks that no piece has cut are read when they are all there. *)
ChunkInv ==
    Receiving /\ answer.kind = "chunked" /\ ~split =>
        /\ Len(buf) <= 3 \/ Len(wire) <= 1
        /\ decoded /\ pc = "recv" => Len(buf) = 3
        /\ decoded /\ pc # "chunk" => pos = 3
        /\ pc = "chunk" => \E k \in 0 .. Len(answer.parts) :
                               /\ pos = ReadTo(answer, k) /\ body = DataTo(answer, k)
                               /\ Len(buf) = 3 => k = 0

ClientInv == /\ ClientTypeOK /\ WireInv /\ HeadInv /\ DecodedInv
             /\ PlainInv /\ ChunkInv /\ BodyIsWhole

LEMMA BufferIs ==
    ASSUME ClientTypeOK, WireInv, Receiving
    PROVE  /\ buf \in Seq(Tokens) /\ wire \in Seq(Tokens)
           /\ Len(buf) \in Nat /\ Len(wire) \in Nat
           /\ Len(buf) + Len(wire) = Len(Wire(answer))
           /\ \A i \in 1 .. Len(buf) : buf[i] = Wire(answer)[i]
           /\ \A i \in 1 .. Len(wire) : wire[i] = Wire(answer)[Len(buf) + i]
<1>1. buf \in Seq(Tokens) /\ wire \in Seq(Tokens) /\ Wire(answer) = buf \o wire
  BY DEF WireInv
<1>2. Joins(Wire(answer), buf, wire)
  BY <1>1, Concat
<1>3. Len(buf) \in Nat /\ Len(wire) \in Nat
  BY <1>1, LenProperties
<1> QED
  BY <1>1, <1>2, <1>3 DEF Joins

LEMMA FirstIs ==
    ASSUME buf \in Seq(Tokens), NEW t, NEW from \in Nat, Has(t, from)
    PROVE  /\ First(t, from) \in (from + 1) .. Len(buf) /\ First(t, from) \in Nat
           /\ buf[First(t, from)].t = t
           /\ \A j \in (from + 1) .. (First(t, from) - 1) : buf[j].t # t
<1> DEFINE at == {i \in (from + 1) .. Len(buf) : buf[i].t = t}
<1>1. Len(buf) \in Nat
  BY LenProperties
<1>2. at \in SUBSET Nat /\ at # {}
  BY <1>1 DEF Has
<1>3. PICK i \in at : \A j \in at : i <= j
  BY <1>2, FirstOf
<1>4. i \in Nat /\ \A j \in (from + 1) .. (i - 1) : buf[j].t # t
  BY <1>1, <1>3
<1>5. \E x \in (from + 1) .. Len(buf) :
          buf[x].t = t /\ \A j \in (from + 1) .. (x - 1) : buf[j].t # t
  BY <1>3, <1>4
<1>6. /\ First(t, from) \in (from + 1) .. Len(buf) /\ buf[First(t, from)].t = t
      /\ \A j \in (from + 1) .. (First(t, from) - 1) : buf[j].t # t
  BY <1>5 DEF First
<1> QED
  BY <1>1, <1>6

LEMMA FirstAt ==
    ASSUME buf \in Seq(Tokens), NEW t, NEW from \in Nat, NEW i \in (from + 1) .. Len(buf),
           buf[i].t = t, \A j \in (from + 1) .. (i - 1) : buf[j].t # t
    PROVE  Has(t, from) /\ First(t, from) = i
<1>1. Has(t, from)
  BY DEF Has
<1> DEFINE f == First(t, from)
<1>2. /\ f \in (from + 1) .. Len(buf) /\ f \in Nat /\ buf[f].t = t
      /\ \A j \in (from + 1) .. (f - 1) : buf[j].t # t
  BY <1>1, FirstIs
<1> HIDE DEF f
<1>3. i \in Nat
  BY LenProperties
<1>4. ~(f < i) /\ ~(i < f)
  BY <1>2, <1>3
<1> QED
  BY <1>1, <1>2, <1>3, <1>4 DEF f

(* The header ends at its third token. *)
LEMMA HeaderEnd ==
    ASSUME ClientTypeOK, WireInv, Receiving, pos = 0
    PROVE  /\ Has("end", pos) <=> Len(buf) >= 3
           /\ Has("end", pos) => First("end", pos) = 3
<1>1. /\ buf \in Seq(Tokens) /\ Len(buf) \in Nat
      /\ \A i \in 1 .. Len(buf) : buf[i] = Wire(answer)[i]
  BY BufferIs
<1>2. /\ Wire(answer)[1].t # "end" /\ Wire(answer)[2].t # "end"
      /\ Wire(answer)[3].t = "end"
  BY WireType DEF ClientTypeOK
<1>3. ASSUME Len(buf) >= 3
      PROVE  Has("end", 0) /\ First("end", 0) = 3
  <2>1. 3 \in (0 + 1) .. Len(buf) /\ buf[3].t = "end"
    BY <1>1, <1>2, <1>3
  <2>2. \A j \in (0 + 1) .. (3 - 1) : buf[j].t # "end"
    BY <1>1, <1>2, <1>3
  <2> QED
    BY <1>1, <2>1, <2>2, FirstAt
<1>4. ASSUME Has("end", 0)
      PROVE  Len(buf) >= 3
  <2>1. PICK i \in (0 + 1) .. Len(buf) : buf[i].t = "end"
    BY <1>4 DEF Has
  <2> QED
    BY <1>1, <1>2, <2>1
<1> QED
  BY <1>3, <1>4

LEMMA LineSizesNat ==
    ASSUME buf \in Seq(Tokens), pos \in Nat
    PROVE  /\ LineSizes \subseteq Nat
           /\ LineSizes # {} => lineEnd \in (pos + 1) .. Len(buf) /\ lineEnd \in Nat
<1>1. CASE Has("crlf", pos)
  <2>1. lineEnd \in (pos + 1) .. Len(buf) /\ lineEnd \in Nat
    BY <1>1, FirstIs DEF lineEnd
  <2> DEFINE text == SubSeq(buf, pos + 1, lineEnd - 1)
  <2>2. text \in Seq(Tokens)
    <3>1. \A i \in pos + 1 .. lineEnd - 1 : buf[i] \in Tokens
      BY <2>1
    <3> QED
      BY <2>1, <3>1, SubSeqProperties
  <2> HIDE DEF text
  <2>3. text # << >> => text[1] \in Tokens
    BY <2>2
  <2>4. text # << >> => text[1].n \in Nat
    BY <2>3 DEF Tokens
  <2>5. JunkSizes \subseteq Nat
    BY ClientConstants
  <2>6. Sizes(text) \subseteq Nat
    <3>1. CASE text = << >>
      BY <3>1 DEF Sizes
    <3>2. CASE text # << >> /\ text[1].t = "size"
      BY <2>4, <3>2 DEF Sizes
    <3>3. CASE text # << >> /\ text[1].t # "size"
      BY <2>5, <3>3 DEF Sizes
    <3> QED
      BY <3>1, <3>2, <3>3
  <2> QED
    BY <1>1, <2>1, <2>6 DEF LineSizes, text
<1>2. CASE ~Has("crlf", pos)
  BY <1>2 DEF LineSizes
<1> QED
  BY <1>1, <1>2

LEMMA SizeLine ==
    ASSUME buf \in Seq(Tokens), pos \in Nat, pos + 2 <= Len(buf), NEW n \in Nat,
           buf[pos + 1] = Size(n), buf[pos + 2] = LineEnd
    PROVE  lineEnd = pos + 2 /\ LineSizes = {n}
<1>1. /\ pos + 2 \in (pos + 1) .. Len(buf) /\ buf[pos + 2].t = "crlf"
      /\ \A j \in (pos + 1) .. (pos + 2 - 1) : buf[j].t # "crlf"
  <2>1. Size(n).t = "size" /\ LineEnd.t = "crlf"
    BY TokenTypes
  <2>2. pos + 2 \in (pos + 1) .. Len(buf) /\ \A j \in (pos + 1) .. (pos + 2 - 1) : j = pos + 1
    BY LenProperties
  <2> QED
    BY <2>1, <2>2
<1>2. Has("crlf", pos) /\ lineEnd = pos + 2
  BY <1>1, FirstAt DEF lineEnd
<1> DEFINE text == SubSeq(buf, pos + 1, lineEnd - 1)
<1>3. text # << >> /\ text[1] = Size(n)
  <2>1. lineEnd - 1 = pos + 1 /\ pos + 1 \in 1 .. Len(buf)
    BY <1>1, <1>2
  <2>2. text = SubSeq(buf, pos + 1, pos + 1)
    BY <2>1
  <2>3. \A i \in pos + 1 .. pos + 1 : buf[i] \in Tokens
    BY <2>1
  <2>4. /\ SubSeq(buf, pos + 1, pos + 1) \in Seq(Tokens)
        /\ Len(SubSeq(buf, pos + 1, pos + 1)) = 1
        /\ SubSeq(buf, pos + 1, pos + 1)[1] = buf[pos + 1]
    BY <2>3, SubSeqProperties
  <2>5. text \in Seq(Tokens) /\ Len(text) = 1 /\ text[1] = buf[pos + 1]
    BY <2>2, <2>4
  <2> HIDE DEF text
  <2>6. text # << >>
    <3>1. Len(text) = 1
      BY <2>5
    <3>2. text = << >> => Len(text) = 0
      BY EmptySeq
    <3> QED
      BY <3>1, <3>2
  <2> QED
    BY <2>5, <2>6
<1>4. Sizes(text) = {n}
  <2>1. Size(n).t = "size" /\ Size(n).n = n
    BY TokenTypes
  <2> HIDE DEF text
  <2> QED
    BY <1>3, <2>1 DEF Sizes
<1> QED
  BY <1>2, <1>4 DEF LineSizes

(* A piece of s that is equal to d, token by token. *)
LEMMA PieceIs ==
    ASSUME NEW s \in Seq(Tokens), NEW d \in Seq(Tokens), NEW m \in Nat,
           m + Len(d) <= Len(s), \A j \in 1 .. Len(d) : s[m + j] = d[j]
    PROVE  SubSeq(s, m + 1, m + Len(d)) = d
<1>1. PICK n \in Nat : n = Len(d)
  BY LenProperties
<1>2. Len(s) \in Nat /\ m + n <= Len(s) /\ \A j \in 1 .. n : s[m + j] = d[j]
  BY <1>1, LenProperties
<1> DEFINE e == SubSeq(s, m + 1, m + n)
<1>3. m + 1 \in Int /\ m + n \in Int /\ \A i \in m + 1 .. m + n : s[i] \in Tokens
  <2>1. \A i \in m + 1 .. m + n : i \in 1 .. Len(s)
    BY <1>2
  <2> QED
    BY <2>1
<1>4. /\ e \in Seq(Tokens)
      /\ Len(e) = IF m + 1 <= m + n THEN m + n - (m + 1) + 1 ELSE 0
      /\ \A i \in 1 .. m + n - (m + 1) + 1 : e[i] = s[m + 1 + i - 1]
  BY <1>3, SubSeqProperties
<1> HIDE DEF e
<1>5. Len(e) = n
  BY <1>4
<1>6. ASSUME NEW i \in 1 .. n
      PROVE  e[i] = d[i]
  <2>1. i \in 1 .. m + n - (m + 1) + 1 /\ m + 1 + i - 1 = m + i
    OBVIOUS
  <2> QED
    BY <1>2, <1>4, <2>1
<1>7. e = d
  BY <1>1, <1>4, <1>5, <1>6, SeqEqual
<1> QED
  BY <1>1, <1>7 DEF e

(* A chunk that is all there is taken; *)
LEMMA ChunkThere ==
    ASSUME ClientTypeOK, WireInv, pc = "chunk", answer.kind = "chunked", Len(wire) <= 1,
           NEW k \in 1 .. Len(answer.parts), pos = ReadTo(answer, k - 1)
    PROVE  LET d == answer.parts[k]
           IN  /\ LineSizes = {Len(d)} /\ Len(d) # 0 /\ Len(d) \in Nat
               /\ lineEnd \in Nat /\ lineEnd + Len(d) + 1 = ReadTo(answer, k)
               /\ Len(buf) >= lineEnd + Len(d) + 1
               /\ SubSeq(buf, lineEnd + 1, lineEnd + Len(d)) = d
<1> DEFINE d == answer.parts[k]
           W == Wire(answer)
           next == ReadTo(answer, k)
<1>1. answer \in Answers
  BY DEF ClientTypeOK
<1>2. PICK n \in Nat : n = Len(d) /\ n > 0 /\ d \in Seq(Tokens)
  <2>1. d \in Seq(Tokens) /\ Len(d) > 0
    BY <1>1, PartTypes
  <2> QED
    BY <2>1, LenProperties
<1>3. /\ pos \in Nat /\ pos >= 3 /\ next = pos + Len(d) + 3 /\ next + 3 <= Len(W)
      /\ W[pos + 1] = Size(Len(d)) /\ W[pos + 2] = LineEnd
      /\ \A j \in 1 .. Len(d) : W[pos + 2 + j] = d[j]
  BY <1>1, WireAt
<1>4. /\ buf \in Seq(Tokens) /\ Len(buf) \in Nat /\ Len(wire) \in Nat
      /\ Len(buf) + Len(wire) = Len(W)
      /\ \A i \in 1 .. Len(buf) : buf[i] = W[i]
  BY BufferIs DEF Receiving
<1> HIDE DEF d, W, next
<1>5. pos \in Nat /\ next = pos + n + 3 /\ pos + n + 3 <= Len(buf)
  <2>1. pos \in Nat /\ next = pos + n + 3 /\ next + 3 <= Len(W)
    BY <1>2, <1>3
  <2>2. Len(buf) \in Nat /\ Len(wire) \in Nat /\ Len(buf) + Len(wire) = Len(W)
    BY <1>4
  <2> QED
    BY <2>1, <2>2
<1>6. /\ pos + 1 \in 1 .. Len(buf) /\ pos + 2 \in 1 .. Len(buf)
      /\ pos + 2 <= Len(buf)
      /\ \A j \in 1 .. n : pos + 2 + j \in 1 .. Len(buf)
  <2>1. Len(buf) \in Nat /\ pos \in Nat /\ pos + n + 3 <= Len(buf)
    BY <1>4, <1>5
  <2>2. pos + 1 \in 1 .. Len(buf) /\ pos + 2 \in 1 .. Len(buf) /\ pos + 2 <= Len(buf)
    BY <2>1
  <2>3. ASSUME NEW j \in 1 .. n
        PROVE  pos + 2 + j \in 1 .. Len(buf)
    <3>1. j \in Nat /\ j <= n /\ pos + 2 + j <= Len(buf)
      BY <2>1
    <3> QED
      BY <2>1, <3>1
  <2> QED
    BY <2>2, <2>3
<1>7. buf[pos + 1] = Size(n) /\ buf[pos + 2] = LineEnd
  <2>1. \A i \in 1 .. Len(buf) : buf[i] = W[i]
    BY <1>4
  <2>2. W[pos + 1] = Size(n) /\ W[pos + 2] = LineEnd
    BY <1>2, <1>3
  <2> QED
    BY <1>6, <2>1, <2>2
<1>8. \A j \in 1 .. Len(d) : buf[pos + 2 + j] = d[j]
  <2>1. \A i \in 1 .. Len(buf) : buf[i] = W[i]
    BY <1>4
  <2>2. \A j \in 1 .. Len(d) : W[pos + 2 + j] = d[j]
    BY <1>3
  <2> QED
    BY <1>2, <1>6, <2>1, <2>2
<1>9. lineEnd = pos + 2 /\ LineSizes = {n}
  <2>1. buf \in Seq(Tokens)
    BY <1>4
  <2> QED
    BY <1>5, <1>6, <1>7, <2>1, SizeLine
<1>10. SubSeq(buf, pos + 2 + 1, pos + 2 + Len(d)) = d
  <2>1. buf \in Seq(Tokens) /\ d \in Seq(Tokens) /\ pos + 2 \in Nat
    BY <1>2, <1>4, <1>5
  <2>2. pos + 2 + Len(d) <= Len(buf)
    BY <1>2, <1>4, <1>5
  <2> QED
    BY <1>8, <2>1, <2>2, PieceIs
<1>11. SubSeq(buf, lineEnd + 1, lineEnd + Len(d)) = d
  BY <1>9, <1>10
<1>12. lineEnd \in Nat /\ lineEnd + n + 1 = next /\ Len(buf) >= lineEnd + n + 1
  <2>1. Len(buf) \in Nat
    BY <1>4
  <2> QED
    BY <1>5, <1>9, <2>1
<1> QED
  BY <1>2, <1>9, <1>11, <1>12 DEF d, next

(* behind the last one stands the chunk of size 0; *)
LEMMA LastThere ==
    ASSUME ClientTypeOK, WireInv, pc = "chunk", answer.kind = "chunked", Len(wire) <= 1,
           pos = ReadTo(answer, Len(answer.parts))
    PROVE  LineSizes = {0}
<1>1. /\ buf \in Seq(Tokens) /\ Len(buf) \in Nat /\ Len(wire) \in Nat
      /\ Len(buf) + Len(wire) = Len(Wire(answer))
      /\ \A i \in 1 .. Len(buf) : buf[i] = Wire(answer)[i]
  BY BufferIs DEF Receiving
<1>2. answer \in Answers
  BY DEF ClientTypeOK
<1>3. /\ pos \in Nat /\ pos >= 3 /\ Len(Wire(answer)) = pos + 3
      /\ Wire(answer)[pos + 1] = Size(0) /\ Wire(answer)[pos + 2] = LineEnd
  BY <1>2, WireEnd
<1>4. pos + 2 <= Len(buf) /\ pos + 1 \in 1 .. Len(buf) /\ pos + 2 \in 1 .. Len(buf)
  BY <1>1, <1>3
<1>5. buf[pos + 1] = Size(0) /\ buf[pos + 2] = LineEnd
  BY <1>1, <1>3, <1>4
<1> QED
  BY <1>1, <1>3, <1>4, <1>5, SizeLine

(* and with the header alone there is no chunk. *)
LEMMA NothingThere ==
    ASSUME buf \in Seq(Tokens), Len(buf) = 3, pos = 3
    PROVE  LineSizes = {}
<1>1. ~Has("crlf", pos)
  BY DEF Has
<1> QED
  BY <1>1 DEF LineSizes

(* Of an answer in chunks that no piece has cut: nothing is there, or a     *)
(* chunk, or the last one.                                                 *)
LEMMA ChunkCases ==
    ASSUME ClientInv, pc = "chunk", answer.kind = "chunked", ~split
    PROVE  \/ Len(buf) = 3 /\ pos = 3 /\ LineSizes = {}
           \/ /\ Len(buf) # 3
              /\ \E k \in 1 .. Len(answer.parts) :
                     /\ body = DataTo(answer, k - 1)
                     /\ LineSizes = {Len(answer.parts[k])}
                     /\ Len(answer.parts[k]) # 0 /\ Len(answer.parts[k]) \in Nat
                     /\ lineEnd \in Nat
                     /\ lineEnd + Len(answer.parts[k]) + 1 = ReadTo(answer, k)
                     /\ Len(buf) >= lineEnd + Len(answer.parts[k]) + 1
                     /\ SubSeq(buf, lineEnd + 1, lineEnd + Len(answer.parts[k])) = answer.parts[k]
           \/ body = Full(answer) /\ LineSizes = {0}
<1>1. ClientTypeOK /\ WireInv /\ Receiving /\ decoded /\ Len(buf) >= 3 /\ answer \in Answers
  BY DEF ClientInv, HeadInv, DecodedInv, Receiving, ClientTypeOK
<1>2. PICK k \in 0 .. Len(answer.parts) : /\ pos = ReadTo(answer, k) /\ body = DataTo(answer, k)
                                          /\ Len(buf) = 3 => k = 0
  BY <1>1 DEF ClientInv, ChunkInv
<1>3. Len(buf) <= 3 \/ Len(wire) <= 1
  BY <1>1 DEF ClientInv, ChunkInv
<1>4. /\ buf \in Seq(Tokens) /\ Len(buf) \in Nat
      /\ Len(answer.parts) \in Nat /\ DataTo(answer, Len(answer.parts)) = Full(answer)
  BY <1>1, BufferIs, DataAll
<1>5. CASE Len(buf) = 3
  <2>1. pos = 3
    BY <1>1, <1>2, <1>5, FirstPiece
  <2> QED
    BY <1>4, <1>5, <2>1, NothingThere
<1>6. CASE Len(buf) # 3 /\ k = Len(answer.parts)
  <2>1. Len(wire) <= 1
    <3>1. Len(buf) >= 3 /\ Len(buf) \in Nat /\ Len(buf) # 3
      BY <1>1, <1>4, <1>6
    <3>2. \A b \in Nat : b >= 3 /\ b # 3 => ~(b <= 3)
      OBVIOUS
    <3> QED
      BY <1>3, <3>1, <3>2, Zenon
  <2>2. LineSizes = {0}
    BY <1>1, <1>2, <1>6, <2>1, LastThere
  <2> QED
    BY <1>2, <1>4, <1>6, <2>2
<1>7. CASE Len(buf) # 3 /\ k # Len(answer.parts)
  <2>1. Len(wire) <= 1
    <3>1. Len(buf) >= 3 /\ Len(buf) \in Nat /\ Len(buf) # 3
      BY <1>1, <1>4, <1>7
    <3>2. \A b \in Nat : b >= 3 /\ b # 3 => ~(b <= 3)
      OBVIOUS
    <3> QED
      BY <1>3, <3>1, <3>2, Zenon
  <2>2. PICK j \in 1 .. Len(answer.parts) : j - 1 = k
    <3>1. k + 1 \in 1 .. Len(answer.parts) /\ k + 1 - 1 = k
      BY <1>4, <1>7
    <3> QED
      BY <3>1
  <2>3. pos = ReadTo(answer, j - 1) /\ body = DataTo(answer, j - 1)
    BY <1>2, <2>2
  <2>4. /\ LineSizes = {Len(answer.parts[j])}
        /\ Len(answer.parts[j]) # 0 /\ Len(answer.parts[j]) \in Nat
        /\ lineEnd \in Nat
        /\ lineEnd + Len(answer.parts[j]) + 1 = ReadTo(answer, j)
        /\ Len(buf) >= lineEnd + Len(answer.parts[j]) + 1
        /\ SubSeq(buf, lineEnd + 1, lineEnd + Len(answer.parts[j])) = answer.parts[j]
    BY <1>1, <2>1, <2>3, ChunkThere
  <2> QED
    BY <1>7, <2>3, <2>4
<1> QED
  BY <1>5, <1>6, <1>7

LEMMA NotReceiving ==
    ASSUME pc' \in {"idle", "send"}
    PROVE  HeadInv' /\ DecodedInv' /\ PlainInv' /\ ChunkInv'
BY DEF HeadInv, DecodedInv, PlainInv, ChunkInv, Receiving

LEMMA CallStep ==
    ASSUME ClientInv, Call PROVE ClientInv'
<1>1. ClientTypeOK'
  BY ClientConstants DEF ClientInv, ClientTypeOK, Call, decoder, response
<1>2. WireInv' /\ BodyIsWhole'
  BY DEF ClientInv, WireInv, BodyIsWhole, Call, decoder, response, Receiving
<1> QED
  BY <1>1, <1>2, NotReceiving DEF ClientInv, Call

LEMMA ReturnStep ==
    ASSUME ClientInv, CallReturns("false"), is_chunk' \in BOOLEAN,
           UNCHANGED <<answer, wire, decoder, length, body, split, stale, calls>>
    PROVE  ClientInv'
<1>1. ClientTypeOK'
  BY DEF ClientInv, ClientTypeOK, CallReturns, decoder
<1>2. WireInv' /\ BodyIsWhole'
  BY DEF ClientInv, WireInv, BodyIsWhole, CallReturns, decoder, Receiving
<1> QED
  BY <1>1, <1>2, NotReceiving DEF ClientInv, CallReturns

LEMMA SentStep ==
    ASSUME ClientInv, Sent PROVE ClientInv'
<1>1. answer' \in Answers /\ wire' = Wire(answer') /\ buf' = << >> /\ pc' = "recv"
  BY DEF Sent
<1>2. Wire(answer') \in Seq(Tokens) /\ << >> \in Seq(Tokens) /\ Len(<< >>) = 0
  BY <1>1, WireType, EmptySeq
<1>3. << >> \o Wire(answer') = Wire(answer')
  BY <1>2, ConcatEmptySeq
<1>4. ClientTypeOK'
  <2>1. pos' = 0 /\ Len(buf') = 0
    BY <1>1, <1>2 DEF Sent
  <2>2. pos' <= Len(buf')
    BY <2>1
  <2>3. /\ length' = 0 /\ decoded' = FALSE /\ split' = FALSE /\ stale' = is_chunk
        /\ UNCHANGED <<is_chunk, result, calls>>
    BY DEF Sent
  <2>4. /\ is_chunk \in BOOLEAN /\ calls \in 0 .. MaxCalls
        /\ result \in {"none", "true", "false"}
    BY DEF ClientInv, ClientTypeOK
  <2> QED
    BY <1>1, <2>1, <2>2, <2>3, <2>4 DEF ClientTypeOK
<1>5. WireInv'
  BY <1>1, <1>2, <1>3 DEF ClientInv, WireInv, Sent
<1>6. HeadInv'
  <2>1. Len(buf') = 0
    BY <1>1, <1>2
  <2> QED
    BY <2>1 DEF HeadInv, Sent
<1>7. DecodedInv' /\ PlainInv'
  BY DEF DecodedInv, PlainInv, Sent
<1>8. ChunkInv'
  <2>1. Len(buf') = 0
    BY <1>1, <1>2
  <2> QED
    BY <2>1 DEF ChunkInv, Sent
<1>9. BodyIsWhole'
  BY DEF ClientInv, WireInv, BodyIsWhole, Sent
<1> QED
  BY <1>4, <1>5, <1>6, <1>7, <1>8, <1>9 DEF ClientInv

LEMMA RecvStep ==
    ASSUME ClientInv, Recv PROVE ClientInv'
<1>1. ClientTypeOK /\ WireInv /\ Receiving /\ pc = "recv" /\ answer \in Answers
  BY DEF ClientInv, Recv, Receiving, ClientTypeOK
<1>2. PICK n \in 1 .. Len(wire) : /\ buf' = buf \o SubSeq(wire, 1, n)
                                  /\ wire' = SubSeq(wire, n + 1, Len(wire))
  BY DEF Recv
<1>3. /\ buf \in Seq(Tokens) /\ wire \in Seq(Tokens)
      /\ Len(buf) \in Nat /\ Len(wire) \in Nat
      /\ Len(buf) + Len(wire) = Len(Wire(answer))
  BY <1>1, BufferIs
<1>4. /\ SubSeq(wire, 1, n) \in Seq(Tokens) /\ Len(SubSeq(wire, 1, n)) = n
      /\ SubSeq(wire, n + 1, Len(wire)) \in Seq(Tokens)
      /\ Len(SubSeq(wire, n + 1, Len(wire))) = Len(wire) - n
  BY <1>3
<1>5. wire' \in Seq(Tokens) /\ Len(wire') = Len(wire) - n
  BY <1>2, <1>4
<1>6. buf' \in Seq(Tokens) /\ Len(buf') = Len(buf) + n
  <2>1. Joins(buf', buf, SubSeq(wire, 1, n))
    BY <1>2, <1>3, <1>4, Concat
  <2> QED
    BY <1>4, <2>1 DEF Joins
<1>7. buf' \o wire' = Wire(answer)
  <2> DEFINE u == SubSeq(wire, 1, n)
             v == SubSeq(wire, n + 1, Len(wire))
  <2>1. u \o v = wire
    <3>1. SubSeq(wire, 1, n) \o SubSeq(wire, n + 1, Len(wire)) = SubSeq(wire, 1, Len(wire))
      BY <1>3, ConcatAdjacentSubSeq
    <3>2. SubSeq(wire, 1, Len(wire)) = wire
      BY <1>3, SubSeqFull
    <3> QED
      BY <3>1, <3>2
  <2>2. u \in Seq(Tokens) /\ v \in Seq(Tokens) /\ buf' = buf \o u /\ wire' = v
    BY <1>2, <1>4
  <2> HIDE DEF u, v
  <2>3. (buf \o u) \o v = buf \o (u \o v)
    <3>1. buf \in Seq(Tokens) /\ u \in Seq(Tokens) /\ v \in Seq(Tokens)
      BY <1>3, <2>2
    <3> QED
      BY <3>1, ConcatAssociative
  <2>4. buf \o wire = Wire(answer)
    BY <1>1 DEF WireInv
  <2> QED
    BY <2>1, <2>2, <2>3, <2>4
<1>8. UNCHANGED <<answer, pos, decoded, length, is_chunk, body, result, stale, calls>>
  BY DEF Recv, response
<1>9. pc' = (IF decoded THEN "body" ELSE "header") /\ split' = (split \/ CutsChunks(wire'))
  BY DEF Recv
<1>10. ClientTypeOK'
  <2>1. pos <= Len(buf')
    BY <1>1, <1>3, <1>6 DEF ClientTypeOK
  <2>2. split' \in BOOLEAN
    BY <1>1, <1>9 DEF ClientTypeOK, CutsChunks
  <2> QED
    BY <1>1, <1>8, <1>9, <2>1, <2>2 DEF ClientTypeOK
<1>11. WireInv'
  BY <1>1, <1>5, <1>6, <1>7, <1>8, <1>9 DEF WireInv
<1>12. HeadInv'
  BY <1>1, <1>8, <1>9 DEF ClientInv, HeadInv
<1>13. DecodedInv'
  <2>1. Len(buf') >= Len(buf)
    BY <1>3, <1>6
  <2> QED
    BY <1>1, <1>3, <1>6, <1>8, <1>9, <2>1 DEF ClientInv, DecodedInv
<1>14. PlainInv'
  BY <1>1, <1>8, <1>9 DEF ClientInv, PlainInv
<1>15. ChunkInv'
  <2>1. ASSUME answer.kind = "chunked", ~split'
        PROVE  Len(buf') <= 3 \/ Len(wire') <= 1
    <3>1. ~(Len(wire') \in 2 .. (Len(Wire(answer)) - 3 - 1))
      BY <1>9, <2>1, TokenTypes DEF CutsChunks
    <3> QED
      BY <1>3, <1>5, <1>6, <3>1
  <2>2. ASSUME answer.kind = "chunked", ~split', decoded
        PROVE  pos = 3
    BY <1>1, <1>9, <2>2 DEF ClientInv, ChunkInv
  <2> QED
    BY <1>8, <1>9, <2>1, <2>2 DEF ChunkInv
<1>16. BodyIsWhole'
  BY <1>1, <1>8 DEF WireInv, BodyIsWhole
<1> QED
  BY <1>10, <1>11, <1>12, <1>13, <1>14, <1>15, <1>16 DEF ClientInv

LEMMA HeaderIncompleteStep ==
    ASSUME ClientInv, HeaderIncomplete PROVE ClientInv'
<1>1. ClientTypeOK /\ WireInv /\ Receiving /\ ~decoded /\ pos = 0 /\ pc = "header"
  BY DEF ClientInv, HeadInv, DecodedInv, Receiving, HeaderIncomplete
<1>2. buf \in Seq(Tokens) /\ Len(buf) < 3
  <2>1. ~(Len(buf) >= 3) /\ buf \in Seq(Tokens) /\ Len(buf) \in Nat
    BY <1>1, HeaderEnd, BufferIs DEF HeaderIncomplete
  <2> QED
    BY <2>1
<1>3. /\ pc' = "recv"
      /\ UNCHANGED <<answer, wire, buf, pos, decoded, length, is_chunk, body, result, split, stale, calls>>
  BY DEF HeaderIncomplete, MoreNeeded, decoder, response
<1>4. ClientTypeOK'
  BY <1>1, <1>3 DEF ClientTypeOK
<1>5. WireInv' /\ BodyIsWhole'
  BY <1>1, <1>3 DEF ClientInv, WireInv, BodyIsWhole, Receiving
<1>6. HeadInv'
  BY <1>1, <1>2, <1>3 DEF ClientInv, HeadInv
<1>7. DecodedInv' /\ PlainInv'
  BY <1>1, <1>3 DEF DecodedInv, PlainInv
<1>8. ChunkInv'
  BY <1>1, <1>3 DEF ClientInv, ChunkInv
<1> QED
  BY <1>4, <1>5, <1>6, <1>7, <1>8 DEF ClientInv

LEMMA HeaderDecodedStep ==
    ASSUME ClientInv, HeaderDecoded PROVE ClientInv'
<1>1. /\ ClientTypeOK /\ WireInv /\ Receiving /\ ~decoded /\ pos = 0 /\ pc = "header"
      /\ length = 0 /\ is_chunk = stale
  BY DEF ClientInv, HeadInv, DecodedInv, Receiving, HeaderDecoded
<1>2. buf \in Seq(Tokens) /\ Len(buf) \in Nat /\ Len(buf) >= 3 /\ pos' = 3
  BY <1>1, HeaderEnd, BufferIs DEF HeaderDecoded
<1>3. /\ pc' = "body" /\ decoded' = TRUE /\ answer.kind # "broken"
      /\ length' = IF answer.kind = "length" THEN Len(Full(answer)) ELSE 0
      /\ is_chunk' = (stale \/ answer.kind = "chunked")
      /\ UNCHANGED <<answer, wire, buf, body, result, split, stale, calls>>
  BY <1>1 DEF HeaderDecoded
<1>4. ClientTypeOK'
  <2>1. Full(answer) \in Seq(Tokens)
    BY <1>1, PartTypes DEF ClientTypeOK
  <2>2. length' \in Nat
    BY <1>3, <2>1
  <2>3. is_chunk' \in BOOLEAN
    BY <1>1, <1>3 DEF ClientTypeOK
  <2>4. pos' \in Nat /\ pos' <= Len(buf')
    BY <1>2, <1>3
  <2> QED
    BY <1>1, <1>3, <2>2, <2>3, <2>4 DEF ClientTypeOK
<1>5. WireInv' /\ BodyIsWhole'
  BY <1>1, <1>3 DEF ClientInv, WireInv, BodyIsWhole, Receiving
<1>6. HeadInv'
  BY <1>3 DEF HeadInv
<1>7. DecodedInv'
  BY <1>2, <1>3 DEF DecodedInv
<1>8. PlainInv'
  BY <1>2, <1>3 DEF PlainInv
<1>9. ChunkInv'
  BY <1>1, <1>2, <1>3 DEF ClientInv, ChunkInv
<1> QED
  BY <1>4, <1>5, <1>6, <1>7, <1>8, <1>9 DEF ClientInv

LEMMA LengthIncompleteStep ==
    ASSUME ClientInv, LengthIncomplete PROVE ClientInv'
<1>1. /\ ClientTypeOK /\ WireInv /\ Receiving /\ decoded /\ pc = "body" /\ ~is_chunk
      /\ answer.kind # "chunked" /\ ~stale /\ pos = 3 /\ answer \in Answers
      /\ length = IF answer.kind = "length" THEN Len(Full(answer)) ELSE 0
      /\ Len(buf) >= 3
  BY DEF ClientInv, HeadInv, DecodedInv, PlainInv, Receiving, ClientTypeOK, LengthIncomplete
<1>2. /\ pc' = "recv"
      /\ UNCHANGED <<answer, wire, buf, pos, decoded, length, is_chunk, body, result, split, stale, calls>>
  BY DEF LengthIncomplete, MoreNeeded, decoder, response
<1>3. wire # << >>
  <2>1. /\ Len(buf) \in Nat /\ Len(wire) \in Nat /\ wire \in Seq(Tokens)
        /\ Len(buf) + Len(wire) = Len(Wire(answer))
    BY <1>1, BufferIs
  <2>2. Len(Wire(answer)) = 3 + Len(Full(answer)) /\ Len(Full(answer)) \in Nat
    BY <1>1, WirePlain, PartTypes, TokenTypes, LenProperties DEF Joins
  <2>3. length > Len(buf) - 3
    BY <1>1 DEF LengthIncomplete
  <2>4. length = Len(Full(answer))
    BY <1>1, <2>1, <2>3
  <2>5. Len(wire) # 0
    BY <2>1, <2>2, <2>3, <2>4
  <2> QED
    BY <2>5
<1>4. ClientTypeOK'
  BY <1>1, <1>2 DEF ClientTypeOK
<1>5. WireInv' /\ BodyIsWhole'
  BY <1>1, <1>2 DEF ClientInv, WireInv, BodyIsWhole, Receiving
<1>6. HeadInv' /\ ChunkInv'
  BY <1>1, <1>2 DEF HeadInv, ChunkInv
<1>7. DecodedInv'
  BY <1>1, <1>2 DEF ClientInv, DecodedInv
<1>8. PlainInv'
  BY <1>1, <1>2, <1>3 DEF PlainInv
<1> QED
  BY <1>4, <1>5, <1>6, <1>7, <1>8 DEF ClientInv

LEMMA LengthDoneStep ==
    ASSUME ClientInv, LengthDone PROVE ClientInv'
<1>1. /\ ClientTypeOK /\ WireInv /\ Receiving /\ decoded /\ pc = "body" /\ ~is_chunk
      /\ answer.kind # "chunked" /\ ~stale /\ pos = 3 /\ answer \in Answers
      /\ length = IF answer.kind = "length" THEN Len(Full(answer)) ELSE 0
      /\ Len(buf) >= 3
  BY DEF ClientInv, HeadInv, DecodedInv, PlainInv, Receiving, ClientTypeOK, LengthDone
<1>2. /\ body' = SubSeq(buf, pos + 1, Len(buf)) /\ pos' = pos + length
      /\ pc' = "idle" /\ result' = "true" /\ length <= Len(buf) - pos
      /\ UNCHANGED <<answer, wire, buf, decoded, length, is_chunk, split, stale, calls>>
  BY DEF LengthDone, CallReturns
<1>3. /\ buf \in Seq(Tokens) /\ Len(buf) \in Nat /\ Len(wire) \in Nat
      /\ Len(buf) + Len(wire) = Len(Wire(answer))
      /\ \A i \in 1 .. Len(buf) : buf[i] = Wire(answer)[i]
  BY <1>1, BufferIs
<1>4. ClientTypeOK'
  <2>1. pos' \in Nat
    BY <1>1, <1>2 DEF ClientTypeOK
  <2> QED
    BY <1>1, <1>2, <2>1 DEF ClientTypeOK
<1>5. body' \in Seq(Tokens)
  <2>1. \A i \in 4 .. Len(buf) : buf[i] \in Tokens
    BY <1>3
  <2>2. SubSeq(buf, 4, Len(buf)) \in Seq(Tokens)
    BY <1>3, <2>1, SubSeqProperties
  <2> QED
    BY <1>1, <1>2, <2>2
<1>6. WireInv'
  BY <1>1, <1>2, <1>5 DEF WireInv, Receiving
<1>7. ASSUME answer.kind = "length"
      PROVE  body' = Full(answer)
  <2> DEFINE d == Full(answer)
  <2>1. Joins(Wire(answer), HeadTokens, d) /\ Len(HeadTokens) = 3 /\ d \in Seq(Tokens)
    BY <1>1, WirePlain, PartTypes, TokenTypes
  <2>2. length = Len(d)
    BY <1>1, <1>7
  <2> HIDE DEF d
  <2>3. Len(Wire(answer)) = 3 + Len(d) /\ \A i \in 1 .. Len(d) : Wire(answer)[3 + i] = d[i]
    BY <2>1 DEF Joins
  <2>4. Len(d) \in Nat
    BY <2>1, LenProperties
  <2>5. Len(buf) = 3 + Len(d)
    BY <1>1, <1>2, <1>3, <2>2, <2>3, <2>4
  <2>6. \A i \in 1 .. Len(d) : 3 + i \in 1 .. Len(buf)
    BY <2>4, <2>5
  <2>7. \A i \in 1 .. Len(d) : buf[3 + i] = d[i]
    BY <1>3, <2>3, <2>6
  <2>8. SubSeq(buf, 3 + 1, 3 + Len(d)) = d
    BY <1>3, <2>1, <2>4, <2>5, <2>7, PieceIs
  <2> QED
    BY <1>1, <1>2, <2>5, <2>8 DEF d
<1>8. BodyIsWhole'
  BY <1>1, <1>2, <1>7 DEF BodyIsWhole
<1> QED
  BY <1>2, <1>4, <1>6, <1>8, NotReceiving DEF ClientInv

LEMMA ChunksBeginStep ==
    ASSUME ClientInv, ChunksBegin PROVE ClientInv'
<1>1. /\ ClientTypeOK /\ WireInv /\ Receiving /\ decoded /\ pc = "body" /\ is_chunk
      /\ answer \in Answers
  BY DEF ClientInv, HeadInv, Receiving, ClientTypeOK, ChunksBegin
<1>2. /\ pc' = "chunk" /\ body' = << >>
      /\ UNCHANGED <<answer, wire, buf, pos, decoded, length, is_chunk, result, split, stale, calls>>
  BY DEF ChunksBegin, decoder
<1>3. ClientTypeOK'
  BY <1>1, <1>2 DEF ClientTypeOK
<1>4. WireInv' /\ BodyIsWhole'
  <2>1. << >> \in Seq(Tokens)
    BY EmptySeq
  <2> QED
    BY <1>1, <1>2, <2>1 DEF WireInv, BodyIsWhole, Receiving
<1>5. HeadInv'
  BY <1>1, <1>2 DEF HeadInv
<1>6. DecodedInv'
  BY <1>1, <1>2 DEF ClientInv, DecodedInv
<1>7. PlainInv'
  BY <1>1, <1>2 DEF ClientInv, PlainInv
<1>8. ChunkInv'
  <2>1. SUFFICES ASSUME answer.kind = "chunked", ~split
                 PROVE  ChunkInv'
    BY <1>2 DEF ChunkInv
  <2>2. pos = 3 /\ (Len(buf) <= 3 \/ Len(wire) <= 1)
    BY <1>1, <2>1 DEF ClientInv, ChunkInv
  <2>3. pos' = ReadTo(answer', 0) /\ body' = DataTo(answer', 0) /\ 0 \in 0 .. Len(answer'.parts)
    BY <1>1, <1>2, <2>2, FirstPiece, DataAll
  <2> QED
    BY <1>2, <2>2, <2>3 DEF ChunkInv
<1> QED
  BY <1>3, <1>4, <1>5, <1>6, <1>7, <1>8 DEF ClientInv

LEMMA ChunkNoLineStep ==
    ASSUME ClientInv, ChunkNoLine PROVE ClientInv'
<1>1. ClientTypeOK /\ WireInv /\ Receiving /\ decoded /\ pc = "chunk" /\ is_chunk
  BY DEF ClientInv, HeadInv, DecodedInv, Receiving, ChunkNoLine
<1>2. /\ pc' = "recv" /\ LineSizes = {}
      /\ UNCHANGED <<answer, wire, buf, pos, decoded, length, is_chunk, body, result, split, stale, calls>>
  BY DEF ChunkNoLine, MoreNeeded, decoder, response, LineSizes
<1>3. ClientTypeOK'
  BY <1>1, <1>2 DEF ClientTypeOK
<1>4. WireInv' /\ BodyIsWhole'
  BY <1>1, <1>2 DEF ClientInv, WireInv, BodyIsWhole, Receiving
<1>5. HeadInv'
  BY <1>1, <1>2 DEF HeadInv
<1>6. DecodedInv'
  BY <1>1, <1>2 DEF ClientInv, DecodedInv
<1>7. PlainInv'
  BY <1>1, <1>2 DEF ClientInv, DecodedInv, PlainInv
<1>8. ChunkInv'
  <2>1. ASSUME answer.kind = "chunked", ~split
        PROVE  Len(buf) = 3 /\ pos = 3
    BY <1>1, <1>2, <2>1, ChunkCases
  <2>2. pc' = "recv" /\ answer' = answer /\ split' = split /\ buf' = buf /\ pos' = pos
    BY <1>2
  <2>3. ASSUME answer'.kind = "chunked", ~split'
        PROVE  Len(buf') = 3 /\ Len(buf') <= 3 /\ pos' = 3
    <3>1. Len(buf') = 3 /\ pos' = 3
      BY <2>1, <2>2, <2>3, Zenon
    <3>2. \A b : b = 3 => b <= 3
      OBVIOUS
    <3> QED
      BY <3>1, <3>2, Zenon
  <2> QED
    BY <2>2, <2>3 DEF ChunkInv
<1> QED
  BY <1>3, <1>4, <1>5, <1>6, <1>7, <1>8 DEF ClientInv

LEMMA ChunkIncompleteStep ==
    ASSUME ClientInv, ChunkIncomplete PROVE ClientInv'
<1>1. /\ ClientTypeOK /\ WireInv /\ Receiving /\ decoded /\ pc = "chunk" /\ is_chunk
      /\ buf \in Seq(Tokens) /\ pos \in Nat
  BY DEF ClientInv, HeadInv, DecodedInv, WireInv, ClientTypeOK, Receiving, ChunkIncomplete
<1>2. PICK size \in LineSizes \ {0} : Len(buf) < lineEnd + size + 1
  BY DEF ChunkIncomplete
<1>3. /\ pc' = "recv" /\ pos' = lineEnd
      /\ UNCHANGED <<answer, wire, buf, decoded, length, is_chunk, body, result, split, stale, calls>>
  BY DEF ChunkIncomplete, response
<1>4. lineEnd \in Nat /\ lineEnd <= Len(buf)
  <2>1. lineEnd \in (pos + 1) .. Len(buf) /\ lineEnd \in Nat
    BY <1>1, <1>2, LineSizesNat
  <2> QED
    BY <1>1, <2>1
<1>5. ~(answer.kind = "chunked" /\ ~split)
  <2>1. SUFFICES ASSUME answer.kind = "chunked", ~split PROVE FALSE
    OBVIOUS
  <2>2. PICK n \in Nat : /\ LineSizes = {n} /\ lineEnd \in Nat
                         /\ Len(buf) >= lineEnd + n + 1
    BY <1>1, <1>2, <2>1, ChunkCases
  <2>3. Len(buf) \in Nat /\ size = n
    BY <1>1, <1>2, <2>2
  <2> QED
    BY <1>2, <2>2, <2>3
<1>6. ClientTypeOK'
  BY <1>1, <1>3, <1>4 DEF ClientTypeOK
<1>7. WireInv' /\ BodyIsWhole'
  BY <1>1, <1>3 DEF ClientInv, WireInv, BodyIsWhole, Receiving
<1>8. HeadInv'
  BY <1>1, <1>3 DEF HeadInv
<1>9. DecodedInv'
  BY <1>1, <1>3 DEF ClientInv, DecodedInv
<1>10. PlainInv'
  BY <1>1, <1>3 DEF ClientInv, DecodedInv, PlainInv
<1>11. ChunkInv'
  BY <1>3, <1>5 DEF ChunkInv
<1> QED
  BY <1>6, <1>7, <1>8, <1>9, <1>10, <1>11 DEF ClientInv

LEMMA ChunkTakenStep ==
    ASSUME ClientInv, ChunkTaken PROVE ClientInv'
<1>1. /\ ClientTypeOK /\ WireInv /\ Receiving /\ decoded /\ pc = "chunk" /\ is_chunk
      /\ buf \in Seq(Tokens) /\ body \in Seq(Tokens) /\ pos \in Nat /\ answer \in Answers
  BY DEF ClientInv, HeadInv, DecodedInv, WireInv, ClientTypeOK, Receiving, ChunkTaken
<1>2. PICK size \in LineSizes \ {0} :
          /\ Len(buf) >= lineEnd + size + 1
          /\ body' = body \o SubSeq(buf, lineEnd + 1, lineEnd + size)
          /\ pos' = lineEnd + size + 1
  BY DEF ChunkTaken
<1>3. UNCHANGED <<pc, answer, wire, buf, decoded, length, is_chunk, result, split, stale, calls>>
  BY DEF ChunkTaken
<1>4. lineEnd \in Nat /\ size \in Nat /\ Len(buf) \in Nat
  BY <1>1, <1>2, LineSizesNat
<1>5. ClientTypeOK'
  <2>1. pos' \in Nat /\ pos' <= Len(buf')
    BY <1>2, <1>3, <1>4
  <2> QED
    BY <1>1, <1>3, <2>1 DEF ClientTypeOK
<1>6. body' \in Seq(Tokens)
  <2>1. \A i \in lineEnd + 1 .. lineEnd + size : i \in 1 .. Len(buf)
    BY <1>2, <1>4
  <2>2. \A i \in lineEnd + 1 .. lineEnd + size : buf[i] \in Tokens
    BY <1>1, <2>1
  <2>3. lineEnd + 1 \in Int /\ lineEnd + size \in Int
    BY <1>4
  <2>4. SubSeq(buf, lineEnd + 1, lineEnd + size) \in Seq(Tokens)
    BY <2>2, <2>3, SubSeqProperties
  <2>5. Joins(body', body, SubSeq(buf, lineEnd + 1, lineEnd + size))
    BY <1>1, <1>2, <2>4, Concat
  <2> QED
    BY <2>5 DEF Joins
<1>7. WireInv' /\ BodyIsWhole'
  BY <1>1, <1>3, <1>6 DEF WireInv, BodyIsWhole, Receiving
<1>8. HeadInv'
  BY <1>1, <1>3 DEF HeadInv
<1>9. DecodedInv'
  BY <1>1, <1>3 DEF ClientInv, DecodedInv
<1>10. PlainInv'
  BY <1>1, <1>3 DEF ClientInv, DecodedInv, PlainInv
<1>11. ChunkInv'
  <2>1. SUFFICES ASSUME answer.kind = "chunked", ~split
                 PROVE  ChunkInv'
    BY <1>3 DEF ChunkInv
  <2>2. PICK k \in 1 .. Len(answer.parts) :
            /\ body = DataTo(answer, k - 1) /\ LineSizes = {Len(answer.parts[k])}
            /\ lineEnd + Len(answer.parts[k]) + 1 = ReadTo(answer, k)
            /\ SubSeq(buf, lineEnd + 1, lineEnd + Len(answer.parts[k])) = answer.parts[k]
            /\ Len(buf) # 3
    BY <1>1, <1>2, <2>1, ChunkCases
  <2>3. size = Len(answer.parts[k])
    BY <1>2, <2>2
  <2>4. pos' = ReadTo(answer, k) /\ body' = DataTo(answer, k)
    BY <1>1, <1>2, <2>2, <2>3, DataStep
  <2>5. Len(buf) <= 3 \/ Len(wire) <= 1
    BY <1>1, <2>1 DEF ClientInv, ChunkInv
  <2>6. k \in 0 .. Len(answer.parts)
    OBVIOUS
  <2>7. /\ pc' = "chunk" /\ answer' = answer /\ buf' = buf /\ wire' = wire
        /\ k \in 0 .. Len(answer'.parts)
    BY <1>1, <1>3, <2>6
  <2> QED
    BY <2>2, <2>4, <2>5, <2>7 DEF ChunkInv
<1> QED
  BY <1>5, <1>7, <1>8, <1>9, <1>10, <1>11 DEF ClientInv

LEMMA ChunksDoneStep ==
    ASSUME ClientInv, ChunksDone PROVE ClientInv'
<1>1. /\ ClientTypeOK /\ WireInv /\ Receiving /\ decoded /\ pc = "chunk" /\ is_chunk
      /\ buf \in Seq(Tokens) /\ pos \in Nat
      /\ is_chunk = (stale \/ answer.kind = "chunked")
  BY DEF ClientInv, HeadInv, DecodedInv, WireInv, ClientTypeOK, Receiving, ChunksDone
<1>2. /\ 0 \in LineSizes /\ pos' = lineEnd + 1 /\ pc' = "idle" /\ result' = "true"
      /\ UNCHANGED <<answer, wire, buf, decoded, length, is_chunk, body, split, stale, calls>>
  BY DEF ChunksDone, CallReturns, response
<1>3. lineEnd \in Nat
  BY <1>1, <1>2, LineSizesNat
<1>4. ClientTypeOK'
  BY <1>1, <1>2, <1>3 DEF ClientTypeOK
<1>5. WireInv'
  BY <1>1, <1>2 DEF WireInv, Receiving
<1>6. ASSUME answer.kind = "chunked", ~split
      PROVE  body = Full(answer)
  BY <1>1, <1>2, <1>6, ChunkCases
<1>7. BodyIsWhole'
  BY <1>1, <1>2, <1>6 DEF BodyIsWhole, Confused
<1> QED
  BY <1>2, <1>4, <1>5, <1>7, NotReceiving DEF ClientInv

LEMMA ClientInvInit ==
    ASSUME ClientInit PROVE ClientInv
<1>1. pc = "idle" /\ result = "none"
  BY DEF ClientInit
<1>2. ClientTypeOK
  <2>1. 0 \in 0 .. MaxCalls
    BY ClientConstants
  <2> QED
    BY <2>1 DEF ClientInit, ClientTypeOK
<1>3. WireInv
  <2>1. << >> \in Seq(Tokens)
    BY EmptySeq
  <2> QED
    BY <2>1 DEF ClientInit, WireInv, Receiving
<1>4. HeadInv /\ DecodedInv /\ PlainInv /\ ChunkInv /\ BodyIsWhole
  BY <1>1 DEF HeadInv, DecodedInv, PlainInv, ChunkInv, BodyIsWhole, Receiving
<1> QED
  BY <1>2, <1>3, <1>4 DEF ClientInv

LEMMA ClientInvStep ==
    ASSUME ClientInv, [ClientNext]_callVars PROVE ClientInv'
<1>1. CASE UNCHANGED callVars
  BY <1>1 DEF ClientInv, ClientTypeOK, WireInv, HeadInv, DecodedInv, PlainInv, ChunkInv,
              BodyIsWhole, Confused, Receiving, callVars
<1>2. ASSUME is_chunk' \in BOOLEAN, CallReturns("false"),
             UNCHANGED <<answer, wire, decoder, length, body, split, stale, calls>>
      PROVE  ClientInv'
  BY <1>2, ReturnStep
<1>3. is_chunk \in BOOLEAN
  BY DEF ClientInv, ClientTypeOK
<1>4. CASE Fails
  BY <1>2, <1>3, <1>4 DEF Fails, response
<1>5. CASE HeaderTooLong
  BY <1>2, <1>3, <1>5 DEF HeaderTooLong, response
<1>6. CASE HeaderRejected
  <2>1. is_chunk' \in BOOLEAN
    BY <1>3, <1>6 DEF HeaderRejected
  <2> QED
    BY <1>2, <1>6, <2>1 DEF HeaderRejected
<1>7. CASE Decode
  BY <1>5, <1>6, <1>7, HeaderIncompleteStep, HeaderDecodedStep, LengthIncompleteStep,
     LengthDoneStep, ChunksBeginStep, ChunkNoLineStep, ChunkIncompleteStep, ChunkTakenStep,
     ChunksDoneStep DEF Decode
<1> QED
  BY <1>1, <1>4, <1>7, CallStep, SentStep, RecvStep DEF ClientNext

LEMMA ClientInvariant == ClientSpec => []ClientInv
<1>1. ClientInit => ClientInv
  BY ClientInvInit
<1>2. ClientInv /\ [ClientNext]_callVars => ClientInv'
  BY ClientInvStep
<1> QED
  BY <1>1, <1>2, PTL DEF ClientSpec

(* The decoder never takes one size from another that is less: its place is  *)
(* inside the buffer whenever it reads there, for any answers, however the   *)
(* network cuts them, Confused or not (http_client.hpp:79-101).            *)
THEOREM ClientTypeCorrect == ClientSpec => []ClientTypeOK
BY ClientInvariant, PTL DEF ClientInv

(* What call hands over is the whole body, for any answers, any cuts and any *)
(* number of calls and failures before, unless the decoder was Confused.   *)
THEOREM BodyIsWholeHolds == ClientSpec => []BodyIsWhole
BY ClientInvariant, PTL DEF ClientInv

(* An answer that is all there is not waited for (recv_callback knows that   *)
(* it has it all), unless the decoder was Confused.                        *)
THEOREM NoWaitForMoreHolds == ClientSpec => []NoWaitForMore
<1>1. ASSUME ClientInv, pc = "recv", wire = << >>, ~Confused
      PROVE  FALSE
  <2>1. ClientTypeOK /\ WireInv /\ Receiving /\ answer \in Answers
    BY <1>1 DEF ClientInv, ClientTypeOK, Receiving
  <2>2. /\ Len(buf) \in Nat /\ Len(wire) = 0 /\ Len(buf) + Len(wire) = Len(Wire(answer))
    BY <1>1, <2>1, BufferIs, EmptySeq
  <2>3. Len(Wire(answer)) >= 3
    BY <2>1, WireType
  <2>4. Len(buf) >= 3
    BY <2>2, <2>3
  <2>5. decoded
    BY <1>1, <2>1, <2>2, <2>4 DEF ClientInv, HeadInv
  <2>6. answer.kind = "chunked" /\ ~split
    BY <1>1, <2>1, <2>5 DEF ClientInv, PlainInv, Confused
  <2>7. Len(buf) = 3
    BY <1>1, <2>1, <2>5, <2>6 DEF ClientInv, ChunkInv
  <2>8. Len(Wire(answer)) >= 6
    BY <2>1, <2>6, WireEnd
  <2>9. Len(Wire(answer)) = 3
    BY <2>2, <2>7
  <2> QED
    BY <2>8, <2>9
<1>2. ClientInv => NoWaitForMore
  BY <1>1 DEF NoWaitForMore
<1> QED
  BY <1>2, ClientInvariant, PTL
=============================================================================
