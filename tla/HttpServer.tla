----------------------------- MODULE HttpServer -----------------------------
(***************************************************************************)
(* listener and session of the web server (src/Include/http), and the io   *)
(* threads of main.cpp that run their callbacks.                           *)
(*                                                                         *)
(* A session lives as long as an operation holds a pointer to it: a read   *)
(* or a write Boost.Beast has not ended, or a callback that runs.  Every    *)
(* callback needs a free io thread; the one of a read, on_read, runs the   *)
(* handler of the request, which may wait for other services (the photo    *)
(* and upload handlers and the tips are TaskManger's and ConfigStore's).   *)
(***************************************************************************)
EXTENDS Integers, Sequences, FiniteSets

CONSTANTS Conns,        \* connections, each from connect to close
          Threads,      \* how many threads run the io_context
          MaxRequests   \* bound: per connection, the requests its client sends

ASSUME ServerConstants == Threads \in Nat \ {0} /\ MaxRequests \in [Conns -> Nat]

VARIABLES
    alive,      \* has no exception left a handler
    listening,  \* did the constructor of listener get its port
    accepting,  \* is an async_accept pending
    client,     \* per connection: away, open, closed (sends no more) or gone
    accepted,   \* per connection: has a session been made for it
    sent,       \* the requests the client sent
    got,        \* how many of them async_read has delivered
    ops,        \* the operations and callbacks that hold the session
    res,        \* res_: the number of the request it answers
    answers,    \* the answers written, by number of their request
    late,       \* has the time do_read set run out
    ended       \* history: how the session ended, if not by the client

(* A request asks to keep the connection or to close it, or is bad: what    *)
(* Boost.Beast will not parse, a header or a body over its limits, or a    *)
(* request the client broke off by closing.                                *)
Requests == {"keep", "close", "bad"}

clientVars  == <<client, sent>>
sessionVars == <<got, ops, res, answers, late, ended>>
vars == <<alive, listening, accepting, accepted, clientVars, sessionVars>>

TypeOK ==
    /\ {alive, listening, accepting} \subseteq BOOLEAN
    /\ client \in [Conns -> {"away", "open", "closed", "gone"}]
    /\ accepted \in [Conns -> BOOLEAN]
    /\ sent \in [Conns -> Seq(Requests)] /\ answers \in [Conns -> Seq(Nat)]
    /\ got \in [Conns -> Nat] /\ res \in [Conns -> Nat]
    /\ ops \in [Conns -> SUBSET {"read", "handle", "write"}]
    /\ late \in [Conns -> BOOLEAN]
    /\ ended \in [Conns -> {"no", "timeout", "cut", "close", "bad"}]

Init ==
    /\ alive = TRUE /\ listening \in BOOLEAN /\ accepting = TRUE
    /\ client = [c \in Conns |-> "away"]
    /\ accepted = [c \in Conns |-> FALSE]
    /\ sent = [c \in Conns |-> << >>] /\ answers = [c \in Conns |-> << >>]
    /\ got = [c \in Conns |-> 0] /\ res = [c \in Conns |-> 0]
    /\ ops = [c \in Conns |-> {}]
    /\ late = [c \in Conns |-> FALSE]
    /\ ended = [c \in Conns |-> "no"]

FreeThread == Cardinality({c \in Conns : "handle" \in ops[c]}) < Threads

---------------------------------------------------------------------------
(* Clients                                                                 *)
server == <<alive, listening, accepting, accepted, sessionVars>>

Connect(c) ==
    /\ client[c] = "away"
    /\ client' = [client EXCEPT ![c] = "open"]
    /\ UNCHANGED <<server, sent>>

(* A request may be sent before the last one is answered.                   *)
Send(c, request) ==
    /\ client[c] = "open" /\ Len(sent[c]) < MaxRequests[c]
    /\ sent' = [sent EXCEPT ![c] = Append(@, request)]
    /\ UNCHANGED <<server, client>>

Leave(c, how) ==
    /\ client[c] \in {"open", "closed"}
    /\ client' = [client EXCEPT ![c] = how]
    /\ UNCHANGED <<server, sent>>

---------------------------------------------------------------------------
(* listener                                                                *)
(* on_accept; run of the new session, its first do_read; do_accept.         *)
Accept(c) ==
    /\ listening /\ accepting /\ FreeThread
    /\ client[c] # "away" /\ ~accepted[c]
    /\ accepted' = [accepted EXCEPT ![c] = TRUE]
    /\ ops' = [ops EXCEPT ![c] = {"read"}]
    /\ accepting' = TRUE
    /\ UNCHANGED <<alive, listening, clientVars, got, res, answers, late, ended>>

(* Altered: do_accept is called for a new session only.                     *)
AcceptFails_Stops ==
    /\ accepting /\ FreeThread
    /\ accepting' = FALSE
    /\ UNCHANGED <<alive, listening, accepted, clientVars, sessionVars>>

(* An error, every time if the port was not to be had: and do_accept again. *)
AcceptFails ==
    /\ accepting /\ FreeThread
    /\ accepting' = TRUE
    /\ UNCHANGED <<alive, listening, accepted, clientVars, sessionVars>>

---------------------------------------------------------------------------
(* session                                                                 *)
others == <<alive, listening, accepting, accepted, clientVars>>

(* Each async operation and each callback takes over the pointer.           *)
Becomes(c, from, to) ==
    /\ from \in ops[c]
    /\ ops' = [ops EXCEPT ![c] = (@ \ {from}) \union to]

(* on_read: the handler begins.                                             *)
OnRead(c) ==
    /\ FreeThread
    /\ client[c] # "gone" /\ got[c] < Len(sent[c]) /\ sent[c][got[c] + 1] # "bad"
    /\ Becomes(c, "read", {"handle"})
    /\ got' = [got EXCEPT ![c] = @ + 1]
    /\ UNCHANGED <<others, res, answers, late, ended>>

(* end_of_stream: do_close.                                                 *)
OnReadEnd(c) ==
    /\ FreeThread
    /\ client[c] = "closed" /\ got[c] = Len(sent[c])
    /\ Becomes(c, "read", {})
    /\ UNCHANGED <<others, got, res, answers, late, ended>>

(* Any other error: fail, without an answer.  The client is gone, or is     *)
(* there and what it sent next cannot be read.                             *)
OnReadGone(c) ==
    /\ FreeThread
    /\ client[c] = "gone"
    /\ Becomes(c, "read", {})
    /\ UNCHANGED <<others, got, res, answers, late, ended>>

OnReadBad(c) ==
    /\ FreeThread
    /\ got[c] < Len(sent[c]) /\ sent[c][got[c] + 1] = "bad"
    /\ Becomes(c, "read", {})
    /\ ended' = [ended EXCEPT ![c] = "bad"]
    /\ UNCHANGED <<others, got, res, answers, late>>

(* Altered: the timer ends the session whatever it is doing.                *)
OnReadTimeout_AnyTime(c) ==
    /\ FreeThread /\ ops[c] # {}
    /\ ops' = [ops EXCEPT ![c] = {}]
    /\ ended' = [ended EXCEPT ![c] = "timeout"]
    /\ UNCHANGED <<others, got, res, answers, late>>

(* No whole request in 30 seconds: also fail.                               *)
OnReadTimeout(c) ==
    /\ FreeThread
    /\ Becomes(c, "read", {})
    /\ ended' = [ended EXCEPT ![c] = "timeout"]
    /\ UNCHANGED <<others, got, res, answers, late>>

(* Altered: send_lambda also reads the next request.                        *)
Answer_ReadsOn(c, slow) ==
    /\ Becomes(c, "handle", {"read", "write"})
    /\ res' = [res EXCEPT ![c] = got[c]]
    /\ late' = [late EXCEPT ![c] = slow]
    /\ UNCHANGED <<others, got, answers, ended>>

(* handle_request ends with send, in every branch.  When it took longer     *)
(* than what is left of the 30 seconds (slow) the time of the write is over *)
(* as it begins: only do_read sets it.                                     *)
Answer(c, slow) ==
    /\ Becomes(c, "handle", {"write"})
    /\ res' = [res EXCEPT ![c] = got[c]]
    /\ late' = [late EXCEPT ![c] = slow]
    /\ UNCHANGED <<others, got, answers, ended>>

(* Nothing catches what handle_request throws outside its one try: the      *)
(* exception leaves ioc.run() and ends the process.                        *)
HandlerThrows(c) ==
    /\ "handle" \in ops[c]
    /\ alive' = FALSE
    /\ UNCHANGED <<listening, accepting, accepted, clientVars, sessionVars>>

Written(c) ==
    /\ client[c] # "gone"
    /\ answers' = [answers EXCEPT ![c] = Append(@, res[c])]
    /\ UNCHANGED <<others, got>>

(* Altered: the argument close of on_write is not looked at.                *)
OnWriteKeep_Always(c) ==
    /\ FreeThread
    /\ Becomes(c, "write", {"read"})
    /\ Written(c)
    /\ res' = [res EXCEPT ![c] = 0]
    /\ late' = [late EXCEPT ![c] = FALSE]
    /\ UNCHANGED ended

(* Altered: on_write does not read another request.                         *)
OnWriteKeep_NoRead(c) ==
    /\ FreeThread
    /\ Becomes(c, "write", {})
    /\ sent[c][res[c]] = "keep"
    /\ Written(c)
    /\ res' = [res EXCEPT ![c] = 0]
    /\ UNCHANGED <<late, ended>>

(* on_write, keep-alive: res_ = nullptr, do_read.                           *)
OnWriteKeep(c) ==
    /\ FreeThread
    /\ Becomes(c, "write", {"read"})
    /\ sent[c][res[c]] = "keep"
    /\ Written(c)
    /\ res' = [res EXCEPT ![c] = 0]
    /\ late' = [late EXCEPT ![c] = FALSE]
    /\ UNCHANGED ended

(* on_write, the answer says Connection: close: do_close.                   *)
OnWriteClose(c) ==
    /\ FreeThread
    /\ Becomes(c, "write", {})
    /\ sent[c][res[c]] # "keep"
    /\ Written(c)
    /\ ended' = [ended EXCEPT ![c] = "close"]
    /\ UNCHANGED <<res, late>>

(* on_write, an error: the client is gone, or the time was over.            *)
OnWriteFails(c) ==
    /\ FreeThread
    /\ client[c] = "gone" \/ late[c]
    /\ Becomes(c, "write", {})
    /\ ended' = [ended EXCEPT ![c] = "cut"]
    /\ UNCHANGED <<others, got, res, answers, late>>

Ends(c) == \/ OnReadEnd(c) \/ OnReadGone(c) \/ OnReadBad(c)
           \/ OnWriteKeep(c) \/ OnWriteClose(c) \/ OnWriteFails(c)
Returns(c) == HandlerThrows(c) \/ \E slow \in BOOLEAN : Answer(c, slow)

(* What becomes of clients without the process is of no interest.           *)
Next == /\ alive
        /\ \/ AcceptFails
           \/ \E c \in Conns :
                 \/ Connect(c) \/ \E request \in Requests : Send(c, request)
                 \/ \E how \in {"closed", "gone"} : Leave(c, how)
                 \/ Accept(c) \/ OnRead(c) \/ OnReadTimeout(c) \/ Returns(c) \/ Ends(c)

Spec == Init /\ [][Next]_vars

(* A handler ends; what is ready to run gets a thread in the end, since the *)
(* io_context serves its callbacks in the order they became ready.         *)
FairSpec ==
    /\ Spec
    /\ \A c \in Conns : /\ WF_vars(alive /\ Returns(c))
                        /\ SF_vars(alive /\ Accept(c)) /\ SF_vars(alive /\ OnRead(c))
                        /\ SF_vars(alive /\ Ends(c))

---------------------------------------------------------------------------
(* A session has one operation at a time: req_ and res_ are not replaced    *)
(* (HttpServer.cpp:449, HttpServer.h:57) while a read or a write still uses *)
(* them, whatever the client pipelines.                                    *)
OneOperation == \A c \in Conns : Cardinality(ops[c]) <= 1

(* Of pipelined requests each is answered once, with its own answer, in the *)
(* order they were sent, and the next is not begun before (HttpServer.cpp:  *)
(* 476, 498).                                                              *)
AnsweredInOrder ==
    \A c \in Conns : /\ answers[c] = [i \in DOMAIN answers[c] |-> i]
                     /\ got[c] <= Len(answers[c]) + 1

(* After the answer to a request that asked for close nothing more of that  *)
(* connection is acted on (HttpServer.cpp:488).                             *)
CloseIsObeyed ==
    \A c \in Conns : \A i \in DOMAIN answers[c] : sent[c][i] = "close" => got[c] = i

(* A request that was acted on stays without an answer only if its client   *)
(* is gone or the time of the session ran out in the handler, so that the   *)
(* write was cut: the timer never ends a session before its answer is       *)
(* tried (HttpServer.cpp:452, 485).                                        *)
UnansweredOnlyIfCut ==
    \A c \in Conns :
        (alive /\ accepted[c] /\ ops[c] = {} /\ got[c] > Len(answers[c]))
            => ended[c] = "cut" /\ (client[c] = "gone" \/ late[c])

(* Every request on a connection is answered, or there is a reason: the     *)
(* client is gone, an idle connection timed out, an answer was cut, an      *)
(* earlier request asked for close, the next one to answer is bad (all      *)
(* before it were answered first), or the process died.                    *)
NextIsBad(c) == LET n == Len(answers[c]) + 1 IN n <= Len(sent[c]) /\ sent[c][n] = "bad"
Excused(c) == \/ ~alive \/ client[c] = "gone"
              \/ ended[c] \in {"timeout", "cut", "close"}
              \/ ended[c] = "bad" /\ NextIsBad(c)
EveryRequestAnswered ==
    \A c \in Conns : (accepted[c] /\ Len(sent[c]) > Len(answers[c]))
                       ~> (Len(answers[c]) = Len(sent[c]) \/ Excused(c))

(* While the process lives and has its port every client that connects gets *)
(* a session, whatever accept failed before (HttpServer.cpp:558-568).       *)
EveryClientAccepted ==
    \A c \in Conns : (listening /\ client[c] = "open") ~> (accepted[c] \/ ~alive)
=============================================================================
