------------------------------ MODULE Reactor -------------------------------
(***************************************************************************)
(* net/epoll.hpp: proactor_engine::run and the objects it serves: an       *)
(* acceptor, a connection it has accepted and a connector.  One thread     *)
(* runs everything: timers, then epoll_wait, then the events of a batch    *)
(* one by one, and the callbacks of the application inside them.  A        *)
(* method of the code is an operator from the memory m of the program and  *)
(* the kernel to the memory after it, or to the set of memories it may     *)
(* leave when the application or the kernel has a choice in it: a method   *)
(* that calls another is the composition of the two, in the code's order.  *)
(*                                                                         *)
(* close() ends in "delete this".  A method that goes on with a deleted    *)
(* object is undefined behaviour: m.touched has the place, and the         *)
(* behaviour ends there.  m.met has what the application or the peer did   *)
(* to bring it about.                                                      *)
(***************************************************************************)
EXTENDS TimerManager, TLC

CONSTANTS RecvTimeout, ReconnectDelay, \* in ticks; a RecvTimeout of 0 is none
          MaxUnits,       \* bound: units of data appended to send, per object
          MaxTimers,      \* bound: timers pending at once
          MaxLag,         \* bound: how late a timer can be
          MaxReasons      \* bound: what has gone wrong at once and still matters

ASSUME ReactorAssumption ==
    {RecvTimeout, ReconnectDelay, MaxUnits, MaxTimers, MaxLag, MaxReasons} \subseteq Nat

VARIABLES m,     \* the objects, the timers and the kernel's sockets
          pc,    \* where run() is: "timers", "wait" or "events"
          batch  \* what epoll_wait returned and is still to be handled

vars == <<m, pc, batch>>

Obj == {"acceptor", "accepted", "connector"}
Stream == Obj \ {"acceptor"}

\* Bound: the program has an acceptor with one client at a time, or one
\* connector, with reconnect or without.
Init ==
    /\ \E role \in Stream, reconnect \in BOOLEAN :
       m = [role |-> role, reconnect |-> reconnect,
            live |-> {"acceptor"},                  \* allocated
            fd |-> {"acceptor"},                    \* with a socket
            connected |-> {"accepted"},             \* type is e_connection
            bind |-> {"acceptor"},                  \* bind_epoll
            mon |-> [o \in Obj |-> IF o = "acceptor" THEN {"IN"} ELSE {}],
            tid |-> [o \in Obj |-> NoTimer], timers |-> <<>>,
            sbuf |-> [o \in Obj |-> <<>>], made |-> [o \in Obj |-> 0],
            reg |-> {"acceptor"},                   \* in the epoll set
            ev |-> [o \in Obj |-> IF o = "acceptor" THEN {"IN"} ELSE {}],
            net |-> [o \in Obj |-> "none"],
            unread |-> {}, full |-> {}, ready |-> {},
            wire |-> [o \in Obj |-> <<>>],          \* units the socket took
            touched |-> {}, met |-> {}]
    /\ pc = "timers" /\ batch = {}

\* Where a deleted object may be used, and what the application or the
\* peer may have done to bring it about.
Places == {"event", "timer", "do_send", "do_recv", "OUT half", "connect callback",
           "connector close", "start_timer", "on_accept"}
Reasons == {"closed another", "closed own", "rearmed", "send refused", "send reset", "read error",
            "both halves", "no reconnect", "timeout refused", "accept refused", "closed while closed",
            "overlooked"}
Timers == [id : Nat, left : Int, delay : Nat,
           fn : {<<"timeout", o>> : o \in Stream} \cup {<<"connect", "connector">>}]
Memories ==
    [role : Stream, reconnect : BOOLEAN,
     live : SUBSET Obj, fd : SUBSET Obj, connected : SUBSET Obj, bind : SUBSET Obj,
     mon : [Obj -> SUBSET {"IN", "OUT"}], tid : [Obj -> Nat], timers : Seq(Timers),
     sbuf : [Obj -> Seq(Nat)], made : [Obj -> Nat],
     reg : SUBSET Obj, ev : [Obj -> SUBSET {"IN", "OUT"}],
     net : [Obj -> {"none", "connecting", "refused", "up", "eof", "reset"}],
     unread : SUBSET Obj, full : SUBSET Obj, ready : SUBSET Obj, wire : [Obj -> Seq(Nat)],
     touched : SUBSET Places, met : SUBSET Reasons]

\* The fields of m, the places of run() and the events of a batch.
TypeOK == /\ m \in Memories /\ pc \in {"timers", "wait", "events"}
          /\ batch \in SUBSET [o : Obj, events : SUBSET {"IN", "OUT", "ERR"}]

\* What still matters when the batch is done.
Lasting == {"rearmed", "closed while closed", "closed own", "send refused", "send reset", "read error"}

Met(s, what) == [s EXCEPT !.met = @ \cup {what}]
Touch(s, o, place) == IF o \in s.live THEN s ELSE [s EXCEPT !.touched = @ \cup {place}]

----------------------------------------------------------------------------
\* The kernel: what a socket has to report, and the edge-triggered queue.
Level(s, o) ==
    (IF o \in s.unread \/ s.net[o] \in {"eof", "reset"} THEN {"IN"} ELSE {})
    \cup (IF s.net[o] \in {"up", "eof"} /\ o \notin s.full THEN {"OUT"} ELSE {})
    \cup (IF s.net[o] \in {"refused", "reset"} THEN {"ERR"} ELSE {})

Reported(s, o) == Level(s, o) \cap (s.ev[o] \cup {"ERR"})

Wake(s, o) == IF o \in s.reg /\ Reported(s, o) # {} THEN [s EXCEPT !.ready = @ \cup {o}] ELSE s

\* The peer resets the connection, which it may do while a callback runs.
Reset(s, o) == Wake([s EXCEPT !.net[o] = "reset", !.unread = @ \ {o}], o)
Meanwhile(s, o) == {s} \cup (IF s.net[o] \in {"up", "eof"} THEN {Reset(s, o)} ELSE {})

\* socket::close: what the kernel had for the socket goes with it.
SocketClose(s, o) ==
    [s EXCEPT !.fd = @ \ {o}, !.reg = @ \ {o}, !.ready = @ \ {o}, !.net[o] = "none",
              !.unread = @ \ {o}, !.full = @ \ {o}]

----------------------------------------------------------------------------
\* connection: timers and monitored events.

\* ++_id: an id that no timer and no connection holds.
FreshId(s) ==
    Min(1 .. Len(s.timers) + 4 \ ({s.timers[i].id : i \in DOMAIN s.timers} \cup {s.tid[o] : o \in Obj}))

StopTimer(s, o) == [s EXCEPT !.timers = CancelTimer(@, s.tid[o]), !.tid[o] = NoTimer]

\* Altered: the old timer is stopped when the new one is set already.
StartTimer_StopsLast(s, o) ==
    LET id == FreshId(s)
    IN  IF RecvTimeout = 0 THEN StopTimer(s, o)
        ELSE StopTimer([s EXCEPT !.timers = SetTimer(@, id, RecvTimeout, <<"timeout", o>>), !.tid[o] = id], o)

StartTimer(s, o) ==
    LET t == StopTimer(s, o)
        id == FreshId(t)
    IN  IF RecvTimeout = 0 THEN t
        ELSE [t EXCEPT !.timers = SetTimer(@, id, RecvTimeout, <<"timeout", o>>), !.tid[o] = id]

\* Altered: what is registered is not changed any more.
DoMonitorEvents_NoMod(s, o, events) ==
    LET t == [s EXCEPT !.bind = @ \cup {o}, !.mon[o] = events]
    IN  IF o \in s.fd /\ o \notin s.bind \cup s.reg
        THEN Wake([t EXCEPT !.reg = @ \cup {o}, !.ev[o] = events], o) ELSE t

\* do_monitor_events: ADD or MOD after bind_epoll; nobody looks at the
\* result of epoll_ctl, which fails without a socket and for the MOD of a
\* socket that is not in the set.
DoMonitorEvents(s, o, events) ==
    LET t == [s EXCEPT !.bind = @ \cup {o}, !.mon[o] = events]
    IN  IF o \in s.fd /\ (o \in s.bind) = (o \in s.reg)
        THEN Wake([t EXCEPT !.reg = @ \cup {o}, !.ev[o] = events], o) ELSE t

AsyncRecv(s, o) ==
    StartTimer(IF "IN" \in s.mon[o] THEN s ELSE DoMonitorEvents(s, o, s.mon[o] \cup {"IN"}), o)

\* Altered: the timer stays.
CloseConnection_KeepsTimer(s, o, force) ==
    LET t == IF o \in s.fd THEN [SocketClose(s, o) EXCEPT !.bind = @ \ {o}] ELSE s
    IN  IF force THEN [t EXCEPT !.live = @ \ {o}] ELSE t

\* connection::close(force).
CloseConnection(s, o, force) ==
    LET t == IF o \in s.fd
             THEN [SocketClose(StopTimer(s, o), o) EXCEPT !.bind = @ \ {o}] ELSE s
    IN  IF force THEN [t EXCEPT !.live = @ \ {o}] ELSE t

\* Altered: a connector that has no socket is taken to have its timer.
CloseConnector_OnlyOpen(s) ==
    LET t == CloseConnection(s, "connector", ~s.reconnect)
    IN  IF ~s.reconnect THEN Touch(Met(t, "no reconnect"), "connector", "connector close")
        ELSE IF "connector" \notin s.fd THEN t
        ELSE [t EXCEPT !.timers = SetTimer(@, FreshId(t), ReconnectDelay, <<"connect", "connector">>)]

\* connector::close reads reconnect again after it may have deleted itself.
CloseConnector(s) ==
    LET t == CloseConnection(s, "connector", ~s.reconnect)
        again == IF "connector" \in s.fd THEN t ELSE Met(t, "closed while closed")
    IN  IF ~s.reconnect THEN Touch(Met(t, "no reconnect"), "connector", "connector close")
        ELSE [again EXCEPT !.timers = SetTimer(@, FreshId(t), ReconnectDelay, <<"connect", "connector">>)]

\* close() is virtual.
Close(s, o) == IF o = "connector" THEN CloseConnector(s) ELSE CloseConnection(s, o, TRUE)

----------------------------------------------------------------------------
\* do_send: the socket takes n units and then has an answer for the rest.
\* Bound: the peer does nothing between two sends of one do_send, so that an
\* error is the answer to the first of them or to none.
Sent(s, o) ==
    LET len == Len(s.sbuf[o])
    IN  CASE s.net[o] \in {"up", "eof"} ->
               {[n |-> n, after |-> IF n = len THEN "all" ELSE "EAGAIN"] : n \in IF o \in s.full THEN {0} ELSE 1 .. len}
          [] s.net[o] = "connecting" -> {[n |-> 0, after |-> "EAGAIN"]}
          [] s.net[o] \in {"refused", "reset"} -> {[n |-> 0, after |-> e] : e \in {"ECONNRESET", "other"}}
          [] OTHER -> {[n |-> 0, after |-> "other"]}

\* The units taken leave the buffer.
Flush(s, o, n) ==
    [s EXCEPT !.wire[o] = @ \o SubSeq(s.sbuf[o], 1, n), !.sbuf[o] = SubSeq(@, n + 1, Len(@))]

\* do_send up to its callback: it returns, or goes on with the callback, or
\* without it to the rest.
SendLoop(s, o) ==
    IF s.sbuf[o] = <<>> THEN {[s |-> s, then |-> "return"]}
    ELSE {CASE c.after = "ECONNRESET" -> [s |-> Close(Met(s, "send reset"), o), then |-> "return"]
            [] c.after = "other" -> [s |-> s, then |-> "return"]
            [] OTHER -> [s |-> [Flush(s, o, c.n) EXCEPT !.full = IF c.after = "EAGAIN" THEN @ \cup {o} ELSE @],
                         then |-> IF c.n = 0 THEN "rest" ELSE "callback"] : c \in Sent(s, o)}

\* What a callback may do with its own connection, that is not to send.
CloseOwn(s, o) == Close(Met(s, "closed own"), o)

\* The callback has left one of the memories T and returns true, or false,
\* whereupon do_send closes; do_send goes on in either case.
Returned(T, o) ==
    {Touch(t, o, "do_send") :
        t \in T \cup {Close(Met(Touch(u, o, "do_send"), "send refused"), o) : u \in T}}

AwaitRoom(s, o) ==
    IF (s.sbuf[o] # <<>>) = ("OUT" \in s.mon[o]) THEN s
    ELSE DoMonitorEvents(s, o, IF s.sbuf[o] # <<>> THEN s.mon[o] \cup {"OUT"} ELSE s.mon[o] \ {"OUT"})

\* async_send appends all, and it goes out at once unless room is awaited.
\* There may be room already: in a callback for all that was in the buffer,
\* when do_send has not yet looked again.
Appended(s, o, n) ==
    LET t == IF "OUT" \in s.mon[o] /\ s.sbuf[o] = <<>> THEN Met(s, "overlooked") ELSE s
    IN  [t EXCEPT !.sbuf[o] = @ \o [i \in 1 .. n |-> s.made[o] + i], !.made[o] = @ + n]

\* A send from within the callback of another; its own callback does all but
\* send (bound: no deeper nesting).
DoSendAgain(s, o) ==
    UNION {CASE loop.then = "return" -> {loop.s}
             [] loop.then = "rest" -> {AwaitRoom(loop.s, o)}
             [] OTHER -> {AwaitRoom(u, o) : u \in Returned({loop.s, CloseOwn(loop.s, o)}, o)} : loop \in SendLoop(s, o)}

AsyncSendAgain(s, o, n) ==
    IF "OUT" \in s.mon[o] THEN {Appended(s, o, n)} ELSE DoSendAgain(Appended(s, o, n), o)

\* Altered: the buffer is what it was before the callback.
SendCallback_Forgets(s, o) ==
    LET sent == UNION {AsyncSendAgain(t, o, n) : t \in Meanwhile(s, o), n \in 1 .. MaxUnits - s.made[o]}
    IN  Returned({s, CloseOwn(s, o)} \cup {[t EXCEPT !.sbuf[o] = s.sbuf[o]] : t \in sent}, o)

\* The send callback may send again and close the connection.
SendCallback(s, o) ==
    LET sent == UNION {AsyncSendAgain(t, o, n) : t \in Meanwhile(s, o), n \in 1 .. MaxUnits - s.made[o]}
    IN  Returned({s, CloseOwn(s, o)} \cup sent, o)

DoSend(s, o) ==
    UNION {CASE loop.then = "return" -> {loop.s}
             [] loop.then = "rest" -> {AwaitRoom(loop.s, o)}
             [] OTHER -> {AwaitRoom(u, o) : u \in SendCallback(loop.s, o)} : loop \in SendLoop(s, o)}

AsyncSend(s, o, n) ==
    IF "OUT" \in s.mon[o] THEN {Appended(s, o, n)} ELSE DoSend(Appended(s, o, n), o)

\* A callback sends some of what the bound leaves.
Sends(s, o) == UNION {AsyncSend(t, o, n) : t \in Meanwhile(s, o), n \in 1 .. MaxUnits - s.made[o]}

\* What the application may do with data: nothing, answer it, close the
\* connection, or the acceptor as it wants no more clients; and what it
\* returns.  Bound: a callback lets all other objects alone.
RecvCallback(s, o) ==
    LET done == {s, CloseOwn(s, o)} \cup Sends(s, o)
                \cup (IF o = "accepted" /\ "acceptor" \in s.live
                        THEN {Close(Met(s, "closed another"), "acceptor")} ELSE {})
    IN  [s : done, keep : BOOLEAN]

\* recv after everything was read.
RecvEnd(s, o) ==
    CASE s.net[o] = "eof" -> Close(s, o)
      [] s.net[o] \in {"up", "connecting"} -> StartTimer(s, o)
      [] OTHER -> LET t == Close(Met(s, "read error"), o) IN StartTimer(Touch(t, o, "do_recv"), o)

\* Altered: no return after the close of a refused read.
DoRecv_NoReturn(s, o) ==
    IF o \notin s.unread THEN {RecvEnd(s, o)}
    ELSE UNION {LET t == IF c.keep THEN c.s ELSE Close(Touch(c.s, o, "do_recv"), o)
                    u == Touch(t, o, "do_recv")
                IN  {RecvEnd(u, o), StartTimer(u, o)} : c \in RecvCallback([s EXCEPT !.unread = @ \ {o}], o)}

\* do_recv: a read that fills the buffer is followed by another, a shorter
\* one is the last, although the end of the stream may be behind it.
DoRecv(s, o) ==
    IF o \notin s.unread THEN {RecvEnd(s, o)}
    ELSE UNION {IF c.keep
                THEN LET t == Touch(c.s, o, "do_recv") IN {RecvEnd(t, o), StartTimer(t, o)}
                ELSE {Close(Touch(c.s, o, "do_recv"), o)} : c \in RecvCallback([s EXCEPT !.unread = @ \ {o}], o)}

----------------------------------------------------------------------------
\* connector::async_connect.  The old socket goes without close(): its
\* timer and bind_epoll stay.
Dial(s) ==
    [SocketClose(s, "connector") EXCEPT !.connected = @ \ {"connector"},
                                        !.mon["connector"] = {}, !.wire["connector"] = <<>>]

\* The application asks for data, and may send first, as async_client does.
ConnectCallback(s) ==
    LET o == "connector"
    IN  {AsyncRecv(Touch(t, o, "connect callback"), o) : t \in {s} \cup Sends(s, o)}

DialSucceeds(s) ==
    LET t == [Dial(s) EXCEPT !.fd = @ \cup {"connector"}]
    IN  {DoMonitorEvents([t EXCEPT !.net["connector"] = "connecting"], "connector", {"OUT"})}
        \cup ConnectCallback([t EXCEPT !.net["connector"] = "up", !.connected = @ \cup {"connector"}])

\* No socket, or a socket whose connect fails at once.
DialFails(s) == {Dial(s), [Dial(s) EXCEPT !.fd = @ \cup {"connector"}]}

\* add_connector, on a new object; when async_connect fails, close().
AddConnector ==
    /\ pc = "timers" /\ m.role = "connector" /\ "connector" \notin m.live
    /\ LET s == [m EXCEPT !.live = @ \cup {"connector"}, !.sbuf["connector"] = <<>>, !.tid["connector"] = NoTimer,
                          !.made["connector"] = 0, !.bind = @ \ {"connector"}]
       IN  m' \in DialSucceeds(s) \cup {Close(t, "connector") : t \in DialFails(s)}
    /\ UNCHANGED <<pc, batch>>

----------------------------------------------------------------------------
\* do_timer: the timer that is due leaves the map before its callback runs.
FireConnect(s, t) ==
    DialSucceeds(s) \cup {[u EXCEPT !.timers = Insert(@, Repeat(t))] : u \in DialFails(s)}

\* The lambda of start_timer.  The timeout callback does nothing, asks for
\* data again, sends or closes, and keeps the connection, whereupon the timer
\* goes on, known to the connection or not; or it does not, and it is closed
\* and id is written.
FireTimeout(s, t) ==
    LET o == t.fn[2]
        done == {s, AsyncRecv(Met(s, "rearmed"), o), CloseOwn(s, o)} \cup Sends(s, o)
    IN  {LET v == IF o \in u.fd THEN u ELSE Met(u, "rearmed")
         IN  [v EXCEPT !.timers = Insert(@, Repeat(t))] : u \in done}
        \cup {LET v == Close(Touch(Met(u, "timeout refused"), o, "start_timer"), o)
              IN  [Touch(v, o, "start_timer") EXCEPT !.tid[o] = NoTimer] : u \in done}

Fire ==
    /\ pc = "timers" /\ IsDue(m.timers)
    /\ LET t == Head(m.timers)
           s == [m EXCEPT !.timers = Tail(@)]
       IN  m' \in IF t.fn[2] \notin m.live THEN {Touch(s, t.fn[2], "timer")}
                  ELSE IF t.fn[1] = "connect" THEN FireConnect(s, t) ELSE FireTimeout(s, t)
    /\ UNCHANGED <<pc, batch>>

DoneTimers == pc = "timers" /\ ~IsDue(m.timers) /\ pc' = "wait" /\ UNCHANGED <<m, batch>>

\* epoll_wait until something is ready or the first timer is due.
EpollWait ==
    /\ pc = "wait" /\ (m.ready # {} \/ IsDue(m.timers))
    /\ batch' = {[o |-> o, events |-> Reported(m, o)] : o \in {p \in m.ready : Reported(m, p) # {}}}
    /\ pc' = IF batch' = {} THEN "timers" ELSE "events"
    /\ m' = [m EXCEPT !.ready = {}, !.met = @ \cap (Lasting \cup {"overlooked"})]

----------------------------------------------------------------------------
\* on_accept: every client that waits, until accept has no more (EAGAIN) or
\* fails.  An accept callback that refuses closes the acceptor, not the
\* client, and the loop goes on.
Accepted(s) ==
    [s EXCEPT !.live = @ \cup {"accepted"}, !.fd = @ \cup {"accepted"}, !.net["accepted"] = "up",
              !.unread = @ \ {"acceptor"}, !.bind = @ \ {"accepted"}, !.mon["accepted"] = {},
              !.tid["accepted"] = NoTimer, !.sbuf["accepted"] = <<>>, !.made["accepted"] = 0,
              !.wire["accepted"] = <<>>]

OnAccept(s) ==
    LET taken == IF "acceptor" \in s.unread /\ "accepted" \notin s.live
                 THEN {AsyncRecv(Accepted(s), "accepted"),
                       Touch(Close(Met(Accepted(s), "accept refused"), "acceptor"), "acceptor", "on_accept")}
                 ELSE {[s EXCEPT !.unread = @ \ {"acceptor"}]}
    IN  taken \cup {Close(t, "acceptor") : t \in taken}

\* A connector whose connect has ended.
OnConnect(s, events) ==
    LET o == "connector"
        up == [s EXCEPT !.connected = @ \cup {o}, !.mon[o] = {}]
    IN  IF "ERR" \in events THEN {Close(s, o), Close(Close(s, o), o)}
        ELSE IF "OUT" \in events THEN UNION {ConnectCallback(Touch(t, o, "connect callback")) : t \in AsyncSend(up, o, 0)}
        ELSE {s}

\* A connection: the OUT half follows the IN half, whatever that did.
OnConnection(s, o, events) ==
    IF "ERR" \in events THEN {Close(s, o)}
    ELSE LET both == IF {"IN", "OUT"} \subseteq events THEN Met(s, "both halves") ELSE s
             read == IF "IN" \in events THEN DoRecv(both, o) ELSE {both}
         IN  IF "OUT" \notin events THEN read
             ELSE UNION {IF o \in t.live THEN DoSend(t, o) ELSE {Touch(t, o, "OUT half")} : t \in read}

Handle(e) ==
    /\ pc = "events" /\ e \in batch
    /\ LET s == Touch(m, e.o, "event")
       IN  m' \in CASE e.o = "acceptor" -> OnAccept(s)
                    [] e.o \in Stream \cap s.connected -> OnConnection(s, e.o, e.events)
                    [] OTHER -> OnConnect(s, e.events)
    /\ batch' = batch \ {e}
    /\ pc' = IF batch' = {} THEN "timers" ELSE "events"

\* A step of the thread, while nothing undefined has been done.
Run ==
    /\ m.touched = {}
    /\ \/ AddConnector \/ Fire \/ DoneTimers \/ EpollWait
       \/ \E e \in batch : Handle(e)
    /\ Len(m'.timers) <= MaxTimers /\ Cardinality(m'.met \cap Lasting) <= MaxReasons

----------------------------------------------------------------------------
\* The clock, the clients and the servers.
Clock ==
    /\ pc # "timers" /\ m.timers # <<>> /\ \A i \in DOMAIN m.timers : m.timers[i].left > -MaxLag
    /\ m' = [m EXCEPT !.timers = Tick(@)]

Peer(o, s) == m' = Wake(s, o)

\* Bound: a client that comes while another is served leaves before accept.
PeerConnects ==
    /\ m.role = "accepted" /\ "acceptor" \in m.fd \ m.unread
    /\ Peer("acceptor", [m EXCEPT !.unread = @ \cup {"acceptor"}])

PeerAnswers(o) == m.net[o] = "connecting" /\ Peer(o, [m EXCEPT !.net[o] = "up"])
PeerRefuses(o) == m.net[o] = "connecting" /\ Peer(o, [m EXCEPT !.net[o] = "refused"])
PeerSends(o) == m.net[o] = "up" /\ o \notin m.unread /\ Peer(o, [m EXCEPT !.unread = @ \cup {o}])
PeerReads(o) == o \in m.full /\ Peer(o, [m EXCEPT !.full = @ \ {o}])
PeerCloses(o) == m.net[o] = "up" /\ Peer(o, [m EXCEPT !.net[o] = "eof"])
PeerResets(o) == m.net[o] \in {"up", "eof"} /\ m' = Reset(m, o)

World ==
    /\ m.touched = {}
    /\ \/ Clock \/ PeerConnects
       \/ \E o \in Stream : \/ PeerAnswers(o) \/ PeerRefuses(o) \/ PeerSends(o)
                            \/ PeerReads(o) \/ PeerCloses(o) \/ PeerResets(o)
    /\ UNCHANGED <<pc, batch>>

\* What follows undefined behaviour is not modelled.
Undefined == m.touched # {} /\ UNCHANGED vars

Next == Run \/ World \/ Undefined

Spec == Init /\ [][Next]_vars

----------------------------------------------------------------------------
Undisturbed == m.touched = {} /\ m.met \cap Lasting = {}

Causes == [place \in Places |->
    CASE place = "event" -> {"closed another"}
      [] place = "timer" -> {"rearmed"}
      [] place = "do_send" -> {"send refused", "send reset", "closed own"}
      [] place = "do_recv" -> {"read error", "send refused", "send reset", "closed own"}
      [] place = "OUT half" -> {"both halves"}
      [] place = "connect callback" -> {"send refused", "send reset", "closed own"}
      [] place = "connector close" -> {"no reconnect"}
      [] place = "start_timer" -> {"timeout refused"}
      [] place = "on_accept" -> {"accept refused"}]

\* A deleted object is used only where the list says and for the reason it
\* gives: a read that ends or is refused, a hang-up and a refused connect
\* leave nothing behind that is used again, in the batch or by a timer
\* (close and its callers, epoll.hpp:120-320).
UsedAfterDeleteOnlyWhere == \A place \in m.touched : Causes[place] \cap m.met # {}

\* Nothing is sent twice, out of order or left out, over full sockets and
\* sends from within callbacks: what the socket has taken and what is in
\* the buffer are one run of units up to the last appended (do_send).
StreamInOrder ==
    m.touched = {} => \A o \in Stream :
        LET all == m.wire[o] \o m.sbuf[o]
        IN  \A i \in DOMAIN all : all[i] = m.made[o] - (Len(all) - i)

\* A timeout has its connection, which knows its id, and a connection that is
\* read has one pending, if there is a receive timeout (start_timer, close).
OneTimerEach ==
    Undisturbed =>
        /\ \A i \in DOMAIN m.timers :
              m.timers[i].fn[1] = "timeout" => m.timers[i].fn[2] \in m.live /\ m.tid[m.timers[i].fn[2]] = m.timers[i].id
        /\ RecvTimeout # 0 => \A o \in Stream \cap m.reg :
              "IN" \in m.ev[o] => \E i \in DOMAIN m.timers : m.timers[i].id = m.tid[o]

\* o is on its way to be handled with event e.
Signalled(o, e) ==
    \/ o \in m.ready /\ e \in Reported(m, o)
    \/ \E b \in batch : b.o = o /\ e \in b.events

Pending(fn) == \E i \in DOMAIN m.timers : m.timers[i].fn = fn

\* No end of a stream is forgotten.  do_recv leaves it unread behind a short
\* read and the edge does not come again: then the timeout, if there is one,
\* will close (do_recv, start_recv_timeout_timer).
EndIsNoticed ==
    Undisturbed /\ RecvTimeout # 0 => \A o \in Stream \cap m.reg :
        m.net[o] = "eof" /\ "IN" \in m.ev[o] => Signalled(o, "IN") \/ Pending(<<"timeout", o>>)

\* After EAGAIN somebody waits for room, and the edge is not lost: unless the
\* socket is full, do_send is on its way (do_send, do_monitor_events).  Exempt
\* is what a send callback appends when all has gone out that had waited for
\* room: do_send leaves EPOLLOUT monitored and the edge is over.
RoomIsAwaited ==
    Undisturbed /\ "overlooked" \notin m.met => \A o \in Stream :
        (m.net[o] = "up" /\ m.wire[o] # <<>> /\ m.sbuf[o] # <<>>) =>
            /\ "OUT" \in m.ev[o]
            /\ o \in m.full \/ Signalled(o, "OUT")

\* A connector added with reconnect is connected, about to learn what became
\* of its connect or its connection, or has a timer that dials again, unless
\* its delay is 0, which sets none (connector::close, async_connect, run).
DialsAgain ==
    LET o == "connector" IN
    (Undisturbed /\ m.reconnect /\ ReconnectDelay # 0 /\ o \in m.live) =>
        CASE m.net[o] = "none" -> Pending(<<"connect", o>>)
          [] m.net[o] = "connecting" -> o \in m.reg /\ "OUT" \in m.ev[o] /\ ~Pending(<<"connect", o>>)
          [] m.net[o] \in {"refused", "reset"} -> Signalled(o, "ERR") \/ Signalled(o, "IN") \/ Signalled(o, "OUT")
          [] OTHER -> o \in m.reg /\ ~Pending(<<"connect", o>>)
=============================================================================
