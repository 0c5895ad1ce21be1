----------------------------- MODULE SerialPort -----------------------------
(***************************************************************************)
(* linux_serial.cpp, a table of open ttys with the settings of each, and   *)
(* linux_serialport_imp.cpp, CSerialPortImp, whose objects keep only a     *)
(* port number: several may hold the same one, and what one of them or a   *)
(* direct call of the library does to a port is done to all.  Each object  *)
(* is used by a thread of its own.  The call that takes time is read: it   *)
(* tests the input queue, reads and sleeps by turns, with no lock.         *)
(***************************************************************************)
EXTENDS Integers, Sequences, FiniteSets

CONSTANTS Ports, Objs, NoObj,
          Few,       \* bound: the objects that read or set the one port
          Params,    \* <<parity, databits, stopbit>> of SerialSetParam
          Speeds,    \* bound: the speeds asked for, none above 921600
          Timeouts,  \* in turns of 100 ms; a negative one also stands for one
                     \* that overflows an int in microseconds
          Chunk,     \* what one read may take, and where reading on ends: 1024
          MaxBytes   \* bound: bytes a device sends

\* The highest speed of speed_table1.
MaxSpeed == 921600

ASSUME SerialPortAssumption ==
    /\ NoObj \notin Objs /\ Few \subseteq Objs /\ Chunk \in Nat \ {0} /\ MaxBytes \in Nat
    /\ Params \subseteq (0 .. 4) \X (5 .. 8) \X {1, 2}
    /\ Speeds \subseteq 1 .. MaxSpeed /\ Timeouts \subseteq Int /\ Timeouts # {}
    /\ Ports # {}

VARIABLES fd_map,     \* per port: whether it has a descriptor
          tio, oldtio,\* per port: newtio, which every call that changes it
                      \* hands to the tty at once, and what was saved
          input,      \* per port: bytes to be read, numbered as they came
          sent,       \* per port: bytes the device has sent
          obj,        \* per object: its members and where its read is
          asked,      \* history, per port: the settings asked for last, and the
                      \* calls since the open that tell on them still
          history     \* what was done that excuses what goes wrong

vars == <<fd_map, tio, oldtio, input, sent, obj, asked, history>>
settings == <<tio, oldtio, asked>>

\* The settings a tty had before the program.
Before == [c |-> {"CREAD", "CSTOPB"}, i |-> {"IXON"}, size |-> 7, speed |-> 1200]

First == CHOOSE p \in Ports : TRUE

\* What SerialOpen gives it.
Opened == [c |-> {"CREAD"}, i |-> {}, size |-> 8, speed |-> 9600]

\* And what has then been asked for.  stick: a stick parity was; both: one flow
\* control after the other; lost: what "no flow control" cleared.
Unasked == [parity |-> 0, databits |-> 8, stopbit |-> 1, speed |-> 9600, flow |-> "none",
            stick |-> FALSE, both |-> FALSE, lost |-> {}]
Controls == {"none", "hardware", "software"}

\* Bound: a timeout is varied where something is read.
OneTimeout == CHOOSE timeout \in Timeouts : TRUE
Waits(mode) == IF mode = "reads" THEN Timeouts ELSE {OneTimeout}

Init ==
    /\ fd_map = [p \in Ports |-> FALSE]
    /\ tio = [p \in Ports |-> Before] /\ oldtio = tio
    /\ input = [p \in Ports |-> <<>>] /\ sent = [p \in Ports |-> 0]
    /\ asked = [p \in Ports |-> Unasked]
    \* Bound: one port is read, its settings asked for again and again; or
    \* one is given all kinds of settings; or several are opened.
    \* m_nTimeOut is not initialised.  Bound: no method before an open.
    /\ \E mode \in {"reads", "sets", "opens"} : \E timeout \in [Few -> Waits(mode)] :
       /\ obj = [o \in Objs |-> [m_nPort |-> First, m_b_open |-> FALSE,
                                 m_nTimeOut |-> IF o \in Few THEN timeout[o] ELSE OneTimeout,
                                 pc |-> "new", buf |-> <<>>, waited |-> 0]]
       /\ history = [mode |-> mode, opener |-> [p \in Ports |-> NoObj], reopened |-> {},
                     robbed |-> {}, disturbed |-> {}, broken |-> {}]

Tios == [c : SUBSET {"CREAD", "CSTOPB", "PARENB", "PARODD", "CMSPAR", "CRTSCTS"},
         i : SUBSET {"IXON"}, size : 5 .. 8, speed : Nat]
Objects == [m_nPort : Ports, m_b_open : BOOLEAN, m_nTimeOut : Timeouts,
            pc : {"new", "idle", "test", "read", "wait", "dead"}, buf : Seq(Nat), waited : Nat]
Histories == [mode : {"reads", "sets", "opens"}, opener : [Ports -> Objs \cup {NoObj}],
              reopened : SUBSET Objs, robbed : SUBSET Objs,
              disturbed : SUBSET Objs, broken : SUBSET Objs]

Askeds == [parity : 0 .. 4, databits : 5 .. 8, stopbit : {1, 2}, speed : 1 .. MaxSpeed,
           flow : Controls, stick : BOOLEAN, both : BOOLEAN, lost : SUBSET {"param", "speed", "read"}]

TypeOK ==
    /\ fd_map \in [Ports -> BOOLEAN]
    /\ tio \in [Ports -> Tios] /\ oldtio \in [Ports -> Tios]
    /\ input \in [Ports -> Seq(Nat)] /\ sent \in [Ports -> Nat]
    /\ obj \in [Objs -> Objects]
    /\ asked \in [Ports -> Askeds]
    /\ history \in Histories

Idle(o) == obj[o].pc = "idle"

\* The objects other than o that are in a read of p.
Readers(p, o) == {r \in Objs \ {o} : obj[r].m_nPort = p /\ obj[r].pc \in {"test", "read", "wait"}}
Disturb(h, p, o) == [h EXCEPT !.disturbed = @ \cup Readers(p, o)]

----------------------------------------------------------------------------
\* SerialOpen and CSerialPortImp::open, which keeps the number of the port
\* whatever becomes of it.
OpenPort(o, p) ==
    /\ fd_map' = [fd_map EXCEPT ![p] = TRUE]
    /\ oldtio' = [oldtio EXCEPT ![p] = tio[p]]
    /\ tio' = [tio EXCEPT ![p] = Opened]
    /\ input' = [input EXCEPT ![p] = <<>>]
    /\ asked' = [asked EXCEPT ![p] = Unasked]

Open(o, p) ==
    /\ obj[o].pc \in {"new", "idle"} /\ ((p = First /\ o \in Few) \/ history.mode = "opens")
    /\ LET ok == ~fd_map[p]
           h == [history EXCEPT !.reopened = IF obj[o].m_b_open THEN @ \cup {o} ELSE @]
       IN  \/ /\ ok /\ OpenPort(o, p)
              /\ obj' = [obj EXCEPT ![o].m_nPort = p, ![o].m_b_open = TRUE, ![o].pc = "idle"]
              /\ history' = [Disturb(h, p, o) EXCEPT !.opener[p] = o]
           \/ \* the port is open already, or there is no such tty
              /\ obj' = [obj EXCEPT ![o].m_nPort = p, ![o].pc = "idle"]
              /\ history' = h
              /\ UNCHANGED <<fd_map, settings, input>>
    /\ UNCHANGED sent

\* Altered: the object goes on as if it were open.
Close_StaysOpen(o) ==
    LET p == obj[o].m_nPort IN
    /\ Idle(o) /\ obj[o].m_b_open /\ fd_map[p]
    /\ fd_map' = [fd_map EXCEPT ![p] = FALSE] /\ tio' = [tio EXCEPT ![p] = oldtio[p]]
    /\ input' = [input EXCEPT ![p] = <<>>]
    /\ history' = [Disturb(history, p, o) EXCEPT !.opener[p] = NoObj]
    /\ UNCHANGED <<oldtio, asked, sent, obj>>

\* SerialClose and close, which does nothing with a port that is not open.
Close(o) ==
    LET p == obj[o].m_nPort IN
    /\ Idle(o) /\ obj[o].m_b_open /\ fd_map[p]
    /\ fd_map' = [fd_map EXCEPT ![p] = FALSE] /\ tio' = [tio EXCEPT ![p] = oldtio[p]]
    /\ input' = [input EXCEPT ![p] = <<>>]
    /\ obj' = [obj EXCEPT ![o].m_b_open = FALSE]
    /\ history' = [Disturb(history, p, o) EXCEPT !.opener[p] = NoObj,
                                                 !.robbed = @ \cup ({history.opener[p]} \ {o})]
    /\ UNCHANGED <<oldtio, asked, sent>>

----------------------------------------------------------------------------
\* SerialSetSpeed: the first speed of the table that is not lower, from 50 on.
speed_table1 == {50, 75, 110, 134, 150, 200, 300, 600, 1200, 1800, 2400, 4800, 9600, 19200, 38400,
                 57600, 115200, 230400, 460800, 500000, 576000, MaxSpeed}

SetSpeed(t, speed) ==
    [t EXCEPT !.speed = CHOOSE s \in speed_table1 :
        s >= speed /\ \A r \in speed_table1 : r >= speed => s <= r]

\* Altered: the flag of odd parity stays.
SetParam_KeepsOdd(t, param) ==
    [t EXCEPT !.c = (@ \ {"CSTOPB"}) \cup (IF param[1] # 0 THEN {"PARENB"} ELSE {})
                    \cup (IF param[1] \in {1, 4} THEN {"PARODD"} ELSE {}) \cup (IF param[1] \in {3, 4} THEN {"CMSPAR"} ELSE {})
                    \cup (IF param[3] = 2 THEN {"CSTOPB"} ELSE {}),
              !.size = param[2]]

\* SerialSetParam: CMSPAR is set and never taken back.
SetParam(t, param) ==
    LET parity == param[1]
        off == {"CSTOPB"} \cup (IF parity = 0 THEN {"PARENB"} ELSE {})
                          \cup (IF parity \in {2, 3} THEN {"PARODD"} ELSE {})
        on == (IF parity # 0 THEN {"PARENB"} ELSE {}) \cup (IF parity \in {1, 4} THEN {"PARODD"} ELSE {})
              \cup (IF parity \in {3, 4} THEN {"CMSPAR"} ELSE {}) \cup (IF param[3] = 2 THEN {"CSTOPB"} ELSE {})
    IN  [t EXCEPT !.c = (@ \ off) \cup on, !.size = param[2]]

\* SerialFlowControl: "&= !CRTSCTS" takes every flag away, with the size of
\* a character and the speed, which are bits of c_cflag too.
FlowControl(t, control) ==
    CASE control = "none" -> [c |-> {}, i |-> {}, size |-> 5, speed |-> 0]
      [] control = "hardware" -> [t EXCEPT !.c = @ \cup {"CRTSCTS"}]
      [] control = "software" -> [t EXCEPT !.i = @ \cup {"IXON"}]

\* A call that makes t the settings of p, which had been asked for as a.
Set(p, o, t, a, h) ==
    /\ tio' = [tio EXCEPT ![p] = t] /\ asked' = [asked EXCEPT ![p] = a]
    /\ input' = [input EXCEPT ![p] = <<>>]
    /\ history' = Disturb(h, p, o)
    /\ UNCHANGED <<fd_map, oldtio, sent>>

AskParam(a, param) ==
    [a EXCEPT !.parity = param[1], !.databits = param[2], !.stopbit = param[3],
              !.stick = @ \/ param[1] \in {3, 4}, !.lost = @ \ {"param"}]
AskSpeed(a, speed) == [a EXCEPT !.speed = speed, !.lost = @ \ {"speed"}]
AskFlow(a, control) ==
    IF control = "none"
    THEN [a EXCEPT !.flow = "none", !.stick = FALSE, !.both = FALSE, !.lost = {"param", "speed", "read"}]
    ELSE [a EXCEPT !.flow = control, !.both = @ \/ a.flow \notin {"none", control}]

\* set_para: speed, then parameters, then the timeout; nothing but the
\* timeout when the port is not open, and success all the same.
SetPara(o, speed, param, timeout) ==
    LET p == obj[o].m_nPort IN
    /\ Idle(o)
    /\ obj' = [obj EXCEPT ![o].m_nTimeOut = timeout]
    /\ IF fd_map[p]
       THEN Set(p, o, SetParam(SetSpeed(tio[p], speed), param),
                AskParam(AskSpeed(asked[p], speed), param), history)
       ELSE UNCHANGED <<fd_map, settings, input, sent, history>>

\* Direct calls of the library, by a thread that uses no object.  Stick
\* parity is had in no other way.
SerialSetParam(p, param) ==
    /\ fd_map[p]
    /\ Set(p, NoObj, SetParam(tio[p], param), AskParam(asked[p], param), history)
    /\ UNCHANGED obj

SerialFlowControl(p, control) ==
    /\ fd_map[p]
    /\ Set(p, NoObj, FlowControl(tio[p], control), AskFlow(asked[p], control), history)
    /\ UNCHANGED obj

----------------------------------------------------------------------------
\* CSerialPortImp::read, turn by turn.  It takes no notice of its len.
Read(o) ==
    /\ Idle(o) /\ history.mode = "reads"
    /\ obj' = [obj EXCEPT ![o].pc = "test"]
    /\ UNCHANGED <<fd_map, settings, input, sent, history>>

\* On with the read, or back from it.
Step(o, next) ==
    /\ obj' = [obj EXCEPT ![o].pc = next, ![o].buf = IF next = "idle" THEN <<>> ELSE @,
                          ![o].waited = IF next \in {"wait", "read"} THEN @ ELSE 0]
    /\ history' = IF next = "idle" THEN [history EXCEPT !.disturbed = @ \ {o}] ELSE history
    /\ UNCHANGED <<fd_map, settings, input, sent>>

\* Altered: the size is compared one too late.
TestInput_OneMore(o) ==
    /\ obj[o].pc = "test" /\ fd_map[obj[o].m_nPort] /\ input[obj[o].m_nPort] # <<>>
    /\ Step(o, IF Len(obj[o].buf) > Chunk THEN "idle" ELSE "read")

\* SerialDataInInputQueue is above 0: read on, or enough has been read.
TestInput(o) ==
    /\ obj[o].pc = "test" /\ fd_map[obj[o].m_nPort] /\ input[obj[o].m_nPort] # <<>>
    /\ Step(o, IF Len(obj[o].buf) >= Chunk THEN "idle" ELSE "read")

\* Altered: no test of the queue before the first read.
TestNothing_Reads(o) ==
    /\ obj[o].pc = "test" /\ (fd_map[obj[o].m_nPort] => input[obj[o].m_nPort] = <<>>)
    /\ Step(o, IF obj[o].buf # <<>> THEN "idle" ELSE "read")

\* It is 0, or an error: the end of what has begun to come, or a pause.
TestNothing(o) ==
    /\ obj[o].pc = "test" /\ (fd_map[obj[o].m_nPort] => input[obj[o].m_nPort] = <<>>)
    /\ Step(o, IF obj[o].buf # <<>> THEN "idle" ELSE "wait")

\* SerialNonBlockRead, and the copy behind what was read before.
ReadSome(o) ==
    LET p == obj[o].m_nPort
        n == IF Len(input[p]) < Chunk THEN Len(input[p]) ELSE Chunk
    IN  /\ obj[o].pc = "read" /\ fd_map[p] /\ n > 0
        /\ obj' = [obj EXCEPT ![o].pc = "test", ![o].buf = @ \o SubSeq(input[p], 1, n)]
        /\ input' = [input EXCEPT ![p] = SubSeq(@, n + 1, Len(@))]
        /\ history' = Disturb(history, p, o)
        /\ UNCHANGED <<fd_map, settings, sent>>

\* Nothing is there any more: -1, and memcpy of as many bytes.
ReadFails(o) ==
    LET p == obj[o].m_nPort IN
    /\ obj[o].pc = "read" /\ (fd_map[p] => input[p] = <<>>)
    /\ obj' = [obj EXCEPT ![o].pc = "dead"] /\ history' = [history EXCEPT !.broken = @ \cup {o}]
    /\ UNCHANGED <<fd_map, settings, input, sent>>

Again(o, waited) ==
    /\ obj' = [obj EXCEPT ![o].pc = "test", ![o].waited = waited]
    /\ UNCHANGED <<fd_map, settings, input, sent, history>>

\* Altered: the time begins anew with every pause.
Pause_Anew(o) ==
    /\ obj[o].pc = "wait"
    /\ \/ obj[o].m_nTimeOut = 0 /\ Step(o, "idle")
       \/ obj[o].m_nTimeOut # 0 /\ Step(o, "test")

\* usleep, and is it late?  The comparison is unsigned: a negative timeout
\* is never over.
Pause(o) ==
    LET waited == obj[o].waited + 1
        timeout == obj[o].m_nTimeOut
    IN  /\ obj[o].pc = "wait"
        /\ \/ timeout \in 0 .. waited /\ Step(o, "idle")
           \/ timeout \notin 0 .. waited /\ Again(o, IF timeout < 0 THEN 0 ELSE waited)

Reads(o) == TestInput(o) \/ TestNothing(o) \/ ReadSome(o) \/ ReadFails(o) \/ Pause(o)

\* The device.  What it sends while nobody has the tty is lost.
Receive(p) ==
    /\ history.mode = "reads" /\ fd_map[p] /\ sent[p] < MaxBytes
    /\ sent' = [sent EXCEPT ![p] = @ + 1] /\ input' = [input EXCEPT ![p] = Append(@, sent[p] + 1)]
    /\ UNCHANGED <<fd_map, settings, obj, history>>

Asks == IF history.mode = "sets" THEN Params ELSE {<<0, 8, 1>>}

\* The copy of -1 bytes ends the process.
Next ==
    /\ history.broken = {}
    /\ \/ \E o \in Objs : \/ \E p \in Ports : Open(o, p)
                          \/ Close(o) \/ Read(o) \/ Reads(o)
                          \/ \E speed \in Speeds, param \in Asks, timeout \in Waits(history.mode) :
                                param[1] <= 2 /\ SetPara(o, speed, param, timeout)
       \/ \E p \in Ports : \/ Receive(p)
                           \/ \E param \in Asks : SerialSetParam(p, param)
                           \/ \E control \in Controls : history.mode = "sets" /\ SerialFlowControl(p, control)

Spec == Init /\ [][Next]_vars

\* A thread that is in a read goes on.
FairSpec == Spec /\ \A o \in Objs : WF_vars(history.broken = {} /\ Reads(o))

----------------------------------------------------------------------------
\* What the tty does with settings t, in the terms of the calls.
Parity(t) ==
    CASE "PARENB" \notin t.c -> 0
      [] "PARENB" \in t.c /\ "CMSPAR" \notin t.c -> IF "PARODD" \in t.c THEN 1 ELSE 2
      [] OTHER -> IF "PARODD" \in t.c THEN 4 ELSE 3

InForce(t) == (IF "CRTSCTS" \in t.c THEN {"hardware"} ELSE {})
              \cup (IF "IXON" \in t.i THEN {"software"} ELSE {})

\* The parity, size and stop bits, the speed, and the flow control of a port
\* of which a was asked; after a stick parity odd is 4 and even 3.
ParamAsAsked(t, a) ==
    /\ Parity(t) = IF a.stick /\ a.parity \in {1, 2} THEN 5 - a.parity ELSE a.parity
    /\ t.size = a.databits
    /\ a.stopbit = IF "CSTOPB" \in t.c THEN 2 ELSE 1
SpeedAsAsked(t, a) ==
    /\ t.speed \in speed_table1 /\ t.speed >= a.speed
    /\ \A s \in speed_table1 : s >= a.speed => t.speed <= s
FlowAsAsked(t, a) == InForce(t) = IF a.both THEN {"hardware", "software"} ELSE {a.flow} \ {"none"}

AsAsked(t, a) ==
    /\ IF "param" \in a.lost THEN Parity(t) = 0 /\ t.size = 5 /\ "CSTOPB" \notin t.c
                             ELSE ParamAsAsked(t, a)
    /\ IF "speed" \in a.lost THEN t.speed = 0 ELSE SpeedAsAsked(t, a)
    /\ FlowAsAsked(t, a)
    /\ "CREAD" \in t.c <=> "read" \notin a.lost

\* The settings of an open port are the last asked for, by whatever objects
\* and calls (the speed rounded up to one of the table), and a closed one has
\* those it had.  Three sequences of calls lead elsewhere, and only to where
\* it says here: a flow control asked for after the other does not end that
\* one (linux_serial.cpp:432-435); "no flow control" clears everything, until
\* it is asked for again, the receiver until the port is opened again (430);
\* after a stick parity an odd or even one is stick as well (667).
SettingsAsAsked == \A p \in Ports : IF fd_map[p] THEN AsAsked(tio[p], asked[p]) ELSE tio[p] = Before

\* An open port has one object that will close it, the one that opened it,
\* and that object no other port: none is leaked, and an object that is open
\* has its port to itself.  An object that was told to open a second port is
\* exempt, as it has forgotten the first (CSerialPortImp::open, close), and
\* so is one whose port another has closed, which nobody does before some
\* object has been opened twice.
ClosesItsOwn ==
    /\ \A p \in Ports : fd_map[p] =>
          LET o == history.opener[p] IN o \notin history.reopened => obj[o].m_b_open /\ obj[o].m_nPort = p
    /\ \A o \in Objs \ (history.reopened \cup history.robbed) : obj[o].m_b_open =>
          LET p == obj[o].m_nPort IN fd_map[p] /\ history.opener[p] = o
    /\ history.reopened = {} => history.robbed = {}

\* What a read has is one run of what the device sent, and fits twice the
\* chunk: a buffer of len bytes may be too small for it.  A read of a port
\* that somebody else reads, flushes or closes meanwhile is exempt.
ReadIsOneRun ==
    \A o \in Objs : LET buf == obj[o].buf IN
        /\ Len(buf) < 2 * Chunk
        /\ obj[o].pc \in {"test", "read"} /\ o \notin history.disturbed =>
              \A i \in 1 .. Len(buf) - 1 : buf[i + 1] = buf[i] + 1

\* Between the test of the queue and the read it is emptied by others only,
\* and the error of the read is copied as a length by that alone.
CopiesWhatWasRead == history.broken \subseteq history.disturbed

\* A read ends, with what came or because of its timeout, unless that is
\* negative (or was never set, and is).
ReadEnds == \A o \in Objs :
    obj[o].pc = "test" ~> obj[o].pc \in {"idle", "dead"} \/ obj[o].m_nTimeOut < 0 \/ history.broken # {}
=============================================================================
