-------------------------- MODULE SerialPortProofs --------------------------
(***************************************************************************)
(* Theorems about the serial ports, for any ports, objects, settings and   *)
(* timeouts, any chunk and any number of bytes.                            *)
(*                                                                         *)
(* Three parts stand for themselves: the settings of a port (PortInv), who *)
(* may close it (OwnerInv), and where a read is in what the device sent    *)
(* (InputInv, ReadInv).                                                    *)
(***************************************************************************)
EXTENDS SerialPort, TLAPS, WellFoundedInduction, SequenceTheorems

(* Settings t are the ones asked for as a, and sticky if that was asked.    *)
AsAskedOf(t, a) == AsAsked(t, a) /\ ("CMSPAR" \in t.c <=> a.stick)

(* A closed port has the settings it had, an open one keeps those to give   *)
(* back, and has the ones asked for.                                       *)
PortInv == \A p \in Ports :
    /\ ~fd_map[p] => tio[p] = Before
    /\ fd_map[p] => oldtio[p] = Before
    /\ fd_map[p] => AsAskedOf(tio[p], asked[p])

OwnerInv == /\ \A p \in Ports : fd_map[p] => history.opener[p] \in Objs
            /\ ClosesItsOwn

(* What waits to be read is the last of what was sent.                      *)
InputInv == \A p \in Ports : \A i \in 1 .. Len(input[p]) :
    input[p][i] = sent[p] - Len(input[p]) + i

(* What a read has comes right before what waits to be read, if nobody      *)
(* else has touched the port.                                              *)
ReadOf(o) ==
    LET p == obj[o].m_nPort
        buf == obj[o].buf
    IN  /\ obj[o].pc \in {"new", "idle", "wait"} => buf = <<>>
        /\ obj[o].pc # "test" => Len(buf) < Chunk
        /\ Len(buf) < 2 * Chunk
        /\ obj[o].pc = "read" /\ o \notin history.disturbed => fd_map[p] /\ input[p] # <<>>
        /\ obj[o].pc \in {"test", "read"} /\ o \notin history.disturbed =>
              \A i \in 1 .. Len(buf) : buf[i] = sent[p] - Len(input[p]) - Len(buf) + i

ReadInv == /\ \A o \in Objs : ReadOf(o)
           /\ CopiesWhatWasRead

IInv == TypeOK /\ PortInv /\ OwnerInv /\ InputInv /\ ReadInv
---------------------------------------------------------------------------
(* The functions on settings. *)
SomeParams == (0 .. 4) \X (5 .. 8) \X {1, 2}

LEMMA SpeedTable == speed_table1 \subseteq Nat /\ MaxSpeed \in speed_table1
  BY SMT DEF speed_table1, MaxSpeed

LEMMA SpeedInTable ==
    ASSUME NEW speed \in 1 .. MaxSpeed
    PROVE  \E s \in speed_table1 : s >= speed /\ \A r \in speed_table1 : r >= speed => s <= r
<1> DEFINE T == {s \in speed_table1 : s >= speed}
           Less == OpToRel(<, Nat)
<1>0. IsWellFoundedOn(Less, Nat)
  BY NatLessThanWellFounded
<1>l. \A r, q \in Nat : r < q => <<r, q>> \in Less
  BY DEF OpToRel
<1> HIDE DEF Less
<1>1. T \subseteq Nat /\ MaxSpeed \in T
  <2>1. MaxSpeed \in Nat /\ speed_table1 \subseteq Nat
    BY SpeedTable
  <2>2. speed \in Nat /\ MaxSpeed >= speed
    BY <2>1
  <2> QED
    BY <2>1, <2>2, SpeedTable
<1> HIDE DEF T
<1>2. PICK s \in T : \A r \in T : <<r, s>> \notin Less
  BY <1>0, <1>1, WFMin
<1>3. \A r \in T : s <= r
  <2> TAKE r \in T
  <2>1. r \in Nat /\ s \in Nat
    BY <1>1
  <2>2. ~(r < s)
    BY <1>l, <1>2, <2>1
  <2> QED
    BY <2>1, <2>2
<1> QED
  BY <1>3 DEF T

LEMMA SpeedSet ==
    ASSUME NEW t \in Tios, NEW speed \in 1 .. MaxSpeed
    PROVE  LET u == SetSpeed(t, speed) IN
           /\ u \in Tios /\ u.c = t.c /\ u.i = t.i /\ u.size = t.size
           /\ u.speed \in speed_table1 /\ u.speed >= speed
           /\ \A s \in speed_table1 : s >= speed => u.speed <= s
<1> DEFINE new == CHOOSE s \in speed_table1 : s >= speed /\ \A r \in speed_table1 : r >= speed => s <= r
<1>1. /\ new \in speed_table1 /\ new >= speed
      /\ \A s \in speed_table1 : s >= speed => new <= s
  BY SpeedInTable
<1>2. new \in Nat
  BY <1>1, SpeedTable
<1>3. SetSpeed(t, speed) = [t EXCEPT !.speed = new]
  BY DEF SetSpeed
<1> HIDE DEF new
<1> QED
  BY <1>1, <1>2, <1>3 DEF Tios

LEMMA ParamSet ==
    ASSUME NEW t \in Tios, NEW param \in SomeParams
    PROVE  LET u == SetParam(t, param) IN
           /\ u \in Tios /\ u.i = t.i /\ u.size = param[2] /\ u.speed = t.speed
           /\ "CREAD" \in u.c <=> "CREAD" \in t.c
           /\ "CRTSCTS" \in u.c <=> "CRTSCTS" \in t.c
           /\ "CSTOPB" \in u.c <=> param[3] = 2
           /\ "CMSPAR" \in u.c <=> "CMSPAR" \in t.c \/ param[1] \in {3, 4}
           /\ Parity(u) = IF "CMSPAR" \in u.c /\ param[1] \in {1, 2} THEN 5 - param[1] ELSE param[1]
<1> DEFINE parity == param[1]
           off == {"CSTOPB"} \cup (IF parity = 0 THEN {"PARENB"} ELSE {})
                          \cup (IF parity \in {2, 3} THEN {"PARODD"} ELSE {})
           on == (IF parity # 0 THEN {"PARENB"} ELSE {}) \cup (IF parity \in {1, 4} THEN {"PARODD"} ELSE {})
              \cup (IF parity \in {3, 4} THEN {"CMSPAR"} ELSE {}) \cup (IF param[3] = 2 THEN {"CSTOPB"} ELSE {})
           flags == (t.c \ off) \cup on
<1>1. parity \in 0 .. 4 /\ param[2] \in 5 .. 8 /\ param[3] \in {1, 2}
  BY DEF SomeParams
<1>2. SetParam(t, param) = [t EXCEPT !.c = flags, !.size = param[2]]
  BY DEF SetParam
<1>3. flags \subseteq {"CREAD", "CSTOPB", "PARENB", "PARODD", "CMSPAR", "CRTSCTS"}
  BY DEF Tios
<1>4. /\ "CREAD" \in flags <=> "CREAD" \in t.c
      /\ "CRTSCTS" \in flags <=> "CRTSCTS" \in t.c
      /\ "CSTOPB" \in flags <=> param[3] = 2
      /\ "PARENB" \in flags <=> parity # 0
      /\ "CMSPAR" \in flags <=> "CMSPAR" \in t.c \/ parity \in {3, 4}
  BY <1>1
<1>5. parity # 0 => ("PARODD" \in flags <=> parity \in {1, 4})
  BY <1>1
<1> HIDE DEF parity, flags
<1>6. /\ SetParam(t, param) \in Tios /\ SetParam(t, param).c = flags
      /\ SetParam(t, param).i = t.i /\ SetParam(t, param).size = param[2]
      /\ SetParam(t, param).speed = t.speed
  BY <1>1, <1>2, <1>3 DEF Tios
<1>7. Parity(SetParam(t, param)) = IF "CMSPAR" \in flags /\ parity \in {1, 2} THEN 5 - parity ELSE parity
  <2>1. parity \in {0, 1, 2, 3, 4}
    BY <1>1
  <2>2. CASE parity = 0
    BY <2>2, <1>4, <1>6 DEF Parity
  <2>3. CASE parity = 1
    BY <2>3, <1>4, <1>5, <1>6 DEF Parity
  <2>4. CASE parity = 2
    BY <2>4, <1>4, <1>5, <1>6 DEF Parity
  <2>5. CASE parity = 3
    BY <2>5, <1>4, <1>5, <1>6 DEF Parity
  <2>6. CASE parity = 4
    BY <2>6, <1>4, <1>5, <1>6 DEF Parity
  <2> QED
    BY <2>1, <2>2, <2>3, <2>4, <2>5, <2>6
<1> QED
  BY <1>4, <1>6, <1>7 DEF parity

LEMMA ControlSet ==
    ASSUME NEW t \in Tios, NEW control \in Controls
    PROVE  LET u == FlowControl(t, control) IN
           /\ u \in Tios
           /\ control # "none" =>
                 /\ u.size = t.size /\ u.speed = t.speed
                 /\ \A f \in {"CREAD", "CSTOPB", "PARENB", "PARODD", "CMSPAR"} : f \in u.c <=> f \in t.c
           /\ control = "none" => u.c = {} /\ u.size = 5 /\ u.speed = 0
           /\ InForce(u) = IF control = "none" THEN {} ELSE InForce(t) \cup {control}
<1>1. CASE control = "none"
  BY <1>1 DEF FlowControl, Tios, InForce
<1>2. CASE control = "hardware"
  BY <1>2 DEF FlowControl, Tios, InForce
<1>3. CASE control = "software"
  BY <1>3 DEF FlowControl, Tios, InForce
<1> QED
  BY <1>1, <1>2, <1>3 DEF Controls

LEMMA Openeds == Opened \in Tios /\ Before \in Tios
  BY SMT DEF Opened, Before, Tios

LEMMA FirstPort == First \in Ports
  BY SerialPortAssumption DEF First

---------------------------------------------------------------------------
(* Disturb writes down the readers of a port and nothing else.              *)
LEMMA Disturbed ==
    ASSUME TypeOK, NEW h \in Histories, NEW p, NEW o
    PROVE  /\ Disturb(h, p, o) \in Histories
           /\ Disturb(h, p, o) = [h EXCEPT !.disturbed = h.disturbed \cup Readers(p, o)]
           /\ Disturb(h, p, o).disturbed = h.disturbed \cup Readers(p, o)
  BY DEF Disturb, Histories, Readers

LEMMA FirstAsked == Unasked \in Askeds
<1>1. MaxSpeed \in Nat /\ 9600 <= MaxSpeed
  BY SMT DEF MaxSpeed
<1>2. 9600 \in 1 .. MaxSpeed
  BY <1>1
<1> QED
  BY <1>2 DEF Askeds, Unasked, Controls

(* What each call writes down of what was asked for.                        *)
LEMMA ParamAsked ==
    ASSUME NEW a \in Askeds, NEW param \in SomeParams
    PROVE  LET b == AskParam(a, param) IN
           /\ b \in Askeds
           /\ b.parity = param[1] /\ b.databits = param[2] /\ b.stopbit = param[3]
           /\ b.speed = a.speed /\ b.flow = a.flow /\ b.both = a.both
           /\ b.stick <=> a.stick \/ param[1] \in {3, 4}
           /\ b.lost = a.lost \ {"param"}
<1>1. param[1] \in 0 .. 4 /\ param[2] \in 5 .. 8 /\ param[3] \in {1, 2}
  BY DEF SomeParams
<1>2. a.lost \ {"param"} \in SUBSET {"param", "speed", "read"}
  BY DEF Askeds
<1>3. (a.stick \/ param[1] \in {3, 4}) \in BOOLEAN
  OBVIOUS
<1>4. AskParam(a, param) = [a EXCEPT !.parity = param[1], !.databits = param[2], !.stopbit = param[3],
                                    !.stick = a.stick \/ param[1] \in {3, 4}, !.lost = a.lost \ {"param"}]
  BY DEF AskParam
<1> DEFINE stick == a.stick \/ param[1] \in {3, 4}
<1> HIDE DEF stick
<1>5. AskParam(a, param) = [a EXCEPT !.parity = param[1], !.databits = param[2], !.stopbit = param[3],
                                    !.stick = stick, !.lost = a.lost \ {"param"}]
  BY <1>4 DEF stick
<1>6. stick \in BOOLEAN
  BY <1>3 DEF stick
<1>7. LET b == AskParam(a, param) IN
      /\ b \in Askeds
      /\ b.parity = param[1] /\ b.databits = param[2] /\ b.stopbit = param[3]
      /\ b.speed = a.speed /\ b.flow = a.flow /\ b.both = a.both
      /\ b.stick = stick /\ b.lost = a.lost \ {"param"}
  BY <1>1, <1>2, <1>5, <1>6 DEF Askeds
<1> QED
  BY <1>7 DEF stick

LEMMA SpeedAsked ==
    ASSUME NEW a \in Askeds, NEW speed \in 1 .. MaxSpeed
    PROVE  LET b == AskSpeed(a, speed) IN
           /\ b \in Askeds /\ b = [a EXCEPT !.speed = speed, !.lost = a.lost \ {"speed"}]
           /\ b.parity = a.parity /\ b.databits = a.databits /\ b.stopbit = a.stopbit
           /\ b.speed = speed /\ b.flow = a.flow /\ b.both = a.both /\ b.stick = a.stick
           /\ b.lost = a.lost \ {"speed"}
<1>1. a.lost \ {"speed"} \in SUBSET {"param", "speed", "read"}
  BY DEF Askeds
<1> QED
  BY <1>1 DEF AskSpeed, Askeds

LEMMA FlowAsked ==
    ASSUME NEW a \in Askeds, NEW control \in Controls
    PROVE  LET b == AskFlow(a, control) IN
           /\ b \in Askeds
           /\ b.parity = a.parity /\ b.databits = a.databits /\ b.stopbit = a.stopbit
           /\ b.speed = a.speed /\ b.flow = control
           /\ control = "none" => ~b.stick /\ ~b.both /\ b.lost = {"param", "speed", "read"}
           /\ control # "none" => /\ b.stick = a.stick /\ b.lost = a.lost
                                  /\ b.both <=> a.both \/ a.flow \notin {"none", control}
<1>1. CASE control = "none"
  BY <1>1 DEF AskFlow, Askeds, Controls
<1>2. CASE control # "none"
  <2> DEFINE both == a.both \/ a.flow \notin {"none", control}
  <2>1. both \in BOOLEAN
    OBVIOUS
  <2>2. AskFlow(a, control) = [a EXCEPT !.flow = control, !.both = both]
    BY <1>2 DEF AskFlow
  <2> HIDE DEF both
  <2>3. LET b == AskFlow(a, control) IN
        /\ b \in Askeds
        /\ b.parity = a.parity /\ b.databits = a.databits /\ b.stopbit = a.stopbit
        /\ b.speed = a.speed /\ b.flow = control
        /\ b.stick = a.stick /\ b.lost = a.lost /\ b.both = both
    BY <2>1, <2>2 DEF Askeds
  <2> QED
    BY <1>2, <2>3 DEF both
<1> QED
  BY <1>1, <1>2

LEMMA AsksParams == Asks \subseteq SomeParams
<1>1. <<0, 8, 1>> \in SomeParams
  BY DEF SomeParams
<1> QED
  BY <1>1, SerialPortAssumption DEF Asks, SomeParams

LEMMA OneTimeoutIn == OneTimeout \in Timeouts /\ \A mode : Waits(mode) \subseteq Timeouts
  BY SerialPortAssumption DEF OneTimeout, Waits

(* One read takes what one read may take.                                   *)
LEMMA Taken ==
    ASSUME NEW s \in Seq(Nat), NEW n \in Nat, n <= Len(s)
    PROVE  /\ SubSeq(s, 1, n) \in Seq(Nat) /\ Len(SubSeq(s, 1, n)) = n
           /\ \A i \in 1 .. n : SubSeq(s, 1, n)[i] = s[i]
           /\ SubSeq(s, n + 1, Len(s)) \in Seq(Nat) /\ Len(SubSeq(s, n + 1, Len(s))) = Len(s) - n
           /\ \A i \in 1 .. Len(s) - n : SubSeq(s, n + 1, Len(s))[i] = s[i + n]
<1>1. Len(s) \in Nat /\ \A i \in 1 .. Len(s) : s[i] \in Nat
  BY LenProperties, ElementOfSeq
<1>2. \A i \in 1 .. n : s[i] \in Nat
  BY <1>1
<1>3. \A i \in n + 1 .. Len(s) : s[i] \in Nat
  BY <1>1
<1>4. /\ SubSeq(s, 1, n) \in Seq(Nat)
      /\ Len(SubSeq(s, 1, n)) = IF 1 <= n THEN n - 1 + 1 ELSE 0
      /\ \A i \in 1 .. n - 1 + 1 : SubSeq(s, 1, n)[i] = s[1 + i - 1]
  BY <1>1, <1>2, SubSeqProperties
<1>5. /\ SubSeq(s, n + 1, Len(s)) \in Seq(Nat)
      /\ Len(SubSeq(s, n + 1, Len(s))) = IF n + 1 <= Len(s) THEN Len(s) - (n + 1) + 1 ELSE 0
      /\ \A i \in 1 .. Len(s) - (n + 1) + 1 : SubSeq(s, n + 1, Len(s))[i] = s[n + 1 + i - 1]
  <2>1. n + 1 \in Int /\ Len(s) \in Int
    BY <1>1
  <2> QED
    BY <1>3, <2>1, SubSeqProperties
<1> QED
  BY <1>1, <1>4, <1>5

---------------------------------------------------------------------------
(* The types. *)
LEMMA SetTypes ==
    ASSUME TypeOK, NEW p \in Ports, NEW o, NEW t \in Tios, NEW a \in Askeds, NEW h \in Histories,
           Set(p, o, t, a, h)
    PROVE  /\ fd_map' \in [Ports -> BOOLEAN] /\ tio' \in [Ports -> Tios] /\ oldtio' \in [Ports -> Tios]
           /\ input' \in [Ports -> Seq(Nat)] /\ sent' \in [Ports -> Nat]
           /\ asked' \in [Ports -> Askeds] /\ history' \in Histories
<1>1. Disturb(h, p, o) \in Histories
  BY Disturbed
<1> QED
  BY <1>1 DEF TypeOK, Set

LEMMA ObjTypes ==
    ASSUME TypeOK, NEW o \in Objs, NEW x \in Objects, obj' = [obj EXCEPT ![o] = x]
    PROVE  obj' \in [Objs -> Objects]
  BY DEF TypeOK

LEMMA TypeOpen ==
    ASSUME TypeOK, NEW o \in Objs, NEW p \in Ports, Open(o, p)
    PROVE  TypeOK'
<1> DEFINE h == [history EXCEPT !.reopened = IF obj[o].m_b_open THEN @ \cup {o} ELSE @]
<1>1. h \in Histories
  BY DEF TypeOK, Histories
<1>0. obj[o] \in Objects
  BY DEF TypeOK
<1>2. CASE /\ obj' = [obj EXCEPT ![o].m_nPort = p, ![o].pc = "idle"]
           /\ history' = h /\ UNCHANGED <<fd_map, settings, input>>
  <2> DEFINE x == [obj[o] EXCEPT !.m_nPort = p, !.pc = "idle"]
  <2>1. x \in Objects
    BY <1>0 DEF Objects
  <2>2. obj' = [obj EXCEPT ![o] = x]
    BY <1>2 DEF TypeOK
  <2> HIDE DEF x, h
  <2>4. obj' \in [Objs -> Objects]
    BY <2>1, <2>2, ObjTypes
  <2> QED
    BY <1>1, <1>2, <2>4 DEF Open, TypeOK, settings
<1>3. CASE /\ OpenPort(o, p)
           /\ obj' = [obj EXCEPT ![o].m_nPort = p, ![o].m_b_open = TRUE, ![o].pc = "idle"]
           /\ history' = [Disturb(h, p, o) EXCEPT !.opener[p] = o]
  <2> DEFINE x == [obj[o] EXCEPT !.m_nPort = p, !.m_b_open = TRUE, !.pc = "idle"]
  <2>0. x \in Objects /\ obj' = [obj EXCEPT ![o] = x]
    BY <1>0, <1>3 DEF Objects, TypeOK
  <2>1. /\ obj' = [obj EXCEPT ![o].m_nPort = p, ![o].m_b_open = TRUE, ![o].pc = "idle"]
        /\ history' = [Disturb(h, p, o) EXCEPT !.opener[p] = o]
        /\ sent' = sent
    BY <1>3 DEF Open, OpenPort, TypeOK
  <2>2. Disturb(h, p, o) \in Histories
    BY <1>1, Disturbed
  <2> HIDE DEF h, x
  <2>3. history' \in Histories
    BY <2>1, <2>2 DEF Histories
  <2>4. obj' \in [Objs -> Objects]
    BY <2>0, ObjTypes
  <2>5. input' \in [Ports -> Seq(Nat)]
    BY <1>3 DEF OpenPort, TypeOK
  <2>6. asked' \in [Ports -> Askeds]
    BY <1>3, FirstAsked DEF OpenPort, TypeOK
  <2>7. fd_map' \in [Ports -> BOOLEAN] /\ tio' \in [Ports -> Tios] /\ oldtio' \in [Ports -> Tios]
    BY <1>3, Openeds DEF OpenPort, TypeOK
  <2> QED
    BY <2>1, <2>3, <2>4, <2>5, <2>6, <2>7 DEF TypeOK
<1> QED
  BY <1>2, <1>3 DEF Open

LEMMA TypeClose ==
    ASSUME TypeOK, OwnerInv, NEW o \in Objs, Close(o)
    PROVE  TypeOK'
<1> DEFINE p == obj[o].m_nPort
<1>1. p \in Ports /\ fd_map[p] /\ history.opener[p] \in Objs
  BY DEF Close, TypeOK, Objects, OwnerInv
<1>2. Disturb(history, p, o) \in Histories
  BY Disturbed DEF TypeOK
<1>3. history' \in Histories
  BY <1>1, <1>2 DEF Close, Histories
<1>4. obj' \in [Objs -> Objects]
  <2> DEFINE x == [obj[o] EXCEPT !.m_b_open = FALSE]
  <2>1. obj[o] \in Objects
    BY DEF TypeOK
  <2>2. x \in Objects
    BY <2>1 DEF Objects
  <2>3. obj' = [obj EXCEPT ![o] = x]
    BY DEF Close, TypeOK
  <2> QED
    BY <2>2, <2>3, ObjTypes
<1> QED
  BY <1>1, <1>3, <1>4 DEF Close, TypeOK

LEMMA TypeSetPara ==
    ASSUME TypeOK, NEW o \in Objs, NEW speed \in Speeds, NEW param \in Asks,
           NEW timeout \in Waits(history.mode), SetPara(o, speed, param, timeout)
    PROVE  TypeOK'
<1> DEFINE p == obj[o].m_nPort
           t == SetParam(SetSpeed(tio[p], speed), param)
           a == AskParam(AskSpeed(asked[p], speed), param)
<1>1. p \in Ports /\ tio[p] \in Tios /\ asked[p] \in Askeds /\ history \in Histories
  BY DEF TypeOK, Objects
<1>2. timeout \in Timeouts /\ param \in SomeParams /\ speed \in 1 .. MaxSpeed
  BY OneTimeoutIn, AsksParams, SerialPortAssumption
<1>3. t \in Tios
  <2>1. SetSpeed(tio[p], speed) \in Tios
    BY <1>1, <1>2, SpeedSet
  <2> QED
    BY <1>2, <2>1, ParamSet
<1>4. a \in Askeds
  <2>1. AskSpeed(asked[p], speed) \in Askeds
    BY <1>1, <1>2, SpeedAsked
  <2> QED
    BY <1>2, <2>1, ParamAsked
<1>5. obj' \in [Objs -> Objects]
  <2> DEFINE x == [obj[o] EXCEPT !.m_nTimeOut = timeout]
  <2>1. obj[o] \in Objects
    BY DEF TypeOK
  <2>2. x \in Objects
    BY <1>2, <2>1 DEF Objects
  <2>3. obj' = [obj EXCEPT ![o] = x]
    BY DEF SetPara, TypeOK
  <2> QED
    BY <2>2, <2>3, ObjTypes
<1>6. CASE fd_map[p]
  <2>1. Set(p, o, t, a, history)
    BY <1>6 DEF SetPara
  <2> HIDE DEF p, t, a
  <2> QED
    BY <1>1, <1>3, <1>4, <1>5, <2>1, SetTypes DEF TypeOK
<1>7. CASE ~fd_map[p]
  BY <1>5, <1>7 DEF SetPara, TypeOK, settings
<1> QED
  BY <1>6, <1>7

LEMMA TypeDirect ==
    ASSUME TypeOK, NEW p \in Ports,
           \/ \E param \in Asks : SerialSetParam(p, param)
           \/ \E control \in Controls : SerialFlowControl(p, control)
    PROVE  TypeOK'
<1>1. tio[p] \in Tios /\ asked[p] \in Askeds /\ history \in Histories
  BY DEF TypeOK
<1>2. ASSUME NEW param \in Asks, SerialSetParam(p, param)
      PROVE  TypeOK'
  <2> DEFINE t == SetParam(tio[p], param)
             a == AskParam(asked[p], param)
  <2>0. param \in SomeParams
    BY AsksParams
  <2>1. t \in Tios
    BY <1>1, <2>0, ParamSet
  <2>2. a \in Askeds
    BY <1>1, <2>0, ParamAsked
  <2>3. Set(p, NoObj, t, a, history) /\ obj' = obj
    BY <1>2 DEF SerialSetParam
  <2> HIDE DEF t, a
  <2> QED
    BY <1>1, <2>1, <2>2, <2>3, SetTypes DEF TypeOK
<1>3. ASSUME NEW control \in Controls, SerialFlowControl(p, control)
      PROVE  TypeOK'
  <2> DEFINE t == FlowControl(tio[p], control)
             a == AskFlow(asked[p], control)
  <2>1. t \in Tios
    BY <1>1, ControlSet
  <2>2. a \in Askeds
    BY <1>1, FlowAsked
  <2>3. Set(p, NoObj, t, a, history) /\ obj' = obj
    BY <1>3 DEF SerialFlowControl
  <2> HIDE DEF t, a
  <2> QED
    BY <1>1, <2>1, <2>2, <2>3, SetTypes DEF TypeOK
<1> QED
  BY <1>2, <1>3

LEMMA TypeReads ==
    ASSUME TypeOK, NEW o \in Objs, Read(o) \/ Reads(o)
    PROVE  TypeOK'
<1>1. ASSUME NEW next \in {"idle", "test", "read", "wait"}, Step(o, next)
      PROVE  TypeOK'
  <2>1. <<>> \in Seq(Nat)
    OBVIOUS
  <2> DEFINE x == [obj[o] EXCEPT !.pc = next, !.buf = IF next = "idle" THEN <<>> ELSE @,
                               !.waited = IF next \in {"wait", "read"} THEN @ ELSE 0]
  <2>4. obj[o] \in Objects
    BY DEF TypeOK
  <2>5. x \in Objects
    BY <1>1, <2>1, <2>4 DEF Objects
  <2>6. obj' = [obj EXCEPT ![o] = x]
    BY <1>1 DEF Step, TypeOK
  <2> HIDE DEF x
  <2>2. obj' \in [Objs -> Objects]
    BY <2>5, <2>6, ObjTypes
  <2>3. history' \in Histories
    BY <1>1 DEF Step, TypeOK, Histories
  <2> QED
    BY <1>1, <2>2, <2>3 DEF Step, TypeOK, settings
<1>2. CASE Read(o)
  BY <1>2 DEF Read, TypeOK, Objects, settings
<1>3. CASE TestInput(o) \/ TestNothing(o)
  BY <1>1, <1>3 DEF TestInput, TestNothing
<1>4. CASE ReadSome(o)
  <2> DEFINE p == obj[o].m_nPort
             n == IF Len(input[p]) < Chunk THEN Len(input[p]) ELSE Chunk
  <2>1. p \in Ports /\ input[p] \in Seq(Nat) /\ obj[o].buf \in Seq(Nat) /\ Len(input[p]) \in Nat
    BY DEF TypeOK, Objects
  <2>2. n \in Nat /\ n <= Len(input[p])
    BY <2>1, SerialPortAssumption
  <2> HIDE DEF n
  <2>3. SubSeq(input[p], 1, n) \in Seq(Nat) /\ SubSeq(input[p], n + 1, Len(input[p])) \in Seq(Nat)
    BY <2>1, <2>2, Taken
  <2>4. obj' = [obj EXCEPT ![o].pc = "test", ![o].buf = obj[o].buf \o SubSeq(input[p], 1, n)]
    BY <1>4 DEF ReadSome, n
  <2>5. input' = [input EXCEPT ![p] = SubSeq(input[p], n + 1, Len(input[p]))]
    BY <1>4 DEF ReadSome, n
  <2>6. obj' \in [Objs -> Objects]
    <3>1. obj[o].buf \o SubSeq(input[p], 1, n) \in Seq(Nat)
      BY <2>1, <2>3
    <3> DEFINE x == [obj[o] EXCEPT !.pc = "test", !.buf = obj[o].buf \o SubSeq(input[p], 1, n)]
    <3>2. obj[o] \in Objects
      BY DEF TypeOK
    <3>3. x \in Objects
      BY <3>1, <3>2 DEF Objects
    <3>4. obj' = [obj EXCEPT ![o] = x]
      BY <2>4 DEF TypeOK
    <3> QED
      BY <3>3, <3>4, ObjTypes
  <2>7. history' \in Histories
    BY <1>4, Disturbed DEF ReadSome, TypeOK
  <2>8. input' \in [Ports -> Seq(Nat)]
    BY <2>1, <2>3, <2>5 DEF TypeOK
  <2> QED
    BY <1>4, <2>6, <2>7, <2>8 DEF ReadSome, TypeOK, settings
<1>5. CASE ReadFails(o)
  <2> DEFINE x == [obj[o] EXCEPT !.pc = "dead"]
  <2>1. x \in Objects
    <3>1. obj[o] \in Objects
      BY DEF TypeOK
    <3> QED
      BY <3>1 DEF Objects
  <2>2. obj' = [obj EXCEPT ![o] = x]
    BY <1>5 DEF ReadFails, TypeOK
  <2>3. history' \in Histories
    BY <1>5 DEF ReadFails, TypeOK, Histories
  <2>4. obj' \in [Objs -> Objects]
    BY <2>1, <2>2, ObjTypes
  <2> QED
    BY <1>5, <2>3, <2>4 DEF ReadFails, TypeOK, settings
<1>6. CASE Pause(o)
  <2>1. obj[o].waited + 1 \in Nat
    BY DEF TypeOK, Objects
  <2>2. ASSUME NEW w \in Nat, Again(o, w)
        PROVE  TypeOK'
    <3> DEFINE x == [obj[o] EXCEPT !.pc = "test", !.waited = w]
    <3>1. x \in Objects
      <4>1. obj[o] \in Objects
        BY DEF TypeOK
      <4> QED
        BY <4>1 DEF Objects
    <3>2. obj' = [obj EXCEPT ![o] = x]
      BY <2>2 DEF Again, TypeOK
    <3>3. obj' \in [Objs -> Objects]
      BY <3>1, <3>2, ObjTypes
    <3> QED
      BY <2>2, <3>3 DEF Again, TypeOK, settings
  <2>3. CASE Step(o, "idle")
    BY <1>1, <2>3
  <2>4. CASE Again(o, IF obj[o].m_nTimeOut < 0 THEN 0 ELSE obj[o].waited + 1)
    BY <2>1, <2>2, <2>4
  <2> QED
    BY <1>6, <2>3, <2>4 DEF Pause
<1> QED
  BY <1>2, <1>3, <1>4, <1>5, <1>6 DEF Reads

LEMMA TypeReceive ==
    ASSUME TypeOK, NEW p \in Ports, Receive(p)
    PROVE  TypeOK'
<1>1. sent[p] + 1 \in Nat /\ Append(input[p], sent[p] + 1) \in Seq(Nat)
  BY DEF TypeOK
<1> QED
  BY <1>1 DEF Receive, TypeOK, settings

LEMMA TypeStep ==
    ASSUME TypeOK, OwnerInv, [Next]_vars
    PROVE  TypeOK'
<1>1. CASE UNCHANGED vars
  BY <1>1 DEF TypeOK, vars
<1>2. ASSUME NEW o \in Objs,
             \/ \E p \in Ports : Open(o, p)
             \/ Close(o) \/ Read(o) \/ Reads(o)
             \/ \E speed \in Speeds, param \in Asks, timeout \in Waits(history.mode) : SetPara(o, speed, param, timeout)
      PROVE  TypeOK'
  BY <1>2, TypeOpen, TypeClose, TypeReads, TypeSetPara
<1>3. ASSUME NEW p \in Ports,
             \/ Receive(p)
             \/ \E param \in Asks : SerialSetParam(p, param)
             \/ \E control \in Controls : SerialFlowControl(p, control)
      PROVE  TypeOK'
  BY <1>3, TypeReceive, TypeDirect
<1> QED
  BY <1>1, <1>2, <1>3 DEF Next

---------------------------------------------------------------------------
(* The settings. *)
LEMMA PortKept ==
    ASSUME PortInv, UNCHANGED <<fd_map, settings>>
    PROVE  PortInv'
  BY DEF PortInv, settings

LEMMA OpenedAsked == AsAskedOf(Opened, Unasked)
<1>1. 9600 \in speed_table1 /\ 9600 >= 9600
  BY SMT DEF speed_table1
<1>2. \A s \in speed_table1 : s >= 9600 => 9600 <= s
  BY SpeedTable
<1>3. Parity(Opened) = 0 /\ InForce(Opened) = {}
  BY DEF Parity, InForce, Opened
<1>4. Opened.size = 8 /\ Opened.c = {"CREAD"} /\ Opened.speed = 9600
  BY DEF Opened
<1>5. /\ Unasked.parity = 0 /\ Unasked.databits = 8 /\ Unasked.stopbit = 1 /\ Unasked.speed = 9600
      /\ Unasked.flow = "none" /\ ~Unasked.stick /\ ~Unasked.both /\ Unasked.lost = {}
  BY DEF Unasked
<1> HIDE DEF Unasked, Opened
<1>6. ParamAsAsked(Opened, Unasked)
  BY <1>3, <1>4, <1>5 DEF ParamAsAsked
<1>7. SpeedAsAsked(Opened, Unasked)
  BY <1>1, <1>2, <1>4, <1>5 DEF SpeedAsAsked
<1>8. FlowAsAsked(Opened, Unasked)
  BY <1>3, <1>5 DEF FlowAsAsked
<1> QED
  BY <1>4, <1>5, <1>6, <1>7, <1>8 DEF AsAskedOf, AsAsked

LEMMA PortOpen ==
    ASSUME TypeOK, PortInv, NEW o \in Objs, NEW p \in Ports, Open(o, p)
    PROVE  PortInv'
<1>1. CASE UNCHANGED <<fd_map, settings, input>>
  BY <1>1, PortKept
<1>2. CASE ~fd_map[p] /\ OpenPort(o, p)
  <2>1. /\ fd_map' = [fd_map EXCEPT ![p] = TRUE] /\ tio' = [tio EXCEPT ![p] = Opened]
        /\ oldtio' = [oldtio EXCEPT ![p] = tio[p]] /\ asked' = [asked EXCEPT ![p] = Unasked]
    BY <1>2 DEF OpenPort
  <2>2. tio[p] = Before
    BY <1>2 DEF PortInv
  <2>3. oldtio'[p] = Before /\ fd_map'[p] /\ AsAskedOf(tio'[p], asked'[p])
    BY <2>1, <2>2, OpenedAsked DEF TypeOK
  <2>4. \A q \in Ports \ {p} : /\ fd_map'[q] = fd_map[q] /\ tio'[q] = tio[q]
                                /\ oldtio'[q] = oldtio[q] /\ asked'[q] = asked[q]
    BY <2>1 DEF TypeOK
  <2> QED
    BY <2>3, <2>4 DEF PortInv
<1> QED
  BY <1>1, <1>2 DEF Open

LEMMA PortClose ==
    ASSUME TypeOK, PortInv, NEW o \in Objs, Close(o)
    PROVE  PortInv'
<1> DEFINE p == obj[o].m_nPort
<1>1. p \in Ports /\ fd_map[p]
  BY DEF Close, TypeOK, Objects
<1>2. tio'[p] = Before /\ ~fd_map'[p]
  BY <1>1 DEF Close, PortInv, TypeOK
<1>3. \A q \in Ports \ {p} : fd_map'[q] = fd_map[q] /\ tio'[q] = tio[q]
  BY DEF Close, TypeOK
<1>4. oldtio' = oldtio /\ asked' = asked
  BY DEF Close
<1> HIDE DEF p
<1> QED
  BY <1>2, <1>3, <1>4 DEF PortInv

(* A call that changes what port p is set to. *)
LEMMA PortSet ==
    ASSUME TypeOK, PortInv, NEW p \in Ports, NEW o, NEW t \in Tios, NEW a \in Askeds, NEW h,
           Set(p, o, t, a, h), fd_map[p],
           AsAskedOf(tio[p], asked[p]) => AsAskedOf(t, a)
    PROVE  PortInv'
<1>1. tio' = [tio EXCEPT ![p] = t] /\ asked' = [asked EXCEPT ![p] = a] /\ fd_map' = fd_map /\ oldtio' = oldtio
  BY DEF Set
<1>2. fd_map'[p] /\ oldtio'[p] = Before /\ tio'[p] = t /\ asked'[p] = a
  BY <1>1 DEF TypeOK, PortInv
<1>3. AsAskedOf(tio'[p], asked'[p])
  BY <1>2 DEF PortInv
<1>4. \A q \in Ports \ {p} : tio'[q] = tio[q] /\ asked'[q] = asked[q]
  BY <1>1 DEF TypeOK
<1> QED
  BY <1>1, <1>2, <1>3, <1>4 DEF PortInv

(* Parameters, a speed and a flow control leave settings as asked.          *)
LEMMA ParamAsAskedFor ==
    ASSUME NEW t \in Tios, NEW a \in Askeds, NEW param \in SomeParams, AsAskedOf(t, a)
    PROVE  AsAskedOf(SetParam(t, param), AskParam(a, param))
<1> DEFINE u == SetParam(t, param)
           b == AskParam(a, param)
<1>1. /\ u.i = t.i /\ u.size = param[2] /\ u.speed = t.speed
      /\ "CREAD" \in u.c <=> "CREAD" \in t.c
      /\ "CRTSCTS" \in u.c <=> "CRTSCTS" \in t.c
      /\ "CSTOPB" \in u.c <=> param[3] = 2
      /\ "CMSPAR" \in u.c <=> "CMSPAR" \in t.c \/ param[1] \in {3, 4}
      /\ Parity(u) = IF "CMSPAR" \in u.c /\ param[1] \in {1, 2} THEN 5 - param[1] ELSE param[1]
  BY ParamSet
<1>2. /\ b.parity = param[1] /\ b.databits = param[2] /\ b.stopbit = param[3]
      /\ b.speed = a.speed /\ b.flow = a.flow /\ b.both = a.both
      /\ b.stick <=> a.stick \/ param[1] \in {3, 4}
      /\ b.lost = a.lost \ {"param"}
  BY ParamAsked
<1>3. param[3] \in {1, 2}
  BY DEF SomeParams
<1> HIDE DEF u, b
<1>4. "CMSPAR" \in u.c <=> b.stick
  BY <1>1, <1>2 DEF AsAskedOf
<1>5. ParamAsAsked(u, b)
  BY <1>1, <1>2, <1>3, <1>4 DEF ParamAsAsked
<1>6. IF "speed" \in b.lost THEN u.speed = 0 ELSE SpeedAsAsked(u, b)
  BY <1>1, <1>2 DEF AsAskedOf, AsAsked, SpeedAsAsked
<1>7. FlowAsAsked(u, b)
  BY <1>1, <1>2 DEF AsAskedOf, AsAsked, FlowAsAsked, InForce
<1>8. "CREAD" \in u.c <=> "read" \notin b.lost
  BY <1>1, <1>2 DEF AsAskedOf, AsAsked
<1>9. "param" \notin b.lost
  BY <1>2
<1> QED
  BY <1>4, <1>5, <1>6, <1>7, <1>8, <1>9 DEF AsAskedOf, AsAsked, u, b

LEMMA SpeedAsAskedFor ==
    ASSUME NEW t \in Tios, NEW a \in Askeds, NEW speed \in 1 .. MaxSpeed, AsAskedOf(t, a)
    PROVE  AsAskedOf(SetSpeed(t, speed), AskSpeed(a, speed))
<1> DEFINE u == SetSpeed(t, speed)
           b == AskSpeed(a, speed)
<1>1. /\ u.c = t.c /\ u.i = t.i /\ u.size = t.size
      /\ u.speed \in speed_table1 /\ u.speed >= speed
      /\ \A s \in speed_table1 : s >= speed => u.speed <= s
  BY SpeedSet
<1>2. /\ b.parity = a.parity /\ b.databits = a.databits /\ b.stopbit = a.stopbit
      /\ b.speed = speed /\ b.flow = a.flow /\ b.both = a.both /\ b.stick = a.stick
      /\ b.lost = a.lost \ {"speed"}
  BY SpeedAsked
<1> HIDE DEF u, b
<1>3. SpeedAsAsked(u, b) /\ "speed" \notin b.lost
  BY <1>1, <1>2 DEF SpeedAsAsked
<1>4. Parity(u) = Parity(t) /\ InForce(u) = InForce(t)
  BY <1>1 DEF Parity, InForce
<1>5. ParamAsAsked(t, a) => ParamAsAsked(u, b)
  BY <1>1, <1>2, <1>4 DEF ParamAsAsked
<1>6. "param" \in b.lost <=> "param" \in a.lost
  BY <1>2
<1>7. "read" \in b.lost <=> "read" \in a.lost
  BY <1>2
<1>8. FlowAsAsked(u, b)
  BY <1>2, <1>4 DEF AsAskedOf, AsAsked, FlowAsAsked
<1> QED
  BY <1>1, <1>2, <1>3, <1>4, <1>5, <1>6, <1>7, <1>8 DEF AsAskedOf, AsAsked, u, b

LEMMA FlowAsAskedFor ==
    ASSUME NEW t \in Tios, NEW a \in Askeds, NEW control \in Controls, AsAskedOf(t, a)
    PROVE  AsAskedOf(FlowControl(t, control), AskFlow(a, control))
<1> DEFINE u == FlowControl(t, control)
           b == AskFlow(a, control)
<1>1. /\ control # "none" =>
            /\ u.size = t.size /\ u.speed = t.speed
            /\ \A f \in {"CREAD", "CSTOPB", "PARENB", "PARODD", "CMSPAR"} : f \in u.c <=> f \in t.c
      /\ control = "none" => u.c = {} /\ u.size = 5 /\ u.speed = 0
      /\ InForce(u) = IF control = "none" THEN {} ELSE InForce(t) \cup {control}
  BY ControlSet
<1>2. /\ b.parity = a.parity /\ b.databits = a.databits /\ b.stopbit = a.stopbit
      /\ b.speed = a.speed /\ b.flow = control
      /\ control = "none" => ~b.stick /\ ~b.both /\ b.lost = {"param", "speed", "read"}
      /\ control # "none" => /\ b.stick = a.stick /\ b.lost = a.lost
                             /\ b.both <=> a.both \/ a.flow \notin {"none", control}
  BY FlowAsked
<1> HIDE DEF u, b
<1>3. CASE control = "none"
  <2>1. Parity(u) = 0 /\ u.size = 5 /\ "CSTOPB" \notin u.c
    BY <1>1, <1>3 DEF Parity
  <2>2. FlowAsAsked(u, b)
    BY <1>1, <1>2, <1>3 DEF FlowAsAsked
  <2> QED
    BY <1>1, <1>2, <1>3, <2>1, <2>2 DEF AsAskedOf, AsAsked, u, b
<1>4. CASE control # "none"
  <2>1. Parity(u) = Parity(t)
    BY <1>1, <1>4 DEF Parity
  <2>2. ParamAsAsked(t, a) => ParamAsAsked(u, b)
    BY <1>1, <1>2, <1>4, <2>1 DEF ParamAsAsked
  <2>3. SpeedAsAsked(t, a) => SpeedAsAsked(u, b)
    BY <1>1, <1>2, <1>4 DEF SpeedAsAsked
  <2>4. FlowAsAsked(u, b)
    <3>1. FlowAsAsked(t, a) /\ a.flow \in Controls /\ control \in {"hardware", "software"}
      BY <1>4 DEF AsAskedOf, AsAsked, Askeds, Controls
    <3>2. InForce(u) = InForce(t) \cup {control}
      BY <1>1, <1>4
    <3>3. b.flow = control /\ (b.both <=> a.both \/ a.flow \notin {"none", control})
      BY <1>2, <1>4
    <3>4. CASE a.both
      BY <3>1, <3>2, <3>3, <3>4 DEF FlowAsAsked
    <3>5. CASE ~a.both /\ a.flow \in {"none", control}
      BY <1>4, <3>1, <3>2, <3>3, <3>5 DEF FlowAsAsked
    <3>6. CASE ~a.both /\ a.flow \notin {"none", control}
      BY <3>1, <3>2, <3>3, <3>6 DEF FlowAsAsked, Controls
    <3> QED
      BY <3>4, <3>5, <3>6
  <2> QED
    BY <1>1, <1>2, <1>4, <2>1, <2>2, <2>3, <2>4 DEF AsAskedOf, AsAsked, u, b
<1> QED
  BY <1>3, <1>4

LEMMA PortSetPara ==
    ASSUME TypeOK, PortInv, NEW o \in Objs, NEW speed \in Speeds, NEW param \in Asks,
           NEW timeout \in Waits(history.mode), SetPara(o, speed, param, timeout)
    PROVE  PortInv'
<1> DEFINE p == obj[o].m_nPort
           u == SetSpeed(tio[p], speed)
           b == AskSpeed(asked[p], speed)
           t == SetParam(u, param)
           a == AskParam(b, param)
<1>1. p \in Ports /\ tio[p] \in Tios /\ asked[p] \in Askeds
  BY DEF TypeOK, Objects
<1>2. param \in SomeParams /\ speed \in 1 .. MaxSpeed
  BY AsksParams, SerialPortAssumption
<1>3. u \in Tios /\ b \in Askeds
  BY <1>1, <1>2, SpeedSet, SpeedAsked
<1>4. AsAskedOf(tio[p], asked[p]) => AsAskedOf(u, b)
  BY <1>1, <1>2, SpeedAsAskedFor
<1> HIDE DEF u, b
<1>5. t \in Tios /\ a \in Askeds
  BY <1>2, <1>3, ParamSet, ParamAsked
<1>6. AsAskedOf(tio[p], asked[p]) => AsAskedOf(t, a)
  BY <1>2, <1>3, <1>4, ParamAsAskedFor
<1>7. CASE fd_map[p]
  <2>1. Set(p, o, t, a, history)
    BY <1>7 DEF SetPara, u, b
  <2> HIDE DEF p, t, a
  <2> QED
    BY <1>1, <1>5, <1>6, <1>7, <2>1, PortSet
<1>8. CASE ~fd_map[p]
  BY <1>8, PortKept DEF SetPara
<1> QED
  BY <1>7, <1>8

LEMMA PortSetParam ==
    ASSUME TypeOK, PortInv, NEW p \in Ports, NEW param \in Asks, SerialSetParam(p, param)
    PROVE  PortInv'
<1> DEFINE t == SetParam(tio[p], param)
           a == AskParam(asked[p], param)
<1>1. tio[p] \in Tios /\ asked[p] \in Askeds /\ param \in SomeParams
  BY AsksParams DEF TypeOK
<1>2. t \in Tios /\ a \in Askeds /\ (AsAskedOf(tio[p], asked[p]) => AsAskedOf(t, a))
  BY <1>1, ParamSet, ParamAsked, ParamAsAskedFor
<1>3. Set(p, NoObj, t, a, history) /\ fd_map[p]
  BY DEF SerialSetParam
<1> HIDE DEF t, a
<1> QED
  BY <1>2, <1>3, PortSet

LEMMA PortControl ==
    ASSUME TypeOK, PortInv, NEW p \in Ports, NEW control \in Controls,
           SerialFlowControl(p, control)
    PROVE  PortInv'
<1> DEFINE t == FlowControl(tio[p], control)
           a == AskFlow(asked[p], control)
<1>1. tio[p] \in Tios /\ asked[p] \in Askeds
  BY DEF TypeOK
<1>2. t \in Tios /\ a \in Askeds /\ (AsAskedOf(tio[p], asked[p]) => AsAskedOf(t, a))
  BY <1>1, ControlSet, FlowAsked, FlowAsAskedFor
<1>3. Set(p, NoObj, t, a, history) /\ fd_map[p]
  BY DEF SerialFlowControl
<1> HIDE DEF t, a
<1> QED
  BY <1>2, <1>3, PortSet

(* A read, or a byte of the device, sets nothing. *)
LEMMA ReadsSetNothing ==
    ASSUME TypeOK, NEW o \in Objs, Read(o) \/ Reads(o) \/ \E p \in Ports : Receive(p)
    PROVE  /\ UNCHANGED <<fd_map, settings>>
           /\ history'.opener = history.opener
           /\ history'.reopened = history.reopened /\ history'.robbed = history.robbed
           /\ \A r \in Objs : obj'[r].m_b_open = obj[r].m_b_open /\ obj'[r].m_nPort = obj[r].m_nPort
<1> DEFINE Kept == /\ UNCHANGED <<fd_map, settings>>
                   /\ history'.opener = history.opener
                   /\ history'.reopened = history.reopened /\ history'.robbed = history.robbed
                   /\ \A r \in Objs : obj'[r].m_b_open = obj[r].m_b_open /\ obj'[r].m_nPort = obj[r].m_nPort
<1>0. history \in Histories /\ obj \in [Objs -> Objects]
  BY DEF TypeOK
<1>1. CASE Read(o)
  BY <1>0, <1>1 DEF Read, Objects
<1>6. ASSUME NEW p \in Ports, Receive(p)
      PROVE  Kept
  BY <1>6 DEF Receive
<1>2. ASSUME NEW next, Step(o, next)
      PROVE  Kept
  BY <1>0, <1>2 DEF Step, Histories, Objects
<1>3. ASSUME NEW w, Again(o, w)
      PROVE  Kept
  BY <1>0, <1>3 DEF Again, Objects
<1>4. CASE ReadSome(o)
  <2>1. history' = [history EXCEPT !.disturbed = history.disturbed \cup Readers(obj[o].m_nPort, o)]
    <3> DEFINE p == obj[o].m_nPort
    <3>1. history' = Disturb(history, p, o)
      BY <1>4 DEF ReadSome
    <3> HIDE DEF p
    <3>2. Disturb(history, p, o) = [history EXCEPT !.disturbed = history.disturbed \cup Readers(p, o)]
      BY <1>0, Disturbed
    <3> QED
      BY <3>1, <3>2 DEF p
  <2>2. /\ history'.opener = history.opener
        /\ history'.reopened = history.reopened /\ history'.robbed = history.robbed
    BY <1>0, <2>1 DEF Histories
  <2>3. \A r \in Objs : obj'[r].m_b_open = obj[r].m_b_open /\ obj'[r].m_nPort = obj[r].m_nPort
    BY <1>0, <1>4 DEF ReadSome, Objects
  <2> QED
    BY <1>4, <2>2, <2>3 DEF ReadSome
<1>5. CASE ReadFails(o)
  BY <1>0, <1>5 DEF ReadFails, Histories, Objects
<1> QED
  <2>1. CASE TestInput(o) \/ TestNothing(o)
    BY <1>2, <2>1 DEF TestInput, TestNothing
  <2>2. CASE Pause(o)
    BY <1>2, <1>3, <2>2 DEF Pause
  <2> QED
    BY <1>1, <1>4, <1>5, <1>6, <2>1, <2>2 DEF Reads

LEMMA PortStep ==
    ASSUME TypeOK, PortInv, [Next]_vars
    PROVE  PortInv'
<1>1. CASE UNCHANGED vars
  BY <1>1 DEF PortInv, vars
<1>2. ASSUME NEW o \in Objs, Read(o) \/ Reads(o)
      PROVE  PortInv'
  BY <1>2, ReadsSetNothing, PortKept
<1>3. ASSUME NEW p \in Ports, Receive(p)
      PROVE  PortInv'
  BY <1>3, PortKept DEF Receive
<1> QED
  BY <1>1, <1>2, <1>3, PortOpen, PortClose, PortSetPara, PortSetParam, PortControl DEF Next

---------------------------------------------------------------------------
(* Who closes what. *)
LEMMA OwnerKept ==
    ASSUME OwnerInv, fd_map' = fd_map, TypeOK,
           history'.opener = history.opener,
           history'.reopened = history.reopened, history'.robbed = history.robbed,
           \A r \in Objs : obj'[r].m_b_open = obj[r].m_b_open /\ obj'[r].m_nPort = obj[r].m_nPort
    PROVE  OwnerInv'
<1> USE DEF OwnerInv, ClosesItsOwn
<1>1. \A p \in Ports : fd_map'[p] => history'.opener[p] \in Objs
  OBVIOUS
<1>2. \A p \in Ports : fd_map'[p] /\ history'.opener[p] \notin history'.reopened =>
         obj'[history'.opener[p]].m_b_open /\ obj'[history'.opener[p]].m_nPort = p
  BY <1>1
<1>3. \A o \in Objs \ (history'.reopened \cup history'.robbed) : obj'[o].m_b_open =>
         fd_map'[obj'[o].m_nPort] /\ history'.opener[obj'[o].m_nPort] = o
  OBVIOUS
<1>4. history'.reopened = {} => history'.robbed = {}
  OBVIOUS
<1> QED
  BY <1>1, <1>2, <1>3, <1>4

LEMMA OwnerOpen ==
    ASSUME TypeOK, OwnerInv, NEW o \in Objs, NEW p \in Ports, Open(o, p)
    PROVE  OwnerInv'
<1> DEFINE h == [history EXCEPT !.reopened = IF obj[o].m_b_open THEN @ \cup {o} ELSE @]
<1>0. history \in Histories /\ obj \in [Objs -> Objects]
  BY DEF TypeOK
<1>1. /\ h \in Histories /\ h.opener = history.opener /\ h.robbed = history.robbed
      /\ history.reopened \subseteq h.reopened
      /\ obj[o].m_b_open => o \in h.reopened
  BY <1>0 DEF Histories
<1> HIDE DEF h
<1>2. CASE /\ obj' = [obj EXCEPT ![o].m_nPort = p, ![o].pc = "idle"]
           /\ history' = h /\ UNCHANGED <<fd_map, settings, input>>
  <2>1. /\ fd_map' = fd_map /\ history'.opener = history.opener /\ history'.robbed = history.robbed
        /\ history.reopened \subseteq history'.reopened
        /\ obj[o].m_b_open => o \in history'.reopened
    BY <1>1, <1>2
  <2>2. obj'[o].m_b_open = obj[o].m_b_open
    BY <1>0, <1>2 DEF Objects
  <2>3. \A r \in Objs \ {o} : obj'[r] = obj[r]
    BY <1>0, <1>2
  <2>4. \A q \in Ports : fd_map'[q] => history'.opener[q] \in Objs
    BY <2>1 DEF OwnerInv
  <2>5. ASSUME NEW q \in Ports, fd_map'[q], history'.opener[q] \notin history'.reopened
        PROVE  obj'[history'.opener[q]].m_b_open /\ obj'[history'.opener[q]].m_nPort = q
    <3>1. obj[history.opener[q]].m_b_open /\ obj[history.opener[q]].m_nPort = q
      BY <2>1, <2>5 DEF OwnerInv, ClosesItsOwn
    <3>2. history.opener[q] # o
      BY <2>1, <2>5, <3>1
    <3> QED
      BY <2>1, <2>3, <2>4, <2>5, <3>1, <3>2
  <2>6. ASSUME NEW r \in Objs \ (history'.reopened \cup history'.robbed), obj'[r].m_b_open
        PROVE  fd_map'[obj'[r].m_nPort] /\ history'.opener[obj'[r].m_nPort] = r
    <3>1. r # o
      BY <2>1, <2>2, <2>6
    <3>2. r \in Objs \ (history.reopened \cup history.robbed) /\ obj[r].m_b_open
      BY <2>1, <2>3, <2>6, <3>1
    <3>3. fd_map[obj[r].m_nPort] /\ history.opener[obj[r].m_nPort] = r
      BY <3>2 DEF OwnerInv, ClosesItsOwn
    <3> QED
      BY <2>1, <2>3, <3>1, <3>3
  <2>7. history'.reopened = {} => history'.robbed = {}
    BY <2>1 DEF OwnerInv, ClosesItsOwn
  <2> QED
    BY <2>4, <2>5, <2>6, <2>7 DEF OwnerInv, ClosesItsOwn
<1>3. CASE /\ ~fd_map[p] /\ OpenPort(o, p)
           /\ obj' = [obj EXCEPT ![o].m_nPort = p, ![o].m_b_open = TRUE, ![o].pc = "idle"]
           /\ history' = [Disturb(h, p, o) EXCEPT !.opener[p] = o]
  <2> DEFINE d == Disturb(h, p, o)
  <2>a. d \in Histories /\ d.opener = h.opener /\ d.robbed = h.robbed /\ d.reopened = h.reopened
    <3>1. d \in Histories /\ d = [h EXCEPT !.disturbed = h.disturbed \cup Readers(p, o)]
      BY <1>1, Disturbed
    <3> HIDE DEF d
    <3> QED
      BY <1>1, <3>1 DEF Histories
  <2>b. history' = [d EXCEPT !.opener[p] = o]
    BY <1>3
  <2> HIDE DEF d
  <2>1. /\ history'.opener = [history.opener EXCEPT ![p] = o] /\ history'.robbed = history.robbed
        /\ history.reopened \subseteq history'.reopened
        /\ obj[o].m_b_open => o \in history'.reopened
    BY <1>1, <2>a, <2>b DEF Histories
  <2>2. obj'[o].m_b_open /\ obj'[o].m_nPort = p
    BY <1>0, <1>3 DEF Objects
  <2>3. \A r \in Objs \ {o} : obj'[r] = obj[r]
    BY <1>0, <1>3
  <2>c. fd_map' = [fd_map EXCEPT ![p] = TRUE]
    BY <1>3 DEF OpenPort
  <2>d. fd_map'[p] /\ history'.opener[p] = o
    BY <1>0, <2>1, <2>c DEF TypeOK, Histories
  <2>e. \A q \in Ports \ {p} : fd_map'[q] = fd_map[q] /\ history'.opener[q] = history.opener[q]
    BY <1>0, <2>1, <2>c DEF TypeOK, Histories
  <2>4. \A q \in Ports : fd_map'[q] => history'.opener[q] \in Objs
    BY <2>d, <2>e DEF OwnerInv
  <2>5. ASSUME NEW q \in Ports, fd_map'[q], history'.opener[q] \notin history'.reopened
        PROVE  obj'[history'.opener[q]].m_b_open /\ obj'[history'.opener[q]].m_nPort = q
    <3>1. CASE q = p
      BY <2>2, <2>d, <3>1
    <3>2. CASE q # p
      <4>1. obj[history.opener[q]].m_b_open /\ obj[history.opener[q]].m_nPort = q
        BY <2>1, <2>5, <2>e, <3>2 DEF OwnerInv, ClosesItsOwn
      <4>2. history.opener[q] # o
        BY <2>1, <2>5, <2>e, <3>2, <4>1
      <4> QED
        BY <2>3, <2>4, <2>5, <2>e, <3>2, <4>1, <4>2
    <3> QED
      BY <3>1, <3>2
  <2>6. ASSUME NEW r \in Objs \ (history'.reopened \cup history'.robbed), obj'[r].m_b_open
        PROVE  fd_map'[obj'[r].m_nPort] /\ history'.opener[obj'[r].m_nPort] = r
    <3>1. CASE r = o
      BY <2>2, <2>d, <3>1
    <3>2. CASE r # o
      <4>1. r \in Objs \ (history.reopened \cup history.robbed) /\ obj[r].m_b_open
        BY <2>1, <2>3, <2>6, <3>2
      <4>2. fd_map[obj[r].m_nPort] /\ history.opener[obj[r].m_nPort] = r
        BY <4>1 DEF OwnerInv, ClosesItsOwn
      <4>3. obj[r].m_nPort \in Ports \ {p}
        BY <1>0, <1>3, <4>2 DEF Objects
      <4> QED
        BY <2>3, <2>e, <3>2, <4>2, <4>3
    <3> QED
      BY <3>1, <3>2
  <2>7. history'.reopened = {} => history'.robbed = {}
    BY <2>1 DEF OwnerInv, ClosesItsOwn
  <2> QED
    BY <2>4, <2>5, <2>6, <2>7 DEF OwnerInv, ClosesItsOwn
<1> QED
  BY <1>2, <1>3 DEF Open, h

LEMMA OwnerClose ==
    ASSUME TypeOK, OwnerInv, NEW o \in Objs, Close(o)
    PROVE  OwnerInv'
<1> DEFINE p == obj[o].m_nPort
           d == Disturb(history, p, o)
<1>0. history \in Histories /\ obj \in [Objs -> Objects]
  BY DEF TypeOK
<1>1. p \in Ports /\ fd_map[p] /\ obj[o].m_b_open /\ history.opener[p] \in Objs
  BY <1>0 DEF Close, Objects, OwnerInv
<1>2. d \in Histories /\ d.opener = history.opener /\ d.robbed = history.robbed /\ d.reopened = history.reopened
  <2>1. d \in Histories /\ d = [history EXCEPT !.disturbed = history.disturbed \cup Readers(p, o)]
    <3> HIDE DEF p
    <3> QED
      BY <1>0, Disturbed
  <2> HIDE DEF d
  <2> QED
    BY <1>0, <2>1 DEF Histories
<1>3. history' = [d EXCEPT !.opener[p] = NoObj, !.robbed = @ \cup ({history.opener[p]} \ {o})]
  BY DEF Close
<1> HIDE DEF d
<1>4. /\ history'.opener = [history.opener EXCEPT ![p] = NoObj]
      /\ history'.robbed = history.robbed \cup ({history.opener[p]} \ {o})
      /\ history'.reopened = history.reopened
  BY <1>2, <1>3 DEF Histories
<1>5. ~obj'[o].m_b_open /\ \A r \in Objs \ {o} : obj'[r] = obj[r]
  BY <1>0 DEF Close, Objects
<1>6. ~fd_map'[p] /\ \A q \in Ports \ {p} : fd_map'[q] = fd_map[q]
  BY <1>1 DEF Close, TypeOK
<1>7. \A q \in Ports \ {p} : history'.opener[q] = history.opener[q]
  BY <1>0, <1>4 DEF Histories
<1>q. obj[o].m_nPort = p
  OBVIOUS
<1> HIDE DEF p
<1>8. \A q \in Ports : fd_map'[q] => history'.opener[q] \in Objs
  BY <1>6, <1>7 DEF OwnerInv
<1>9. ASSUME NEW q \in Ports, fd_map'[q], history'.opener[q] \notin history'.reopened
      PROVE  obj'[history'.opener[q]].m_b_open /\ obj'[history'.opener[q]].m_nPort = q
  <2>1. q # p /\ fd_map[q] /\ history.opener[q] \notin history.reopened
    BY <1>4, <1>6, <1>7, <1>9
  <2>2. obj[history.opener[q]].m_b_open /\ obj[history.opener[q]].m_nPort = q /\ history.opener[q] \in Objs
    BY <2>1 DEF OwnerInv, ClosesItsOwn
  <2>3. history.opener[q] # o
    BY <1>q, <2>1, <2>2
  <2> QED
    BY <1>5, <1>7, <2>1, <2>2, <2>3
<1>10. ASSUME NEW r \in Objs \ (history'.reopened \cup history'.robbed), obj'[r].m_b_open
       PROVE  fd_map'[obj'[r].m_nPort] /\ history'.opener[obj'[r].m_nPort] = r
  <2>1. r # o /\ r \in Objs \ (history.reopened \cup history.robbed) /\ obj[r].m_b_open
    BY <1>4, <1>5, <1>10
  <2>2. fd_map[obj[r].m_nPort] /\ history.opener[obj[r].m_nPort] = r
    BY <2>1 DEF OwnerInv, ClosesItsOwn
  <2>3. obj[r].m_nPort # p
    BY <1>4, <1>10, <2>1, <2>2
  <2>4. obj[r].m_nPort \in Ports
    BY <1>0 DEF Objects
  <2> QED
    BY <1>5, <1>6, <1>7, <2>1, <2>2, <2>3, <2>4
<1>11. history'.reopened = {} => history'.robbed = {}
  <2> SUFFICES ASSUME history'.reopened = {} PROVE history'.robbed = {}
    OBVIOUS
  <2>1. history.reopened = {} /\ history.robbed = {}
    BY <1>4 DEF OwnerInv, ClosesItsOwn
  <2>2. history.opener[p] = o
    BY <1>1, <1>q, <2>1 DEF OwnerInv, ClosesItsOwn
  <2> QED
    BY <1>4, <2>1, <2>2
<1> QED
  BY <1>8, <1>9, <1>10, <1>11 DEF OwnerInv, ClosesItsOwn

(* A call that changes settings leaves the port to whoever has it. *)
LEMMA SetKeepsOwner ==
    ASSUME TypeOK, NEW p, NEW o, NEW t, NEW a, NEW h \in Histories, Set(p, o, t, a, h)
    PROVE  /\ fd_map' = fd_map /\ history'.opener = h.opener
           /\ history'.reopened = h.reopened /\ history'.robbed = h.robbed
<1>1. history' = [h EXCEPT !.disturbed = h.disturbed \cup Readers(p, o)]
  BY Disturbed DEF Set
<1> QED
  BY <1>1 DEF Set, Histories

LEMMA OwnerSet ==
    ASSUME TypeOK, OwnerInv,
           \/ \E o \in Objs : \E speed \in Speeds, param \in Asks, timeout \in Waits(history.mode) :
                 SetPara(o, speed, param, timeout)
           \/ \E p \in Ports : \E param \in Asks : SerialSetParam(p, param)
           \/ \E p \in Ports : \E control \in Controls : SerialFlowControl(p, control)
    PROVE  OwnerInv'
<1>0. history \in Histories /\ obj \in [Objs -> Objects]
  BY DEF TypeOK
<1>1. ASSUME NEW o \in Objs, NEW speed \in Speeds, NEW param \in Asks, NEW timeout \in Waits(history.mode),
             SetPara(o, speed, param, timeout)
      PROVE  OwnerInv'
  <2> DEFINE p == obj[o].m_nPort
             t == SetParam(SetSpeed(tio[p], speed), param)
             a == AskParam(AskSpeed(asked[p], speed), param)
  <2>1. \A r \in Objs : obj'[r].m_b_open = obj[r].m_b_open /\ obj'[r].m_nPort = obj[r].m_nPort
    BY <1>0, <1>1 DEF SetPara, Objects
  <2>2. Set(p, o, t, a, history) \/ UNCHANGED <<fd_map, history>>
    BY <1>1 DEF SetPara
  <2> HIDE DEF p, t, a
  <2> QED
    BY <1>0, <2>1, <2>2, SetKeepsOwner, OwnerKept
<1>2. ASSUME NEW p \in Ports, NEW t, NEW a, NEW h \in Histories, Set(p, NoObj, t, a, h), obj' = obj,
             h.opener = history.opener, h.reopened = history.reopened, h.robbed = history.robbed
      PROVE  OwnerInv'
  BY <1>2, SetKeepsOwner, OwnerKept
<1>3. ASSUME NEW p \in Ports, NEW param \in Asks, SerialSetParam(p, param)
      PROVE  OwnerInv'
  BY <1>0, <1>2, <1>3 DEF SerialSetParam
<1>4. ASSUME NEW p \in Ports, NEW control \in Controls, SerialFlowControl(p, control)
      PROVE  OwnerInv'
  BY <1>0, <1>2, <1>4 DEF SerialFlowControl
<1> QED
  BY <1>1, <1>3, <1>4

LEMMA OwnerStep ==
    ASSUME TypeOK, OwnerInv, [Next]_vars
    PROVE  OwnerInv'
<1>1. CASE UNCHANGED vars
  BY <1>1, OwnerKept DEF vars
<1>2. ASSUME NEW o \in Objs, Read(o) \/ Reads(o)
      PROVE  OwnerInv'
  BY <1>2, ReadsSetNothing, OwnerKept
<1>3. ASSUME NEW p \in Ports, Receive(p)
      PROVE  OwnerInv'
  BY <1>3, OwnerKept DEF Receive
<1> QED
  BY <1>1, <1>2, <1>3, OwnerOpen, OwnerClose, OwnerSet DEF Next

---------------------------------------------------------------------------
(* Where the reads are. *)
LEMMA InputStep ==
    ASSUME TypeOK, InputInv, [Next]_vars
    PROVE  InputInv'
<1>1. ASSUME UNCHANGED sent, NEW q \in Ports, input' = [input EXCEPT ![q] = <<>>]
      PROVE  InputInv'
  <2>1. Len(input'[q]) = 0 /\ \A p \in Ports \ {q} : input'[p] = input[p]
    BY <1>1 DEF TypeOK
  <2> QED
    BY <1>1, <2>1 DEF InputInv
<1>2. ASSUME UNCHANGED <<sent, input>>
      PROVE  InputInv'
  BY <1>2 DEF InputInv
<1>3. ASSUME NEW o \in Objs, ReadSome(o)
      PROVE  InputInv'
  <2> DEFINE p == obj[o].m_nPort
             s == input[p]
             n == IF Len(s) < Chunk THEN Len(s) ELSE Chunk
             rest == SubSeq(s, n + 1, Len(s))
  <2>1. p \in Ports /\ s \in Seq(Nat) /\ Len(s) \in Nat /\ sent[p] \in Nat
    BY DEF TypeOK, Objects
  <2>2. n \in Nat /\ n <= Len(s)
    BY <2>1, SerialPortAssumption
  <2>3. input' = [input EXCEPT ![p] = rest] /\ sent' = sent
    BY <1>3 DEF ReadSome
  <2>4. \A i \in 1 .. Len(s) : s[i] = sent[p] - Len(s) + i
    BY <2>1 DEF InputInv
  <2> HIDE DEF n
  <2>5. Len(rest) = Len(s) - n /\ \A i \in 1 .. Len(s) - n : rest[i] = s[i + n]
    BY <2>1, <2>2, Taken
  <2> HIDE DEF rest, s
  <2>6. \A i \in 1 .. Len(rest) : rest[i] = sent[p] - Len(rest) + i
    <3> TAKE i \in 1 .. Len(rest)
    <3>1. rest[i] = s[i + n] /\ i + n \in 1 .. Len(s)
      BY <2>1, <2>2, <2>5
    <3>2. s[i + n] = sent[p] - Len(s) + (i + n)
      BY <2>4, <3>1
    <3> QED
      BY <2>1, <2>2, <2>5, <3>1, <3>2
  <2>7. input'[p] = rest /\ \A q \in Ports \ {p} : input'[q] = input[q]
    BY <2>1, <2>3 DEF TypeOK
  <2> HIDE DEF p
  <2> QED
    BY <2>3, <2>6, <2>7 DEF InputInv
<1>4. ASSUME NEW p \in Ports, Receive(p)
      PROVE  InputInv'
  <2>1. input[p] \in Seq(Nat) /\ sent[p] \in Nat /\ Len(input[p]) \in Nat
    BY DEF TypeOK
  <2>2. /\ sent'[p] = sent[p] + 1 /\ input'[p] = Append(input[p], sent[p] + 1)
        /\ \A q \in Ports \ {p} : input'[q] = input[q] /\ sent'[q] = sent[q]
    BY <1>4 DEF Receive, TypeOK
  <2>3. \A i \in 1 .. Len(input[p]) : input[p][i] = sent[p] - Len(input[p]) + i
    BY DEF InputInv
  <2>4. Len(input'[p]) = Len(input[p]) + 1
    BY <2>1, <2>2
  <2>5. \A i \in 1 .. Len(input'[p]) : input'[p][i] = sent'[p] - Len(input'[p]) + i
    <3> TAKE i \in 1 .. Len(input'[p])
    <3>1. CASE i = Len(input[p]) + 1
      <4>1. input'[p][i] = sent[p] + 1
        BY <2>1, <2>2, <3>1
      <4> QED
        BY <2>1, <2>2, <2>4, <3>1, <4>1
    <3>2. CASE i \in 1 .. Len(input[p])
      <4>1. input'[p][i] = input[p][i]
        BY <2>1, <2>2, <3>2
      <4> QED
        BY <2>1, <2>2, <2>3, <2>4, <3>2, <4>1
    <3> QED
      BY <2>1, <2>4, <3>1, <3>2
  <2> QED
    BY <2>2, <2>5 DEF InputInv
<1>5. ASSUME NEW o \in Objs, NEW p \in Ports, Open(o, p)
      PROVE  InputInv'
  BY <1>1, <1>2, <1>5 DEF Open, OpenPort
<1>6. ASSUME NEW o \in Objs, Close(o)
      PROVE  InputInv'
  BY <1>1, <1>6 DEF Close, TypeOK, Objects
<1>7. ASSUME NEW o \in Objs, Read(o) \/ TestInput(o) \/ TestNothing(o) \/ ReadFails(o) \/ Pause(o)
      PROVE  InputInv'
  BY <1>2, <1>7 DEF Read, TestInput, TestNothing, ReadFails, Pause, Step, Again
<1>8. ASSUME NEW o \in Objs, NEW speed, NEW param, NEW timeout, SetPara(o, speed, param, timeout)
      PROVE  InputInv'
  <2>1. obj[o].m_nPort \in Ports
    BY DEF TypeOK, Objects
  <2> QED
    BY <1>1, <1>2, <1>8, <2>1 DEF SetPara, Set
<1>9. ASSUME NEW p \in Ports, \/ \E param \in Asks : SerialSetParam(p, param)
                              \/ \E control \in Controls : SerialFlowControl(p, control)
      PROVE  InputInv'
  BY <1>1, <1>9 DEF SerialSetParam, SerialFlowControl, Set
<1>10. CASE UNCHANGED vars
  BY <1>2, <1>10 DEF vars
<1> QED
  BY <1>3, <1>4, <1>5, <1>6, <1>7, <1>8, <1>9, <1>10 DEF Next, Reads

(* An object r whose read goes on as it was: nobody has touched its port,   *)
(* or who has was noted.  A byte more that waits changes nothing for it.   *)
LEMMA ReadKept ==
    ASSUME TypeOK, NEW r \in Objs, ReadOf(r),
           obj'[r].m_nPort = obj[r].m_nPort, obj'[r].pc = obj[r].pc, obj'[r].buf = obj[r].buf,
           r \in history.disturbed => r \in history'.disturbed,
           \/ r \in history'.disturbed
           \/ obj[r].pc \notin {"test", "read"}
           \/ LET p == obj[r].m_nPort IN
              /\ fd_map'[p] = fd_map[p]
              /\ sent'[p] - Len(input'[p]) = sent[p] - Len(input[p])
              /\ input[p] # <<>> => input'[p] # <<>>
    PROVE  ReadOf(r)'
<1>1. CASE r \in history'.disturbed \/ obj[r].pc \notin {"test", "read"}
  BY <1>1 DEF ReadOf
<1>2. CASE LET p == obj[r].m_nPort IN
           /\ fd_map'[p] = fd_map[p]
           /\ sent'[p] - Len(input'[p]) = sent[p] - Len(input[p])
           /\ input[p] # <<>> => input'[p] # <<>>
  BY <1>2 DEF ReadOf
<1> QED
  BY <1>1, <1>2

(* What another does to port p is noted of those that read it. *)
LEMMA OthersDisturbed ==
    ASSUME TypeOK, NEW p \in Ports, NEW o, NEW h \in Histories, NEW r \in Objs \ {o}, ReadOf(r),
           h.disturbed = history.disturbed, history'.disturbed = Disturb(h, p, o).disturbed,
           obj'[r] = obj[r],
           \A q \in Ports \ {p} : fd_map'[q] = fd_map[q] /\ sent'[q] = sent[q] /\ input'[q] = input[q]
    PROVE  ReadOf(r)'
<1>1. history'.disturbed = history.disturbed \cup Readers(p, o)
  BY Disturbed
<1>2. obj[r].m_nPort \in Ports
  BY DEF TypeOK, Objects
<1>3. CASE obj[r].m_nPort = p /\ obj[r].pc \in {"test", "read"}
  <2>1. r \in Readers(p, o)
    BY <1>3 DEF Readers
  <2> QED
    BY <1>1, <2>1, ReadKept
<1>4. CASE obj[r].m_nPort # p
  BY <1>1, <1>2, <1>4, ReadKept
<1>5. CASE obj[r].pc \notin {"test", "read"}
  BY <1>1, <1>5, ReadKept
<1> QED
  BY <1>3, <1>4, <1>5

(* An object that is in no read has nothing, and starts with nothing. *)
LEMMA NothingRead ==
    ASSUME NEW r \in Objs, obj'[r].buf = <<>>, obj'[r].pc # "read"
    PROVE  ReadOf(r)'
<1>1. Len(obj'[r].buf) = 0 /\ Chunk \in Nat \ {0}
  BY SerialPortAssumption
<1> QED
  BY <1>1 DEF ReadOf

LEMMA ReadOpen ==
    ASSUME TypeOK, ReadInv, NEW o \in Objs, NEW p \in Ports, Open(o, p), NEW r \in Objs
    PROVE  ReadOf(r)'
<1> DEFINE h == [history EXCEPT !.reopened = IF obj[o].m_b_open THEN @ \cup {o} ELSE @]
<1>0. obj \in [Objs -> Objects] /\ obj[o] \in Objects /\ ReadOf(r) /\ ReadOf(o)
  BY DEF TypeOK, ReadInv
<1>1. h \in Histories /\ h.disturbed = history.disturbed
  BY DEF TypeOK, Histories
<1> HIDE DEF h
<1>2. obj[o].buf = <<>>
  BY <1>0 DEF Open, ReadOf
<1>3. obj'[o].buf = <<>> /\ obj'[o].pc = "idle" /\ \A q \in Objs \ {o} : obj'[q] = obj[q]
  BY <1>0, <1>2 DEF Open, Objects
<1>4. CASE r = o
  BY <1>3, <1>4, NothingRead
<1>5. CASE r # o /\ history' = h /\ UNCHANGED <<fd_map, settings, input, sent>>
  BY <1>0, <1>1, <1>3, <1>5, ReadKept
<1>6. CASE /\ r # o /\ OpenPort(o, p) /\ sent' = sent
           /\ history' = [Disturb(h, p, o) EXCEPT !.opener[p] = o]
  <2>1. history'.disturbed = Disturb(h, p, o).disturbed
    <3>1. Disturb(h, p, o) \in Histories
      BY <1>1, Disturbed
    <3> QED
      BY <1>6, <3>1 DEF Histories
  <2>2. \A q \in Ports \ {p} : fd_map'[q] = fd_map[q] /\ sent'[q] = sent[q] /\ input'[q] = input[q]
    BY <1>6 DEF OpenPort, TypeOK
  <2> QED
    BY <1>0, <1>1, <1>3, <1>6, <2>1, <2>2, OthersDisturbed
<1> QED
  BY <1>4, <1>5, <1>6 DEF Open, h

LEMMA ReadClose ==
    ASSUME TypeOK, ReadInv, NEW o \in Objs, Close(o), NEW r \in Objs
    PROVE  ReadOf(r)'
<1> DEFINE p == obj[o].m_nPort
<1>0. /\ obj \in [Objs -> Objects] /\ ReadOf(r) /\ ReadOf(o)
      /\ history \in Histories /\ p \in Ports
  BY DEF TypeOK, ReadInv, Objects
<1>1. obj[o].buf = <<>>
  BY <1>0 DEF Close, Idle, ReadOf
<1>2. obj'[o].buf = <<>> /\ obj'[o].pc = "idle" /\ \A q \in Objs \ {o} : obj'[q] = obj[q]
  BY <1>0, <1>1 DEF Close, Idle, Objects
<1>3. history' = [Disturb(history, p, o) EXCEPT !.opener[p] = NoObj, !.robbed = @ \cup ({history.opener[p]} \ {o})]
  BY DEF Close
<1>4. \A q \in Ports \ {p} : fd_map'[q] = fd_map[q] /\ sent'[q] = sent[q] /\ input'[q] = input[q]
  BY <1>0 DEF Close, TypeOK
<1> HIDE DEF p
<1>5. history'.disturbed = Disturb(history, p, o).disturbed
  <2>1. Disturb(history, p, o) \in Histories
    BY <1>0, Disturbed
  <2> QED
    BY <1>3, <2>1 DEF Histories
<1> QED
  BY <1>0, <1>2, <1>4, <1>5, NothingRead, OthersDisturbed

(* A call that changes settings, by an object that is in no read or by none.*)
LEMMA ReadSet ==
    ASSUME TypeOK, ReadInv, NEW p \in Ports, NEW o, NEW t, NEW a, NEW h \in Histories, Set(p, o, t, a, h),
           h.disturbed = history.disturbed, NEW r \in Objs \ {o}, obj'[r] = obj[r]
    PROVE  ReadOf(r)'
<1>1. ReadOf(r) /\ history'.disturbed = Disturb(h, p, o).disturbed
  BY DEF Set, ReadInv
<1>2. \A q \in Ports \ {p} : fd_map'[q] = fd_map[q] /\ sent'[q] = sent[q] /\ input'[q] = input[q]
  BY DEF Set, TypeOK
<1> QED
  BY <1>1, <1>2, OthersDisturbed

LEMMA ReadSetPara ==
    ASSUME TypeOK, ReadInv, NEW o \in Objs, NEW speed, NEW param, NEW timeout,
           SetPara(o, speed, param, timeout), NEW r \in Objs
    PROVE  ReadOf(r)'
<1> DEFINE p == obj[o].m_nPort
           t == SetParam(SetSpeed(tio[p], speed), param)
           a == AskParam(AskSpeed(asked[p], speed), param)
<1>0. /\ obj \in [Objs -> Objects] /\ ReadOf(r) /\ ReadOf(o)
      /\ history \in Histories /\ p \in Ports
  BY DEF TypeOK, ReadInv, Objects
<1>1. obj[o].buf = <<>>
  BY <1>0 DEF SetPara, Idle, ReadOf
<1>2. /\ obj'[o].buf = <<>> /\ obj'[o].pc = "idle" /\ \A q \in Objs \ {o} : obj'[q] = obj[q]
      /\ obj'[o].m_nPort = obj[o].m_nPort
  BY <1>0, <1>1 DEF SetPara, Idle, Objects
<1>3. Set(p, o, t, a, history) \/ UNCHANGED <<fd_map, settings, input, sent, history>>
  BY DEF SetPara
<1> HIDE DEF p, t, a
<1>4. CASE r = o
  BY <1>2, <1>4, NothingRead
<1>5. CASE r # o /\ Set(p, o, t, a, history)
  BY <1>0, <1>2, <1>5, ReadSet
<1>6. CASE r # o /\ UNCHANGED <<fd_map, settings, input, sent, history>>
  BY <1>0, <1>2, <1>6, ReadKept
<1> QED
  BY <1>3, <1>4, <1>5, <1>6

LEMMA ReadDirect ==
    ASSUME TypeOK, ReadInv, NEW p \in Ports,
           \/ \E param \in Asks : SerialSetParam(p, param)
           \/ \E control \in Controls : SerialFlowControl(p, control),
           NEW r \in Objs
    PROVE  ReadOf(r)'
<1>0. history \in Histories /\ r \in Objs \ {NoObj}
  BY SerialPortAssumption DEF TypeOK
<1>1. ASSUME NEW t, NEW a, NEW h \in Histories, Set(p, NoObj, t, a, h), obj' = obj, h.disturbed = history.disturbed
      PROVE  ReadOf(r)'
  BY <1>0, <1>1, ReadSet
<1>2. ASSUME NEW param \in Asks, SerialSetParam(p, param)
      PROVE  ReadOf(r)'
  BY <1>0, <1>1, <1>2 DEF SerialSetParam
<1>3. ASSUME NEW control \in Controls, SerialFlowControl(p, control)
      PROVE  ReadOf(r)'
  BY <1>0, <1>1, <1>3 DEF SerialFlowControl
<1> QED
  BY <1>2, <1>3

(* A step of o's own read, r being o or another. *)
LEMMA ReadOn ==
    ASSUME TypeOK, ReadInv, NEW o \in Objs, NEW next \in {"idle", "wait", "read", "test"}, Step(o, next),
           next = "wait" \/ next = "test" => obj[o].buf = <<>>,
           next = "read" => LET p == obj[o].m_nPort IN
               obj[o].pc = "test" /\ Len(obj[o].buf) < Chunk /\ fd_map[p] /\ input[p] # <<>>,
           NEW r \in Objs
    PROVE  ReadOf(r)'
<1>0. /\ obj \in [Objs -> Objects] /\ ReadOf(r) /\ ReadOf(o) /\ history \in Histories
  BY DEF TypeOK, ReadInv
<1>1. /\ \A q \in Objs \ {o} : obj'[q] = obj[q]
      /\ obj'[o].pc = next /\ obj'[o].m_nPort = obj[o].m_nPort
      /\ obj'[o].buf = IF next = "idle" THEN <<>> ELSE obj[o].buf
  BY <1>0 DEF Step, Objects
<1>2. /\ history'.disturbed = IF next = "idle" THEN history.disturbed \ {o} ELSE history.disturbed
      /\ UNCHANGED <<fd_map, input, sent>>
  BY <1>0 DEF Step, Histories
<1>3. CASE r # o
  BY <1>0, <1>1, <1>2, <1>3, ReadKept
<1>4. CASE r = o /\ next # "read"
  BY <1>1, <1>4, NothingRead
<1>5. CASE r = o /\ next = "read"
  BY <1>0, <1>1, <1>2, <1>5 DEF ReadOf
<1> QED
  BY <1>3, <1>4, <1>5

LEMMA ReadMore ==
    ASSUME TypeOK, InputInv, ReadInv, NEW o \in Objs, ReadSome(o), NEW r \in Objs
    PROVE  ReadOf(r)'
<1> DEFINE p == obj[o].m_nPort
           s == input[p]
           n == IF Len(s) < Chunk THEN Len(s) ELSE Chunk
           buf == obj[o].buf
           head == SubSeq(s, 1, n)
           rest == SubSeq(s, n + 1, Len(s))
<1>a. ReadOf(r) /\ ReadOf(o)
  BY DEF ReadInv
<1>b. /\ obj \in [Objs -> Objects] /\ history \in Histories
      /\ input \in [Ports -> Seq(Nat)] /\ sent \in [Ports -> Nat]
  BY DEF TypeOK
<1>c. p \in Ports /\ buf \in Seq(Nat) /\ Len(buf) \in Nat
  BY <1>b DEF Objects
<1>d. s \in Seq(Nat) /\ Len(s) \in Nat /\ sent[p] \in Nat
  <2> HIDE DEF p
  <2> QED
    BY <1>b, <1>c
<1>0. /\ obj \in [Objs -> Objects] /\ ReadOf(r) /\ ReadOf(o) /\ history \in Histories
      /\ p \in Ports /\ s \in Seq(Nat) /\ Len(s) \in Nat /\ sent[p] \in Nat
      /\ buf \in Seq(Nat) /\ Len(buf) \in Nat
  BY <1>a, <1>b, <1>c, <1>d
<1>1. n \in Nat /\ n <= Len(s) /\ n <= Chunk /\ Chunk \in Nat
  BY <1>0, SerialPortAssumption
<1>2. /\ obj' = [obj EXCEPT ![o].pc = "test", ![o].buf = buf \o head]
      /\ input' = [input EXCEPT ![p] = rest]
      /\ history' = Disturb(history, p, o) /\ fd_map' = fd_map /\ sent' = sent
      /\ obj[o].pc = "read"
  BY DEF ReadSome
<1>3. \A i \in 1 .. Len(s) : s[i] = sent[p] - Len(s) + i
  BY <1>0 DEF InputInv
<1> HIDE DEF n
<1>4. /\ head \in Seq(Nat) /\ Len(head) = n /\ \A i \in 1 .. n : head[i] = s[i]
      /\ Len(rest) = Len(s) - n
  BY <1>0, <1>1, Taken
<1>5. /\ \A q \in Objs \ {o} : obj'[q] = obj[q]
      /\ obj'[o].pc = "test" /\ obj'[o].m_nPort = p /\ obj'[o].buf = buf \o head
  BY <1>0, <1>2 DEF Objects
<1>6. input'[p] = rest /\ \A q \in Ports \ {p} : input'[q] = input[q]
  BY <1>0, <1>2 DEF TypeOK
<1>7. /\ Len(buf) < Chunk
      /\ o \notin history.disturbed =>
            \A i \in 1 .. Len(buf) : buf[i] = sent[p] - Len(s) - Len(buf) + i
  BY <1>0, <1>2 DEF ReadOf
<1> HIDE DEF p, s, buf, head, rest
<1>8. history'.disturbed = history.disturbed \cup Readers(p, o)
  BY <1>0, <1>2, Disturbed
<1>9. CASE r # o
  <2>1. \A q \in Ports \ {p} : fd_map'[q] = fd_map[q] /\ sent'[q] = sent[q] /\ input'[q] = input[q]
    BY <1>2, <1>6
  <2>2. history'.disturbed = Disturb(history, p, o).disturbed /\ obj'[r] = obj[r] /\ r \in Objs \ {o}
    BY <1>2, <1>5, <1>9
  <2>3. history \in Histories /\ p \in Ports /\ ReadOf(r)
    BY <1>0
  <2> QED
    BY <2>1, <2>2, <2>3, OthersDisturbed
<1>10. CASE r = o
  <2> DEFINE new == buf \o head
  <2>1. /\ Len(new) = Len(buf) + n
        /\ \A i \in 1 .. Len(buf) + n : new[i] = IF i <= Len(buf) THEN buf[i] ELSE head[i - Len(buf)]
    BY <1>0, <1>4, ConcatProperties
  <2> HIDE DEF new
  <2>2. Len(new) < 2 * Chunk
    BY <1>0, <1>1, <1>7, <2>1
  <2>3. ASSUME o \notin history'.disturbed, NEW i \in 1 .. Len(new)
        PROVE  new[i] = sent[p] - Len(rest) - Len(new) + i
    <3>1. sent[p] - Len(rest) - Len(new) + i = sent[p] - Len(s) - Len(buf) + i
      BY <1>0, <1>1, <1>4, <2>1
    <3>2. CASE i <= Len(buf)
      <4>1. i \in 1 .. Len(buf) /\ i \in 1 .. Len(buf) + n
        BY <1>0, <1>1, <2>1, <3>2
      <4>2. new[i] = buf[i]
        BY <2>1, <3>2, <4>1
      <4>3. o \notin history.disturbed
        BY <1>8, <2>3
      <4> QED
        BY <1>7, <3>1, <4>1, <4>2, <4>3
    <3>3. CASE ~(i <= Len(buf))
      <4>1. i - Len(buf) \in 1 .. n /\ i - Len(buf) \in 1 .. Len(s) /\ i \in 1 .. Len(buf) + n
        BY <1>0, <1>1, <2>1, <3>3
      <4>2. new[i] = s[i - Len(buf)]
        BY <1>4, <2>1, <3>3, <4>1
      <4>3. s[i - Len(buf)] = sent[p] - Len(s) + (i - Len(buf))
        BY <1>3, <4>1
      <4> QED
        BY <1>0, <3>1, <4>1, <4>2, <4>3
    <3> QED
      BY <3>2, <3>3
  <2>4. obj'[r].buf = new /\ obj'[r].pc = "test" /\ obj'[r].m_nPort = p
    BY <1>5, <1>10 DEF new
  <2> QED
    BY <1>2, <1>6, <1>10, <2>2, <2>3, <2>4 DEF ReadOf
<1> QED
  BY <1>9, <1>10

LEMMA ReadReads ==
    ASSUME TypeOK, InputInv, ReadInv, NEW o \in Objs, Read(o) \/ Reads(o), NEW r \in Objs
    PROVE  ReadOf(r)'
<1>0. obj \in [Objs -> Objects] /\ obj[o] \in Objects /\ ReadOf(r) /\ ReadOf(o) /\ history \in Histories
  BY DEF TypeOK, ReadInv
<1>1. CASE Read(o)
  <2>1. obj[o].buf = <<>>
    BY <1>0, <1>1 DEF Read, Idle, ReadOf
  <2>2. obj'[o].buf = <<>> /\ obj'[o].pc = "test" /\ \A q \in Objs \ {o} : obj'[q] = obj[q]
    BY <1>0, <1>1, <2>1 DEF Read, Objects
  <2>3. CASE r = o
    BY <2>2, <2>3, NothingRead
  <2>4. CASE r # o
    BY <1>0, <1>1, <2>2, <2>4, ReadKept DEF Read
  <2> QED
    BY <2>3, <2>4
<1>2. CASE TestInput(o)
  <2>1. Len(obj[o].buf) \in Nat /\ Chunk \in Nat
    BY <1>0, SerialPortAssumption DEF Objects
  <2>2. CASE Len(obj[o].buf) >= Chunk
    BY <1>2, <2>2, ReadOn DEF TestInput
  <2>3. CASE Len(obj[o].buf) < Chunk
    BY <1>2, <2>1, <2>3, ReadOn DEF TestInput
  <2> QED
    BY <2>1, <2>2, <2>3
<1>3. CASE TestNothing(o)
  <2>1. CASE obj[o].buf = <<>>
    BY <1>3, <2>1, ReadOn DEF TestNothing
  <2>2. CASE obj[o].buf # <<>>
    BY <1>3, <2>2, ReadOn DEF TestNothing
  <2> QED
    BY <2>1, <2>2
<1>4. CASE ReadSome(o)
  BY <1>4, ReadMore
<1>5. CASE ReadFails(o)
  <2>1. /\ obj'[o].pc = "dead" /\ obj'[o].buf = obj[o].buf /\ \A q \in Objs \ {o} : obj'[q] = obj[q]
        /\ obj[o].pc = "read" /\ history'.disturbed = history.disturbed
        /\ UNCHANGED <<fd_map, input, sent>>
    BY <1>0, <1>5 DEF ReadFails, Objects, Histories
  <2>2. CASE r = o
    BY <1>0, <2>1, <2>2 DEF ReadOf
  <2>3. CASE r # o
    BY <1>0, <2>1, <2>3, ReadKept
  <2> QED
    BY <2>2, <2>3
<1>6. CASE Pause(o)
  <2>1. obj[o].buf = <<>>
    BY <1>0, <1>6 DEF Pause, ReadOf
  <2>2. CASE Step(o, "idle")
    BY <2>1, <2>2, ReadOn
  <2>3. ASSUME NEW w, Again(o, w)
        PROVE  ReadOf(r)'
    <3>1. obj'[o].buf = <<>> /\ obj'[o].pc = "test" /\ \A q \in Objs \ {o} : obj'[q] = obj[q]
      BY <1>0, <2>1, <2>3 DEF Again, Objects
    <3>2. CASE r = o
      BY <3>1, <3>2, NothingRead
    <3>3. CASE r # o
      BY <1>0, <2>3, <3>1, <3>3, ReadKept DEF Again
    <3> QED
      BY <3>2, <3>3
  <2> QED
    BY <1>6, <2>2, <2>3 DEF Pause
<1> QED
  BY <1>1, <1>2, <1>3, <1>4, <1>5, <1>6 DEF Reads

LEMMA ReadReceive ==
    ASSUME TypeOK, ReadInv, NEW p \in Ports, Receive(p), NEW r \in Objs
    PROVE  ReadOf(r)'
<1>1. /\ ReadOf(r) /\ input[p] \in Seq(Nat) /\ Len(input[p]) \in Nat /\ sent[p] \in Nat
      /\ obj[r].m_nPort \in Ports
  BY DEF TypeOK, ReadInv, Objects
<1>2. /\ sent'[p] = sent[p] + 1 /\ input'[p] = Append(input[p], sent[p] + 1)
      /\ \A q \in Ports \ {p} : input'[q] = input[q] /\ sent'[q] = sent[q]
      /\ UNCHANGED <<fd_map, obj, history>>
  BY DEF Receive, TypeOK
<1>3. Len(input'[p]) = Len(input[p]) + 1 /\ input'[p] # <<>>
  BY <1>1, <1>2
<1>4. sent'[p] - Len(input'[p]) = sent[p] - Len(input[p])
  <2>1. \A x, y \in Nat : (x + 1) - (y + 1) = x - y
    OBVIOUS
  <2>2. sent'[p] = sent[p] + 1
    BY <1>2
  <2> QED
    BY <1>1, <1>3, <2>1, <2>2
<1>5. CASE obj[r].m_nPort = p
  BY <1>1, <1>2, <1>3, <1>4, <1>5, ReadKept
<1>6. CASE obj[r].m_nPort # p
  BY <1>1, <1>2, <1>6, ReadKept
<1> QED
  BY <1>5, <1>6

LEMMA ReadStep ==
    ASSUME TypeOK, InputInv, ReadInv, [Next]_vars, NEW r \in Objs
    PROVE  ReadOf(r)'
<1>1. CASE UNCHANGED vars
  <2>1. ReadOf(r)
    BY DEF ReadInv
  <2> QED
    BY <1>1, <2>1 DEF ReadOf, vars
<1> QED
  BY <1>1, ReadOpen, ReadClose, ReadSetPara, ReadDirect, ReadReads, ReadReceive DEF Next

(* What a step notes of the reads, and of the error of one. *)
LEMMA BrokenKept ==
    ASSUME TypeOK, [Next]_vars
    PROVE  history'.broken = history.broken \/ \E o \in Objs : ReadFails(o) /\ history.broken = {}
<1>0. history \in Histories
  BY DEF TypeOK
<1>1. ASSUME NEW h \in Histories, NEW p, NEW o, h.broken = history.broken
      PROVE  Disturb(h, p, o) \in Histories /\ Disturb(h, p, o).broken = history.broken
  <2>1. Disturb(h, p, o) = [h EXCEPT !.disturbed = h.disturbed \cup Readers(p, o)] /\ Disturb(h, p, o) \in Histories
    BY Disturbed
  <2> QED
    BY <1>1, <2>1 DEF Histories
<1>2. ASSUME NEW o \in Objs, NEW p \in Ports, Open(o, p)
      PROVE  history'.broken = history.broken
  <2> DEFINE h == [history EXCEPT !.reopened = IF obj[o].m_b_open THEN @ \cup {o} ELSE @]
  <2>1. h \in Histories /\ h.broken = history.broken
    BY <1>0 DEF Histories
  <2> DEFINE d == Disturb(h, p, o)
  <2>2. history' = h \/ history' = [d EXCEPT !.opener[p] = o]
    BY <1>2 DEF Open
  <2> HIDE DEF h
  <2>3. d \in Histories /\ d.broken = history.broken
    BY <1>1, <2>1
  <2> HIDE DEF d
  <2> QED
    BY <2>1, <2>2, <2>3 DEF Histories
<1>3. ASSUME NEW o \in Objs, Close(o)
      PROVE  history'.broken = history.broken
  <2> DEFINE p == obj[o].m_nPort
             d == Disturb(history, p, o)
  <2>1. history' = [d EXCEPT !.opener[p] = NoObj, !.robbed = @ \cup ({history.opener[p]} \ {o})]
    BY <1>3 DEF Close
  <2> HIDE DEF p
  <2>2. d \in Histories /\ d.broken = history.broken
    BY <1>0, <1>1
  <2> HIDE DEF d
  <2> QED
    BY <2>1, <2>2 DEF Histories
<1>4. ASSUME NEW p, NEW o, NEW t, NEW a, NEW h \in Histories, h.broken = history.broken, Set(p, o, t, a, h)
      PROVE  history'.broken = history.broken
  BY <1>1, <1>4 DEF Set
<1>5. ASSUME NEW o \in Objs, NEW speed, NEW param, NEW timeout, SetPara(o, speed, param, timeout)
      PROVE  history'.broken = history.broken
  BY <1>0, <1>4, <1>5 DEF SetPara
<1>6. ASSUME NEW p \in Ports, NEW param, SerialSetParam(p, param)
      PROVE  history'.broken = history.broken
  BY <1>0, <1>4, <1>6 DEF SerialSetParam
<1>7. ASSUME NEW p \in Ports, NEW control, SerialFlowControl(p, control)
      PROVE  history'.broken = history.broken
  BY <1>0, <1>4, <1>7 DEF SerialFlowControl
<1>8. ASSUME NEW o \in Objs, Read(o) \/ TestInput(o) \/ TestNothing(o) \/ Pause(o)
      PROVE  history'.broken = history.broken
  <2>1. ASSUME NEW next, Step(o, next)
        PROVE  history'.broken = history.broken
    BY <1>0, <2>1 DEF Step, Histories
  <2> QED
    BY <1>8, <2>1 DEF Read, TestInput, TestNothing, Pause, Again
<1>9. ASSUME NEW o \in Objs, ReadSome(o)
      PROVE  history'.broken = history.broken
  BY <1>0, <1>1, <1>9 DEF ReadSome
<1>10. ASSUME NEW p \in Ports, Receive(p)
       PROVE  history'.broken = history.broken
  BY <1>10 DEF Receive
<1>11. CASE UNCHANGED vars
  BY <1>11 DEF vars
<1> QED
  BY <1>2, <1>3, <1>5, <1>6, <1>7, <1>8, <1>9, <1>10, <1>11 DEF Next, Reads

LEMMA CopiesStep ==
    ASSUME TypeOK, ReadInv, [Next]_vars
    PROVE  CopiesWhatWasRead'
<1>0. history \in Histories
  BY DEF TypeOK
<1>1. CASE UNCHANGED vars
  BY <1>1 DEF ReadInv, CopiesWhatWasRead, vars
<1>2. CASE Next /\ history'.broken = history.broken
  BY <1>2 DEF CopiesWhatWasRead, Next
<1>3. ASSUME NEW o \in Objs, ReadFails(o), history.broken = {}
      PROVE  CopiesWhatWasRead'
  <2>1. o \in history.disturbed
    BY <1>3 DEF ReadInv, ReadOf, ReadFails
  <2>2. history'.broken = {o} /\ history'.disturbed = history.disturbed
    BY <1>0, <1>3 DEF ReadFails, Histories
  <2> QED
    BY <2>1, <2>2 DEF CopiesWhatWasRead
<1> QED
  BY <1>1, <1>2, <1>3, BrokenKept

---------------------------------------------------------------------------
LEMMA InitInv == Init => IInv
<1> SUFFICES ASSUME Init
             PROVE  IInv
  OBVIOUS
<1>1. PICK mode \in {"reads", "sets", "opens"} : \E timeout \in [Few -> Waits(mode)] :
         /\ obj = [o \in Objs |-> [m_nPort |-> First, m_b_open |-> FALSE,
                                   m_nTimeOut |-> IF o \in Few THEN timeout[o] ELSE OneTimeout,
                                   pc |-> "new", buf |-> <<>>, waited |-> 0]]
         /\ history = [mode |-> mode, opener |-> [p \in Ports |-> NoObj], reopened |-> {},
                       robbed |-> {}, disturbed |-> {}, broken |-> {}]
  BY DEF Init
<1>2. PICK timeout \in [Few -> Waits(mode)] :
         obj = [o \in Objs |-> [m_nPort |-> First, m_b_open |-> FALSE,
                                m_nTimeOut |-> IF o \in Few THEN timeout[o] ELSE OneTimeout,
                                pc |-> "new", buf |-> <<>>, waited |-> 0]]
  BY <1>1
<1>3. history = [mode |-> mode, opener |-> [p \in Ports |-> NoObj], reopened |-> {},
                 robbed |-> {}, disturbed |-> {}, broken |-> {}]
  BY <1>1
<1>4. /\ \A p \in Ports : ~fd_map[p] /\ tio[p] = Before /\ input[p] = <<>> /\ Len(input[p]) = 0
      /\ \A o \in Objs : ~obj[o].m_b_open /\ obj[o].pc = "new" /\ obj[o].buf = <<>>
  BY <1>2 DEF Init
<1>5. TypeOK
  <2>1. fd_map \in [Ports -> BOOLEAN] /\ tio \in [Ports -> Tios] /\ oldtio \in [Ports -> Tios]
    BY Openeds DEF Init
  <2>2. input \in [Ports -> Seq(Nat)] /\ sent \in [Ports -> Nat]
    <3>1. <<>> \in Seq(Nat)
      OBVIOUS
    <3> QED
      BY <3>1 DEF Init
  <2>3. obj \in [Objs -> Objects]
    <3>1. \A o \in Objs : (IF o \in Few THEN timeout[o] ELSE OneTimeout) \in Timeouts
      BY OneTimeoutIn
    <3>2. <<>> \in Seq(Nat) /\ First \in Ports
      BY FirstPort
    <3> QED
      BY <1>2, <3>1, <3>2 DEF Objects
  <2>4. asked \in [Ports -> Askeds]
    BY FirstAsked DEF Init
  <2>5. history \in Histories
    BY <1>3 DEF Histories
  <2> QED
    BY <2>1, <2>2, <2>3, <2>4, <2>5 DEF TypeOK, Askeds
<1>6. PortInv /\ InputInv
  BY <1>4 DEF PortInv, InputInv
<1>7. OwnerInv
  BY <1>3, <1>4 DEF OwnerInv, ClosesItsOwn
<1>8. ReadInv
  <2>1. Len(<<>>) = 0 /\ Chunk \in Nat \ {0}
    BY SerialPortAssumption
  <2>2. \A o \in Objs : ReadOf(o)
    BY <1>4, <2>1 DEF ReadOf
  <2> QED
    BY <1>3, <2>2 DEF ReadInv, CopiesWhatWasRead
<1> QED
  BY <1>5, <1>6, <1>7, <1>8 DEF IInv

LEMMA NextInv == IInv /\ [Next]_vars => IInv'
<1> SUFFICES ASSUME IInv, [Next]_vars
             PROVE  IInv'
  OBVIOUS
<1>1. TypeOK /\ PortInv /\ OwnerInv /\ InputInv /\ ReadInv
  BY DEF IInv
<1>2. TypeOK' /\ PortInv' /\ OwnerInv' /\ InputInv'
  BY <1>1, TypeStep, PortStep, OwnerStep, InputStep
<1>3. \A r \in Objs : ReadOf(r)'
  BY <1>1, ReadStep
<1>4. ReadInv'
  BY <1>1, <1>3, CopiesStep DEF ReadInv
<1> QED
  BY <1>2, <1>4 DEF IInv

(* The inductive invariant of the ports, from which the theorems below     *)
(* follow.                                                                 *)
THEOREM Invariant == Spec => []IInv
  BY InitInv, NextInv, PTL DEF Spec

(* Every variable keeps its type. *)
THEOREM TypeCorrect == Spec => []TypeOK
<1>1. IInv => TypeOK
  BY DEF IInv
<1> QED
  BY <1>1, Invariant, PTL

(* An open port has the settings last asked for, by whatever objects and    *)
(* direct calls, and a closed one those it had: SerialSetSpeed,            *)
(* SerialSetParam and SerialFlowControl undo what was set before, but for   *)
(* the three sequences of calls AsAsked names, one flow control after the   *)
(* other, none, and a stick parity (linux_serial.cpp:432-435, 430, 667);    *)
(* it says as well what the port is left with after each of them.           *)
THEOREM SettingsAsAskedHolds == Spec => []SettingsAsAsked
<1>1. IInv => SettingsAsAsked
  BY DEF IInv, PortInv, AsAskedOf, SettingsAsAsked
<1> QED
  BY <1>1, Invariant, PTL

(* A port that is open has one object that will close it, unless an object  *)
(* was told to open a second one (CSerialPortImp::open, close).            *)
THEOREM ClosesItsOwnHolds == Spec => []ClosesItsOwn
<1>1. IInv => ClosesItsOwn
  BY DEF IInv, OwnerInv
<1> QED
  BY <1>1, Invariant, PTL

(* The turns of CSerialPortImp::read put the bytes one behind the other,    *)
(* none left out or read twice, and read less than two chunks in all.      *)
THEOREM ReadIsOneRunHolds == Spec => []ReadIsOneRun
<1>1. IInv => ReadIsOneRun
  <2> SUFFICES ASSUME IInv, NEW o \in Objs
               PROVE  LET buf == obj[o].buf IN
                        /\ Len(buf) < 2 * Chunk
                        /\ obj[o].pc \in {"test", "read"} /\ o \notin history.disturbed =>
                              \A i \in 1 .. Len(buf) - 1 : buf[i + 1] = buf[i] + 1
    BY DEF ReadIsOneRun
  <2> DEFINE buf == obj[o].buf
             p == obj[o].m_nPort
             first == sent[p] - Len(input[p]) - Len(buf)
  <2>1. /\ Len(buf) < 2 * Chunk
        /\ obj[o].pc \in {"test", "read"} /\ o \notin history.disturbed =>
              \A i \in 1 .. Len(buf) : buf[i] = first + i
    BY DEF IInv, ReadInv, ReadOf
  <2>2. Len(buf) \in Nat /\ first \in Int
    BY DEF IInv, TypeOK, Objects
  <2> HIDE DEF buf, first
  <2>3. \A i \in 1 .. Len(buf) - 1 : /\ i \in 1 .. Len(buf) /\ i + 1 \in 1 .. Len(buf)
                                     /\ first + (i + 1) = (first + i) + 1
    BY <2>2
  <2>4. obj[o].pc \in {"test", "read"} /\ o \notin history.disturbed =>
          \A i \in 1 .. Len(buf) - 1 : buf[i + 1] = buf[i] + 1
    BY <2>1, <2>3
  <2> QED
    BY <2>1, <2>4 DEF buf
<1> QED
  BY <1>1, Invariant, PTL

(* SerialNonBlockRead finds what the test of the queue promised, and read   *)
(* copies no error as a length, unless another took it meanwhile.          *)
THEOREM CopiesWhatWasReadHolds == Spec => []CopiesWhatWasRead
<1>1. IInv => CopiesWhatWasRead
  BY DEF IInv, ReadInv
<1> QED
  BY <1>1, Invariant, PTL
=============================================================================
