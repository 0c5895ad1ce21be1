--------------------------- MODULE ReactorProofs ----------------------------
(***************************************************************************)
(* Theorems of Reactor.  A method of the code is an operator of the        *)
(* memory: for each of them a lemma says that what it makes of a sound     *)
(* memory is sound (...Sound), from one that says which fields it writes   *)
(* (...Is), and the lemma of a method that calls others follows the calls. *)
(* The invariant follows from theirs, action by action, and the theorems   *)
(* from it.  Those about the edges come last: they need a second invariant *)
(* beside the first (Served).                                              *)
(***************************************************************************)
EXTENDS Reactor, TLAPS, FiniteSetTheorems, WellFoundedInduction

(* q ends with the unit last, and its units follow each other.             *)
RunOf(q, last) == \A i \in 1 .. Len(q) : q[i] = last - (Len(q) - i)
InOrder(s) == \A o \in Stream : RunOf(s.wire[o] \o s.sbuf[o], s.made[o])

(* What is used after its delete is on the list, with the reason.          *)
Explained(s) == \A place \in s.touched : Causes[place] \cap s.met # {}

(* epoll watches bound sockets of objects that are there; a client has its *)
(* socket from accept to close, and no timer is set for a connector that   *)
(* is gone.                                                                *)
Kernel(s) == /\ s.ready \subseteq s.reg /\ s.reg \subseteq s.fd \cap s.bind /\ s.fd \subseteq s.live
             /\ "accepted" \in s.live => "accepted" \in s.fd
             /\ \A x \in Range(s.timers) : x.fn[2] = "connector" => "connector" \in s.live

Distinct(ts) == \A i, j \in DOMAIN ts : ts[i].id = ts[j].id => i = j

(* A timer has an id of its own; a timeout's is the one its connection     *)
(* knows, and whoever waits for data has one, but for those in X, whose    *)
(* timer is being set or has just fired.                                   *)
Clocked(s, X) ==
    /\ Distinct(s.timers)
    /\ \A x \in Range(s.timers) :
          /\ x.id # NoTimer
          /\ x.fn[1] = "timeout" => x.fn[2] \in s.live /\ x.id = s.tid[x.fn[2]]
          /\ \A o \in Obj : x.id = s.tid[o] => x.fn = <<"timeout", o>>
    /\ RecvTimeout # 0 => \A o \in (Stream \cap s.fd) \ X :
          "IN" \in s.mon[o] => \E x \in Range(s.timers) : x.fn = <<"timeout", o>>

(* Data is asked for on connections only, and what the kernel watches for  *)
(* is what was asked.                                                      *)
Heard(s) ==
    \A o \in Stream : /\ "IN" \in s.mon[o] => o \in s.connected
                      /\ o \in s.reg /\ "IN" \in s.ev[o] => "IN" \in s.mon[o]

(* Until an object is used after its delete the sockets are in order, and  *)
(* the timers too unless a timeout callback asked for data: the timer that *)
(* fires is set again behind the new one, with an id that nobody knows.    *)
Sound(s, X) ==
    /\ s \in Memories /\ Explained(s) /\ "accepted" \in s.connected
    /\ s.touched = {} => Kernel(s) /\ ("rearmed" \notin s.met => Heard(s) /\ Clocked(s, X))

Sockets(s) == <<s.live, s.fd, s.connected, s.bind, s.mon, s.reg, s.ev, s.ready>>
Clocks(s) == <<s.tid, s.timers>>
Data(s) == <<s.sbuf, s.wire, s.made>>
Net(s) == <<s.net, s.unread, s.full>>

(* What a method called for o leaves alone in s.                           *)
Goes(s, t, o) ==
    /\ s.met \subseteq t.met /\ s.touched \subseteq t.touched /\ t.reconnect = s.reconnect
    /\ s.connected \subseteq t.connected
    /\ \A p \in Obj : p \in s.live =>
          p \in t.live \/ p = o \/ (p = "acceptor" /\ "closed another" \in t.met)
    /\ InOrder(s) => InOrder(t)

LEMMA GoesOn ==
    ASSUME NEW s, NEW t, NEW u, NEW o, Goes(s, t, o), Goes(t, u, o)
    PROVE  Goes(s, u, o)
  BY DEF Goes

LEMMA GoesIfSame ==
    ASSUME NEW s, NEW t, NEW o, Data(t) = Data(s), t.live = s.live, s.connected \subseteq t.connected,
           s.met \subseteq t.met, s.touched \subseteq t.touched, t.reconnect = s.reconnect
    PROVE  Goes(s, t, o)
<1>1. InOrder(s) => InOrder(t)
  BY DEF InOrder, Data
<1> QED
  BY <1>1 DEF Goes

LEMMA CausesAre ==
    /\ Causes["event"] = {"closed another"} /\ Causes["timer"] = {"rearmed"}
    /\ Causes["do_send"] = {"send refused", "send reset", "closed own"}
    /\ Causes["do_recv"] = {"read error", "send refused", "send reset", "closed own"}
    /\ Causes["OUT half"] = {"both halves"}
    /\ Causes["connect callback"] = {"send refused", "send reset", "closed own"}
    /\ Causes["connector close"] = {"no reconnect"} /\ Causes["start_timer"] = {"timeout refused"}
    /\ Causes["on_accept"] = {"accept refused"}
  BY DEF Causes, Places

LEMMA MetIs ==
    ASSUME NEW s \in Memories, NEW w \in Reasons
    PROVE  /\ Met(s, w) \in Memories /\ Met(s, w).met = s.met \cup {w} /\ Met(s, w).touched = s.touched
           /\ Met(s, w).reconnect = s.reconnect
           /\ Sockets(Met(s, w)) = Sockets(s) /\ Clocks(Met(s, w)) = Clocks(s)
           /\ Data(Met(s, w)) = Data(s) /\ Net(Met(s, w)) = Net(s)
<1>1. Met(s, w) \in Memories
  BY DEF Memories, Met
<1>2. /\ Met(s, w).met = s.met \cup {w} /\ Met(s, w).touched = s.touched
      /\ Met(s, w).reconnect = s.reconnect
  BY DEF Memories, Met
<1>3. Sockets(Met(s, w)) = Sockets(s)
  BY DEF Memories, Met, Sockets
<1>4. Clocks(Met(s, w)) = Clocks(s)
  BY DEF Memories, Met, Clocks
<1>5. Data(Met(s, w)) = Data(s)
  BY DEF Memories, Met, Data
<1>6. Net(Met(s, w)) = Net(s)
  BY DEF Memories, Met, Net
<1> QED
  BY <1>1, <1>2, <1>3, <1>4, <1>5, <1>6

LEMMA TouchIs ==
    ASSUME NEW s \in Memories, NEW o, NEW place \in Places
    PROVE  LET t == Touch(s, o, place)
           IN  /\ t \in Memories /\ t.touched = s.touched \cup (IF o \in s.live THEN {} ELSE {place})
               /\ t.met = s.met /\ t.reconnect = s.reconnect
               /\ Sockets(t) = Sockets(s) /\ Clocks(t) = Clocks(s) /\ Data(t) = Data(s) /\ Net(t) = Net(s)
<1> DEFINE u == [s EXCEPT !.touched = @ \cup {place}]
<1>1. u \in Memories
  BY DEF Memories
<1>2. u.touched = s.touched \cup {place} /\ u.met = s.met /\ u.reconnect = s.reconnect
  BY DEF Memories
<1>3. Sockets(u) = Sockets(s)
  BY DEF Memories, Sockets
<1>4. Clocks(u) = Clocks(s)
  BY DEF Memories, Clocks
<1>5. Data(u) = Data(s)
  BY DEF Memories, Data
<1>6. Net(u) = Net(s)
  BY DEF Memories, Net
<1>7. Touch(s, o, place) = IF o \in s.live THEN s ELSE u
  BY DEF Touch
<1> HIDE DEF u
<1> QED
  BY <1>1, <1>2, <1>3, <1>4, <1>5, <1>6, <1>7

LEMMA GoneIs ==
    ASSUME NEW s \in Memories, NEW o, o \notin s.live, NEW place \in Places
    PROVE  LET t == Touch(s, o, place)
           IN  /\ t \in Memories /\ t.touched = s.touched \cup {place} /\ t.met = s.met
               /\ t.reconnect = s.reconnect /\ t.live = s.live /\ t.connected = s.connected
               /\ Data(t) = Data(s)
  BY TouchIs DEF Sockets

LEMMA SameSound ==
    ASSUME NEW s, NEW X, Sound(s, X), NEW t \in Memories, Sockets(t) = Sockets(s), Clocks(t) = Clocks(s),
           t.touched = s.touched, s.met \subseteq t.met
    PROVE  Sound(t, X)
<1>1. Explained(t)
  BY DEF Sound, Explained
<1>2. Kernel(s) => Kernel(t)
  BY DEF Kernel, Sockets, Clocks
<1>3. Clocked(s, X) => Clocked(t, X)
  BY DEF Clocked, Sockets, Clocks
<1>4. Heard(s) => Heard(t)
  BY DEF Heard, Sockets
<1> QED
  BY <1>1, <1>2, <1>3, <1>4 DEF Sound, Sockets
----------------------------------------------------------------------------
(* The map of timers.                                                      *)
LEMMA Joined ==
    ASSUME NEW p \in Seq(Timers), NEW q \in Seq(Timers)
    PROVE  /\ p \o q \in Seq(Timers) /\ Len(p \o q) = Len(p) + Len(q)
           /\ \A i \in 1 .. Len(p) + Len(q) : (p \o q)[i] = IF i <= Len(p) THEN p[i] ELSE q[i - Len(p)]
  OBVIOUS

LEMMA InsertedAt ==
    ASSUME NEW ts \in Seq(Timers), NEW t \in Timers, NEW k \in 1 .. Len(ts) + 1
    PROVE  LET r == InsertAt(ts, k, t)
           IN  /\ r \in Seq(Timers) /\ Len(r) = Len(ts) + 1
               /\ \A i \in 1 .. Len(ts) + 1 :
                     r[i] = IF i < k THEN ts[i] ELSE IF i = k THEN t ELSE ts[i - 1]
<1> DEFINE a == SubSeq(ts, 1, k - 1)
           b == SubSeq(ts, k, Len(ts))
<1>1. a \in Seq(Timers) /\ Len(a) = k - 1 /\ \A i \in 1 .. k - 1 : a[i] = ts[i]
  OBVIOUS
<1>2. b \in Seq(Timers) /\ Len(b) = Len(ts) - k + 1 /\ \A i \in 1 .. Len(ts) - k + 1 : b[i] = ts[k + i - 1]
  OBVIOUS
<1>3. InsertAt(ts, k, t) = a \o <<t>> \o b
  BY DEF InsertAt
<1> HIDE DEF a, b
<1>4. /\ a \o <<t>> \in Seq(Timers) /\ Len(a \o <<t>>) = k
      /\ \A i \in 1 .. k : (a \o <<t>>)[i] = IF i < k THEN ts[i] ELSE t
  BY <1>1
<1> DEFINE c == a \o <<t>>
<1> HIDE DEF c
<1>5. /\ c \o b \in Seq(Timers) /\ Len(c \o b) = Len(ts) + 1
      /\ \A i \in 1 .. Len(ts) + 1 : (c \o b)[i] = IF i <= k THEN c[i] ELSE b[i - k]
  <2>1. c \in Seq(Timers) /\ Len(c) = k /\ k + Len(b) = Len(ts) + 1
    BY <1>2, <1>4 DEF c
  <2>2. b \in Seq(Timers)
    BY <1>2
  <2>3. /\ c \o b \in Seq(Timers) /\ Len(c \o b) = Len(c) + Len(b)
        /\ \A i \in 1 .. Len(c) + Len(b) : (c \o b)[i] = IF i <= Len(c) THEN c[i] ELSE b[i - Len(c)]
    BY <2>1, <2>2, Joined, Zenon
  <2>4. Len(c) + Len(b) = Len(ts) + 1
    BY <2>1
  <2> QED
    BY <2>1, <2>3, <2>4, Zenon
<1>6. \A i \in 1 .. Len(ts) + 1 : i > k => b[i - k] = ts[i - 1]
  BY <1>2
<1> QED
  BY <1>3, <1>4, <1>5, <1>6, SMTT(20) DEF c

LEMMA InsertIs ==
    ASSUME NEW ts \in Seq(Timers), NEW t \in Timers
    PROVE  /\ Insert(ts, t) \in Seq(Timers)
           /\ Range(Insert(ts, t)) = Range(ts) \cup {t}
           /\ Distinct(ts) /\ (\A x \in Range(ts) : x.id # t.id) => Distinct(Insert(ts, t))
<1> DEFINE before == {i \in DOMAIN ts : ts[i].left <= t.left}
           k == Cardinality(before) + 1
           r == InsertAt(ts, k, t)
<1>1. k \in 1 .. Len(ts) + 1
  <2>1. Len(ts) \in Nat
    OBVIOUS
  <2>2. IsFiniteSet(1 .. Len(ts)) /\ Cardinality(1 .. Len(ts)) = Len(ts)
    BY <2>1, FS_Interval, SMTT(20)
  <2>3. before \subseteq 1 .. Len(ts)
    OBVIOUS
  <2>4. Cardinality(before) \in Nat /\ Cardinality(before) <= Len(ts)
    BY <2>2, <2>3, FS_Subset, FS_CardinalityType
  <2> QED
    BY <2>4
<1>2. Insert(ts, t) = r
  BY DEF Insert
<1> HIDE DEF k
<1>3. /\ r \in Seq(Timers) /\ Len(r) = Len(ts) + 1
      /\ \A i \in 1 .. Len(ts) + 1 :
            r[i] = IF i < k THEN ts[i] ELSE IF i = k THEN t ELSE ts[i - 1]
  BY <1>1, InsertedAt, ZenonT(30)
<1> HIDE DEF r
<1>4. \A x \in Range(r) : x \in Range(ts) \cup {t}
  BY <1>1, <1>3 DEF Range
<1>5. \A i \in DOMAIN ts : ts[i] \in Range(r)
  <2> TAKE i \in DOMAIN ts
  <2>1. CASE i < k
    <3>1. i \in DOMAIN r /\ r[i] = ts[i]
      BY <1>1, <1>3, <2>1
    <3> QED
      BY <3>1 DEF Range
  <2>2. CASE i >= k
    <3>1. i + 1 \in DOMAIN r /\ r[i + 1] = ts[i]
      BY <1>1, <1>3, <2>2
    <3> QED
      BY <3>1 DEF Range
  <2> QED
    BY <1>1, <2>1, <2>2
<1>6. t \in Range(r)
  <2>1. k \in DOMAIN r /\ r[k] = t
    BY <1>1, <1>3
  <2> QED
    BY <2>1 DEF Range
<1>7. ASSUME Distinct(ts), \A x \in Range(ts) : x.id # t.id
      PROVE  Distinct(r)
  <2>1. \A i \in DOMAIN ts : ts[i].id # t.id
    BY <1>7 DEF Range
  <2>2. \A i, j \in DOMAIN ts : ts[i].id = ts[j].id => i = j
    BY <1>7 DEF Distinct
  <2> SUFFICES ASSUME NEW i \in 1 .. Len(ts) + 1, NEW j \in 1 .. Len(ts) + 1, r[i].id = r[j].id
               PROVE  i = j
    BY <1>3 DEF Distinct
  <2> DEFINE at(n) == IF n < k THEN n ELSE n - 1
  <2>3. \A n \in 1 .. Len(ts) + 1 : n # k => at(n) \in DOMAIN ts /\ r[n] = ts[at(n)]
    BY <1>1, <1>3
  <2>4. r[k] = t
    BY <1>1, <1>3
  <2>5. CASE i = k \/ j = k
    BY <2>1, <2>3, <2>4, <2>5
  <2>6. CASE i # k /\ j # k
    <3>1. at(i) = at(j)
      BY <2>2, <2>3, <2>6
    <3> QED
      BY <1>1, <2>6, <3>1
  <2> QED
    BY <2>5, <2>6
<1>8. Range(ts) \subseteq Range(r)
  BY <1>5 DEF Range
<1>9. Range(r) = Range(ts) \cup {t}
  BY <1>4, <1>6, <1>8
<1> QED
  BY <1>2, <1>3, <1>7, <1>9

LEMMA RemovedAt ==
    ASSUME NEW ts \in Seq(Timers), NEW k \in 1 .. Len(ts)
    PROVE  LET r == RemoveAt(ts, k)
           IN  /\ r \in Seq(Timers) /\ Len(r) = Len(ts) - 1
               /\ \A i \in 1 .. Len(ts) - 1 : r[i] = IF i < k THEN ts[i] ELSE ts[i + 1]
<1> DEFINE a == SubSeq(ts, 1, k - 1)
           b == SubSeq(ts, k + 1, Len(ts))
<1>1. a \in Seq(Timers) /\ Len(a) = k - 1 /\ \A i \in 1 .. k - 1 : a[i] = ts[i]
  OBVIOUS
<1>2. b \in Seq(Timers) /\ Len(b) = Len(ts) - k /\ \A i \in 1 .. Len(ts) - k : b[i] = ts[k + i]
  OBVIOUS
<1>3. RemoveAt(ts, k) = a \o b
  BY DEF RemoveAt
<1> HIDE DEF a, b
<1>4. /\ a \o b \in Seq(Timers) /\ Len(a \o b) = Len(ts) - 1
      /\ \A i \in 1 .. Len(ts) - 1 : (a \o b)[i] = IF i < k THEN a[i] ELSE b[i - k + 1]
  <2>1. Len(a) = k - 1 /\ Len(a) + Len(b) = Len(ts) - 1
    BY <1>1, <1>2
  <2>2. /\ a \o b \in Seq(Timers) /\ Len(a \o b) = Len(ts) - 1
        /\ \A i \in 1 .. Len(ts) - 1 : (a \o b)[i] = IF i <= Len(a) THEN a[i] ELSE b[i - Len(a)]
    <3>1. /\ a \o b \in Seq(Timers) /\ Len(a \o b) = Len(a) + Len(b)
          /\ \A i \in 1 .. Len(a) + Len(b) : (a \o b)[i] = IF i <= Len(a) THEN a[i] ELSE b[i - Len(a)]
      BY <1>1, <1>2, Joined
    <3> QED
      BY <2>1, <3>1, Zenon
  <2>3. \A i \in 1 .. Len(ts) - 1 : (i <= Len(a) <=> i < k) /\ i - Len(a) = i - k + 1
    BY <2>1
  <2> QED
    BY <2>2, <2>3
<1>5. \A i \in 1 .. Len(ts) - 1 : i >= k => b[i - k + 1] = ts[i + 1]
  BY <1>2
<1> QED
  BY <1>1, <1>3, <1>4, <1>5

(* A set of numbers has a least one.                                       *)
LEMMA Least ==
    ASSUME NEW S \in SUBSET Nat, S # {}
    PROVE  Min(S) \in S /\ \A y \in S : Min(S) <= y
<1> DEFINE Smaller == OpToRel(<, Nat)
<1>1. IsWellFoundedOn(Smaller, Nat)
  BY NatLessThanWellFounded
<1>2. \A r, q \in Nat : r < q => <<r, q>> \in Smaller
  BY DEF OpToRel
<1> HIDE DEF Smaller
<1>3. PICK x \in S : \A y \in S : <<y, x>> \notin Smaller
  BY <1>1, WFMin
<1>4. \A y \in S : x <= y
  <2> TAKE y \in S
  <2>1. x \in Nat /\ y \in Nat /\ ~(y < x)
    BY <1>2, <1>3
  <2> QED
    BY <2>1
<1> QED
  BY <1>4 DEF Min

LEMMA CancelIs ==
    ASSUME NEW ts \in Seq(Timers), NEW id \in Nat
    PROVE  LET r == CancelTimer(ts, id)
           IN  /\ r \in Seq(Timers) /\ Range(r) \subseteq Range(ts)
               /\ \A x \in Range(ts) : x.id = NoTimer \/ x.id # id => x \in Range(r)
               /\ Distinct(ts) => /\ Distinct(r)
                                  /\ \A x \in Range(r) : x.id # id \/ id = NoTimer
<1> DEFINE r == CancelTimer(ts, id)
           same == {i \in DOMAIN ts : ts[i].id = id}
<1>1. CASE id = NoTimer \/ same = {}
  <2>1. r = ts
    BY <1>1 DEF CancelTimer
  <2>2. \A x \in Range(ts) : x.id # id \/ id = NoTimer
    BY <1>1 DEF Range
  <2> QED
    BY <2>1, <2>2
<1>2. CASE id # NoTimer /\ same # {}
  <2> DEFINE k == Min(same)
  <2>1. same \subseteq 1 .. Len(ts) /\ same \in SUBSET Nat
    OBVIOUS
  <2>2. k \in same
    BY <1>2, <2>1, Least
  <2>3. r = RemoveAt(ts, k)
    BY <1>2 DEF CancelTimer
  <2>4. k \in 1 .. Len(ts) /\ ts[k].id = id
    BY <2>2
  <2> HIDE DEF k, r
  <2>5. /\ r \in Seq(Timers) /\ Len(r) = Len(ts) - 1
        /\ \A i \in 1 .. Len(ts) - 1 : r[i] = IF i < k THEN ts[i] ELSE ts[i + 1]
    BY <2>4, <2>3, RemovedAt
  <2> DEFINE at(i) == IF i < k THEN i ELSE i + 1
  <2>6. \A i \in DOMAIN r : at(i) \in DOMAIN ts /\ at(i) # k /\ r[i] = ts[at(i)]
    BY <2>4, <2>5
  <2>7. Range(r) \subseteq Range(ts)
    BY <2>6 DEF Range
  <2>8. ASSUME NEW i \in DOMAIN ts, ts[i].id # id
        PROVE  ts[i] \in Range(r)
    <3>1. i # k
      BY <2>8, <2>4
    <3>2. CASE i < k
      <4>1. i \in DOMAIN r /\ r[i] = ts[i]
        BY <2>4, <2>5, <3>2
      <4> QED
        BY <4>1 DEF Range
    <3>3. CASE i > k
      <4>1. i - 1 \in DOMAIN r /\ r[i - 1] = ts[i]
        BY <2>4, <2>5, <3>3
      <4> QED
        BY <4>1 DEF Range
    <3> QED
      BY <2>4, <3>1, <3>2, <3>3
  <2>9. \A x \in Range(ts) : x.id = NoTimer \/ x.id # id => x \in Range(r)
    BY <1>2, <2>8 DEF Range
  <2>10. ASSUME Distinct(ts)
        PROVE  Distinct(r) /\ \A x \in Range(r) : x.id # id
    <3>1. \A i, j \in DOMAIN ts : ts[i].id = ts[j].id => i = j
      BY <2>10 DEF Distinct
    <3>2. \A i, j \in DOMAIN r : r[i].id = r[j].id => at(i) = at(j)
      BY <2>6, <3>1
    <3>3. \A i, j \in DOMAIN r : at(i) = at(j) => i = j
      BY <2>4, <2>5
    <3>4. \A i \in DOMAIN r : r[i].id # id
      BY <2>6, <2>4, <3>1
    <3> QED
      BY <3>2, <3>3, <3>4 DEF Distinct, Range
  <2> QED
    BY <2>5, <2>7, <2>9, <2>10 DEF r
<1> QED
  BY <1>1, <1>2

LEMMA TailIs ==
    ASSUME NEW ts \in Seq(Timers), ts # <<>>
    PROVE  /\ Head(ts) \in Timers /\ Tail(ts) \in Seq(Timers)
           /\ Range(ts) = Range(Tail(ts)) \cup {Head(ts)}
           /\ Distinct(ts) => /\ Distinct(Tail(ts))
                              /\ \A x \in Range(Tail(ts)) : x.id # Head(ts).id
<1>1. /\ Tail(ts) \in Seq(Timers) /\ Len(Tail(ts)) = Len(ts) - 1 /\ Len(ts) \in Nat \ {0}
      /\ \A i \in 1 .. Len(ts) - 1 : Tail(ts)[i] = ts[i + 1]
      /\ Head(ts) = ts[1] /\ ts[1] \in Timers
  OBVIOUS
<1> DEFINE r == Tail(ts)
<1> HIDE DEF r
<1>2. \A x \in Range(r) : x \in Range(ts)
  BY <1>1 DEF Range, r
<1>3. ts[1] \in Range(ts)
  BY <1>1 DEF Range
<1>4. ASSUME NEW i \in DOMAIN ts, i # 1
      PROVE  ts[i] \in Range(r)
  <2>1. i - 1 \in DOMAIN r /\ r[i - 1] = ts[i]
    BY <1>1, <1>4 DEF r
  <2> QED
    BY <2>1 DEF Range
<1>5. Range(ts) = Range(r) \cup {ts[1]}
  <2>1. \A x \in Range(ts) : x \in Range(r) \cup {ts[1]}
    BY <1>4 DEF Range
  <2> QED
    BY <1>2, <1>3, <2>1
<1>6. ASSUME Distinct(ts)
      PROVE  Distinct(r) /\ \A x \in Range(r) : x.id # ts[1].id
  <2>1. \A i, j \in DOMAIN ts : ts[i].id = ts[j].id => i = j
    BY <1>6 DEF Distinct
  <2>2. \A i \in DOMAIN r : i + 1 \in DOMAIN ts /\ r[i] = ts[i + 1] /\ i + 1 # 1
    BY <1>1 DEF r
  <2>3. 1 \in DOMAIN ts
    BY <1>1
  <2>4. \A i \in DOMAIN r : r[i].id # ts[1].id
    BY <2>1, <2>2, <2>3
  <2>5. \A i, j \in DOMAIN r : r[i].id = r[j].id => i + 1 = j + 1
    BY <2>1, <2>2
  <2>6. \A i, j \in DOMAIN r : i + 1 = j + 1 => i = j
    BY <1>1 DEF r
  <2> QED
    BY <2>4, <2>5, <2>6 DEF Distinct, Range
<1> QED
  BY <1>1, <1>5, <1>6 DEF r

LEMMA TickIs ==
    ASSUME NEW ts \in Seq(Timers)
    PROVE  /\ Tick(ts) \in Seq(Timers)
           /\ Distinct(ts) => Distinct(Tick(ts))
           /\ \A x \in Range(Tick(ts)) : \E y \in Range(ts) : x.id = y.id /\ x.fn = y.fn
           /\ \A y \in Range(ts) : \E x \in Range(Tick(ts)) : x.id = y.id /\ x.fn = y.fn
<1> DEFINE later(x) == [x EXCEPT !.left = @ - 1]
<1>1. \A i \in 1 .. Len(ts) : /\ ts[i] \in Timers /\ later(ts[i]) \in Timers
                              /\ later(ts[i]).id = ts[i].id /\ later(ts[i]).fn = ts[i].fn
  <2>1. \A x \in Timers : later(x) \in Timers
    BY DEF Timers
  <2>2. \A x \in Timers : later(x).id = x.id /\ later(x).fn = x.fn
    BY DEF Timers
  <2>3. \A i \in 1 .. Len(ts) : ts[i] \in Timers
    OBVIOUS
  <2> QED
    BY <2>1, <2>2, <2>3
<1>2. Tick(ts) = [i \in 1 .. Len(ts) |-> later(ts[i])]
  BY DEF Tick
<1> HIDE DEF later
<1>3. /\ DOMAIN Tick(ts) = 1 .. Len(ts) /\ DOMAIN ts = 1 .. Len(ts)
      /\ \A i \in 1 .. Len(ts) : /\ Tick(ts)[i] \in Timers
                                 /\ Tick(ts)[i].id = ts[i].id /\ Tick(ts)[i].fn = ts[i].fn
  BY <1>1, <1>2
<1>4. Tick(ts) \in Seq(Timers)
  BY <1>1, <1>2
<1> QED
  BY <1>3, <1>4 DEF Distinct, Range

LEMMA RepeatIs ==
    ASSUME NEW t \in Timers
    PROVE  Repeat(t) \in Timers /\ Repeat(t).id = t.id /\ Repeat(t).fn = t.fn
  BY DEF Repeat, Timers
----------------------------------------------------------------------------
LEMMA FnIs ==
    ASSUME NEW x \in Timers
    PROVE  /\ x.fn[2] \in Stream
           /\ x.fn[1] = "timeout" <=> x.fn = <<"timeout", x.fn[2]>>
           /\ \A o : x.fn = <<"timeout", o>> => x.fn[1] = "timeout" /\ x.fn[2] = o
           /\ x.fn[1] # "timeout" => x.fn[1] = "connect" /\ x.fn[2] = "connector"
<1>1. \A f : f \in {<<"timeout", o>> : o \in Stream} \cup {<<"connect", "connector">>} =>
         /\ f[2] \in Stream
         /\ f[1] = "timeout" <=> f = <<"timeout", f[2]>>
         /\ \A o : f = <<"timeout", o>> => f[1] = "timeout" /\ f[2] = o
         /\ f[1] # "timeout" => f[1] = "connect" /\ f[2] = "connector"
  BY DEF Stream, Obj
<1>2. x.fn \in {<<"timeout", o>> : o \in Stream} \cup {<<"connect", "connector">>}
  BY DEF Timers
<1> QED
  BY <1>1, <1>2

(* There is always an id left: one number more than timers and objects.    *)
LEMMA FreshIdIs ==
    ASSUME NEW s \in Memories
    PROVE  /\ FreshId(s) \in Nat /\ FreshId(s) # NoTimer
           /\ \A x \in Range(s.timers) : x.id # FreshId(s)
           /\ \A o \in Obj : s.tid[o] # FreshId(s)
<1> DEFINE n == Len(s.timers)
           T == {s.timers[i].id : i \in DOMAIN s.timers}
           O == {s.tid[o] : o \in Obj}
           free == (1 .. n + 4) \ (T \cup O)
<1>1. n \in Nat /\ s.timers \in Seq(Timers) /\ DOMAIN s.timers = 1 .. n /\ s.tid \in [Obj -> Nat]
  BY DEF Memories
<1>2. IsFiniteSet(T) /\ Cardinality(T) <= n /\ Cardinality(T) \in Nat
  <2> DEFINE f == [i \in 1 .. n |-> s.timers[i].id]
  <2>1. f \in Surjection(1 .. n, T)
    BY <1>1 DEF Surjection
  <2>2. IsFiniteSet(1 .. n) /\ Cardinality(1 .. n) = n
    BY <1>1, FS_Interval
  <2> HIDE DEF f
  <2> QED
    BY <2>1, <2>2, FS_Surjection, FS_CardinalityType
<1>3. IsFiniteSet(O) /\ Cardinality(O) <= 3 /\ Cardinality(O) \in Nat
  <2>1. O = ({s.tid["acceptor"]} \cup {s.tid["accepted"]}) \cup {s.tid["connector"]}
    BY DEF Obj
  <2>2. \A S, x : IsFiniteSet(S) /\ Cardinality(S) \in Nat =>
           /\ IsFiniteSet(S \cup {x}) /\ Cardinality(S \cup {x}) \in Nat
           /\ Cardinality(S \cup {x}) <= Cardinality(S) + 1
    BY FS_AddElement, FS_CardinalityType
  <2> DEFINE A == {s.tid["acceptor"]}
             B == A \cup {s.tid["accepted"]}
  <2>3. IsFiniteSet(A) /\ Cardinality(A) \in Nat /\ Cardinality(A) <= 1
    <3>1. IsFiniteSet(A) /\ Cardinality(A) = 1
      BY FS_Singleton, Zenon
    <3> QED
      BY <3>1
  <2> HIDE DEF A
  <2>4. IsFiniteSet(B) /\ Cardinality(B) \in Nat /\ Cardinality(B) <= 2
    <3>1. /\ IsFiniteSet(A \cup {s.tid["accepted"]}) /\ Cardinality(A \cup {s.tid["accepted"]}) \in Nat
          /\ Cardinality(A \cup {s.tid["accepted"]}) <= Cardinality(A) + 1
      BY <2>2, <2>3
    <3> QED
      BY <2>3, <3>1
  <2>5. O = B \cup {s.tid["connector"]}
    BY <2>1 DEF A
  <2> HIDE DEF B, O
  <2>6. /\ IsFiniteSet(B \cup {s.tid["connector"]}) /\ Cardinality(B \cup {s.tid["connector"]}) \in Nat
        /\ Cardinality(B \cup {s.tid["connector"]}) <= Cardinality(B) + 1
    BY <2>2, <2>4
  <2> QED
    BY <2>4, <2>5, <2>6
<1>4. IsFiniteSet(T \cup O) /\ Cardinality(T \cup O) <= n + 3 /\ Cardinality(T \cup O) \in Nat
  <2>1. Cardinality(T \cap O) \in Nat
    BY <1>2, FS_Subset, FS_CardinalityType
  <2> HIDE DEF T, O
  <2>2. /\ IsFiniteSet(T \cup O)
        /\ Cardinality(T \cup O) = Cardinality(T) + Cardinality(O) - Cardinality(T \cap O)
    BY <1>2, <1>3, FS_Union
  <2>3. Cardinality(T \cup O) \in Nat
    BY <2>2, FS_CardinalityType
  <2> QED
    BY <1>1, <1>2, <1>3, <2>1, <2>2, <2>3
<1>5. free # {}
  <2> SUFFICES ASSUME free = {} PROVE FALSE
    OBVIOUS
  <2>1. 1 .. n + 4 \in SUBSET (T \cup O)
    OBVIOUS
  <2>2. Cardinality(1 .. n + 4) = n + 4
    BY <1>1, FS_Interval
  <2> HIDE DEF T, O
  <2>3. Cardinality(1 .. n + 4) <= Cardinality(T \cup O)
    BY <1>4, <2>1, FS_Subset
  <2> QED
    BY <1>1, <1>4, <2>2, <2>3
<1>6. free \in SUBSET Nat /\ NoTimer \notin free
  BY <1>1 DEF NoTimer
<1>7. FreshId(s) = Min(free)
  BY DEF FreshId
<1>8. FreshId(s) \in free
  BY <1>5, <1>6, <1>7, Least
<1> QED
  BY <1>6, <1>8 DEF Range
----------------------------------------------------------------------------
(* The timers and the events of an object.                                 *)
LEMMA SoundMore ==
    ASSUME NEW s, NEW X, NEW Y, Sound(s, X), X \subseteq Y \/ RecvTimeout = 0
    PROVE  Sound(s, Y)
<1>1. Clocked(s, X) => Clocked(s, Y)
  BY DEF Clocked
<1> QED
  BY <1>1 DEF Sound

LEMMA MetSound ==
    ASSUME NEW s, NEW X, Sound(s, X), NEW w \in Reasons, NEW o
    PROVE  Sound(Met(s, w), X) /\ Goes(s, Met(s, w), o)
<1>1. s \in Memories
  BY DEF Sound
<1> QED
  BY <1>1, MetIs, SameSound, GoesIfSame DEF Sockets

LEMMA TouchSound ==
    ASSUME NEW s, NEW X, Sound(s, X), NEW o, NEW place \in Places,
           o \in s.live \/ Causes[place] \cap s.met # {}
    PROVE  LET t == Touch(s, o, place)
           IN  Sound(t, X) /\ Goes(s, t, o) /\ t.live = s.live /\ (t.touched = {} => o \in s.live)
<1> DEFINE t == Touch(s, o, place)
<1>1. s \in Memories
  BY DEF Sound
<1>2. /\ t \in Memories /\ t.touched = s.touched \cup (IF o \in s.live THEN {} ELSE {place})
      /\ t.met = s.met /\ t.reconnect = s.reconnect
      /\ Sockets(t) = Sockets(s) /\ Clocks(t) = Clocks(s) /\ Data(t) = Data(s) /\ Net(t) = Net(s)
  BY <1>1, TouchIs
<1>3. CASE o \in s.live
  <2>1. t = s
    BY <1>3 DEF Touch
  <2> QED
    BY <1>3, <2>1, GoesIfSame
<1>4. CASE o \notin s.live
  <2> HIDE DEF t
  <2>1. Explained(t)
    BY <1>2, <1>4 DEF Sound, Explained
  <2>2. t.touched # {} /\ t.live = s.live /\ t.connected = s.connected
    BY <1>2, <1>4 DEF Sockets
  <2>3. Sound(t, X)
    BY <1>2, <2>1, <2>2 DEF Sound
  <2>4. Goes(s, t, o)
    BY <1>2, <2>2, GoesIfSame
  <2> QED
    BY <1>4, <2>2, <2>3, <2>4 DEF t
<1> QED
  BY <1>3, <1>4

LEMMA WakeSound ==
    ASSUME NEW s, NEW X, Sound(s, X), NEW o \in Obj
    PROVE  LET t == Wake(s, o)
           IN  /\ Sound(t, X) /\ (\A p : Goes(s, t, p)) /\ t.live = s.live
               /\ t.touched = s.touched /\ t.met = s.met
<1> DEFINE u == [s EXCEPT !.ready = @ \cup {o}]
<1>1. s \in Memories
  BY DEF Sound
<1>2. u \in Memories
  BY <1>1 DEF Memories
<1>3. u.touched = s.touched /\ u.met = s.met /\ u.reconnect = s.reconnect /\ u.ready = s.ready \cup {o}
  BY <1>1 DEF Memories
<1>4. /\ u.live = s.live /\ u.fd = s.fd /\ u.connected = s.connected /\ u.bind = s.bind
      /\ u.mon = s.mon /\ u.reg = s.reg /\ u.ev = s.ev
  BY <1>1 DEF Memories
<1>5. Clocks(u) = Clocks(s)
  BY <1>1 DEF Memories, Clocks
<1>6. Data(u) = Data(s)
  BY <1>1 DEF Memories, Data
<1>7. CASE Wake(s, o) = s
  BY <1>7, GoesIfSame
<1>8. CASE Wake(s, o) = u /\ o \in s.reg
  <2> HIDE DEF u
  <2>1. Explained(u)
    BY <1>3 DEF Sound, Explained
  <2>2. Kernel(s) => Kernel(u)
    BY <1>3, <1>4, <1>5, <1>8 DEF Kernel, Clocks
  <2>3. Clocked(s, X) => Clocked(u, X)
    BY <1>4, <1>5 DEF Clocked, Clocks
  <2>4. Heard(s) => Heard(u)
    BY <1>4 DEF Heard
  <2>5. Sound(u, X)
    BY <1>2, <1>3, <1>4, <2>1, <2>2, <2>3, <2>4 DEF Sound
  <2>6. \A p : Goes(s, u, p)
    BY <1>3, <1>4, <1>6, GoesIfSame
  <2> QED
    BY <1>3, <1>4, <1>8, <2>5, <2>6
<1> QED
  BY <1>7, <1>8 DEF Wake

LEMMA StopTimerIs ==
    ASSUME NEW s \in Memories, NEW o \in Obj
    PROVE  LET t == StopTimer(s, o)
           IN  /\ t \in Memories /\ t.touched = s.touched /\ t.met = s.met /\ t.reconnect = s.reconnect
               /\ Sockets(t) = Sockets(s) /\ Data(t) = Data(s) /\ Net(t) = Net(s)
               /\ t.timers = CancelTimer(s.timers, s.tid[o]) /\ t.tid = [s.tid EXCEPT ![o] = NoTimer]
<1> DEFINE t == StopTimer(s, o)
<1>1. s.timers \in Seq(Timers) /\ s.tid[o] \in Nat /\ NoTimer \in Nat
  BY DEF Memories, NoTimer
<1>2. CancelTimer(s.timers, s.tid[o]) \in Seq(Timers)
  BY <1>1, CancelIs
<1>3. t \in Memories
  BY <1>1, <1>2 DEF Memories, StopTimer
<1>4. t.touched = s.touched /\ t.met = s.met /\ t.reconnect = s.reconnect
  BY DEF Memories, StopTimer
<1>5. Sockets(t) = Sockets(s)
  BY DEF Memories, StopTimer, Sockets
<1>6. Data(t) = Data(s) /\ Net(t) = Net(s)
  BY DEF Memories, StopTimer, Data, Net
<1>7. t.timers = CancelTimer(s.timers, s.tid[o])
  BY DEF Memories, StopTimer
<1>8. t.tid = [s.tid EXCEPT ![o] = NoTimer]
  BY DEF Memories, StopTimer
<1> QED
  BY <1>3, <1>4, <1>5, <1>6, <1>7, <1>8

LEMMA StopTimerSound ==
    ASSUME NEW s, NEW X, Sound(s, X), NEW o \in Obj
    PROVE  LET t == StopTimer(s, o)
           IN  Sound(t, X \cup {o}) /\ \A p : Goes(s, t, p)
<1> DEFINE t == StopTimer(s, o)
<1>1. s \in Memories
  BY DEF Sound
<1>2. /\ t \in Memories /\ t.touched = s.touched /\ t.met = s.met /\ t.reconnect = s.reconnect
      /\ Sockets(t) = Sockets(s) /\ Data(t) = Data(s) /\ Net(t) = Net(s)
      /\ t.timers = CancelTimer(s.timers, s.tid[o]) /\ t.tid = [s.tid EXCEPT ![o] = NoTimer]
  BY <1>1, StopTimerIs
<1> HIDE DEF t
<1>3. s.timers \in Seq(Timers) /\ s.tid[o] \in Nat /\ s.tid \in [Obj -> Nat]
  BY <1>1 DEF Memories
<1>4. /\ Range(t.timers) \subseteq Range(s.timers)
      /\ \A x \in Range(s.timers) : x.id = NoTimer \/ x.id # s.tid[o] => x \in Range(t.timers)
      /\ Distinct(s.timers) => /\ Distinct(t.timers)
                               /\ \A x \in Range(t.timers) : x.id # s.tid[o] \/ s.tid[o] = NoTimer
  BY <1>2, <1>3, CancelIs
<1>5. Range(s.timers) \subseteq Timers
  BY <1>3 DEF Range
<1>6. Explained(t)
  BY <1>2 DEF Sound, Explained
<1>7. Kernel(s) => Kernel(t)
  BY <1>2, <1>4 DEF Kernel, Sockets
<1>8. ASSUME Clocked(s, X)
      PROVE  Clocked(t, X \cup {o})
  <2>1. \A x \in Range(t.timers) : x.id # NoTimer /\ x.id # s.tid[o]
    BY <1>4, <1>8 DEF Clocked
  <2>2. \A p \in Obj : t.tid[p] = IF p = o THEN NoTimer ELSE s.tid[p]
    BY <1>2, <1>3
  <2>3. \A x \in Range(t.timers) : \A p \in Obj : x.id = t.tid[p] <=> x.id = s.tid[p]
    BY <2>1, <2>2
  <2>4. \A x \in Range(t.timers) : x.fn[2] \in Obj
    BY <1>4, <1>5, FnIs DEF Stream
  <2>5. \A x \in Range(t.timers) :
          /\ x.fn[1] = "timeout" => x.fn[2] \in t.live /\ x.id = t.tid[x.fn[2]]
          /\ \A p \in Obj : x.id = t.tid[p] => x.fn = <<"timeout", p>>
    BY <1>2, <1>4, <1>8, <2>3, <2>4 DEF Clocked, Sockets
  <2>6. ASSUME RecvTimeout # 0, NEW p \in (Stream \cap t.fd) \ (X \cup {o}), "IN" \in t.mon[p]
        PROVE  \E x \in Range(t.timers) : x.fn = <<"timeout", p>>
    <3>1. PICK x \in Range(s.timers) : x.fn = <<"timeout", p>>
      BY <1>2, <1>8, <2>6 DEF Clocked, Sockets
    <3>2. x.id # s.tid[o]
      BY <1>5, <1>8, <2>6, <3>1, FnIs DEF Clocked
    <3> QED
      BY <1>4, <3>1, <3>2
  <2> QED
    BY <1>4, <1>8, <2>1, <2>5, <2>6 DEF Clocked
<1>9. Heard(s) => Heard(t)
  BY <1>2 DEF Heard, Sockets
<1>10. Sound(t, X \cup {o})
  BY <1>2, <1>6, <1>7, <1>8, <1>9 DEF Sound, Sockets
<1>11. \A p : Goes(s, t, p)
  BY <1>2, GoesIfSame DEF Sockets
<1> QED
  BY <1>10, <1>11 DEF t

(* A timer with an id of its own.                                          *)
Arm(s, x, tid) == [s EXCEPT !.timers = Insert(@, x), !.tid = tid]

LEMMA ArmIs ==
    ASSUME NEW s \in Memories, NEW x \in Timers, NEW tid \in [Obj -> Nat]
    PROVE  LET t == Arm(s, x, tid)
           IN  /\ t \in Memories /\ t.touched = s.touched /\ t.met = s.met /\ t.reconnect = s.reconnect
               /\ Sockets(t) = Sockets(s) /\ Data(t) = Data(s) /\ Net(t) = Net(s)
               /\ t.timers = Insert(s.timers, x) /\ t.tid = tid
<1> DEFINE t == [s EXCEPT !.timers = Insert(@, x), !.tid = tid]
<1>1. s.timers \in Seq(Timers)
  BY DEF Memories
<1>2. Insert(s.timers, x) \in Seq(Timers)
  BY <1>1, InsertIs
<1>3. t \in Memories
  BY <1>2 DEF Memories
<1>4. t.touched = s.touched /\ t.met = s.met /\ t.reconnect = s.reconnect
  BY DEF Memories
<1>5. Sockets(t) = Sockets(s)
  BY DEF Memories, Sockets
<1>6. Data(t) = Data(s) /\ Net(t) = Net(s)
  BY DEF Memories, Data, Net
<1>7. t.timers = Insert(s.timers, x) /\ t.tid = tid
  BY DEF Memories
<1> QED
  BY <1>3, <1>4, <1>5, <1>6, <1>7 DEF Arm

LEMMA ArmTimeout ==
    ASSUME NEW s, NEW X, Sound(s, X), NEW o \in Stream, s.touched = {} => o \in s.live,
           NEW x \in Timers, x.fn = <<"timeout", o>>, x.id # NoTimer,
           NEW t \in Memories, t.touched = s.touched, t.met = s.met, Sockets(t) = Sockets(s),
           t.timers = Insert(s.timers, x), t.tid = [s.tid EXCEPT ![o] = x.id],
           s.tid[o] = NoTimer, \A y \in Range(s.timers) : y.id # x.id, \A p \in Obj : s.tid[p] # x.id
    PROVE  Sound(t, X \ {o})
<1>1. s.timers \in Seq(Timers) /\ s.tid \in [Obj -> Nat] /\ o \in Obj
  BY DEF Sound, Memories, Stream
<1>2. /\ Range(t.timers) = Range(s.timers) \cup {x}
      /\ Distinct(s.timers) => Distinct(t.timers)
  BY <1>1, InsertIs
<1>3. Range(s.timers) \subseteq Timers
  BY <1>1 DEF Range
<1>4. x.fn[1] = "timeout" /\ x.fn[2] = o
  BY FnIs
<1>5. Explained(t)
  BY DEF Sound, Explained
<1>6. ASSUME Kernel(s), s.touched = {}
      PROVE  Kernel(t)
  BY <1>2, <1>6, <1>4 DEF Kernel, Sockets
<1>7. ASSUME Clocked(s, X), s.touched = {}
      PROVE  Clocked(t, X \ {o})
  <2>1. \A p \in Obj : t.tid[p] = IF p = o THEN x.id ELSE s.tid[p]
    BY <1>1
  <2>2. \A y \in Range(s.timers) : y.id # NoTimer /\ y.id # x.id
    BY <1>7 DEF Clocked
  <2>3. \A y \in Range(s.timers) : \A p \in Obj : y.id = t.tid[p] <=> y.id = s.tid[p]
    BY <2>1, <2>2
  <2>4. \A y \in Range(s.timers) : y.fn[2] \in Obj
    BY <1>3, FnIs DEF Stream
  <2>5. \A y \in Range(s.timers) :
          /\ y.fn[1] = "timeout" => y.fn[2] \in t.live /\ y.id = t.tid[y.fn[2]]
          /\ \A p \in Obj : y.id = t.tid[p] => y.fn = <<"timeout", p>>
    BY <1>7, <2>3, <2>4 DEF Clocked, Sockets
  <2>6. /\ x.fn[2] \in t.live /\ x.id = t.tid[x.fn[2]]
        /\ \A p \in Obj : x.id = t.tid[p] => x.fn = <<"timeout", p>>
    BY <1>1, <1>7, <1>4, <2>1 DEF Sockets
  <2>7. ASSUME RecvTimeout # 0, NEW p \in (Stream \cap t.fd) \ (X \ {o}), "IN" \in t.mon[p]
        PROVE  \E y \in Range(t.timers) : y.fn = <<"timeout", p>>
    <3>1. CASE p = o
      BY <1>2, <3>1
    <3>2. CASE p # o
      <4>1. \E y \in Range(s.timers) : y.fn = <<"timeout", p>>
        BY <1>7, <2>7, <3>2 DEF Clocked, Sockets
      <4> QED
        BY <1>2, <4>1
    <3> QED
      BY <3>1, <3>2
  <2>8. Distinct(t.timers)
    BY <1>2, <1>7 DEF Clocked
  <2>9. \A y \in Range(t.timers) :
          /\ y.id # NoTimer
          /\ y.fn[1] = "timeout" => y.fn[2] \in t.live /\ y.id = t.tid[y.fn[2]]
          /\ \A p \in Obj : y.id = t.tid[p] => y.fn = <<"timeout", p>>
    BY <1>2, <2>2, <2>5, <2>6
  <2> QED
    BY <2>7, <2>8, <2>9 DEF Clocked
<1>8. Heard(s) => Heard(t)
  BY DEF Heard, Sockets
<1> QED
  BY <1>5, <1>6, <1>7, <1>8 DEF Sound, Sockets

LEMMA StartTimerSound ==
    ASSUME NEW s, NEW X, Sound(s, X), NEW o \in Stream, s.touched = {} => o \in s.live
    PROVE  LET t == StartTimer(s, o)
           IN  Sound(t, X \ {o}) /\ (\A p : Goes(s, t, p)) /\ t.live = s.live
<1> DEFINE u == StopTimer(s, o)
           id == FreshId(u)
           x == [id |-> id, left |-> RecvTimeout, delay |-> RecvTimeout, fn |-> <<"timeout", o>>]
           t == [u EXCEPT !.timers = SetTimer(@, id, RecvTimeout, <<"timeout", o>>), !.tid[o] = id]
           tid == [u.tid EXCEPT ![o] = id]
           v == Arm(u, x, tid)
<1>1. s \in Memories /\ o \in Obj
  BY DEF Sound, Stream
<1>2. /\ u \in Memories /\ u.touched = s.touched /\ u.met = s.met /\ u.reconnect = s.reconnect
      /\ Sockets(u) = Sockets(s) /\ Data(u) = Data(s) /\ u.tid = [s.tid EXCEPT ![o] = NoTimer]
  BY <1>1, StopTimerIs
<1>3. Sound(u, X \cup {o}) /\ (\A p : Goes(s, u, p))
  BY <1>1, StopTimerSound
<1>4. CASE RecvTimeout = 0
  <2>1. StartTimer(s, o) = u
    BY <1>4 DEF StartTimer
  <2> HIDE DEF u
  <2>2. Sound(u, X \ {o})
    BY <1>3, <1>4, SoundMore
  <2> QED
    BY <1>2, <1>3, <2>1, <2>2 DEF Sockets
<1>5. CASE RecvTimeout # 0
  <2>1. StartTimer(s, o) = t
    BY <1>5 DEF StartTimer
  <2> HIDE DEF u
  <2>2. id \in Nat /\ id # NoTimer /\ (\A y \in Range(u.timers) : y.id # id) /\ \A p \in Obj : u.tid[p] # id
    BY <1>2, FreshIdIs
  <2> HIDE DEF id
  <2>3. x \in Timers /\ x.fn = <<"timeout", o>> /\ x.id = id
    BY <2>2, ReactorAssumption DEF Timers
  <2>4. t = v
    <3>1. SetTimer(u.timers, id, RecvTimeout, <<"timeout", o>>) = Insert(u.timers, x)
      BY <1>5 DEF SetTimer
    <3> QED
      BY <3>1 DEF Arm
  <2> HIDE DEF x, t
  <2>5. u.tid \in [Obj -> Nat] /\ s.tid \in [Obj -> Nat]
    BY <1>1, <1>2 DEF Memories
  <2>6. tid \in [Obj -> Nat] /\ tid = [u.tid EXCEPT ![o] = id] /\ u.tid[o] = NoTimer
    BY <1>1, <1>2, <2>2, <2>5
  <2> HIDE DEF tid
  <2>7. /\ v \in Memories /\ v.touched = u.touched /\ v.met = u.met /\ v.reconnect = u.reconnect
        /\ Sockets(v) = Sockets(u) /\ Data(v) = Data(u)
        /\ v.timers = Insert(u.timers, x) /\ v.tid = tid
    BY <1>2, <2>3, <2>6, ArmIs
  <2> HIDE DEF v
  <2>8. u.live = s.live /\ v.live = u.live /\ v.connected = u.connected
    BY <1>2, <2>7 DEF Sockets
  <2>9. Sound(v, (X \cup {o}) \ {o})
    BY <1>2, <1>3, <2>2, <2>3, <2>6, <2>7, <2>8, ArmTimeout
  <2>10. Sound(v, X \ {o})
    BY <2>9, SoundMore
  <2>11. \A p : Goes(u, v, p)
    BY <2>7, <2>8, GoesIfSame
  <2>12. \A p : Goes(s, v, p)
    BY <1>3, <2>11, GoesOn
  <2> QED
    BY <2>1, <2>4, <2>8, <2>10, <2>12
<1> QED
  BY <1>4, <1>5

(* What do_monitor_events does to the object, and what epoll_ctl adds.     *)
Watch(s, o, events) == [s EXCEPT !.bind = @ \cup {o}, !.mon[o] = events]
Control(s, o, events) == [s EXCEPT !.reg = @ \cup {o}, !.ev[o] = events]

LEMMA WatchIs ==
    ASSUME NEW s \in Memories, NEW o \in Obj, NEW events \in SUBSET {"IN", "OUT"}
    PROVE  LET t == Watch(s, o, events)
           IN  /\ t \in Memories /\ t.touched = s.touched /\ t.met = s.met /\ t.reconnect = s.reconnect
               /\ t.live = s.live /\ t.fd = s.fd /\ t.connected = s.connected
               /\ t.reg = s.reg /\ t.ev = s.ev /\ t.ready = s.ready
               /\ t.bind = s.bind \cup {o} /\ t.mon = [s.mon EXCEPT ![o] = events]
               /\ Clocks(t) = Clocks(s) /\ Data(t) = Data(s) /\ Net(t) = Net(s)
<1> DEFINE t == Watch(s, o, events)
<1>1. t \in Memories
  BY DEF Memories, Watch
<1>2. t.touched = s.touched /\ t.met = s.met /\ t.reconnect = s.reconnect
  BY DEF Memories, Watch
<1>3. /\ t.live = s.live /\ t.fd = s.fd /\ t.connected = s.connected
      /\ t.reg = s.reg /\ t.ev = s.ev /\ t.ready = s.ready
  BY DEF Memories, Watch
<1>4. t.bind = s.bind \cup {o} /\ t.mon = [s.mon EXCEPT ![o] = events]
  BY DEF Memories, Watch
<1>5. Clocks(t) = Clocks(s) /\ Data(t) = Data(s) /\ Net(t) = Net(s)
  BY DEF Memories, Watch, Clocks, Data, Net
<1> QED
  BY <1>1, <1>2, <1>3, <1>4, <1>5

LEMMA ControlIs ==
    ASSUME NEW s \in Memories, NEW o \in Obj, NEW events \in SUBSET {"IN", "OUT"}
    PROVE  LET t == Control(s, o, events)
           IN  /\ t \in Memories /\ t.touched = s.touched /\ t.met = s.met /\ t.reconnect = s.reconnect
               /\ t.live = s.live /\ t.fd = s.fd /\ t.connected = s.connected
               /\ t.bind = s.bind /\ t.mon = s.mon /\ t.ready = s.ready
               /\ t.reg = s.reg \cup {o} /\ t.ev = [s.ev EXCEPT ![o] = events]
               /\ Clocks(t) = Clocks(s) /\ Data(t) = Data(s) /\ Net(t) = Net(s)
<1> DEFINE t == Control(s, o, events)
<1>1. t \in Memories
  BY DEF Memories, Control
<1>2. t.touched = s.touched /\ t.met = s.met /\ t.reconnect = s.reconnect
  BY DEF Memories, Control
<1>3. /\ t.live = s.live /\ t.fd = s.fd /\ t.connected = s.connected
      /\ t.bind = s.bind /\ t.mon = s.mon /\ t.ready = s.ready
  BY DEF Memories, Control
<1>4. t.reg = s.reg \cup {o} /\ t.ev = [s.ev EXCEPT ![o] = events]
  BY DEF Memories, Control
<1>5. Clocks(t) = Clocks(s) /\ Data(t) = Data(s) /\ Net(t) = Net(s)
  BY DEF Memories, Control, Clocks, Data, Net
<1> QED
  BY <1>1, <1>2, <1>3, <1>4, <1>5

(* Whoever is watched for data anew is exempt until its timer is started.  *)
LEMMA DoMonitorEventsSound ==
    ASSUME NEW s, NEW X, Sound(s, X), NEW o \in Obj, NEW events \in SUBSET {"IN", "OUT"},
           NEW Y, X \subseteq Y,
           "IN" \notin events \/ "IN" \in s.mon[o]
           \/ (o \in Y /\ (o \in s.connected \/ "rearmed" \in s.met))
    PROVE  LET t == DoMonitorEvents(s, o, events)
           IN  /\ Sound(t, Y) /\ (\A p : Goes(s, t, p)) /\ t.live = s.live
               /\ t.touched = s.touched /\ t.met = s.met
<1> DEFINE u == Watch(s, o, events)
           v == Control(u, o, events)
<1>1. s \in Memories /\ s.mon \in [Obj -> SUBSET {"IN", "OUT"}] /\ s.ev \in [Obj -> SUBSET {"IN", "OUT"}]
  BY DEF Sound, Memories
<1>2. /\ u \in Memories /\ u.touched = s.touched /\ u.met = s.met /\ u.reconnect = s.reconnect
      /\ u.live = s.live /\ u.fd = s.fd /\ u.connected = s.connected
      /\ u.reg = s.reg /\ u.ev = s.ev /\ u.ready = s.ready
      /\ u.bind = s.bind \cup {o} /\ u.mon = [s.mon EXCEPT ![o] = events]
      /\ Clocks(u) = Clocks(s) /\ Data(u) = Data(s) /\ Net(u) = Net(s)
  BY <1>1, WatchIs, Zenon
<1>3. DoMonitorEvents(s, o, events) =
        IF o \in s.fd /\ (o \in s.bind) = (o \in s.reg) THEN Wake(v, o) ELSE u
  BY DEF DoMonitorEvents, Watch, Control
<1> HIDE DEF u
<1>4. /\ v \in Memories /\ v.touched = u.touched /\ v.met = u.met /\ v.reconnect = u.reconnect
      /\ v.live = u.live /\ v.fd = u.fd /\ v.connected = u.connected
      /\ v.bind = u.bind /\ v.mon = u.mon /\ v.ready = u.ready
      /\ v.reg = u.reg \cup {o} /\ v.ev = [u.ev EXCEPT ![o] = events]
      /\ Clocks(v) = Clocks(u) /\ Data(v) = Data(u)
  BY <1>2, ControlIs
<1> HIDE DEF v
<1>5. Explained(u) /\ Explained(v)
  BY <1>2, <1>4 DEF Sound, Explained
<1>6. \A p \in Obj : u.mon[p] = IF p = o THEN events ELSE s.mon[p]
  BY <1>1, <1>2
<1>7. Clocked(s, X) => Clocked(u, Y) /\ Clocked(v, Y)
  <2> SUFFICES ASSUME Clocked(s, X) PROVE Clocked(u, Y) /\ Clocked(v, Y)
    OBVIOUS
  <2>1. RecvTimeout # 0 => \A p \in (Stream \cap u.fd) \ Y :
          "IN" \in u.mon[p] => \E x \in Range(s.timers) : x.fn = <<"timeout", p>>
    BY <1>2, <1>6 DEF Clocked, Stream
  <2>2. u.timers = s.timers /\ u.tid = s.tid /\ v.timers = s.timers /\ v.tid = s.tid
    BY <1>2, <1>4 DEF Clocks
  <2>3. Clocked(u, Y)
    <3>1. /\ Distinct(s.timers)
          /\ \A x \in Range(s.timers) :
                /\ x.id # NoTimer
                /\ x.fn[1] = "timeout" => x.fn[2] \in s.live /\ x.id = s.tid[x.fn[2]]
                /\ \A p \in Obj : x.id = s.tid[p] => x.fn = <<"timeout", p>>
      BY DEF Clocked
    <3>2. u.live = s.live
      BY <1>2
    <3> QED
      BY <2>1, <2>2, <3>1, <3>2 DEF Clocked
  <2>4. Clocked(v, Y)
    <3>1. v.live = u.live /\ v.fd = u.fd /\ v.mon = u.mon /\ v.timers = u.timers /\ v.tid = u.tid
      BY <1>4, <2>2
    <3> QED
      BY <2>3, <3>1 DEF Clocked
  <2> QED
    BY <2>3, <2>4
<1>8. CASE o \in s.fd /\ (o \in s.bind) = (o \in s.reg)
  <2>1. ASSUME Kernel(s) PROVE Kernel(v)
    BY <1>2, <1>4, <1>8, <2>1 DEF Kernel, Clocks
  <2>2. ASSUME Heard(s), "rearmed" \notin s.met PROVE Heard(v)
    <3>1. \A p \in Obj : v.ev[p] = IF p = o THEN events ELSE s.ev[p]
      BY <1>1, <1>2, <1>4
    <3>2. \A p \in Obj : v.mon[p] = IF p = o THEN events ELSE s.mon[p]
      BY <1>4, <1>6
    <3>3. v.connected = s.connected /\ v.reg = s.reg \cup {o}
      BY <1>2, <1>4
    <3>4. o \in Stream /\ "IN" \in events => o \in s.connected
      BY <2>2 DEF Heard
    <3> QED
      BY <2>2, <3>1, <3>2, <3>3, <3>4 DEF Heard, Stream
  <2>3. Sound(v, Y)
    BY <1>2, <1>4, <1>5, <1>7, <2>1, <2>2 DEF Sound
  <2>4. \A p : Goes(s, v, p)
    BY <1>2, <1>4, GoesIfSame
  <2>5. /\ Sound(Wake(v, o), Y) /\ (\A p : Goes(v, Wake(v, o), p)) /\ Wake(v, o).live = v.live
        /\ Wake(v, o).touched = v.touched /\ Wake(v, o).met = v.met
    BY <2>3, WakeSound
  <2>6. \A p : Goes(s, Wake(v, o), p)
    BY <2>4, <2>5, GoesOn
  <2> QED
    BY <1>2, <1>3, <1>4, <1>8, <2>5, <2>6
<1>9. CASE ~(o \in s.fd /\ (o \in s.bind) = (o \in s.reg))
  <2>1. ASSUME Kernel(s) PROVE Kernel(u)
    BY <1>2, <2>1 DEF Kernel, Clocks
  <2>2. ASSUME Heard(s), Kernel(s), "rearmed" \notin s.met PROVE Heard(u)
    <3>1. o \notin s.reg
      BY <1>9, <2>2 DEF Kernel
    <3>2. u.connected = s.connected /\ u.reg = s.reg /\ u.ev = s.ev
      BY <1>2
    <3>3. o \in Stream /\ "IN" \in events => o \in s.connected
      BY <2>2 DEF Heard
    <3> QED
      BY <1>6, <2>2, <3>1, <3>2, <3>3 DEF Heard, Stream
  <2>3. Sound(u, Y)
    BY <1>2, <1>5, <1>7, <2>1, <2>2 DEF Sound
  <2>4. \A p : Goes(s, u, p)
    BY <1>2, GoesIfSame
  <2> QED
    BY <1>2, <1>3, <1>9, <2>3, <2>4
<1> QED
  BY <1>8, <1>9

LEMMA AsyncRecvSound ==
    ASSUME NEW s, NEW X, Sound(s, X), NEW o \in Stream, s.touched = {} => o \in s.live,
           o \in s.connected \/ "rearmed" \in s.met
    PROVE  LET t == AsyncRecv(s, o)
           IN  Sound(t, X \ {o}) /\ (\A p : Goes(s, t, p)) /\ t.live = s.live
<1> DEFINE events == s.mon[o] \cup {"IN"}
           u == IF "IN" \in s.mon[o] THEN s ELSE DoMonitorEvents(s, o, events)
<1>1. o \in Obj /\ s.mon[o] \in SUBSET {"IN", "OUT"}
  BY DEF Sound, Memories, Stream
<1>2. events \in SUBSET {"IN", "OUT"}
  BY <1>1
<1> HIDE DEF events
<1>3. Sound(u, X \cup {o}) /\ (\A p : Goes(s, u, p)) /\ u.live = s.live /\ u.touched = s.touched
  <2>1. CASE "IN" \in s.mon[o]
    <3>1. Sound(s, X \cup {o})
      BY SoundMore
    <3> QED
      BY <2>1, <3>1, GoesIfSame
  <2>2. CASE "IN" \notin s.mon[o]
    <3> DEFINE Y == X \cup {o}
    <3>1. X \subseteq Y /\ o \in Y
      OBVIOUS
    <3> HIDE DEF Y
    <3>2. "IN" \notin events \/ "IN" \in s.mon[o] \/ (o \in Y /\ (o \in s.connected \/ "rearmed" \in s.met))
      BY <3>1
    <3>3. LET t == DoMonitorEvents(s, o, events)
          IN  /\ Sound(t, Y) /\ (\A p : Goes(s, t, p)) /\ t.live = s.live
              /\ t.touched = s.touched /\ t.met = s.met
      BY <1>1, <1>2, <3>1, <3>2, DoMonitorEventsSound, ZenonT(30)
    <3> QED
      BY <2>2, <3>3 DEF Y
  <2> QED
    BY <2>1, <2>2
<1>4. AsyncRecv(s, o) = StartTimer(u, o)
  BY DEF AsyncRecv, events
<1> HIDE DEF u
<1>5. Sound(StartTimer(u, o), (X \cup {o}) \ {o}) /\ (\A p : Goes(u, StartTimer(u, o), p)) /\ StartTimer(u, o).live = u.live
  BY <1>3, StartTimerSound
<1>6. Sound(StartTimer(u, o), X \ {o})
  BY <1>5, SoundMore
<1>7. \A p : Goes(s, StartTimer(u, o), p)
  BY <1>3, <1>5, GoesOn
<1> QED
  BY <1>3, <1>4, <1>5, <1>6, <1>7
----------------------------------------------------------------------------
(* close().                                                                *)
Unbind(s, o) == [s EXCEPT !.bind = @ \ {o}]
Free(s, o) == [s EXCEPT !.live = @ \ {o}]

LEMMA SocketCloseIs ==
    ASSUME NEW s \in Memories, NEW o \in Obj
    PROVE  LET t == SocketClose(s, o)
           IN  /\ t \in Memories /\ t.touched = s.touched /\ t.met = s.met /\ t.reconnect = s.reconnect
               /\ t.live = s.live /\ t.connected = s.connected /\ t.bind = s.bind
               /\ t.mon = s.mon /\ t.ev = s.ev
               /\ t.fd = s.fd \ {o} /\ t.reg = s.reg \ {o} /\ t.ready = s.ready \ {o}
               /\ Clocks(t) = Clocks(s) /\ Data(t) = Data(s)
<1> DEFINE t == SocketClose(s, o)
<1>1. t \in Memories
  BY DEF Memories, SocketClose
<1>2. t.touched = s.touched /\ t.met = s.met /\ t.reconnect = s.reconnect
  BY DEF Memories, SocketClose
<1>3. /\ t.live = s.live /\ t.connected = s.connected /\ t.bind = s.bind
      /\ t.mon = s.mon /\ t.ev = s.ev
  BY DEF Memories, SocketClose
<1>4. t.fd = s.fd \ {o} /\ t.reg = s.reg \ {o} /\ t.ready = s.ready \ {o}
  BY DEF Memories, SocketClose
<1>5. Clocks(t) = Clocks(s) /\ Data(t) = Data(s)
  BY DEF Memories, SocketClose, Clocks, Data
<1> QED
  BY <1>1, <1>2, <1>3, <1>4, <1>5

LEMMA UnbindIs ==
    ASSUME NEW s \in Memories, NEW o \in Obj
    PROVE  LET t == Unbind(s, o)
           IN  /\ t \in Memories /\ t.touched = s.touched /\ t.met = s.met /\ t.reconnect = s.reconnect
               /\ t.live = s.live /\ t.connected = s.connected /\ t.fd = s.fd
               /\ t.mon = s.mon /\ t.ev = s.ev /\ t.reg = s.reg /\ t.ready = s.ready
               /\ t.bind = s.bind \ {o}
               /\ Clocks(t) = Clocks(s) /\ Data(t) = Data(s)
<1> DEFINE t == Unbind(s, o)
<1>1. t \in Memories
  BY DEF Memories, Unbind
<1>2. t.touched = s.touched /\ t.met = s.met /\ t.reconnect = s.reconnect
  BY DEF Memories, Unbind
<1>3. /\ t.live = s.live /\ t.connected = s.connected /\ t.fd = s.fd
      /\ t.mon = s.mon /\ t.ev = s.ev /\ t.reg = s.reg /\ t.ready = s.ready
  BY DEF Memories, Unbind
<1>4. t.bind = s.bind \ {o}
  BY DEF Memories, Unbind
<1>5. Clocks(t) = Clocks(s) /\ Data(t) = Data(s)
  BY DEF Memories, Unbind, Clocks, Data
<1> QED
  BY <1>1, <1>2, <1>3, <1>4, <1>5

LEMMA FreeIs ==
    ASSUME NEW s \in Memories, NEW o \in Obj
    PROVE  LET t == Free(s, o)
           IN  /\ t \in Memories /\ t.touched = s.touched /\ t.met = s.met /\ t.reconnect = s.reconnect
               /\ t.bind = s.bind /\ t.connected = s.connected /\ t.fd = s.fd
               /\ t.mon = s.mon /\ t.ev = s.ev /\ t.reg = s.reg /\ t.ready = s.ready
               /\ t.live = s.live \ {o}
               /\ Clocks(t) = Clocks(s) /\ Data(t) = Data(s)
<1> DEFINE t == Free(s, o)
<1>1. t \in Memories
  BY DEF Memories, Free
<1>2. t.touched = s.touched /\ t.met = s.met /\ t.reconnect = s.reconnect
  BY DEF Memories, Free
<1>3. /\ t.bind = s.bind /\ t.connected = s.connected /\ t.fd = s.fd
      /\ t.mon = s.mon /\ t.ev = s.ev /\ t.reg = s.reg /\ t.ready = s.ready
  BY DEF Memories, Free
<1>4. t.live = s.live \ {o}
  BY DEF Memories, Free
<1>5. Clocks(t) = Clocks(s) /\ Data(t) = Data(s)
  BY DEF Memories, Free, Clocks, Data
<1> QED
  BY <1>1, <1>2, <1>3, <1>4, <1>5

(* A socket is closed with its timer stopped; a connection is freed with it.*)
Shut(s, o) == Unbind(SocketClose(StopTimer(s, o), o), o)

LEMMA ShutIs ==
    ASSUME NEW s \in Memories, NEW o \in Obj
    PROVE  LET t == Shut(s, o)
               u == StopTimer(s, o)
           IN  /\ t \in Memories /\ t.touched = s.touched /\ t.met = s.met /\ t.reconnect = s.reconnect
               /\ t.live = s.live /\ t.connected = s.connected /\ t.mon = s.mon /\ t.ev = s.ev
               /\ t.fd = s.fd \ {o} /\ t.reg = s.reg \ {o} /\ t.ready = s.ready \ {o}
               /\ t.bind = s.bind \ {o} /\ t.timers = u.timers /\ t.tid = u.tid /\ Data(t) = Data(s)
               /\ t.tid[o] = NoTimer
<1> DEFINE u == StopTimer(s, o)
           v == SocketClose(u, o)
           t == Unbind(v, o)
<1>1. /\ u \in Memories /\ u.touched = s.touched /\ u.met = s.met /\ u.reconnect = s.reconnect
      /\ u.live = s.live /\ u.fd = s.fd /\ u.connected = s.connected /\ u.bind = s.bind
      /\ u.mon = s.mon /\ u.reg = s.reg /\ u.ev = s.ev /\ u.ready = s.ready
      /\ Data(u) = Data(s) /\ u.tid = [s.tid EXCEPT ![o] = NoTimer]
  BY StopTimerIs DEF Sockets
<1>2. s.tid \in [Obj -> Nat]
  BY DEF Memories
<1> HIDE DEF u
<1>3. /\ v \in Memories /\ v.touched = u.touched /\ v.met = u.met /\ v.reconnect = u.reconnect
      /\ v.live = u.live /\ v.connected = u.connected /\ v.bind = u.bind
      /\ v.mon = u.mon /\ v.ev = u.ev
      /\ v.fd = u.fd \ {o} /\ v.reg = u.reg \ {o} /\ v.ready = u.ready \ {o}
      /\ Clocks(v) = Clocks(u) /\ Data(v) = Data(u)
  BY <1>1, SocketCloseIs
<1> HIDE DEF v
<1>4. /\ t \in Memories /\ t.touched = v.touched /\ t.met = v.met /\ t.reconnect = v.reconnect
      /\ t.live = v.live /\ t.connected = v.connected /\ t.fd = v.fd
      /\ t.mon = v.mon /\ t.ev = v.ev /\ t.reg = v.reg /\ t.ready = v.ready
      /\ t.bind = v.bind \ {o} /\ Clocks(t) = Clocks(v) /\ Data(t) = Data(v)
  BY <1>3, UnbindIs
<1> HIDE DEF t
<1>5. t.timers = u.timers /\ t.tid = u.tid /\ t.tid[o] = NoTimer
  BY <1>1, <1>2, <1>3, <1>4 DEF Clocks
<1>6. Shut(s, o) = t
  BY DEF Shut, t, v, u
<1> QED
  BY <1>1, <1>3, <1>4, <1>5, <1>6 DEF u

LEMMA CloseConnectionIsShut ==
    ASSUME NEW s, NEW o, NEW force
    PROVE  LET t == IF o \in s.fd THEN Shut(s, o) ELSE s
           IN  CloseConnection(s, o, force) = IF force THEN Free(t, o) ELSE t
  BY DEF CloseConnection, Shut, Unbind, Free

(* The socket goes, and what waited for it.                                *)
LEMMA ShutSound ==
    ASSUME NEW s, NEW X, Sound(s, X), NEW o \in Obj \ {"accepted"}
    PROVE  LET t == Shut(s, o)
           IN  Sound(t, X \ {o}) /\ \A p : Goes(s, t, p)
<1> DEFINE t == Shut(s, o)
           u == StopTimer(s, o)
<1>1. s \in Memories /\ o \in Obj
  BY DEF Sound
<1>2. /\ t \in Memories /\ t.touched = s.touched /\ t.met = s.met /\ t.reconnect = s.reconnect
      /\ t.live = s.live /\ t.connected = s.connected /\ t.mon = s.mon /\ t.ev = s.ev
      /\ t.fd = s.fd \ {o} /\ t.reg = s.reg \ {o} /\ t.ready = s.ready \ {o}
      /\ t.bind = s.bind \ {o} /\ t.timers = u.timers /\ t.tid = u.tid /\ Data(t) = Data(s)
  BY <1>1, ShutIs
<1>3. Sound(u, X \cup {o}) /\ u.touched = s.touched /\ u.met = s.met /\ Sockets(u) = Sockets(s)
  BY <1>1, StopTimerSound, StopTimerIs
<1> HIDE DEF t, u
<1>4. Explained(t)
  BY <1>2 DEF Sound, Explained
<1>5. Kernel(u) => Kernel(t)
  BY <1>2, <1>3 DEF Kernel, Sockets
<1>6. Clocked(u, X \cup {o}) => Clocked(t, X \ {o})
  BY <1>2, <1>3, SMTT(20) DEF Clocked, Sockets
<1>7. Heard(u) => Heard(t)
  BY <1>2, <1>3 DEF Heard, Sockets
<1>8. Sound(t, X \ {o})
  BY <1>2, <1>3, <1>4, <1>5, <1>6, <1>7 DEF Sound
<1>9. \A p : Goes(s, t, p)
  BY <1>2, GoesIfSame
<1> QED
  BY <1>8, <1>9 DEF t

(* ... and with it, the object.                                            *)
LEMMA CloseConnectionSound ==
    ASSUME NEW s, NEW X, Sound(s, X), NEW o \in {"acceptor", "accepted"}, s.touched = {} => o \in s.live
    PROVE  LET t == CloseConnection(s, o, TRUE)
           IN  /\ Sound(t, X \ {o}) /\ Goes(s, t, o) /\ t.touched = s.touched /\ t.met = s.met
               /\ o \notin t.live
<1> DEFINE u == StopTimer(s, o)
           v == IF o \in s.fd THEN Shut(s, o) ELSE s
           t == Free(v, o)
<1>1. s \in Memories /\ o \in Obj
  BY DEF Sound, Obj
<1>2. /\ v \in Memories /\ v.touched = s.touched /\ v.met = s.met /\ v.reconnect = s.reconnect
      /\ v.live = s.live /\ v.connected = s.connected /\ v.mon = s.mon /\ v.ev = s.ev
      /\ v.fd = s.fd \ {o} /\ v.reg \subseteq s.reg /\ v.ready \subseteq s.ready /\ Data(v) = Data(s)
      /\ o \in s.fd => /\ v.reg = s.reg \ {o} /\ v.ready = s.ready \ {o} /\ v.bind = s.bind \ {o}
                       /\ v.timers = u.timers /\ v.tid = u.tid /\ u.tid = [s.tid EXCEPT ![o] = NoTimer]
      /\ o \notin s.fd => v = s
  <2>1. LET w == Shut(s, o)
        IN  /\ w \in Memories /\ w.touched = s.touched /\ w.met = s.met /\ w.reconnect = s.reconnect
            /\ w.live = s.live /\ w.connected = s.connected /\ w.mon = s.mon /\ w.ev = s.ev
            /\ w.fd = s.fd \ {o} /\ w.reg = s.reg \ {o} /\ w.ready = s.ready \ {o}
            /\ w.bind = s.bind \ {o} /\ w.timers = u.timers /\ w.tid = u.tid /\ Data(w) = Data(s)
    BY <1>1, ShutIs
  <2>2. u.tid = [s.tid EXCEPT ![o] = NoTimer]
    BY <1>1, StopTimerIs
  <2> HIDE DEF u
  <2> QED
    BY <1>1, <2>1, <2>2
<1>3. Sound(u, X \cup {o}) /\ u.touched = s.touched /\ u.met = s.met /\ Sockets(u) = Sockets(s)
  BY <1>1, StopTimerSound, StopTimerIs
<1>4. CloseConnection(s, o, TRUE) = t
  BY CloseConnectionIsShut
<1> HIDE DEF u, v
<1>5. /\ t \in Memories /\ t.touched = v.touched /\ t.met = v.met /\ t.reconnect = v.reconnect
      /\ t.bind = v.bind /\ t.connected = v.connected /\ t.fd = v.fd
      /\ t.mon = v.mon /\ t.ev = v.ev /\ t.reg = v.reg /\ t.ready = v.ready
      /\ t.live = v.live \ {o} /\ t.timers = v.timers /\ t.tid = v.tid /\ Data(t) = Data(v)
  BY <1>1, <1>2, FreeIs DEF Clocks
<1> HIDE DEF t
<1>6. Explained(t)
  BY <1>2, <1>5 DEF Sound, Explained
<1>7. ASSUME Kernel(s), s.touched = {}
      PROVE  Kernel(t)
  <2>1. CASE o \in s.fd
    <3>1. Kernel(u)
      BY <1>3, <1>7 DEF Sound
    <3>2. \A x \in Range(t.timers) : x.fn[2] = "connector" => "connector" \in s.live
      BY <1>2, <1>3, <1>5, <2>1, <3>1 DEF Kernel, Sockets
    <3> QED
      BY <1>2, <1>5, <1>7, <2>1, <3>2 DEF Kernel
  <2>2. CASE o \notin s.fd
    BY <1>2, <1>5, <1>7, <2>2 DEF Kernel
  <2> QED
    BY <2>1, <2>2
<1>8. ASSUME Kernel(s), Clocked(s, X), s.touched = {}, "rearmed" \notin s.met
      PROVE  Clocked(t, X \ {o})
  <2>1. CASE o \in s.fd
    <3>1. Clocked(u, X \cup {o})
      BY <1>3, <1>8 DEF Sound
    <3>2. u.tid[o] = NoTimer
      BY <1>1, <1>2, <2>1 DEF Memories
    <3>3. \A x \in Range(u.timers) : x.fn[1] = "timeout" => x.fn[2] # o
      BY <3>1, <3>2 DEF Clocked
    <3>4. /\ t.timers = u.timers /\ t.tid = u.tid /\ t.live = u.live \ {o} /\ t.fd = u.fd \ {o}
          /\ t.mon = u.mon
      BY <1>2, <1>3, <1>5, <2>1 DEF Sockets
    <3> QED
      BY <3>1, <3>3, <3>4 DEF Clocked
  <2>2. CASE o \notin s.fd
    <3>1. o = "acceptor" /\ t.timers = s.timers /\ t.tid = s.tid /\ t.mon = s.mon /\ t.fd = s.fd
      BY <1>2, <1>5, <1>8, <2>2 DEF Kernel
    <3>2. Range(s.timers) \subseteq Timers
      BY <1>1 DEF Memories, Range
    <3>3. \A x \in Range(s.timers) : x.fn[2] # o
      BY <3>1, <3>2, FnIs DEF Stream
    <3> QED
      BY <1>2, <1>5, <1>8, <2>2, <3>1, <3>3 DEF Clocked
  <2> QED
    BY <2>1, <2>2
<1>9. Heard(s) => Heard(t)
  BY <1>2, <1>5 DEF Heard
<1>10. Sound(t, X \ {o})
  BY <1>2, <1>5, <1>6, <1>7, <1>8, <1>9 DEF Sound
<1>11. Goes(s, t, o)
  <2>1. InOrder(s) => InOrder(t)
    BY <1>2, <1>5 DEF InOrder, Data
  <2> QED
    BY <1>2, <1>5, <2>1 DEF Goes
<1> QED
  BY <1>2, <1>4, <1>5, <1>10, <1>11

(* Other timers.                                                           *)
Timed(s, ts) == [s EXCEPT !.timers = ts]

LEMMA TimedIs ==
    ASSUME NEW s \in Memories, NEW ts \in Seq(Timers)
    PROVE  LET t == Timed(s, ts)
           IN  /\ t \in Memories /\ t.touched = s.touched /\ t.met = s.met /\ t.reconnect = s.reconnect
               /\ Sockets(t) = Sockets(s) /\ Data(t) = Data(s) /\ Net(t) = Net(s)
               /\ t.tid = s.tid /\ t.timers = ts
<1> DEFINE t == Timed(s, ts)
<1>1. t \in Memories
  BY DEF Memories, Timed
<1>2. t.touched = s.touched /\ t.met = s.met /\ t.reconnect = s.reconnect
  BY DEF Memories, Timed
<1>3. Sockets(t) = Sockets(s)
  BY DEF Memories, Timed, Sockets
<1>4. Data(t) = Data(s) /\ Net(t) = Net(s)
  BY DEF Memories, Timed, Data, Net
<1>5. t.tid = s.tid /\ t.timers = ts
  BY DEF Memories, Timed
<1> QED
  BY <1>1, <1>2, <1>3, <1>4, <1>5

(* A timer is set, or set again, for an object that is there, unless it is *)
(* one that has been rearmed.                                              *)
LEMMA PutSound ==
    ASSUME NEW s, NEW X, Sound(s, X), NEW x \in Timers,
           s.touched = {} /\ (x.fn[2] = "connector" \/ "rearmed" \notin s.met) => x.fn[2] \in s.live,
           s.touched = {} /\ "rearmed" \notin s.met =>
               /\ x.id # NoTimer /\ \A y \in Range(s.timers) : y.id # x.id
               /\ x.fn[1] = "timeout" => x.id = s.tid[x.fn[2]]
               /\ \A p \in Obj : x.id = s.tid[p] => x.fn = <<"timeout", p>>
    PROVE  LET t == Timed(s, Insert(s.timers, x))
           IN  /\ Sound(t, {p \in X : x.fn # <<"timeout", p>>}) /\ (\A p : Goes(s, t, p))
               /\ t.touched = s.touched /\ t.met = s.met /\ t.live = s.live
<1> DEFINE ts == Insert(s.timers, x)
           t == Timed(s, ts)
           Y == {p \in X : x.fn # <<"timeout", p>>}
<1>1. s \in Memories /\ s.timers \in Seq(Timers)
  BY DEF Sound, Memories
<1>2. /\ ts \in Seq(Timers) /\ Range(ts) = Range(s.timers) \cup {x}
      /\ Distinct(s.timers) /\ (\A y \in Range(s.timers) : y.id # x.id) => Distinct(ts)
  BY <1>1, InsertIs
<1> HIDE DEF ts
<1>3. /\ t \in Memories /\ t.touched = s.touched /\ t.met = s.met /\ t.reconnect = s.reconnect
      /\ Sockets(t) = Sockets(s) /\ Data(t) = Data(s) /\ t.tid = s.tid /\ t.timers = ts
  BY <1>1, <1>2, TimedIs
<1> HIDE DEF t
<1>4. Explained(t)
  BY <1>3 DEF Sound, Explained
<1>5. Kernel(s) /\ s.touched = {} => Kernel(t)
  BY <1>2, <1>3 DEF Kernel, Sockets
<1>6. Clocked(s, X) /\ s.touched = {} /\ "rearmed" \notin s.met => Clocked(t, Y)
  <2> SUFFICES ASSUME Clocked(s, X), s.touched = {}, "rearmed" \notin s.met
               PROVE  Clocked(t, Y)
    OBVIOUS
  <2>1. Distinct(ts)
    BY <1>2 DEF Clocked
  <2>2. \A y \in Range(ts) :
          /\ y.id # NoTimer
          /\ y.fn[1] = "timeout" => y.fn[2] \in t.live /\ y.id = t.tid[y.fn[2]]
          /\ \A p \in Obj : y.id = t.tid[p] => y.fn = <<"timeout", p>>
    BY <1>2, <1>3 DEF Clocked, Sockets
  <2>3. ASSUME RecvTimeout # 0, NEW p \in (Stream \cap t.fd) \ Y, "IN" \in t.mon[p]
        PROVE  \E y \in Range(ts) : y.fn = <<"timeout", p>>
    <3>1. CASE x.fn = <<"timeout", p>>
      BY <1>2, <3>1
    <3>2. CASE x.fn # <<"timeout", p>>
      <4>1. \E y \in Range(s.timers) : y.fn = <<"timeout", p>>
        BY <1>3, <2>3, <3>2 DEF Clocked, Sockets
      <4> QED
        BY <1>2, <4>1
    <3> QED
      BY <3>1, <3>2
  <2> QED
    BY <1>3, <2>1, <2>2, <2>3 DEF Clocked
<1>7. Heard(s) => Heard(t)
  BY <1>3 DEF Heard, Sockets
<1>8. Sound(t, Y)
  BY <1>3, <1>4, <1>5, <1>6, <1>7 DEF Sound, Sockets
<1>9. t.live = s.live /\ t.connected = s.connected
  BY <1>3 DEF Sockets
<1>10. \A p : Goes(s, t, p)
  BY <1>3, <1>9, GoesIfSame
<1> QED
  BY <1>3, <1>8, <1>9, <1>10 DEF t, ts

(* A connector with reconnect stays and dials again; one without is gone.  *)
LEMMA CloseConnectorSound ==
    ASSUME NEW s, NEW X, Sound(s, X), s.touched = {} => "connector" \in s.live
    PROVE  LET t == CloseConnector(s)
           IN  /\ Sound(t, X \ {"connector"}) /\ Goes(s, t, "connector")
               /\ t.touched = {} => /\ "connector" \in t.live
                                    /\ \A x \in Range(t.timers) : x.fn[1] = "timeout" => x \in Range(s.timers)
<1> DEFINE o == "connector"
           v == IF o \in s.fd THEN Shut(s, o) ELSE s
<1>1. s \in Memories /\ o \in Obj \ {"accepted"} /\ o \in Obj
  BY DEF Sound, Obj
<1>2. /\ v \in Memories /\ v.touched = s.touched /\ v.met = s.met /\ v.reconnect = s.reconnect
      /\ v.live = s.live /\ v.connected = s.connected
  <2>1. LET w == Shut(s, o)
        IN  /\ w \in Memories /\ w.touched = s.touched /\ w.met = s.met /\ w.reconnect = s.reconnect
            /\ w.live = s.live /\ w.connected = s.connected
    BY <1>1, ShutIs
  <2> QED
    BY <1>1, <2>1
<1>3. Sound(v, X \ {o}) /\ \A p : Goes(s, v, p)
  <2>1. CASE o \in s.fd
    BY <1>1, <2>1, ShutSound
  <2>2. CASE o \notin s.fd
    <3>1. Clocked(s, X) => Clocked(s, X \ {o})
      BY <2>2 DEF Clocked
    <3> QED
      BY <2>2, <3>1, GoesIfSame DEF Sound
  <2> QED
    BY <2>1, <2>2
<1>4. Range(v.timers) \subseteq Range(s.timers)
  <2>1. CASE o \in s.fd
    <3>1. s.timers \in Seq(Timers) /\ s.tid[o] \in Nat
      BY <1>1 DEF Memories
    <3>2. v.timers = CancelTimer(s.timers, s.tid[o])
      <4>1. Shut(s, o).timers = StopTimer(s, o).timers
        BY <1>1, ShutIs
      <4>2. StopTimer(s, o).timers = CancelTimer(s.timers, s.tid[o])
        BY <1>1, StopTimerIs
      <4> QED
        BY <2>1, <4>1, <4>2
    <3> QED
      BY <3>1, <3>2, CancelIs
  <2>2. CASE o \notin s.fd
    BY <2>2
  <2> QED
    BY <2>1, <2>2
<1>5. CASE ~s.reconnect
  <2> DEFINE w == Free(v, o)
             x == Met(w, "no reconnect")
             t == Touch(x, o, "connector close")
  <2>1. CloseConnector(s) = t
    BY <1>5, CloseConnectionIsShut DEF CloseConnector
  <2> HIDE DEF v
  <2>2. /\ w \in Memories /\ w.touched = v.touched /\ w.met = v.met /\ w.reconnect = v.reconnect
        /\ w.live = v.live \ {o} /\ w.connected = v.connected /\ Data(w) = Data(v)
    BY <1>1, <1>2, FreeIs
  <2> HIDE DEF w
  <2>3. /\ x \in Memories /\ x.touched = w.touched /\ x.met = w.met \cup {"no reconnect"}
        /\ x.reconnect = w.reconnect /\ x.live = w.live /\ x.connected = w.connected /\ Data(x) = Data(w)
    BY <2>2, MetIs DEF Reasons, Sockets
  <2> HIDE DEF x
  <2>4. /\ t \in Memories /\ t.touched = x.touched \cup {"connector close"} /\ t.met = x.met
        /\ t.reconnect = x.reconnect /\ t.live = x.live /\ t.connected = x.connected /\ Data(t) = Data(x)
    <3>1. o \notin x.live
      BY <2>2, <2>3
    <3>2. "connector close" \in Places
      BY DEF Places
    <3>3. x \in Memories
      BY <2>3
    <3>4. ASSUME NEW place \in Places
          PROVE  LET y == Touch(x, o, place)
                 IN  /\ y \in Memories /\ y.touched = x.touched \cup {place} /\ y.met = x.met
                     /\ y.reconnect = x.reconnect /\ y.live = x.live /\ y.connected = x.connected
                     /\ Data(y) = Data(x)
      BY <3>1, <3>3, GoneIs
    <3> QED
      BY <3>2, <3>4, Zenon
  <2> HIDE DEF t
  <2>5. Explained(t)
    <3>1. t.touched = s.touched \cup {"connector close"} /\ t.met = s.met \cup {"no reconnect"}
      BY <1>2, <2>2, <2>3, <2>4
    <3>2. Causes["connector close"] = {"no reconnect"}
      BY CausesAre
    <3> QED
      BY <3>1, <3>2 DEF Sound, Explained
  <2>6. Sound(t, X \ {o})
    BY <1>2, <2>2, <2>3, <2>4, <2>5 DEF Sound
  <2>7. Goes(v, t, o)
    <3>1. InOrder(v) => InOrder(t)
      BY <2>2, <2>3, <2>4 DEF InOrder, Data
    <3> QED
      BY <2>2, <2>3, <2>4, <3>1 DEF Goes
  <2>8. Goes(s, t, o)
    BY <1>3, <2>7, GoesOn
  <2> QED
    BY <2>1, <2>4, <2>6, <2>8
<1>6. CASE s.reconnect
  <2> DEFINE again == IF o \in s.fd THEN v ELSE Met(v, "closed while closed")
             id == FreshId(v)
             x == [id |-> id, left |-> ReconnectDelay, delay |-> ReconnectDelay, fn |-> <<"connect", o>>]
             t == [again EXCEPT !.timers = SetTimer(@, id, ReconnectDelay, <<"connect", o>>)]
  <2>1. CloseConnector(s) = t
    BY <1>6, CloseConnectionIsShut DEF CloseConnector
  <2> HIDE DEF v
  <2>2. /\ Sound(again, X \ {o}) /\ Goes(v, again, o) /\ again.live = v.live
        /\ again.touched = v.touched /\ Clocks(again) = Clocks(v)
    <3>1. CASE o \in s.fd
      BY <1>3, <3>1, GoesIfSame
    <3>2. CASE o \notin s.fd
      <4>1. "closed while closed" \in Reasons
        BY DEF Reasons
      <4>2. /\ Met(v, "closed while closed").touched = v.touched
            /\ Sockets(Met(v, "closed while closed")) = Sockets(v)
            /\ Clocks(Met(v, "closed while closed")) = Clocks(v)
        BY <1>2, <4>1, MetIs
      <4> QED
        BY <1>3, <3>2, <4>1, <4>2, MetSound DEF Sockets
    <3> QED
      BY <3>1, <3>2
  <2> HIDE DEF again
  <2>3. id \in Nat /\ id # NoTimer /\ (\A y \in Range(v.timers) : y.id # id) /\ \A p \in Obj : v.tid[p] # id
    BY <1>2, FreshIdIs
  <2> HIDE DEF id
  <2>4. again.timers = v.timers /\ again.tid = v.tid /\ again \in Memories /\ again.timers \in Seq(Timers)
    BY <2>2 DEF Clocks, Sound, Memories
  <2>5. x \in Timers /\ x.id = id /\ x.fn[1] = "connect" /\ x.fn[2] = o
    BY <2>3, ReactorAssumption DEF Timers
  <2>6. CASE ReconnectDelay = 0
    <3>1. t = Timed(again, again.timers)
      BY <2>6 DEF SetTimer, Timed
    <3> HIDE DEF t
    <3>2. /\ t \in Memories /\ t.touched = again.touched /\ t.met = again.met
          /\ t.reconnect = again.reconnect /\ Sockets(t) = Sockets(again) /\ Data(t) = Data(again)
          /\ t.tid = again.tid /\ t.timers = again.timers
      BY <2>4, <3>1, TimedIs
    <3>3. Sound(t, X \ {o}) /\ Goes(again, t, o) /\ t.live = again.live
      BY <2>2, <3>2, SameSound, GoesIfSame DEF Clocks, Sockets
    <3>4. Goes(s, t, o)
      BY <1>3, <2>2, <3>3, GoesOn
    <3>5. Range(t.timers) \subseteq Range(s.timers)
      BY <1>4, <2>4, <3>2
    <3> QED
      BY <1>2, <2>1, <2>2, <3>2, <3>3, <3>4, <3>5
  <2>7. CASE ReconnectDelay # 0
    <3>1. t = Timed(again, Insert(again.timers, x))
      BY <2>7 DEF SetTimer, Timed
    <3> HIDE DEF t, x
    <3>2. /\ Sound(t, {p \in X \ {o} : x.fn # <<"timeout", p>>}) /\ (\A p : Goes(again, t, p))
          /\ t.touched = again.touched /\ t.live = again.live
      <4>1. again.touched = {} => x.fn[2] \in again.live
        BY <1>2, <2>2, <2>5
      <4>2. /\ x.id # NoTimer /\ \A y \in Range(again.timers) : y.id # x.id
            /\ x.fn[1] = "timeout" => x.id = again.tid[x.fn[2]]
            /\ \A p \in Obj : x.id = again.tid[p] => x.fn = <<"timeout", p>>
        BY <2>3, <2>4, <2>5
      <4> QED
        BY <2>2, <2>5, <3>1, <4>1, <4>2, PutSound
    <3>3. Sound(t, X \ {o})
      BY <3>2, SoundMore
    <3>4. Goes(s, t, o)
      BY <1>3, <2>2, <3>2, GoesOn
    <3>5. \A y \in Range(t.timers) : y.fn[1] = "timeout" => y \in Range(s.timers)
      <4>1. t.timers = Insert(again.timers, x)
        <5>1. Insert(again.timers, x) \in Seq(Timers)
          BY <2>4, <2>5, InsertIs
        <5> QED
          BY <2>4, <3>1, <5>1, TimedIs
      <4>2. Range(t.timers) = Range(v.timers) \cup {x}
        BY <2>4, <2>5, <4>1, InsertIs
      <4> QED
        BY <1>4, <2>5, <4>2
    <3> QED
      BY <1>2, <2>1, <2>2, <3>2, <3>3, <3>4, <3>5
  <2> QED
    BY <2>6, <2>7
<1> QED
  BY <1>5, <1>6

(* close() is virtual.                                                     *)
LEMMA CloseSound ==
    ASSUME NEW s, NEW X, Sound(s, X), NEW o \in Obj, s.touched = {} => o \in s.live
    PROVE  LET t == Close(s, o)
           IN  /\ Sound(t, X \ {o}) /\ Goes(s, t, o)
               /\ o = "connector" /\ t.touched = {} =>
                     /\ o \in t.live
                     /\ \A x \in Range(t.timers) : x.fn[1] = "timeout" => x \in Range(s.timers)
               /\ o # "connector" => t.touched = s.touched /\ t.met = s.met /\ o \notin t.live
<1>1. CASE o = "connector"
  BY <1>1, CloseConnectorSound DEF Close
<1>2. CASE o # "connector"
  BY <1>2, CloseConnectionSound DEF Close, Obj
<1> QED
  BY <1>1, <1>2
----------------------------------------------------------------------------
(* Sending.                                                                *)
LEMMA NatsJoined ==
    ASSUME NEW p \in Seq(Nat), NEW q \in Seq(Nat)
    PROVE  /\ p \o q \in Seq(Nat) /\ Len(p \o q) = Len(p) + Len(q)
           /\ \A i \in 1 .. Len(p) + Len(q) : (p \o q)[i] = IF i <= Len(p) THEN p[i] ELSE q[i - Len(p)]
  OBVIOUS

(* What moves from the buffer to the socket leaves the run as it is.       *)
LEMMA RunMoved ==
    ASSUME NEW w \in Seq(Nat), NEW q \in Seq(Nat), NEW n \in 0 .. Len(q)
    PROVE  /\ w \o SubSeq(q, 1, n) \in Seq(Nat) /\ SubSeq(q, n + 1, Len(q)) \in Seq(Nat)
           /\ \A last : RunOf(w \o q, last) => RunOf((w \o SubSeq(q, 1, n)) \o SubSeq(q, n + 1, Len(q)), last)
<1> DEFINE a == SubSeq(q, 1, n)
           b == SubSeq(q, n + 1, Len(q))
           c == w \o a
           d == c \o b
           e == w \o q
<1>1. a \in Seq(Nat) /\ Len(a) = n /\ \A i \in 1 .. n : a[i] = q[i]
  OBVIOUS
<1>2. b \in Seq(Nat) /\ Len(b) = Len(q) - n /\ \A i \in 1 .. Len(q) - n : b[i] = q[n + i]
  OBVIOUS
<1> HIDE DEF a, b
<1>3. c \in Seq(Nat) /\ Len(c) = Len(w) + Len(a)
      /\ \A i \in 1 .. Len(w) + Len(a) : c[i] = IF i <= Len(w) THEN w[i] ELSE a[i - Len(w)]
  BY <1>1, NatsJoined
<1> HIDE DEF c
<1>4. Len(d) = Len(c) + Len(b)
      /\ \A i \in 1 .. Len(c) + Len(b) : d[i] = IF i <= Len(c) THEN c[i] ELSE b[i - Len(c)]
  BY <1>2, <1>3, NatsJoined
<1>5. Len(e) = Len(w) + Len(q)
      /\ \A i \in 1 .. Len(w) + Len(q) : e[i] = IF i <= Len(w) THEN w[i] ELSE q[i - Len(w)]
  BY NatsJoined
<1> HIDE DEF d, e
<1>6. Len(w) \in Nat /\ Len(q) \in Nat /\ Len(d) = Len(e)
  BY <1>1, <1>2, <1>3, <1>4, <1>5
<1>7. \A i \in 1 .. Len(e) : d[i] = e[i]
  <2> TAKE i \in 1 .. Len(e)
  <2>1. /\ i \in 1 .. Len(w) + Len(q) /\ i \in 1 .. Len(c) + Len(b)
        /\ Len(c) = Len(w) + n /\ Len(b) = Len(q) - n
    BY <1>1, <1>2, <1>3, <1>5, <1>6
  <2>2. CASE i <= Len(w)
    <3>1. d[i] = c[i]
      BY <1>4, <1>6, <2>1, <2>2
    <3>2. i \in 1 .. Len(w) + Len(a)
      BY <1>1, <1>6, <2>1, <2>2
    <3>3. c[i] = w[i]
      BY <1>3, <2>2, <3>2
    <3>4. e[i] = w[i]
      BY <1>5, <2>1, <2>2
    <3> QED
      BY <3>1, <3>3, <3>4
  <2>3. CASE i > Len(w) /\ i <= Len(w) + n
    <3>1. i - Len(w) \in 1 .. n /\ ~(i <= Len(w)) /\ i <= Len(c) /\ i \in 1 .. Len(w) + Len(a)
      BY <1>1, <1>6, <2>1, <2>3
    <3>2. d[i] = c[i]
      BY <1>4, <2>1, <3>1
    <3>3. c[i] = a[i - Len(w)]
      BY <1>3, <3>1
    <3>4. a[i - Len(w)] = q[i - Len(w)]
      BY <1>1, <3>1
    <3>5. e[i] = q[i - Len(w)]
      BY <1>5, <2>1, <3>1
    <3> QED
      BY <3>2, <3>3, <3>4, <3>5
  <2>4. CASE i > Len(w) + n
    <3> DEFINE j == i - Len(c)
    <3>1. j \in 1 .. Len(q) - n /\ n + j = i - Len(w) /\ ~(i <= Len(c)) /\ ~(i <= Len(w))
      BY <1>6, <2>1, <2>4
    <3>2. d[i] = b[j]
      BY <1>4, <2>1, <3>1
    <3> HIDE DEF j
    <3>3. b[j] = q[n + j]
      BY <1>2, <3>1
    <3>4. e[i] = q[i - Len(w)]
      BY <1>5, <2>1, <3>1
    <3> QED
      BY <3>1, <3>2, <3>3, <3>4
  <2> QED
    BY <1>6, <2>2, <2>3, <2>4
<1>8. \A last : RunOf(e, last) => RunOf(d, last)
  BY <1>6, <1>7 DEF RunOf
<1> QED
  BY <1>1, <1>2, <1>3, <1>8 DEF a, b, c, d, e

(* What is appended goes on where the run ended.                           *)
LEMMA RunAppended ==
    ASSUME NEW w \in Seq(Nat), NEW q \in Seq(Nat), NEW made \in Nat, NEW n \in Nat
    PROVE  LET new == [i \in 1 .. n |-> made + i]
           IN  /\ q \o new \in Seq(Nat)
               /\ RunOf(w \o q, made) => RunOf(w \o (q \o new), made + n)
<1> DEFINE new == [i \in 1 .. n |-> made + i]
           a == q \o new
           d == w \o a
           e == w \o q
<1>1. new \in Seq(Nat) /\ Len(new) = n /\ \A i \in 1 .. n : new[i] = made + i
  OBVIOUS
<1> HIDE DEF new
<1>2. a \in Seq(Nat) /\ Len(a) = Len(q) + n
      /\ \A i \in 1 .. Len(q) + n : a[i] = IF i <= Len(q) THEN q[i] ELSE new[i - Len(q)]
  BY <1>1, NatsJoined
<1> HIDE DEF a
<1>3. Len(d) = Len(w) + Len(a)
      /\ \A i \in 1 .. Len(w) + Len(a) : d[i] = IF i <= Len(w) THEN w[i] ELSE a[i - Len(w)]
  BY <1>2, NatsJoined
<1>4. Len(e) = Len(w) + Len(q)
      /\ \A i \in 1 .. Len(w) + Len(q) : e[i] = IF i <= Len(w) THEN w[i] ELSE q[i - Len(w)]
  BY NatsJoined
<1> HIDE DEF d, e
<1>5. Len(w) \in Nat /\ Len(q) \in Nat /\ Len(d) = Len(e) + n
  BY <1>2, <1>3, <1>4
<1>6. \A i \in 1 .. Len(e) : d[i] = e[i]
  <2> TAKE i \in 1 .. Len(e)
  <2>1. i \in 1 .. Len(w) + Len(q) /\ i \in 1 .. Len(w) + Len(a)
    BY <1>2, <1>4, <1>5
  <2>2. CASE i <= Len(w)
    BY <1>3, <1>4, <2>1, <2>2
  <2>3. CASE ~(i <= Len(w))
    <3> DEFINE j == i - Len(w)
    <3>1. d[i] = a[j] /\ e[i] = q[j]
      BY <1>3, <1>4, <2>1, <2>3
    <3>2. j \in 1 .. Len(q) + n /\ j <= Len(q)
      BY <1>5, <2>1, <2>3
    <3> HIDE DEF j
    <3>3. a[j] = q[j]
      BY <1>2, <3>2
    <3> QED
      BY <3>1, <3>3
  <2> QED
    BY <2>2, <2>3
<1>7. \A i \in 1 .. Len(d) : i > Len(e) => d[i] = made + (i - Len(e))
  <2> SUFFICES ASSUME NEW i \in 1 .. Len(d), i > Len(e)
               PROVE  d[i] = made + (i - Len(e))
    OBVIOUS
  <2>1. d[i] = a[i - Len(w)] /\ i - Len(w) \in 1 .. Len(q) + n /\ i - Len(w) > Len(q)
    BY <1>2, <1>3, <1>4, <1>5
  <2>2. a[i - Len(w)] = new[i - Len(w) - Len(q)]
    <3> DEFINE j == i - Len(w)
    <3>1. j \in 1 .. Len(q) + n /\ ~(j <= Len(q))
      BY <1>5, <2>1
    <3> HIDE DEF j
    <3>2. a[j] = new[j - Len(q)]
      BY <1>2, <3>1
    <3> QED
      BY <3>2 DEF j
  <2>3. i - Len(w) - Len(q) \in 1 .. n /\ i - Len(w) - Len(q) = i - Len(e)
    BY <1>4, <1>5
  <2> QED
    BY <1>1, <2>1, <2>2, <2>3
<1>8. ASSUME RunOf(e, made)
      PROVE  RunOf(d, made + n)
  <2> SUFFICES ASSUME NEW i \in 1 .. Len(d)
               PROVE  d[i] = (made + n) - (Len(d) - i)
    BY DEF RunOf
  <2>1. CASE i <= Len(e)
    <3>1. e[i] = made - (Len(e) - i)
      BY <1>4, <1>5, <1>8, <2>1 DEF RunOf
    <3> QED
      BY <1>4, <1>5, <1>6, <2>1, <3>1
  <2>2. CASE i > Len(e)
    BY <1>4, <1>5, <1>7, <2>2
  <2> QED
    BY <1>4, <1>5, <2>1, <2>2
<1> QED
  BY <1>2, <1>8 DEF new, a, d, e

(* A buffer whose beginning was taken before.                              *)
LEMMA RunShortened ==
    ASSUME NEW w \in Seq(Nat), NEW q \in Seq(Nat), NEW last, RunOf(w \o q, last)
    PROVE  RunOf(q, last)
<1> DEFINE e == w \o q
<1>1. Len(e) = Len(w) + Len(q) /\ Len(w) \in Nat /\ Len(q) \in Nat
      /\ \A i \in 1 .. Len(w) + Len(q) : e[i] = IF i <= Len(w) THEN w[i] ELSE q[i - Len(w)]
  BY NatsJoined
<1>2. \A i \in 1 .. Len(e) : e[i] = last - (Len(e) - i)
  BY DEF RunOf
<1> HIDE DEF e
<1> SUFFICES ASSUME NEW i \in 1 .. Len(q)
             PROVE  q[i] = last - (Len(q) - i)
  BY DEF RunOf
<1>3. Len(w) + i \in 1 .. Len(w) + Len(q) /\ ~(Len(w) + i <= Len(w)) /\ Len(w) + i - Len(w) = i
  BY <1>1
<1>4. e[Len(w) + i] = q[i]
  BY <1>1, <1>3
<1>5. Len(e) - (Len(w) + i) = Len(q) - i
  BY <1>1
<1> QED
  BY <1>1, <1>2, <1>3, <1>4, <1>5

(* The units n of the buffer go to the socket, which is then full or not.  *)
Taken(s, o, n, full) == [Flush(s, o, n) EXCEPT !.full = full]

LEMMA TakenIs ==
    ASSUME NEW s \in Memories, NEW o \in Obj, NEW n \in 0 .. Len(s.sbuf[o]), NEW full \in SUBSET Obj
    PROVE  LET t == Taken(s, o, n, full)
           IN  /\ t \in Memories /\ t.touched = s.touched /\ t.met = s.met /\ t.reconnect = s.reconnect
               /\ Sockets(t) = Sockets(s) /\ Clocks(t) = Clocks(s)
               /\ InOrder(s) => InOrder(t)
<1> DEFINE w == s.wire[o] \o SubSeq(s.sbuf[o], 1, n)
           q == SubSeq(s.sbuf[o], n + 1, Len(s.sbuf[o]))
           wire == [s.wire EXCEPT ![o] = w]
           sbuf == [s.sbuf EXCEPT ![o] = q]
           u == [s EXCEPT !.wire = wire, !.sbuf = sbuf, !.full = full]
           t == Taken(s, o, n, full)
<1>1. /\ s.wire \in [Obj -> Seq(Nat)] /\ s.sbuf \in [Obj -> Seq(Nat)] /\ s.made \in [Obj -> Nat]
      /\ s.wire[o] \in Seq(Nat) /\ s.sbuf[o] \in Seq(Nat)
  BY DEF Memories
<1>2. /\ w \in Seq(Nat) /\ q \in Seq(Nat)
      /\ \A last : RunOf(s.wire[o] \o s.sbuf[o], last) => RunOf(w \o q, last)
  BY <1>1, RunMoved
<1>3. t = u
  BY DEF Taken, Flush, Memories
<1> HIDE DEF w, q
<1>4. wire \in [Obj -> Seq(Nat)] /\ sbuf \in [Obj -> Seq(Nat)]
  BY <1>1, <1>2
<1>5. \A p \in Obj : wire[p] = (IF p = o THEN w ELSE s.wire[p]) /\ sbuf[p] = (IF p = o THEN q ELSE s.sbuf[p])
  BY <1>1
<1> HIDE DEF wire, sbuf, t
<1>6. u \in Memories
  BY <1>4 DEF Memories
<1>7. u.touched = s.touched /\ u.met = s.met /\ u.reconnect = s.reconnect
  BY DEF Memories
<1>8. Sockets(u) = Sockets(s)
  BY DEF Memories, Sockets
<1>9. Clocks(u) = Clocks(s)
  BY DEF Memories, Clocks
<1>10. u.wire = wire /\ u.sbuf = sbuf /\ u.made = s.made
  BY DEF Memories
<1> HIDE DEF u
<1>11. ASSUME InOrder(s) PROVE InOrder(u)
  <2> SUFFICES ASSUME NEW p \in Stream
               PROVE  RunOf(u.wire[p] \o u.sbuf[p], u.made[p])
    BY DEF InOrder
  <2>1. RunOf(s.wire[p] \o s.sbuf[p], s.made[p])
    BY <1>11 DEF InOrder
  <2>2. p \in Obj
    BY DEF Stream
  <2>3. CASE p = o
    BY <1>2, <1>5, <1>10, <2>1, <2>2, <2>3
  <2>4. CASE p # o
    BY <1>5, <1>10, <2>1, <2>2, <2>4
  <2> QED
    BY <2>3, <2>4
<1> QED
  BY <1>3, <1>6, <1>7, <1>8, <1>9, <1>11 DEF t

(* n units more to send.                                                   *)
Grown(s, o, n) == [s EXCEPT !.sbuf[o] = @ \o [i \in 1 .. n |-> s.made[o] + i], !.made[o] = @ + n]

LEMMA GrownIs ==
    ASSUME NEW s \in Memories, NEW o \in Obj, NEW n \in Nat
    PROVE  LET t == Grown(s, o, n)
           IN  /\ t \in Memories /\ t.touched = s.touched /\ t.met = s.met /\ t.reconnect = s.reconnect
               /\ Sockets(t) = Sockets(s) /\ Clocks(t) = Clocks(s)
               /\ InOrder(s) => InOrder(t)
<1> DEFINE q == s.sbuf[o] \o [i \in 1 .. n |-> s.made[o] + i]
           sbuf == [s.sbuf EXCEPT ![o] = q]
           made == [s.made EXCEPT ![o] = @ + n]
           u == [s EXCEPT !.sbuf = sbuf, !.made = made]
           t == Grown(s, o, n)
<1>1. /\ s.wire \in [Obj -> Seq(Nat)] /\ s.sbuf \in [Obj -> Seq(Nat)] /\ s.made \in [Obj -> Nat]
      /\ s.wire[o] \in Seq(Nat) /\ s.sbuf[o] \in Seq(Nat) /\ s.made[o] \in Nat
  BY DEF Memories
<1>2. /\ q \in Seq(Nat)
      /\ RunOf(s.wire[o] \o s.sbuf[o], s.made[o]) => RunOf(s.wire[o] \o q, s.made[o] + n)
  BY <1>1, RunAppended
<1>3. t = u
  BY DEF Grown, Memories
<1> HIDE DEF q
<1>4. sbuf \in [Obj -> Seq(Nat)] /\ made \in [Obj -> Nat]
  BY <1>1, <1>2
<1>5. \A p \in Obj : /\ sbuf[p] = (IF p = o THEN q ELSE s.sbuf[p])
                     /\ made[p] = (IF p = o THEN s.made[p] + n ELSE s.made[p])
  BY <1>1
<1> HIDE DEF sbuf, made, t
<1>6. u \in Memories
  BY <1>4 DEF Memories
<1>7. u.touched = s.touched /\ u.met = s.met /\ u.reconnect = s.reconnect
  BY DEF Memories
<1>8. Sockets(u) = Sockets(s)
  BY DEF Memories, Sockets
<1>9. Clocks(u) = Clocks(s)
  BY DEF Memories, Clocks
<1>10. u.wire = s.wire /\ u.sbuf = sbuf /\ u.made = made
  BY DEF Memories
<1> HIDE DEF u
<1>11. ASSUME InOrder(s) PROVE InOrder(u)
  <2> SUFFICES ASSUME NEW p \in Stream
               PROVE  RunOf(u.wire[p] \o u.sbuf[p], u.made[p])
    BY DEF InOrder
  <2>1. RunOf(s.wire[p] \o s.sbuf[p], s.made[p])
    BY <1>11 DEF InOrder
  <2>2. p \in Obj
    BY DEF Stream
  <2>3. CASE p = o
    BY <1>2, <1>5, <1>10, <2>1, <2>2, <2>3
  <2>4. CASE p # o
    BY <1>5, <1>10, <2>1, <2>2, <2>4
  <2> QED
    BY <2>3, <2>4
<1> QED
  BY <1>3, <1>6, <1>7, <1>8, <1>9, <1>11 DEF t

LEMMA AppendedIs ==
    ASSUME NEW s \in Memories, NEW o \in Obj, NEW n \in Nat
    PROVE  LET t == Appended(s, o, n)
           IN  /\ t \in Memories /\ t.touched = s.touched /\ s.met \subseteq t.met
               /\ t.reconnect = s.reconnect
               /\ Sockets(t) = Sockets(s) /\ Clocks(t) = Clocks(s)
               /\ InOrder(s) => InOrder(t)
<1> DEFINE u == IF "OUT" \in s.mon[o] /\ s.sbuf[o] = <<>> THEN Met(s, "overlooked") ELSE s
<1>1. "overlooked" \in Reasons
  BY DEF Reasons
<1>2. /\ u \in Memories /\ u.touched = s.touched /\ s.met \subseteq u.met /\ u.reconnect = s.reconnect
      /\ Sockets(u) = Sockets(s) /\ Clocks(u) = Clocks(s) /\ Data(u) = Data(s)
  BY <1>1, MetIs
<1>3. Appended(s, o, n) = [u EXCEPT !.sbuf[o] = @ \o [i \in 1 .. n |-> s.made[o] + i], !.made[o] = @ + n]
  BY DEF Appended
<1> HIDE DEF u
<1>4. Appended(s, o, n) = Grown(u, o, n)
  BY <1>2, <1>3 DEF Grown, Data
<1>5. InOrder(s) => InOrder(u)
  BY <1>2 DEF InOrder, Data
<1> QED
  BY <1>2, <1>4, <1>5, GrownIs

LEMMA AwaitRoomSound ==
    ASSUME NEW s, NEW X, Sound(s, X), NEW o \in Obj
    PROVE  LET t == AwaitRoom(s, o)
           IN  /\ Sound(t, X) /\ (\A p : Goes(s, t, p)) /\ t.live = s.live
               /\ t.touched = s.touched /\ t.met = s.met
<1> DEFINE events == IF s.sbuf[o] # <<>> THEN s.mon[o] \cup {"OUT"} ELSE s.mon[o] \ {"OUT"}
<1>1. s.mon[o] \in SUBSET {"IN", "OUT"}
  BY DEF Sound, Memories
<1>2. events \in SUBSET {"IN", "OUT"} /\ ("IN" \notin events \/ "IN" \in s.mon[o])
  BY <1>1
<1>3. AwaitRoom(s, o) = s \/ AwaitRoom(s, o) = DoMonitorEvents(s, o, events)
  BY DEF AwaitRoom
<1> HIDE DEF events
<1>4. LET t == DoMonitorEvents(s, o, events)
      IN  /\ Sound(t, X) /\ (\A p : Goes(s, t, p)) /\ t.live = s.live
          /\ t.touched = s.touched /\ t.met = s.met
  <2>1. X \subseteq X /\ (o \in X \/ "IN" \notin events \/ "IN" \in s.mon[o])
    BY <1>2
  <2> QED
    BY <1>2, <2>1, DoMonitorEventsSound, Zenon
<1>5. CASE AwaitRoom(s, o) = s
  BY <1>5, GoesIfSame
<1>6. CASE AwaitRoom(s, o) = DoMonitorEvents(s, o, events)
  BY <1>4, <1>6
<1> QED
  BY <1>3, <1>5, <1>6

(* close() for a reason, and then the object again.                        *)
LEMMA CloseTouchSound ==
    ASSUME NEW s, NEW X, Sound(s, X), NEW o \in Obj, s.touched = {} => o \in s.live,
           NEW why \in Reasons, NEW place \in Places, why \in Causes[place]
    PROVE  LET t == Touch(Close(Met(s, why), o), o, place)
           IN  /\ Sound(t, X \ {o}) /\ Goes(s, t, o) /\ why \in t.met
               /\ t.touched = {} =>
                     /\ o = "connector" /\ o \in t.live
                     /\ \A x \in Range(t.timers) : x.fn[1] = "timeout" => x \in Range(s.timers)
<1> DEFINE u == Met(s, why)
           v == Close(u, o)
           t == Touch(v, o, place)
<1>1. /\ Sound(u, X) /\ Goes(s, u, o) /\ u.touched = s.touched /\ u.live = s.live /\ why \in u.met
      /\ u.timers = s.timers
  <2>1. s \in Memories
    BY DEF Sound
  <2> QED
    BY <2>1, MetSound, MetIs DEF Sockets, Clocks
<1> HIDE DEF u
<1>2. /\ Sound(v, X \ {o}) /\ Goes(u, v, o)
      /\ o = "connector" /\ v.touched = {} =>
            \A x \in Range(v.timers) : x.fn[1] = "timeout" => x \in Range(u.timers)
      /\ o # "connector" => o \notin v.live
  BY <1>1, CloseSound
<1> HIDE DEF v
<1>3. why \in v.met
  BY <1>1, <1>2 DEF Goes
<1>4. Sound(t, X \ {o}) /\ Goes(v, t, o) /\ (t.touched = {} => o \in v.live) /\ t.live = v.live
  BY <1>2, <1>3, TouchSound
<1>5. Goes(s, t, o)
  BY <1>1, <1>2, <1>4, GoesOn
<1>6. why \in t.met
  BY <1>3, <1>4 DEF Goes
<1>7. o \in v.live => t = v
  BY DEF Touch
<1> HIDE DEF t
<1>8. t.touched = {} =>
         /\ o = "connector" /\ o \in t.live
         /\ \A x \in Range(t.timers) : x.fn[1] = "timeout" => x \in Range(s.timers)
  BY <1>1, <1>2, <1>4, <1>7
<1> QED
  BY <1>4, <1>5, <1>6, <1>8 DEF t, v, u

LEMMA AwaitRoomKeeps ==
    ASSUME NEW s \in Memories, NEW o \in Obj
    PROVE  LET t == AwaitRoom(s, o) IN t.fd = s.fd /\ Clocks(t) = Clocks(s)
<1> DEFINE events == IF s.sbuf[o] # <<>> THEN s.mon[o] \cup {"OUT"} ELSE s.mon[o] \ {"OUT"}
           u == Watch(s, o, events)
           v == Control(u, o, events)
<1>1. events \in SUBSET {"IN", "OUT"}
  BY DEF Memories
<1>2. AwaitRoom(s, o) \in {s, u, Wake(v, o)}
  BY DEF AwaitRoom, DoMonitorEvents, Watch, Control
<1> HIDE DEF events
<1>3. u \in Memories /\ u.fd = s.fd /\ Clocks(u) = Clocks(s)
  BY <1>1, WatchIs, Zenon
<1> HIDE DEF u
<1>4. v \in Memories /\ v.fd = u.fd /\ Clocks(v) = Clocks(u)
  BY <1>1, <1>3, ControlIs, Zenon
<1> HIDE DEF v
<1>5. Wake(v, o).fd = v.fd /\ Clocks(Wake(v, o)) = Clocks(v)
  BY <1>4 DEF Wake, Memories, Clocks
<1> QED
  BY <1>2, <1>3, <1>4, <1>5

(* No socket is left of what is closed.                                    *)
LEMMA CloseFd ==
    ASSUME NEW s \in Memories, NEW o \in Obj
    PROVE  o \notin Close(s, o).fd
<1> DEFINE v == IF o \in s.fd THEN Shut(s, o) ELSE s
           w == Free(v, o)
<1>1. v \in Memories /\ o \notin v.fd
  <2>1. Shut(s, o) \in Memories /\ Shut(s, o).fd = s.fd \ {o}
    BY ShutIs
  <2> QED
    BY <2>1
<1>2. \A force : CloseConnection(s, o, force) = IF force THEN w ELSE v
  BY CloseConnectionIsShut
<1> HIDE DEF v
<1>3. w \in Memories /\ o \notin w.fd
  BY <1>1, FreeIs
<1> HIDE DEF w
<1>4. CASE o # "connector"
  BY <1>2, <1>3, <1>4 DEF Close
<1>5. CASE o = "connector" /\ ~s.reconnect
  <2> DEFINE x == Met(w, "no reconnect")
  <2>1. x \in Memories /\ x.fd = w.fd
    BY <1>3, MetIs DEF Reasons, Sockets
  <2>2. Close(s, o) = Touch(x, o, "connector close")
    BY <1>2, <1>5 DEF Close, CloseConnector
  <2> HIDE DEF x
  <2>3. Touch(x, o, "connector close").fd = x.fd
    BY <2>1, TouchIs DEF Places, Sockets
  <2> QED
    BY <1>3, <2>1, <2>2, <2>3
<1>6. CASE o = "connector" /\ s.reconnect
  <2> DEFINE x == IF o \in s.fd THEN v ELSE Met(v, "closed while closed")
             ts == SetTimer(x.timers, FreshId(v), ReconnectDelay, <<"connect", "connector">>)
  <2>1. x \in Memories /\ x.fd = v.fd
    BY <1>1, MetIs DEF Reasons, Sockets
  <2>2. Close(s, o) = [x EXCEPT !.timers = ts]
    BY <1>2, <1>6 DEF Close, CloseConnector
  <2> HIDE DEF x, ts
  <2>3. [x EXCEPT !.timers = ts].fd = x.fd
    BY <2>1 DEF Memories
  <2> QED
    BY <1>1, <2>1, <2>2, <2>3
<1> QED
  BY <1>4, <1>5, <1>6

(* Whoever uses the object next finds it there, or the list says why not.  *)
Unless(s, o) == o \in s.live \/ s.met \cap {"send refused", "send reset", "closed own"} # {}
Present(s, o) == (s.touched = {} => o \in s.live) /\ Unless(s, o)

(* No timeout is set.                                                      *)
NoMore(s, t) == \A x \in Range(t.timers) : x.fn[1] = "timeout" => x \in Range(s.timers)

(* What a send, and a callback that sends or closes, leaves of o: a socket *)
(* that is still there has the timers it had.                              *)
Spared(s, t, X, o) ==
    /\ Sound(t, X) /\ Goes(s, t, o) /\ Unless(t, o)
    /\ o = "connector" /\ t.touched = {} => o \in t.live /\ NoMore(s, t)
    /\ o \in t.fd => o \in s.fd /\ Clocks(t) = Clocks(s)

LEMMA SparedOn ==
    ASSUME NEW s, NEW t, NEW u, NEW X, NEW o, Spared(s, t, X, o), Spared(t, u, X, o)
    PROVE  Spared(s, u, X, o)
<1>1. Goes(s, u, o)
  BY GoesOn DEF Spared
<1>2. u.touched = {} => t.touched = {}
  BY DEF Spared, Goes
<1> QED
  BY <1>1, <1>2 DEF Spared, NoMore

LEMMA SparedIf ==
    ASSUME NEW s, NEW t, NEW X, NEW o, Sound(t, X), Goes(s, t, o), t.live = s.live, s.touched \subseteq t.touched,
           t.fd = s.fd, Clocks(t) = Clocks(s), Present(s, o)
    PROVE  Spared(s, t, X, o) /\ (t.touched = s.touched => Present(t, o))
<1>1. s.met \subseteq t.met
  BY DEF Goes
<1>2. NoMore(s, t)
  BY DEF NoMore, Clocks
<1> QED
  BY <1>1, <1>2 DEF Spared, Present, Unless

LEMMA SparedSame ==
    ASSUME NEW s, NEW X, NEW o, Sound(s, X), Present(s, o)
    PROVE  Spared(s, s, X, o)
  BY SparedIf, GoesIfSame

(* A reset while the callback runs.                                        *)
LEMMA MeanwhileSpared ==
    ASSUME NEW s, NEW X, Sound(s, X), NEW o \in Obj, Present(s, o), NEW t \in Meanwhile(s, o)
    PROVE  Spared(s, t, X, o) /\ Present(t, o)
<1> DEFINE u == [s EXCEPT !.net[o] = "reset", !.unread = @ \ {o}]
<1>1. s \in Memories
  BY DEF Sound
<1>2. u \in Memories /\ u.touched = s.touched /\ u.met = s.met /\ u.reconnect = s.reconnect
  BY <1>1 DEF Memories
<1>3. Sockets(u) = Sockets(s) /\ Clocks(u) = Clocks(s) /\ Data(u) = Data(s)
  BY <1>1 DEF Memories, Sockets, Clocks, Data
<1>4. t = s \/ t = Wake(u, o)
  BY DEF Meanwhile, Reset
<1> HIDE DEF u
<1>5. u.live = s.live /\ u.connected = s.connected /\ u.fd = s.fd
  BY <1>3 DEF Sockets
<1>6. Sound(u, X)
  BY <1>2, <1>3, SameSound
<1>7. Goes(s, u, o)
  BY <1>2, <1>3, <1>5, GoesIfSame
<1>8. CASE t = s
  BY <1>8, SparedSame
<1>9. CASE t = Wake(u, o)
  <2>1. Sound(t, X) /\ Goes(u, t, o) /\ t.live = u.live /\ t.touched = u.touched
    BY <1>6, <1>9, WakeSound
  <2>2. t.fd = u.fd /\ Clocks(t) = Clocks(u)
    BY <1>2, <1>9 DEF Wake, Memories, Clocks
  <2>3. Goes(s, t, o)
    BY <1>7, <2>1, GoesOn
  <2> QED
    BY <1>2, <1>3, <1>5, <2>1, <2>2, <2>3, SparedIf
<1> QED
  BY <1>4, <1>8, <1>9

LEMMA CloseSpared ==
    ASSUME NEW s, NEW X, Sound(s, X), NEW o \in Obj, Present(s, o),
           NEW why \in {"send refused", "send reset", "closed own"}
    PROVE  Spared(s, Close(Met(s, why), o), X, o)
<1> DEFINE u == Met(s, why)
           t == Close(u, o)
<1>1. s \in Memories /\ why \in Reasons
  BY DEF Sound, Reasons
<1>2. /\ Sound(u, X) /\ Goes(s, u, o) /\ u.touched = s.touched /\ u.live = s.live /\ why \in u.met
      /\ u.timers = s.timers
  BY <1>1, MetSound, MetIs DEF Sockets, Clocks
<1> HIDE DEF u
<1>3. /\ Sound(t, X \ {o}) /\ Goes(u, t, o)
      /\ o = "connector" /\ t.touched = {} => o \in t.live /\ NoMore(s, t)
  BY <1>2, CloseSound DEF Present, NoMore
<1>4. o \notin t.fd
  BY <1>2, CloseFd DEF Sound
<1> HIDE DEF t
<1>5. Sound(t, X)
  BY <1>3, SoundMore
<1>6. Goes(s, t, o)
  BY <1>2, <1>3, GoesOn
<1>7. why \in t.met
  BY <1>2, <1>3 DEF Goes
<1>8. Spared(s, t, X, o)
  BY <1>3, <1>4, <1>5, <1>6, <1>7 DEF Spared, Unless
<1> QED
  BY <1>8 DEF t, u

LEMMA CloseOwnSpared ==
    ASSUME NEW s, NEW X, Sound(s, X), NEW o \in Obj, Present(s, o)
    PROVE  Spared(s, CloseOwn(s, o), X, o)
  BY CloseSpared DEF CloseOwn

LEMMA TouchSpared ==
    ASSUME NEW s, NEW X, Sound(s, X), NEW o \in Obj, Unless(s, o),
           NEW place \in {"do_send", "do_recv", "connect callback"}
    PROVE  LET t == Touch(s, o, place)
           IN  Spared(s, t, X, o) /\ Present(t, o) /\ t.live = s.live
<1> DEFINE t == Touch(s, o, place)
<1>1. s \in Memories /\ place \in Places
  BY DEF Sound, Places
<1>2. o \in s.live \/ Causes[place] \cap s.met # {}
  BY CausesAre DEF Unless
<1>3. Sound(t, X) /\ Goes(s, t, o) /\ t.live = s.live /\ (t.touched = {} => o \in s.live)
  BY <1>1, <1>2, TouchSound
<1>4. t.fd = s.fd /\ Clocks(t) = Clocks(s) /\ t.met = s.met /\ NoMore(s, t)
  <2>1. t = s \/ t = [s EXCEPT !.touched = @ \cup {place}]
    BY DEF Touch
  <2> HIDE DEF t
  <2>2. t.fd = s.fd /\ t.met = s.met /\ t.timers = s.timers /\ t.tid = s.tid
    BY <1>1, <2>1 DEF Memories
  <2> QED
    BY <2>2 DEF Clocks, NoMore
<1> HIDE DEF t
<1>5. Spared(s, t, X, o) /\ Present(t, o)
  BY <1>3, <1>4 DEF Spared, Present, Unless
<1> QED
  BY <1>3, <1>5 DEF t

LEMMA AwaitRoomSpared ==
    ASSUME NEW s, NEW X, Sound(s, X), NEW o \in Obj, Present(s, o)
    PROVE  LET t == AwaitRoom(s, o) IN Spared(s, t, X, o) /\ Present(t, o)
<1> DEFINE t == AwaitRoom(s, o)
<1>1. s \in Memories
  BY DEF Sound
<1>2. Sound(t, X) /\ Goes(s, t, o) /\ t.live = s.live /\ t.touched = s.touched
  BY AwaitRoomSound
<1>3. t.fd = s.fd /\ Clocks(t) = Clocks(s)
  BY <1>1, AwaitRoomKeeps
<1> HIDE DEF t
<1> QED
  BY <1>2, <1>3, SparedIf DEF t

LEMMA AppendedSpared ==
    ASSUME NEW s, NEW X, Sound(s, X), NEW o \in Obj, Present(s, o), NEW n \in Nat
    PROVE  LET t == Appended(s, o, n) IN Spared(s, t, X, o) /\ Present(t, o)
<1> DEFINE t == Appended(s, o, n)
<1>1. s \in Memories
  BY DEF Sound
<1>2. /\ t \in Memories /\ t.touched = s.touched /\ s.met \subseteq t.met /\ t.reconnect = s.reconnect
      /\ Sockets(t) = Sockets(s) /\ Clocks(t) = Clocks(s)
      /\ InOrder(s) => InOrder(t)
  BY <1>1, AppendedIs
<1> HIDE DEF t
<1>3. t.live = s.live /\ t.connected = s.connected /\ t.fd = s.fd
  BY <1>2 DEF Sockets
<1>4. Sound(t, X)
  BY <1>2, SameSound
<1>5. Goes(s, t, o)
  BY <1>2, <1>3 DEF Goes
<1> QED
  BY <1>2, <1>3, <1>4, <1>5, SparedIf DEF t

LEMMA SendLoopSpared ==
    ASSUME NEW s, NEW X, Sound(s, X), NEW o \in Obj, Present(s, o), NEW loop \in SendLoop(s, o)
    PROVE  Spared(s, loop.s, X, o) /\ (loop.then # "return" => Present(loop.s, o))
<1>1. s \in Memories /\ s.sbuf[o] \in Seq(Nat) /\ s.full \in SUBSET Obj
  BY DEF Sound, Memories
<1>2. CASE s.sbuf[o] = <<>>
  <2>1. loop.s = s /\ loop.then = "return"
    BY <1>2 DEF SendLoop
  <2> QED
    BY <2>1, SparedSame
<1>3. CASE s.sbuf[o] # <<>>
  <2>1. PICK c \in Sent(s, o) :
           loop = CASE c.after = "ECONNRESET" -> [s |-> Close(Met(s, "send reset"), o), then |-> "return"]
                    [] c.after = "other" -> [s |-> s, then |-> "return"]
                    [] OTHER -> [s |-> [Flush(s, o, c.n) EXCEPT !.full = IF c.after = "EAGAIN" THEN @ \cup {o} ELSE @],
                                 then |-> IF c.n = 0 THEN "rest" ELSE "callback"]
    BY <1>3 DEF SendLoop
  <2>2. CASE c.after = "ECONNRESET"
    <3>1. loop.s = Close(Met(s, "send reset"), o) /\ loop.then = "return"
      BY <2>1, <2>2
    <3> QED
      BY <3>1, CloseSpared
  <2>3. CASE c.after = "other"
    <3>1. loop.s = s /\ loop.then = "return"
      BY <2>1, <2>3
    <3> QED
      BY <3>1, SparedSame
  <2>4. CASE c.after # "ECONNRESET" /\ c.after # "other"
    <3> DEFINE full == IF c.after = "EAGAIN" THEN s.full \cup {o} ELSE s.full
               v == Taken(s, o, c.n, full)
    <3>1. c.n \in 0 .. Len(s.sbuf[o])
      BY <1>1, <2>4 DEF Sent
    <3>2. full \in SUBSET Obj
      BY <1>1
    <3>3. [Flush(s, o, c.n) EXCEPT !.full = IF c.after = "EAGAIN" THEN @ \cup {o} ELSE @] = v
      BY <1>1 DEF Taken, Flush, Memories
    <3> HIDE DEF full
    <3>4. loop.s = v
      BY <2>1, <2>4, <3>3
    <3>5. /\ v \in Memories /\ v.touched = s.touched /\ v.met = s.met /\ v.reconnect = s.reconnect
          /\ Sockets(v) = Sockets(s) /\ Clocks(v) = Clocks(s)
          /\ InOrder(s) => InOrder(v)
      BY <1>1, <3>1, <3>2, TakenIs
    <3> HIDE DEF v
    <3>6. v.live = s.live /\ v.connected = s.connected /\ v.fd = s.fd
      BY <3>5 DEF Sockets
    <3>7. Sound(v, X)
      BY <3>5, SameSound
    <3>8. Goes(s, v, o)
      BY <3>5, <3>6 DEF Goes
    <3> QED
      BY <3>4, <3>5, <3>6, <3>7, <3>8, SparedIf
  <2> QED
    BY <2>2, <2>3, <2>4
<1> QED
  BY <1>2, <1>3

(* do_send goes on after its callback, which may have refused.             *)
LEMMA ReturnedSpared ==
    ASSUME NEW s, NEW X, NEW o \in Obj, NEW T, \A t \in T : Spared(s, t, X, o), NEW v \in Returned(T, o)
    PROVE  Spared(s, v, X, o) /\ Present(v, o)
<1>1. PICK w \in T \cup {Close(Met(Touch(u, o, "do_send"), "send refused"), o) : u \in T} :
         v = Touch(w, o, "do_send")
  BY DEF Returned
<1>2. Spared(s, w, X, o)
  <2>1. ASSUME NEW u \in T, w = Close(Met(Touch(u, o, "do_send"), "send refused"), o)
        PROVE  Spared(s, w, X, o)
    <3> DEFINE x == Touch(u, o, "do_send")
    <3>1. Spared(s, u, X, o) /\ Sound(u, X) /\ Unless(u, o)
      BY <2>1 DEF Spared
    <3>2. Spared(u, x, X, o) /\ Present(x, o)
      BY <3>1, TouchSpared
    <3>3. w = Close(Met(x, "send refused"), o)
      BY <2>1
    <3> HIDE DEF x
    <3>4. Spared(x, w, X, o)
      BY <3>2, <3>3, CloseSpared DEF Spared
    <3> QED
      BY <3>1, <3>2, <3>4, SparedOn
  <2> QED
    BY <1>1, <2>1
<1>3. Sound(w, X) /\ Unless(w, o)
  BY <1>2 DEF Spared
<1>4. Spared(w, v, X, o) /\ Present(v, o)
  BY <1>1, <1>3, TouchSpared
<1> QED
  BY <1>2, <1>4, SparedOn

(* The last of do_send.                                                    *)
LEMMA RestSpared ==
    ASSUME NEW s, NEW X, NEW o \in Obj, NEW u, Spared(s, u, X, o), Present(u, o)
    PROVE  Spared(s, AwaitRoom(u, o), X, o)
<1>1. Spared(u, AwaitRoom(u, o), X, o)
  BY AwaitRoomSpared DEF Spared
<1> QED
  BY <1>1, SparedOn

LEMMA DoSendAgainSpared ==
    ASSUME NEW s, NEW X, Sound(s, X), NEW o \in Obj, Present(s, o), NEW t \in DoSendAgain(s, o)
    PROVE  Spared(s, t, X, o)
<1>1. PICK loop \in SendLoop(s, o) :
         t \in CASE loop.then = "return" -> {loop.s}
                 [] loop.then = "rest" -> {AwaitRoom(loop.s, o)}
                 [] OTHER -> {AwaitRoom(u, o) : u \in Returned({loop.s, CloseOwn(loop.s, o)}, o)}
  BY DEF DoSendAgain
<1>2. Spared(s, loop.s, X, o) /\ (loop.then # "return" => Present(loop.s, o)) /\ Sound(loop.s, X)
  BY SendLoopSpared DEF Spared
<1>3. CASE loop.then = "return"
  BY <1>1, <1>2, <1>3
<1>4. CASE loop.then = "rest"
  <2>1. t = AwaitRoom(loop.s, o)
    BY <1>1, <1>4
  <2> QED
    BY <1>2, <1>4, <2>1, RestSpared
<1>5. CASE loop.then # "return" /\ loop.then # "rest"
  <2>1. PICK u \in Returned({loop.s, CloseOwn(loop.s, o)}, o) : t = AwaitRoom(u, o)
    BY <1>1, <1>5
  <2>2. Spared(s, CloseOwn(loop.s, o), X, o)
    BY <1>2, <1>5, CloseOwnSpared, SparedOn
  <2>3. Spared(s, u, X, o) /\ Present(u, o)
    BY <1>2, <2>2, ReturnedSpared
  <2> QED
    BY <2>1, <2>3, RestSpared
<1> QED
  BY <1>3, <1>4, <1>5

LEMMA AsyncSendAgainSpared ==
    ASSUME NEW s, NEW X, Sound(s, X), NEW o \in Obj, Present(s, o), NEW n \in Nat,
           NEW t \in AsyncSendAgain(s, o, n)
    PROVE  Spared(s, t, X, o)
<1> DEFINE u == Appended(s, o, n)
<1>1. Spared(s, u, X, o) /\ Present(u, o) /\ Sound(u, X)
  BY AppendedSpared DEF Spared
<1>2. t = u \/ t \in DoSendAgain(u, o)
  BY DEF AsyncSendAgain
<1> HIDE DEF u
<1>3. t \in DoSendAgain(u, o) => Spared(u, t, X, o)
  BY <1>1, DoSendAgainSpared
<1> QED
  BY <1>1, <1>2, <1>3, SparedOn

LEMMA UnitsAre ==
    ASSUME NEW s \in Memories, NEW o \in Obj, NEW n \in 1 .. MaxUnits - s.made[o]
    PROVE  n \in Nat
<1>1. s.made[o] \in Nat /\ MaxUnits \in Nat
  BY ReactorAssumption DEF Memories
<1>2. MaxUnits - s.made[o] \in Int
  BY <1>1
<1> QED
  BY <1>2

LEMMA SendCallbackSpared ==
    ASSUME NEW s, NEW X, Sound(s, X), NEW o \in Obj, Present(s, o), NEW t \in SendCallback(s, o)
    PROVE  Spared(s, t, X, o) /\ Present(t, o)
<1> DEFINE sent == UNION {AsyncSendAgain(u, o, n) : u \in Meanwhile(s, o), n \in 1 .. MaxUnits - s.made[o]}
<1>1. ASSUME NEW v \in sent PROVE Spared(s, v, X, o)
  <2>1. PICK u \in Meanwhile(s, o), n \in 1 .. MaxUnits - s.made[o] : v \in AsyncSendAgain(u, o, n)
    BY <1>1
  <2>2. Spared(s, u, X, o) /\ Present(u, o) /\ Sound(u, X)
    BY <2>1, MeanwhileSpared DEF Spared
  <2>3. n \in Nat
    BY <2>1, UnitsAre DEF Sound
  <2>4. Spared(u, v, X, o)
    BY <2>1, <2>2, <2>3, AsyncSendAgainSpared
  <2> QED
    BY <2>2, <2>4, SparedOn
<1>2. t \in Returned({s, CloseOwn(s, o)} \cup sent, o)
  BY DEF SendCallback
<1>3. Spared(s, s, X, o) /\ Spared(s, CloseOwn(s, o), X, o)
  BY SparedSame, CloseOwnSpared
<1> HIDE DEF sent
<1>4. \A u \in {s, CloseOwn(s, o)} \cup sent : Spared(s, u, X, o)
  BY <1>1, <1>3
<1> QED
  BY <1>2, <1>4, ReturnedSpared

LEMMA DoSendSpared ==
    ASSUME NEW s, NEW X, Sound(s, X), NEW o \in Obj, Present(s, o), NEW t \in DoSend(s, o)
    PROVE  Spared(s, t, X, o)
<1>1. PICK loop \in SendLoop(s, o) :
         t \in CASE loop.then = "return" -> {loop.s}
                 [] loop.then = "rest" -> {AwaitRoom(loop.s, o)}
                 [] OTHER -> {AwaitRoom(u, o) : u \in SendCallback(loop.s, o)}
  BY DEF DoSend
<1>2. Spared(s, loop.s, X, o) /\ (loop.then # "return" => Present(loop.s, o)) /\ Sound(loop.s, X)
  BY SendLoopSpared DEF Spared
<1>3. CASE loop.then = "return"
  BY <1>1, <1>2, <1>3
<1>4. CASE loop.then = "rest"
  <2>1. t = AwaitRoom(loop.s, o)
    BY <1>1, <1>4
  <2> QED
    BY <1>2, <1>4, <2>1, RestSpared
<1>5. CASE loop.then # "return" /\ loop.then # "rest"
  <2>1. PICK u \in SendCallback(loop.s, o) : t = AwaitRoom(u, o)
    BY <1>1, <1>5
  <2>2. Spared(loop.s, u, X, o) /\ Present(u, o)
    BY <1>2, <1>5, SendCallbackSpared
  <2> QED
    BY <1>2, <2>1, <2>2, RestSpared, SparedOn
<1> QED
  BY <1>3, <1>4, <1>5

LEMMA AsyncSendSpared ==
    ASSUME NEW s, NEW X, Sound(s, X), NEW o \in Obj, Present(s, o), NEW n \in Nat,
           NEW t \in AsyncSend(s, o, n)
    PROVE  Spared(s, t, X, o)
<1> DEFINE u == Appended(s, o, n)
<1>1. Spared(s, u, X, o) /\ Present(u, o) /\ Sound(u, X)
  BY AppendedSpared DEF Spared
<1>2. t = u \/ t \in DoSend(u, o)
  BY DEF AsyncSend
<1> HIDE DEF u
<1>3. t \in DoSend(u, o) => Spared(u, t, X, o)
  BY <1>1, DoSendSpared
<1> QED
  BY <1>1, <1>2, <1>3, SparedOn

LEMMA SendsSpared ==
    ASSUME NEW s, NEW X, Sound(s, X), NEW o \in Obj, Present(s, o), NEW t \in Sends(s, o)
    PROVE  Spared(s, t, X, o)
<1>1. PICK u \in Meanwhile(s, o), n \in 1 .. MaxUnits - s.made[o] : t \in AsyncSend(u, o, n)
  BY DEF Sends
<1>2. Spared(s, u, X, o) /\ Present(u, o) /\ Sound(u, X)
  BY <1>1, MeanwhileSpared DEF Spared
<1>3. n \in Nat
  BY <1>1, UnitsAre DEF Sound
<1>4. Spared(u, t, X, o)
  BY <1>1, <1>2, <1>3, AsyncSendSpared
<1> QED
  BY <1>2, <1>4, SparedOn
----------------------------------------------------------------------------
(* Receiving.                                                              *)
Read(s, o) == [s EXCEPT !.unread = @ \ {o}]

LEMMA ReadSound ==
    ASSUME NEW s, NEW X, Sound(s, X), NEW o \in Obj
    PROVE  LET t == Read(s, o)
           IN  /\ Sound(t, X) /\ (\A p : Goes(s, t, p)) /\ t.live = s.live /\ t.touched = s.touched
               /\ t.met = s.met
<1> DEFINE t == Read(s, o)
<1>1. s \in Memories
  BY DEF Sound
<1>2. t \in Memories
  BY <1>1 DEF Memories, Read
<1>3. t.touched = s.touched /\ t.met = s.met /\ t.reconnect = s.reconnect
  BY <1>1 DEF Memories, Read
<1>4. Sockets(t) = Sockets(s)
  BY <1>1 DEF Memories, Read, Sockets
<1>5. Clocks(t) = Clocks(s) /\ Data(t) = Data(s)
  BY <1>1 DEF Memories, Read, Clocks, Data
<1> HIDE DEF t
<1>6. t.live = s.live /\ t.connected = s.connected
  BY <1>4 DEF Sockets
<1>7. Sound(t, X)
  BY <1>2, <1>3, <1>4, <1>5, SameSound
<1>8. \A p : Goes(s, t, p)
  BY <1>3, <1>5, <1>6, GoesIfSame
<1> QED
  BY <1>3, <1>6, <1>7, <1>8 DEF t

LEMMA RecvCallbackSound ==
    ASSUME NEW s, NEW X, Sound(s, X), NEW o \in Stream, o \in s.live,
           NEW c \in RecvCallback(s, o)
    PROVE  Sound(c.s, X) /\ Goes(s, c.s, o) /\ Unless(c.s, o)
<1>1. o \in Obj /\ Present(s, o)
  BY DEF Stream, Present, Unless
<1>2. c.s \in {s, CloseOwn(s, o)} \cup Sends(s, o)
      \/ (o = "accepted" /\ "acceptor" \in s.live /\ c.s = Close(Met(s, "closed another"), "acceptor"))
  BY DEF RecvCallback
<1>3. CASE c.s \in {s, CloseOwn(s, o)} \cup Sends(s, o)
  <2>1. Spared(s, c.s, X, o)
    BY <1>1, <1>3, SparedSame, CloseOwnSpared, SendsSpared
  <2> QED
    BY <2>1 DEF Spared
<1>4. CASE o = "accepted" /\ "acceptor" \in s.live /\ c.s = Close(Met(s, "closed another"), "acceptor")
  <2> DEFINE t == c.s
             u == Met(s, "closed another")
  <2>1. "closed another" \in Reasons /\ s \in Memories /\ "acceptor" \in Obj
    BY DEF Reasons, Sound, Obj
  <2>2. /\ Sound(u, X) /\ Goes(s, u, o) /\ u.touched = s.touched /\ u.live = s.live
        /\ "closed another" \in u.met
    BY <2>1, MetSound, MetIs DEF Sockets
  <2> HIDE DEF u
  <2>3. t = Close(u, "acceptor")
    BY <1>4 DEF u
  <2> HIDE DEF t
  <2>4. Sound(t, X \ {"acceptor"}) /\ Goes(u, t, "acceptor") /\ t.touched = u.touched /\ t.met = u.met
    <3>1. u.touched = {} => "acceptor" \in u.live
      BY <1>4, <2>2
    <3>2. LET v == Close(u, "acceptor")
          IN  /\ Sound(v, X \ {"acceptor"}) /\ Goes(u, v, "acceptor")
              /\ "acceptor" = "connector" /\ v.touched = {} =>
                     /\ "acceptor" \in v.live
                     /\ \A x \in Range(v.timers) : x.fn[1] = "timeout" => x \in Range(u.timers)
              /\ "acceptor" # "connector" =>
                     v.touched = u.touched /\ v.met = u.met /\ "acceptor" \notin v.live
      BY <2>1, <2>2, <3>1, CloseSound, Zenon
    <3> QED
      BY <2>3, <3>2
  <2>5. Goes(u, t, o)
    BY <2>2, <2>4 DEF Goes
  <2>6. Goes(s, t, o)
    BY <2>2, <2>5, GoesOn
  <2>7. Sound(t, X)
    BY <2>4, SoundMore
  <2>8. o \in t.live
    BY <1>1, <1>4, <2>1, <2>2, <2>4 DEF Goes
  <2> QED
    BY <2>6, <2>7, <2>8 DEF Unless, t
<1> QED
  BY <1>2, <1>3, <1>4

LEMMA RecvEndSound ==
    ASSUME NEW s, NEW X, Sound(s, X), NEW o \in Stream, s.touched = {} => o \in s.live
    PROVE  LET t == RecvEnd(s, o) IN Sound(t, X \ {o}) /\ Goes(s, t, o)
<1>1. o \in Obj
  BY DEF Stream
<1>2. CASE RecvEnd(s, o) = Close(s, o)
  BY <1>1, <1>2, CloseSound
<1>3. CASE RecvEnd(s, o) = StartTimer(s, o)
  BY <1>3, StartTimerSound
<1>4. CASE RecvEnd(s, o) = StartTimer(Touch(Close(Met(s, "read error"), o), o, "do_recv"), o)
  <2> DEFINE u == Touch(Close(Met(s, "read error"), o), o, "do_recv")
  <2>1. "read error" \in Reasons /\ "do_recv" \in Places /\ "read error" \in Causes["do_recv"]
    BY CausesAre DEF Reasons, Places
  <2>2. Sound(u, X \ {o}) /\ Goes(s, u, o) /\ (u.touched = {} => o \in u.live)
    BY <1>1, <2>1, CloseTouchSound, Zenon
  <2> HIDE DEF u
  <2>3. Sound(StartTimer(u, o), (X \ {o}) \ {o}) /\ Goes(u, StartTimer(u, o), o)
    BY <2>2, StartTimerSound
  <2>4. Sound(StartTimer(u, o), X \ {o})
    BY <2>3, SoundMore
  <2>5. Goes(s, StartTimer(u, o), o)
    BY <2>2, <2>3, GoesOn
  <2> QED
    BY <1>4, <2>4, <2>5 DEF u
<1> QED
  BY <1>2, <1>3, <1>4 DEF RecvEnd

LEMMA DoRecvSound ==
    ASSUME NEW s, NEW X, Sound(s, X), NEW o \in Stream, o \in s.live,
           NEW t \in DoRecv(s, o)
    PROVE  Sound(t, X) /\ Goes(s, t, o)
<1>1. o \in Obj
  BY DEF Stream
<1>2. CASE t = RecvEnd(s, o)
  <2>1. Sound(t, X \ {o}) /\ Goes(s, t, o)
    BY <1>2, RecvEndSound
  <2> QED
    BY <2>1, SoundMore
<1>3. ASSUME NEW c \in RecvCallback(Read(s, o), o), c.keep,
             t \in {RecvEnd(Touch(c.s, o, "do_recv"), o), StartTimer(Touch(c.s, o, "do_recv"), o)}
      PROVE  Sound(t, X) /\ Goes(s, t, o)
  <2> DEFINE u == Read(s, o)
             v == Touch(c.s, o, "do_recv")
  <2>1. Sound(u, X) /\ Goes(s, u, o) /\ u.live = s.live /\ u.touched = s.touched
    BY <1>1, ReadSound
  <2>2. c \in RecvCallback(u, o)
    BY <1>3
  <2> HIDE DEF u
  <2>3. Sound(c.s, X) /\ Goes(u, c.s, o) /\ Unless(c.s, o)
    BY <2>1, <2>2, RecvCallbackSound
  <2>4. Sound(v, X) /\ Goes(c.s, v, o) /\ (v.touched = {} => o \in v.live)
    <3>1. o \in c.s.live \/ Causes["do_recv"] \cap c.s.met # {}
      BY <2>3, CausesAre DEF Unless
    <3>2. "do_recv" \in Places
      BY DEF Places
    <3> QED
      BY <2>3, <3>1, <3>2, TouchSound
  <2>5. t \in {RecvEnd(v, o), StartTimer(v, o)}
    BY <1>3
  <2> HIDE DEF v
  <2>6. Sound(t, X \ {o}) /\ Goes(v, t, o)
    <3>1. CASE t = RecvEnd(v, o)
      BY <2>4, <3>1, RecvEndSound
    <3>2. CASE t = StartTimer(v, o)
      BY <2>4, <3>2, StartTimerSound
    <3> QED
      BY <2>5, <3>1, <3>2
  <2>7. Sound(t, X)
    BY <2>6, SoundMore
  <2>8. Goes(s, t, o)
    BY <2>1, <2>3, <2>4, <2>6, GoesOn
  <2> QED
    BY <2>7, <2>8
<1>4. ASSUME NEW c \in RecvCallback(Read(s, o), o), ~c.keep, t = Close(Touch(c.s, o, "do_recv"), o)
      PROVE  Sound(t, X) /\ Goes(s, t, o)
  <2> DEFINE u == Read(s, o)
             v == Touch(c.s, o, "do_recv")
  <2>1. Sound(u, X) /\ Goes(s, u, o) /\ u.live = s.live
    BY <1>1, ReadSound
  <2>2. c \in RecvCallback(u, o)
    BY <1>4
  <2> HIDE DEF u
  <2>3. Sound(c.s, X) /\ Goes(u, c.s, o) /\ Unless(c.s, o)
    BY <2>1, <2>2, RecvCallbackSound
  <2>4. Spared(c.s, v, X, o) /\ Present(v, o)
    BY <1>1, <2>3, TouchSpared
  <2>5. t = Close(v, o)
    BY <1>4
  <2> HIDE DEF v
  <2>6. Sound(v, X) /\ Goes(c.s, v, o) /\ (v.touched = {} => o \in v.live)
    BY <2>4 DEF Spared, Present
  <2>7. Sound(t, X \ {o}) /\ Goes(v, t, o)
    BY <1>1, <2>5, <2>6, CloseSound
  <2>8. Sound(t, X)
    BY <2>7, SoundMore
  <2> QED
    BY <2>1, <2>3, <2>6, <2>7, <2>8, GoesOn
<1> QED
  BY <1>2, <1>3, <1>4 DEF DoRecv, Read
----------------------------------------------------------------------------
(* Connecting.                                                             *)
Nets == {"none", "connecting", "refused", "up", "eof", "reset"}

LEMMA DialIs ==
    ASSUME NEW s \in Memories
    PROVE  LET t == Dial(s)
           IN  /\ t \in Memories /\ t.touched = s.touched /\ t.met = s.met /\ t.reconnect = s.reconnect
               /\ t.live = s.live /\ t.connected = s.connected \ {"connector"} /\ t.bind = s.bind
               /\ t.mon = [s.mon EXCEPT !["connector"] = {}] /\ t.ev = s.ev
               /\ t.fd = s.fd \ {"connector"} /\ t.reg = s.reg \ {"connector"}
               /\ t.ready = s.ready \ {"connector"} /\ Clocks(t) = Clocks(s)
               /\ t.sbuf = s.sbuf /\ t.made = s.made /\ t.wire = [s.wire EXCEPT !["connector"] = <<>>]
<1> DEFINE t == Dial(s)
           u == SocketClose(s, "connector")
           mon == [u.mon EXCEPT !["connector"] = {}]
           wire == [u.wire EXCEPT !["connector"] = <<>>]
           v == [u EXCEPT !.connected = @ \ {"connector"}, !.mon = mon, !.wire = wire]
<1>1. /\ u \in Memories /\ u.touched = s.touched /\ u.met = s.met /\ u.reconnect = s.reconnect
      /\ u.live = s.live /\ u.connected = s.connected /\ u.bind = s.bind
      /\ u.mon = s.mon /\ u.ev = s.ev
      /\ u.fd = s.fd \ {"connector"} /\ u.reg = s.reg \ {"connector"} /\ u.ready = s.ready \ {"connector"}
      /\ Clocks(u) = Clocks(s) /\ Data(u) = Data(s)
  <2>1. "connector" \in Obj
    BY DEF Obj
  <2> QED
    BY <2>1, SocketCloseIs
<1>2. t = v
  BY DEF Dial, SocketClose, Memories
<1> HIDE DEF u, t
<1>3. mon \in [Obj -> SUBSET {"IN", "OUT"}] /\ wire \in [Obj -> Seq(Nat)]
  <2>1. u.mon \in [Obj -> SUBSET {"IN", "OUT"}] /\ u.wire \in [Obj -> Seq(Nat)]
    BY <1>1 DEF Memories
  <2>2. <<>> \in Seq(Nat)
    OBVIOUS
  <2> QED
    BY <2>1, <2>2
<1> HIDE DEF mon, wire
<1>4. v \in Memories
  BY <1>1, <1>3 DEF Memories
<1>5. v.touched = u.touched /\ v.met = u.met /\ v.reconnect = u.reconnect
  BY <1>1 DEF Memories
<1>6. /\ v.live = u.live /\ v.connected = u.connected \ {"connector"} /\ v.bind = u.bind
      /\ v.mon = mon /\ v.ev = u.ev /\ v.fd = u.fd /\ v.reg = u.reg /\ v.ready = u.ready
  BY <1>1 DEF Memories
<1>7. Clocks(v) = Clocks(u)
  BY <1>1 DEF Memories, Clocks
<1>8. v.sbuf = u.sbuf /\ v.made = u.made /\ v.wire = wire
  BY <1>1 DEF Memories
<1> HIDE DEF v
<1> QED
  BY <1>1, <1>2, <1>4, <1>5, <1>6, <1>7, <1>8 DEF t, mon, wire, Data

LEMMA DialSound ==
    ASSUME NEW s, NEW X, Sound(s, X)
    PROVE  LET t == Dial(s)
           IN  /\ Sound(t, X) /\ t.live = s.live /\ t.touched = s.touched /\ t.met = s.met
               /\ t.reconnect = s.reconnect /\ Clocks(t) = Clocks(s)
               /\ t.mon["connector"] = {} /\ t.made = s.made /\ t.sbuf = s.sbuf
<1> DEFINE t == Dial(s)
<1>1. s \in Memories /\ s.mon \in [Obj -> SUBSET {"IN", "OUT"}] /\ "connector" \in Obj
  BY DEF Sound, Memories, Obj
<1>2. /\ t \in Memories /\ t.touched = s.touched /\ t.met = s.met /\ t.reconnect = s.reconnect
      /\ t.live = s.live /\ t.connected = s.connected \ {"connector"} /\ t.bind = s.bind
      /\ t.mon = [s.mon EXCEPT !["connector"] = {}] /\ t.ev = s.ev
      /\ t.fd = s.fd \ {"connector"} /\ t.reg = s.reg \ {"connector"}
      /\ t.ready = s.ready \ {"connector"} /\ Clocks(t) = Clocks(s)
      /\ t.sbuf = s.sbuf /\ t.made = s.made
  BY <1>1, DialIs
<1> HIDE DEF t
<1>3. \A p \in Obj : t.mon[p] = IF p = "connector" THEN {} ELSE s.mon[p]
  BY <1>1, <1>2
<1>4. Explained(t)
  BY <1>2 DEF Sound, Explained
<1>5. Kernel(s) => Kernel(t)
  BY <1>2, <1>3 DEF Kernel, Clocks, Stream
<1>6. Clocked(s, X) => Clocked(t, X)
  <2> SUFFICES ASSUME Clocked(s, X) PROVE Clocked(t, X)
    OBVIOUS
  <2>1. t.timers = s.timers /\ t.tid = s.tid
    BY <1>2 DEF Clocks
  <2>2. RecvTimeout # 0 => \A p \in (Stream \cap t.fd) \ X :
          "IN" \in t.mon[p] => \E x \in Range(s.timers) : x.fn = <<"timeout", p>>
    BY <1>2, <1>3 DEF Clocked, Stream
  <2>3. t.live = s.live
    BY <1>2
  <2> QED
    BY <2>1, <2>2, <2>3 DEF Clocked
<1>7. "accepted" \in t.connected
  BY <1>2 DEF Sound
<1>8. Heard(s) => Heard(t)
  BY <1>2, <1>3 DEF Heard, Stream
<1>9. Sound(t, X)
  BY <1>2, <1>4, <1>5, <1>6, <1>7, <1>8 DEF Sound
<1>10. t.mon["connector"] = {}
  BY <1>1, <1>3
<1> QED
  BY <1>2, <1>9, <1>10 DEF t

(* A new socket has taken nothing: what is in the buffer is the run.       *)
LEMMA DialInOrder ==
    ASSUME NEW s \in Memories, RunOf(s.sbuf["connector"], s.made["connector"]),
           RunOf(s.wire["accepted"] \o s.sbuf["accepted"], s.made["accepted"])
    PROVE  InOrder(Dial(s))
<1> DEFINE t == Dial(s)
<1>1. t.sbuf = s.sbuf /\ t.made = s.made /\ t.wire = [s.wire EXCEPT !["connector"] = <<>>]
  BY DialIs
<1> HIDE DEF t
<1>2. s.wire \in [Obj -> Seq(Nat)] /\ s.sbuf \in [Obj -> Seq(Nat)]
  BY DEF Memories
<1>3. t.wire["connector"] = <<>> /\ t.wire["accepted"] = s.wire["accepted"] /\ s.sbuf["connector"] \in Seq(Nat)
  BY <1>1, <1>2 DEF Obj
<1>4. t.wire["connector"] \o t.sbuf["connector"] = s.sbuf["connector"]
  <2>1. \A q : q \in Seq(Nat) => <<>> \o q = q
    OBVIOUS
  <2> QED
    BY <1>1, <1>3, <2>1
<1>5. \A o \in Stream : o = "accepted" \/ o = "connector"
  BY DEF Stream, Obj
<1>6. InOrder(t)
  BY <1>1, <1>3, <1>4, <1>5 DEF InOrder
<1> QED
  BY <1>6 DEF t

LEMMA DialAgainInOrder ==
    ASSUME NEW s \in Memories, InOrder(s)
    PROVE  InOrder(Dial(s))
<1>1. \A p \in Stream : RunOf(s.wire[p] \o s.sbuf[p], s.made[p])
  BY DEF InOrder
<1>2. \A p \in {"accepted", "connector"} : p \in Stream /\ s.wire[p] \in Seq(Nat) /\ s.sbuf[p] \in Seq(Nat)
  BY DEF Memories, Stream, Obj
<1>3. RunOf(s.sbuf["connector"], s.made["connector"])
  BY <1>1, <1>2, RunShortened
<1> QED
  BY <1>1, <1>2, <1>3, DialInOrder

Opened(s) == [s EXCEPT !.fd = @ \cup {"connector"}]

LEMMA OpenedSound ==
    ASSUME NEW s, NEW X, Sound(s, X), s.touched = {} => "connector" \in s.live, s.mon["connector"] = {}
    PROVE  LET t == Opened(s)
           IN  /\ Sound(t, X) /\ (\A p : Goes(s, t, p)) /\ t.live = s.live /\ t.touched = s.touched
               /\ t.met = s.met /\ Clocks(t) = Clocks(s)
<1> DEFINE t == Opened(s)
<1>1. s \in Memories
  BY DEF Sound
<1>2. t \in Memories
  BY <1>1 DEF Memories, Opened, Obj
<1>3. t.touched = s.touched /\ t.met = s.met /\ t.reconnect = s.reconnect
  BY <1>1 DEF Memories, Opened
<1>4. /\ t.live = s.live /\ t.connected = s.connected /\ t.bind = s.bind /\ t.mon = s.mon
      /\ t.reg = s.reg /\ t.ev = s.ev /\ t.ready = s.ready /\ t.fd = s.fd \cup {"connector"}
  BY <1>1 DEF Memories, Opened
<1>5. Clocks(t) = Clocks(s) /\ Data(t) = Data(s)
  BY <1>1 DEF Memories, Opened, Clocks, Data
<1> HIDE DEF t
<1>6. Explained(t)
  BY <1>3 DEF Sound, Explained
<1>7. Kernel(s) /\ s.touched = {} => Kernel(t)
  BY <1>4, <1>5 DEF Kernel, Clocks
<1>8. Clocked(s, X) => Clocked(t, X)
  BY <1>4, <1>5 DEF Clocked, Clocks
<1>9. Heard(s) => Heard(t)
  BY <1>4 DEF Heard
<1>10. Sound(t, X)
  BY <1>2, <1>3, <1>4, <1>6, <1>7, <1>8, <1>9 DEF Sound
<1>11. \A p : Goes(s, t, p)
  BY <1>3, <1>4, <1>5, GoesIfSame
<1> QED
  BY <1>3, <1>4, <1>5, <1>10, <1>11 DEF t

(* What the kernel says of the connect, and what the connector makes of it.*)
Answered(s, net, connected) == [s EXCEPT !.net["connector"] = net, !.connected = connected]

LEMMA AnsweredSound ==
    ASSUME NEW s, NEW X, Sound(s, X),
           NEW net \in Nets, NEW connected \in SUBSET Obj, s.connected \subseteq connected
    PROVE  LET t == Answered(s, net, connected)
           IN  /\ Sound(t, X) /\ (\A p : Goes(s, t, p)) /\ t.live = s.live /\ t.touched = s.touched
               /\ t.connected = connected
<1> DEFINE t == Answered(s, net, connected)
<1>1. s \in Memories
  BY DEF Sound
<1>2. t \in Memories
  BY <1>1 DEF Memories, Answered, Nets, Obj
<1>3. t.touched = s.touched /\ t.met = s.met /\ t.reconnect = s.reconnect
  BY <1>1 DEF Memories, Answered
<1>4. /\ t.live = s.live /\ t.connected = connected /\ t.bind = s.bind /\ t.mon = s.mon
      /\ t.reg = s.reg /\ t.ev = s.ev /\ t.ready = s.ready /\ t.fd = s.fd
  BY <1>1 DEF Memories, Answered
<1>5. Clocks(t) = Clocks(s) /\ Data(t) = Data(s)
  BY <1>1 DEF Memories, Answered, Clocks, Data
<1> HIDE DEF t
<1>6. Explained(t)
  BY <1>3 DEF Sound, Explained
<1>7. Kernel(s) => Kernel(t)
  BY <1>4, <1>5 DEF Kernel, Clocks
<1>8. Clocked(s, X) => Clocked(t, X)
  BY <1>4, <1>5 DEF Clocked, Clocks
<1>9. Heard(s) => Heard(t)
  BY <1>4 DEF Heard
<1>10. Sound(t, X)
  BY <1>2, <1>3, <1>4, <1>6, <1>7, <1>8, <1>9 DEF Sound
<1>11. \A p : Goes(s, t, p)
  BY <1>3, <1>4, <1>5, GoesIfSame
<1> QED
  BY <1>3, <1>4, <1>10, <1>11 DEF t

LEMMA ConnectCallbackSound ==
    ASSUME NEW s, NEW X, Sound(s, X), s.touched = {} => "connector" \in s.live, Unless(s, "connector"),
           "connector" \in s.connected, NEW t \in ConnectCallback(s)
    PROVE  Sound(t, X) /\ Goes(s, t, "connector") /\ (t.touched = {} => "connector" \in t.live)
<1> DEFINE o == "connector"
<1>1. o \in Obj /\ o \in Stream /\ "connect callback" \in Places /\ Present(s, o)
  BY DEF Stream, Obj, Places, Present
<1>2. PICK u \in {s} \cup Sends(s, o) : t = AsyncRecv(Touch(u, o, "connect callback"), o)
  BY DEF ConnectCallback
<1>3. Sound(u, X) /\ Goes(s, u, o) /\ Unless(u, o)
  <2>1. Spared(s, u, X, o)
    BY <1>1, SparedSame, SendsSpared
  <2> QED
    BY <2>1 DEF Spared
<1> DEFINE v == Touch(u, o, "connect callback")
<1>4. Sound(v, X) /\ Goes(u, v, o) /\ (v.touched = {} => o \in u.live) /\ v.live = u.live
  <2>1. o \in u.live \/ Causes["connect callback"] \cap u.met # {}
    BY <1>3, CausesAre DEF Unless
  <2> QED
    BY <1>1, <1>3, <2>1, TouchSound
<1>5. t = AsyncRecv(v, o)
  BY <1>2
<1> HIDE DEF v
<1>6. Sound(t, X \ {o}) /\ Goes(v, t, o) /\ t.live = v.live
  <2>1. v.touched = {} => o \in v.live
    BY <1>4
  <2>2. o \in v.connected
    BY <1>3, <1>4 DEF Goes
  <2> QED
    BY <1>1, <1>4, <1>5, <2>1, <2>2, AsyncRecvSound
<1>7. Sound(t, X)
  BY <1>6, SoundMore
<1>8. Goes(s, t, o)
  BY <1>3, <1>4, <1>6, GoesOn
<1>9. t.touched = {} => v.touched = {}
  BY <1>6 DEF Goes
<1> QED
  BY <1>4, <1>6, <1>7, <1>8, <1>9

LEMMA DialSucceedsSound ==
    ASSUME NEW s, NEW X, Sound(s, X), "connector" \in s.live, NEW t \in DialSucceeds(s)
    PROVE  Sound(t, X) /\ Goes(Dial(s), t, "connector") /\ (t.touched = {} => "connector" \in t.live)
<1> DEFINE o == "connector"
           d == Dial(s)
           u == Opened(d)
<1>1. o \in Obj /\ "OUT" \in {"IN", "OUT"}
  BY DEF Obj
<1>2. Sound(d, X) /\ d.live = s.live /\ d.mon[o] = {}
  BY DialSound
<1>3. DialSucceeds(s) = {DoMonitorEvents([u EXCEPT !.net[o] = "connecting"], o, {"OUT"})}
                        \cup ConnectCallback([u EXCEPT !.net[o] = "up", !.connected = @ \cup {o}])
  BY DEF DialSucceeds, Opened
<1> HIDE DEF d
<1>4. Sound(u, X) /\ Goes(d, u, o) /\ u.live = d.live
  BY <1>2, OpenedSound
<1> HIDE DEF u
<1>5. u \in Memories /\ u.connected \in SUBSET Obj /\ "accepted" \in u.connected
  BY <1>4 DEF Sound, Memories
<1>6. CASE t = DoMonitorEvents([u EXCEPT !.net[o] = "connecting"], o, {"OUT"})
  <2> DEFINE v == Answered(u, "connecting", u.connected)
  <2>1. [u EXCEPT !.net[o] = "connecting"] = v
    BY <1>5 DEF Answered, Memories
  <2>2. Sound(v, X) /\ Goes(u, v, o) /\ v.live = u.live
    BY <1>4, <1>5, AnsweredSound DEF Nets
  <2> HIDE DEF v
  <2>3. LET w == DoMonitorEvents(v, o, {"OUT"})
        IN  /\ Sound(w, X) /\ (\A p : Goes(v, w, p)) /\ w.live = v.live
            /\ w.touched = v.touched /\ w.met = v.met
    <3>1. {"OUT"} \in SUBSET {"IN", "OUT"} /\ X \subseteq X /\ "IN" \notin {"OUT"}
      OBVIOUS
    <3> QED
      BY <1>1, <2>2, <3>1, DoMonitorEventsSound, Zenon
  <2>4. Goes(d, t, o)
    BY <1>4, <1>6, <2>1, <2>2, <2>3, GoesOn
  <2> QED
    BY <1>2, <1>4, <1>6, <2>1, <2>2, <2>3, <2>4 DEF d
<1>7. CASE t \in ConnectCallback([u EXCEPT !.net[o] = "up", !.connected = @ \cup {o}])
  <2> DEFINE connected == u.connected \cup {o}
             v == Answered(u, "up", connected)
  <2>1. [u EXCEPT !.net[o] = "up", !.connected = @ \cup {o}] = v
    BY DEF Answered
  <2>2. connected \in SUBSET Obj /\ u.connected \subseteq connected /\ o \in connected /\ "up" \in Nets
    BY <1>1, <1>5 DEF Nets
  <2> HIDE DEF connected
  <2>3. Sound(v, X) /\ Goes(u, v, o) /\ v.live = u.live /\ v.connected = connected
    BY <1>4, <2>2, AnsweredSound
  <2>4. t \in ConnectCallback(v)
    BY <1>7, <2>1
  <2> HIDE DEF v
  <2>5. o \in v.live /\ Unless(v, o)
    BY <1>2, <1>4, <2>3 DEF Unless
  <2>6. Sound(t, X) /\ Goes(v, t, o) /\ (t.touched = {} => o \in t.live)
    BY <2>2, <2>3, <2>4, <2>5, ConnectCallbackSound
  <2>7. Goes(d, t, o)
    BY <1>4, <2>3, <2>6, GoesOn
  <2> QED
    BY <2>6, <2>7 DEF d
<1> QED
  BY <1>3, <1>6, <1>7

LEMMA DialFailsSound ==
    ASSUME NEW s, NEW X, Sound(s, X), "connector" \in s.live, NEW t \in DialFails(s)
    PROVE  /\ Sound(t, X) /\ Goes(Dial(s), t, "connector") /\ t.live = s.live
           /\ t.touched = s.touched /\ t.met = s.met /\ Clocks(t) = Clocks(s)
<1> DEFINE d == Dial(s)
<1>1. /\ Sound(d, X) /\ d.live = s.live /\ d.mon["connector"] = {} /\ d.touched = s.touched
      /\ d.met = s.met /\ Clocks(d) = Clocks(s)
  BY DialSound
<1>2. t = d \/ t = Opened(d)
  BY DEF DialFails, Opened
<1> HIDE DEF d
<1>3. CASE t = d
  BY <1>1, <1>3, GoesIfSame DEF d
<1>4. CASE t = Opened(d)
  <2>1. /\ Sound(t, X) /\ Goes(d, t, "connector") /\ t.live = d.live /\ t.touched = d.touched
        /\ t.met = d.met /\ Clocks(t) = Clocks(d)
    BY <1>1, <1>4, OpenedSound
  <2> QED
    BY <1>1, <2>1 DEF d
<1> QED
  BY <1>2, <1>3, <1>4
----------------------------------------------------------------------------
(* The events.                                                             *)
LEMMA AcceptedIs ==
    ASSUME NEW s \in Memories
    PROVE  LET t == Accepted(s)
           IN  /\ t \in Memories /\ t.touched = s.touched /\ t.met = s.met /\ t.reconnect = s.reconnect
               /\ t.live = s.live \cup {"accepted"} /\ t.fd = s.fd \cup {"accepted"}
               /\ t.connected = s.connected /\ t.bind = s.bind \ {"accepted"}
               /\ t.mon = [s.mon EXCEPT !["accepted"] = {}] /\ t.ev = s.ev /\ t.reg = s.reg
               /\ t.ready = s.ready /\ t.timers = s.timers /\ t.tid = [s.tid EXCEPT !["accepted"] = NoTimer]
               /\ t.wire = [s.wire EXCEPT !["accepted"] = <<>>]
               /\ t.sbuf = [s.sbuf EXCEPT !["accepted"] = <<>>]
               /\ t.made = [s.made EXCEPT !["accepted"] = 0]
<1> DEFINE t == Accepted(s)
           a == "accepted"
           mon == [s.mon EXCEPT ![a] = {}]
           tid == [s.tid EXCEPT ![a] = NoTimer]
           wire == [s.wire EXCEPT ![a] = <<>>]
           sbuf == [s.sbuf EXCEPT ![a] = <<>>]
           made == [s.made EXCEPT ![a] = 0]
           net == [s.net EXCEPT ![a] = "up"]
           u == [s EXCEPT !.live = @ \cup {a}, !.fd = @ \cup {a}, !.net = net,
                          !.unread = @ \ {"acceptor"}, !.bind = @ \ {a}, !.mon = mon,
                          !.tid = tid, !.sbuf = sbuf, !.made = made, !.wire = wire]
<1>1. t = u
  BY DEF Accepted, Memories
<1>2. mon \in [Obj -> SUBSET {"IN", "OUT"}] /\ tid \in [Obj -> Nat] /\ made \in [Obj -> Nat]
  BY DEF Memories, NoTimer
<1>3. wire \in [Obj -> Seq(Nat)] /\ sbuf \in [Obj -> Seq(Nat)]
  <2>1. s.wire \in [Obj -> Seq(Nat)] /\ s.sbuf \in [Obj -> Seq(Nat)] /\ <<>> \in Seq(Nat)
    BY DEF Memories
  <2> QED
    BY <2>1
<1>4. net \in [Obj -> {"none", "connecting", "refused", "up", "eof", "reset"}]
  BY DEF Memories
<1> HIDE DEF mon, tid, wire, sbuf, made, net, t
<1>5. a \in Obj
  BY DEF Obj
<1>6. u \in Memories
  <2> HIDE DEF a
  <2>1. /\ s.live \cup {a} \in SUBSET Obj /\ s.fd \cup {a} \in SUBSET Obj
        /\ s.unread \ {"acceptor"} \in SUBSET Obj /\ s.bind \ {a} \in SUBSET Obj
    BY <1>5 DEF Memories
  <2> QED
    BY <1>2, <1>3, <1>4, <2>1 DEF Memories
<1>7. u.touched = s.touched /\ u.met = s.met /\ u.reconnect = s.reconnect
  BY DEF Memories
<1>8. /\ u.live = s.live \cup {a} /\ u.fd = s.fd \cup {a} /\ u.connected = s.connected
      /\ u.bind = s.bind \ {a} /\ u.mon = mon /\ u.ev = s.ev /\ u.reg = s.reg /\ u.ready = s.ready
  BY DEF Memories
<1>9. u.timers = s.timers /\ u.tid = tid /\ u.wire = wire /\ u.sbuf = sbuf /\ u.made = made
  BY DEF Memories
<1> HIDE DEF u
<1> QED
  BY <1>1, <1>6, <1>7, <1>8, <1>9 DEF t, mon, tid, wire, sbuf, made

LEMMA AcceptedSound ==
    ASSUME NEW s, NEW X, Sound(s, X), "accepted" \notin s.live
    PROVE  LET t == Accepted(s)
           IN  /\ Sound(t, X) /\ (\A p : Goes(s, t, p)) /\ t.touched = s.touched
               /\ "accepted" \in t.live /\ s.live \subseteq t.live
<1> DEFINE t == Accepted(s)
<1>1. /\ s \in Memories /\ "accepted" \in Obj
      /\ s.mon \in [Obj -> SUBSET {"IN", "OUT"}] /\ s.tid \in [Obj -> Nat]
      /\ s.wire \in [Obj -> Seq(Nat)] /\ s.sbuf \in [Obj -> Seq(Nat)] /\ s.made \in [Obj -> Nat]
  BY DEF Sound, Memories, Obj
<1>2. /\ t \in Memories /\ t.touched = s.touched /\ t.met = s.met /\ t.reconnect = s.reconnect
      /\ t.live = s.live \cup {"accepted"} /\ t.fd = s.fd \cup {"accepted"}
      /\ t.connected = s.connected /\ t.bind = s.bind \ {"accepted"}
      /\ t.mon = [s.mon EXCEPT !["accepted"] = {}] /\ t.ev = s.ev /\ t.reg = s.reg
      /\ t.ready = s.ready /\ t.timers = s.timers /\ t.tid = [s.tid EXCEPT !["accepted"] = NoTimer]
      /\ t.wire = [s.wire EXCEPT !["accepted"] = <<>>]
      /\ t.sbuf = [s.sbuf EXCEPT !["accepted"] = <<>>]
      /\ t.made = [s.made EXCEPT !["accepted"] = 0]
  BY <1>1, AcceptedIs
<1> HIDE DEF t
<1>3. \A p \in Obj : /\ t.mon[p] = IF p = "accepted" THEN {} ELSE s.mon[p]
                     /\ t.tid[p] = IF p = "accepted" THEN NoTimer ELSE s.tid[p]
  BY <1>1, <1>2
<1>4. Explained(t)
  BY <1>2 DEF Sound, Explained
<1>5. ASSUME Kernel(s) PROVE "accepted" \notin s.reg /\ "accepted" \notin s.fd
  BY <1>5 DEF Kernel
<1>6. Kernel(s) => Kernel(t)
  BY <1>2, <1>5 DEF Kernel
<1>7. Kernel(s) /\ Heard(s) => Heard(t)
  BY <1>2, <1>3, <1>5 DEF Heard, Stream
<1>8. ASSUME Clocked(s, X) PROVE Clocked(t, X)
  <2>1. \A x \in Range(s.timers) :
          /\ x.id # NoTimer
          /\ x.fn[1] = "timeout" => x.fn[2] \in s.live /\ x.id = s.tid[x.fn[2]]
          /\ \A p \in Obj : x.id = s.tid[p] => x.fn = <<"timeout", p>>
    BY <1>8 DEF Clocked
  <2>2. Range(s.timers) \subseteq Timers
    BY <1>1 DEF Memories, Range
  <2>3. \A x \in Range(s.timers) :
          x.fn[1] = "timeout" => x.fn[2] \in t.live /\ x.id = t.tid[x.fn[2]]
    BY <1>2, <1>3, <2>1, <2>2, FnIs DEF Stream
  <2>4. \A x \in Range(s.timers) : \A p \in Obj : x.id = t.tid[p] => x.fn = <<"timeout", p>>
    BY <1>3, <2>1
  <2>5. RecvTimeout # 0 => \A p \in (Stream \cap t.fd) \ X :
          "IN" \in t.mon[p] => \E x \in Range(s.timers) : x.fn = <<"timeout", p>>
    BY <1>2, <1>3, <1>8 DEF Clocked, Stream
  <2>6. t.timers = s.timers /\ Distinct(s.timers)
    BY <1>2, <1>8 DEF Clocked
  <2> QED
    BY <2>1, <2>3, <2>4, <2>5, <2>6 DEF Clocked
<1>9. Sound(t, X)
  BY <1>2, <1>4, <1>6, <1>7, <1>8 DEF Sound
<1>10. ASSUME InOrder(s) PROVE InOrder(t)
  <2> SUFFICES ASSUME NEW p \in Stream
               PROVE  RunOf(t.wire[p] \o t.sbuf[p], t.made[p])
    BY DEF InOrder
  <2>1. p \in Obj
    BY DEF Stream
  <2>2. CASE p = "accepted"
    <3>1. t.wire[p] = <<>> /\ t.sbuf[p] = <<>>
      BY <1>1, <1>2, <2>2
    <3>2. \A last : RunOf(<<>> \o <<>>, last)
      BY DEF RunOf
    <3> QED
      BY <3>1, <3>2
  <2>3. CASE p # "accepted"
    <3>1. t.wire[p] = s.wire[p] /\ t.sbuf[p] = s.sbuf[p] /\ t.made[p] = s.made[p]
      BY <1>1, <1>2, <2>1, <2>3
    <3> QED
      BY <1>10, <3>1 DEF InOrder
  <2> QED
    BY <2>2, <2>3
<1>11. \A p : Goes(s, t, p)
  BY <1>2, <1>10 DEF Goes
<1> QED
  BY <1>2, <1>9, <1>11 DEF t

LEMMA OnAcceptSound ==
    ASSUME NEW s, NEW X, Sound(s, X), s.touched = {} => "acceptor" \in s.live, NEW t \in OnAccept(s)
    PROVE  Sound(t, X) /\ Goes(s, t, "acceptor")
<1> DEFINE o == "acceptor"
           a == Accepted(s)
           clients == IF "acceptor" \in s.unread /\ "accepted" \notin s.live
                     THEN {AsyncRecv(a, "accepted"), Touch(Close(Met(a, "accept refused"), o), o, "on_accept")}
                     ELSE {Read(s, o)}
<1>1. o \in Obj /\ "accepted" \in Stream
  BY DEF Obj, Stream
<1>2. ASSUME NEW u \in clients
      PROVE  Sound(u, X) /\ Goes(s, u, o) /\ (u.touched = {} => o \in u.live)
  <2>1. CASE "accepted" \notin s.live /\ u = AsyncRecv(a, "accepted")
    <3>1. /\ Sound(a, X) /\ Goes(s, a, o) /\ "accepted" \in a.live /\ s.live \subseteq a.live
          /\ a.touched = s.touched
      BY <2>1, AcceptedSound
    <3>2. "accepted" \in a.connected
      BY <3>1 DEF Sound
    <3> HIDE DEF a
    <3>3. Sound(u, X \ {"accepted"}) /\ Goes(a, u, o) /\ u.live = a.live
      BY <1>1, <2>1, <3>1, <3>2, AsyncRecvSound
    <3>4. Sound(u, X)
      BY <3>3, SoundMore
    <3>5. Goes(s, u, o)
      BY <3>1, <3>3, GoesOn
    <3>6. u.touched = {} => s.touched = {}
      BY <3>5 DEF Goes
    <3> QED
      BY <3>1, <3>3, <3>4, <3>5, <3>6
  <2>2. CASE "accepted" \notin s.live /\ u = Touch(Close(Met(a, "accept refused"), o), o, "on_accept")
    <3>1. /\ Sound(a, X) /\ Goes(s, a, o) /\ s.live \subseteq a.live /\ a.touched = s.touched
      BY <2>2, AcceptedSound
    <3> HIDE DEF a
    <3>2. "accept refused" \in Reasons /\ "on_accept" \in Places /\ "accept refused" \in Causes["on_accept"]
      BY CausesAre DEF Reasons, Places
    <3>3. a.touched = {} => o \in a.live
      BY <3>1
    <3> HIDE DEF o
    <3>4. Sound(u, X \ {o}) /\ Goes(a, u, o) /\ (u.touched = {} => o \in u.live)
      BY <1>1, <2>2, <3>1, <3>2, <3>3, CloseTouchSound
    <3>5. Sound(u, X)
      BY <3>4, SoundMore
    <3>6. Goes(s, u, o)
      BY <3>1, <3>4, GoesOn
    <3> QED
      BY <3>4, <3>5, <3>6
  <2>3. CASE u = Read(s, o)
    BY <1>1, <2>3, ReadSound
  <2> QED
    BY <2>1, <2>2, <2>3
<1>3. t \in clients \cup {Close(u, o) : u \in clients}
  BY DEF OnAccept, Read
<1> HIDE DEF clients
<1>4. CASE t \in clients
  BY <1>2, <1>4
<1>5. ASSUME NEW u \in clients, t = Close(u, o)
      PROVE  Sound(t, X) /\ Goes(s, t, o)
  <2>1. Sound(u, X) /\ Goes(s, u, o) /\ (u.touched = {} => o \in u.live)
    BY <1>2
  <2>2. Sound(t, X \ {o}) /\ Goes(u, t, o)
    BY <1>1, <1>5, <2>1, CloseSound
  <2>3. Sound(t, X)
    BY <2>2, SoundMore
  <2> QED
    BY <2>1, <2>2, <2>3, GoesOn
<1> QED
  BY <1>3, <1>4, <1>5

Up(s) == [s EXCEPT !.connected = @ \cup {"connector"}, !.mon["connector"] = {}]

LEMMA UpSound ==
    ASSUME NEW s, NEW X, Sound(s, X), "connector" \notin s.connected
    PROVE  LET t == Up(s)
           IN  /\ Sound(t, X) /\ (\A p : Goes(s, t, p)) /\ t.live = s.live /\ t.touched = s.touched
               /\ "connector" \in t.connected
<1> DEFINE t == Up(s)
           mon == [s.mon EXCEPT !["connector"] = {}]
           u == [s EXCEPT !.connected = @ \cup {"connector"}, !.mon = mon]
<1>1. s \in Memories /\ s.mon \in [Obj -> SUBSET {"IN", "OUT"}] /\ "connector" \in Obj
  BY DEF Sound, Memories, Obj
<1>2. t = u
  BY <1>1 DEF Up, Memories
<1>3. mon \in [Obj -> SUBSET {"IN", "OUT"}]
  BY <1>1
<1>4. \A p \in Obj : mon[p] = IF p = "connector" THEN {} ELSE s.mon[p]
  BY <1>1
<1> HIDE DEF mon, t
<1>5. u \in Memories
  BY <1>1, <1>3 DEF Memories
<1>6. u.touched = s.touched /\ u.met = s.met /\ u.reconnect = s.reconnect
  BY <1>1 DEF Memories
<1>7. /\ u.live = s.live /\ u.connected = s.connected \cup {"connector"} /\ u.bind = s.bind /\ u.mon = mon
      /\ u.reg = s.reg /\ u.ev = s.ev /\ u.ready = s.ready /\ u.fd = s.fd
  BY <1>1 DEF Memories
<1>8. Clocks(u) = Clocks(s) /\ Data(u) = Data(s)
  BY <1>1 DEF Memories, Clocks, Data
<1> HIDE DEF u
<1>9. Explained(u)
  BY <1>6 DEF Sound, Explained
<1>10. Kernel(s) => Kernel(u)
  BY <1>7, <1>8 DEF Kernel, Clocks
<1>11. Heard(s) => Heard(u)
  BY <1>4, <1>7 DEF Heard, Stream
<1>12. ASSUME Clocked(s, X) PROVE Clocked(u, X)
  <2>1. RecvTimeout # 0 => \A p \in (Stream \cap u.fd) \ X :
          "IN" \in u.mon[p] => \E x \in Range(s.timers) : x.fn = <<"timeout", p>>
    BY <1>4, <1>7, <1>12 DEF Clocked, Stream
  <2>2. u.timers = s.timers /\ u.tid = s.tid /\ u.live = s.live
    BY <1>7, <1>8 DEF Clocks
  <2> QED
    BY <1>12, <2>1, <2>2 DEF Clocked
<1>13. Sound(u, X)
  BY <1>5, <1>6, <1>7, <1>9, <1>10, <1>11, <1>12 DEF Sound
<1>14. \A p : Goes(s, u, p)
  BY <1>6, <1>7, <1>8, GoesIfSame
<1> QED
  BY <1>2, <1>6, <1>7, <1>13, <1>14 DEF t

LEMMA OnConnectSound ==
    ASSUME NEW s, NEW X, Sound(s, X), "connector" \in s.live, "connector" \notin s.connected,
           NEW events, NEW t \in OnConnect(s, events)
    PROVE  Sound(t, X) /\ Goes(s, t, "connector") /\ (t.touched = {} => "connector" \in t.live)
<1> DEFINE o == "connector"
           c == Close(s, o)
           up == Up(s)
<1>1. o \in Obj
  BY DEF Obj
<1>2. Sound(c, X \ {o}) /\ Goes(s, c, o) /\ (c.touched = {} => o \in c.live)
  BY <1>1, CloseSound
<1>3. Sound(c, X)
  BY <1>2, SoundMore
<1>4. CASE t = c
  BY <1>2, <1>3, <1>4
<1>5. CASE t = Close(c, o)
  <2> HIDE DEF c
  <2>1. Sound(t, X \ {o}) /\ Goes(c, t, o) /\ (t.touched = {} => o \in t.live)
    BY <1>1, <1>2, <1>3, <1>5, CloseSound
  <2>2. Sound(t, X)
    BY <2>1, SoundMore
  <2> QED
    BY <1>2, <2>1, <2>2, GoesOn
<1>6. CASE t = s
  BY <1>6, GoesIfSame
<1>7. ASSUME NEW u \in AsyncSend(up, o, 0), t \in ConnectCallback(Touch(u, o, "connect callback"))
      PROVE  Sound(t, X) /\ Goes(s, t, o) /\ (t.touched = {} => o \in t.live)
  <2> DEFINE v == Touch(u, o, "connect callback")
  <2>1. Sound(up, X) /\ Goes(s, up, o) /\ up.live = s.live /\ up.touched = s.touched /\ o \in up.connected
    BY UpSound
  <2>2. u \in AsyncSend(up, o, 0)
    BY <1>7
  <2> HIDE DEF up
  <2>3. Sound(u, X) /\ Goes(up, u, o) /\ Unless(u, o)
    <3>1. Present(up, o) /\ 0 \in Nat
      BY <2>1 DEF Present, Unless
    <3>2. Spared(up, u, X, o)
      BY <1>1, <2>1, <2>2, <3>1, AsyncSendSpared
    <3> QED
      BY <3>2 DEF Spared
  <2>4. /\ Sound(v, X) /\ Goes(u, v, o) /\ v.live = u.live /\ (v.touched = {} => o \in u.live)
    <3>1. o \in u.live \/ Causes["connect callback"] \cap u.met # {}
      BY <2>3, CausesAre DEF Unless
    <3>2. "connect callback" \in Places
      BY DEF Places
    <3> QED
      BY <2>3, <3>1, <3>2, TouchSound
  <2>5. t \in ConnectCallback(v)
    BY <1>7
  <2> HIDE DEF v
  <2>6. Unless(v, o) /\ o \in v.connected
    BY <2>1, <2>3, <2>4 DEF Unless, Goes
  <2>7. Sound(t, X) /\ Goes(v, t, o) /\ (t.touched = {} => o \in t.live)
    BY <2>4, <2>5, <2>6, ConnectCallbackSound
  <2>8. Goes(s, t, o)
    BY <2>1, <2>3, <2>4, <2>7, GoesOn
  <2> QED
    BY <2>7, <2>8
<1>8. OnConnect(s, events) =
        IF "ERR" \in events THEN {c, Close(c, o)}
        ELSE IF "OUT" \in events THEN UNION {ConnectCallback(Touch(u, o, "connect callback")) : u \in AsyncSend(up, o, 0)}
        ELSE {s}
  BY DEF OnConnect, Up
<1> HIDE DEF c, up
<1>9. CASE "ERR" \in events
  BY <1>4, <1>5, <1>8, <1>9
<1>10. CASE "ERR" \notin events /\ "OUT" \in events
  <2>1. t \in UNION {ConnectCallback(Touch(u, o, "connect callback")) : u \in AsyncSend(up, o, 0)}
    BY <1>8, <1>10
  <2>2. PICK u \in AsyncSend(up, o, 0) : t \in ConnectCallback(Touch(u, o, "connect callback"))
    BY <2>1
  <2> QED
    BY <1>7, <2>2
<1>11. CASE "ERR" \notin events /\ "OUT" \notin events
  BY <1>6, <1>8, <1>11
<1> QED
  BY <1>9, <1>10, <1>11

LEMMA OnConnectionSound ==
    ASSUME NEW s, NEW X, Sound(s, X), NEW o \in Stream, o \in s.live,
           NEW events, NEW t \in OnConnection(s, o, events)
    PROVE  Sound(t, X) /\ Goes(s, t, o)
<1> DEFINE both == IF {"IN", "OUT"} \subseteq events THEN Met(s, "both halves") ELSE s
           read == IF "IN" \in events THEN DoRecv(both, o) ELSE {both}
<1>1. o \in Obj /\ "both halves" \in Reasons /\ "OUT half" \in Places /\ s \in Memories
  BY DEF Stream, Reasons, Places, Sound
<1>2. CASE t = Close(s, o)
  <2>1. Sound(t, X \ {o}) /\ Goes(s, t, o)
    BY <1>1, <1>2, CloseSound
  <2> QED
    BY <2>1, SoundMore
<1>3. /\ Sound(both, X) /\ Goes(s, both, o) /\ both.live = s.live
      /\ {"IN", "OUT"} \subseteq events => "both halves" \in both.met
  <2>1. CASE {"IN", "OUT"} \subseteq events
    <3>1. Met(s, "both halves").met = s.met \cup {"both halves"} /\ Met(s, "both halves").live = s.live
      BY <1>1, MetIs DEF Sockets
    <3> QED
      BY <1>1, <2>1, <3>1, MetSound
  <2>2. CASE ~({"IN", "OUT"} \subseteq events)
    BY <2>2, GoesIfSame
  <2> QED
    BY <2>1, <2>2
<1> HIDE DEF both
<1>4. ASSUME NEW u \in read
      PROVE  /\ Sound(u, X) /\ Goes(s, u, o)
             /\ "OUT" \in events => o \in u.live \/ "both halves" \in u.met
  <2>1. CASE "IN" \in events
    <3>1. Sound(u, X) /\ Goes(both, u, o)
      BY <1>3, <1>4, <2>1, DoRecvSound
    <3>2. Goes(s, u, o)
      BY <1>3, <3>1, GoesOn
    <3>3. "OUT" \in events => "both halves" \in u.met
      BY <1>3, <2>1, <3>1 DEF Goes
    <3> QED
      BY <3>1, <3>2, <3>3
  <2>2. CASE "IN" \notin events
    BY <1>3, <1>4, <2>2
  <2> QED
    BY <2>1, <2>2
<1> HIDE DEF read
<1>5. ASSUME "OUT" \in events, NEW u \in read, o \in u.live, t \in DoSend(u, o)
      PROVE  Sound(t, X) /\ Goes(s, t, o)
  <2>1. Sound(u, X) /\ Goes(s, u, o) /\ Present(u, o)
    BY <1>4, <1>5 DEF Present, Unless
  <2>2. Spared(u, t, X, o)
    BY <1>1, <1>5, <2>1, DoSendSpared
  <2> QED
    BY <2>1, <2>2, GoesOn DEF Spared
<1>6. ASSUME "OUT" \in events, NEW u \in read, o \notin u.live, t = Touch(u, o, "OUT half")
      PROVE  Sound(t, X) /\ Goes(s, t, o)
  <2>1. Sound(u, X) /\ Goes(s, u, o) /\ "both halves" \in u.met
    BY <1>4, <1>6
  <2>2. Causes["OUT half"] \cap u.met # {}
    BY <2>1, CausesAre
  <2>3. Sound(t, X) /\ Goes(u, t, o)
    BY <1>1, <1>6, <2>1, <2>2, TouchSound
  <2> QED
    BY <2>1, <2>3, GoesOn
<1>7. t \in IF "ERR" \in events THEN {Close(s, o)}
            ELSE IF "OUT" \notin events THEN read
            ELSE UNION {IF o \in u.live THEN DoSend(u, o) ELSE {Touch(u, o, "OUT half")} : u \in read}
  BY DEF OnConnection, read, both
<1> QED
  BY <1>2, <1>4, <1>5, <1>6, <1>7
----------------------------------------------------------------------------
(* The timers that fire.  A callback that has asked for data has rearmed.  *)
LEMMA ForgetSound ==
    ASSUME NEW s, NEW X, Sound(s, X), NEW o \in Obj,
           s.touched = {} /\ "rearmed" \notin s.met => \A x \in Range(s.timers) : x.fn # <<"timeout", o>>
    PROVE  LET t == [s EXCEPT !.tid[o] = NoTimer]
           IN  Sound(t, X) /\ (InOrder(s) => InOrder(t))
<1> DEFINE tid == [s.tid EXCEPT ![o] = NoTimer]
           t == [s EXCEPT !.tid = tid]
<1>1. s \in Memories /\ s.tid \in [Obj -> Nat] /\ s.timers \in Seq(Timers)
  BY DEF Sound, Memories
<1>2. [s EXCEPT !.tid[o] = NoTimer] = t
  BY <1>1 DEF Memories
<1>3. tid \in [Obj -> Nat] /\ \A p \in Obj : tid[p] = IF p = o THEN NoTimer ELSE s.tid[p]
  BY <1>1 DEF NoTimer
<1> HIDE DEF tid
<1>4. t \in Memories
  BY <1>1, <1>3 DEF Memories
<1>5. t.touched = s.touched /\ t.met = s.met /\ t.tid = tid /\ t.timers = s.timers
  BY <1>1 DEF Memories
<1>6. Sockets(t) = Sockets(s)
  BY <1>1 DEF Memories, Sockets
<1>7. Data(t) = Data(s)
  BY <1>1 DEF Memories, Data
<1> HIDE DEF t
<1>8. Explained(t)
  BY <1>5 DEF Sound, Explained
<1>9. Kernel(s) => Kernel(t)
  BY <1>5, <1>6 DEF Kernel, Sockets
<1>10. Heard(s) => Heard(t)
  BY <1>6 DEF Heard, Sockets
<1>11. ASSUME Clocked(s, X), \A x \in Range(s.timers) : x.fn # <<"timeout", o>>
       PROVE  Clocked(t, X)
  <2>1. Range(s.timers) \subseteq Timers
    BY <1>1 DEF Range
  <2>2. \A x \in Range(s.timers) :
          /\ x.id # NoTimer
          /\ x.fn[1] = "timeout" => x.fn[2] \in s.live /\ x.id = s.tid[x.fn[2]]
          /\ \A p \in Obj : x.id = s.tid[p] => x.fn = <<"timeout", p>>
    BY <1>11 DEF Clocked
  <2>3. \A x \in Range(s.timers) : x.fn[1] = "timeout" => x.fn[2] # o /\ x.fn[2] \in Obj
    BY <1>11, <2>1, FnIs DEF Stream
  <2>4. \A x \in Range(s.timers) : x.fn[1] = "timeout" => x.fn[2] \in t.live /\ x.id = t.tid[x.fn[2]]
    BY <1>3, <1>5, <1>6, <2>2, <2>3 DEF Sockets
  <2>5. \A x \in Range(s.timers) : \A p \in Obj : x.id = t.tid[p] => x.fn = <<"timeout", p>>
    BY <1>3, <1>5, <2>2
  <2>6. Distinct(t.timers)
    BY <1>5, <1>11 DEF Clocked
  <2>7. RecvTimeout # 0 => \A p \in (Stream \cap t.fd) \ X :
          "IN" \in t.mon[p] => \E x \in Range(t.timers) : x.fn = <<"timeout", p>>
    BY <1>5, <1>6, <1>11 DEF Clocked, Sockets
  <2> QED
    BY <1>5, <2>2, <2>4, <2>5, <2>6, <2>7 DEF Clocked
<1>12. Sound(t, X)
  BY <1>4, <1>5, <1>6, <1>8, <1>9, <1>10, <1>11 DEF Sound, Sockets
<1>13. InOrder(s) => InOrder(t)
  BY <1>7 DEF InOrder, Data
<1> QED
  BY <1>2, <1>12, <1>13

LEMMA FireConnectSound ==
    ASSUME NEW s, NEW x \in Timers, Sound(s, {}), InOrder(s), "connector" \in s.live,
           x.fn[1] = "connect", x.fn[2] = "connector",
           s.touched = {} /\ "rearmed" \notin s.met =>
               /\ x.id # NoTimer /\ \A y \in Range(s.timers) : y.id # x.id
               /\ \A p \in Obj : x.id # s.tid[p],
           NEW t \in FireConnect(s, x)
    PROVE  Sound(t, {}) /\ InOrder(t)
<1>1. InOrder(Dial(s))
  BY DialAgainInOrder DEF Sound
<1>2. CASE t \in DialSucceeds(s)
  <2>1. Sound(t, {}) /\ Goes(Dial(s), t, "connector")
    BY <1>2, DialSucceedsSound
  <2> QED
    BY <1>1, <2>1 DEF Goes
<1>3. ASSUME NEW u \in DialFails(s), t = [u EXCEPT !.timers = Insert(@, Repeat(x))]
      PROVE  Sound(t, {}) /\ InOrder(t)
  <2> DEFINE r == Repeat(x)
  <2>1. /\ Sound(u, {}) /\ Goes(Dial(s), u, "connector") /\ u.live = s.live
        /\ u.touched = s.touched /\ u.met = s.met /\ u.timers = s.timers /\ u.tid = s.tid
    BY DialFailsSound DEF Clocks
  <2>2. r \in Timers /\ r.id = x.id /\ r.fn = x.fn
    BY RepeatIs
  <2>3. t = Timed(u, Insert(u.timers, r))
    BY <1>3 DEF Timed
  <2> HIDE DEF r
  <2>4. /\ u.touched = {} => r.fn[2] \in u.live
        /\ u.touched = {} /\ "rearmed" \notin u.met =>
               /\ r.id # NoTimer /\ \A y \in Range(u.timers) : y.id # r.id
               /\ r.fn[1] = "timeout" => r.id = u.tid[r.fn[2]]
               /\ \A p \in Obj : r.id = u.tid[p] => r.fn = <<"timeout", p>>
    BY <2>1, <2>2
  <2>5. Sound(t, {p \in {} : r.fn # <<"timeout", p>>}) /\ Goes(u, t, "connector")
    BY <2>1, <2>2, <2>3, <2>4, PutSound
  <2>6. Sound(t, {})
    BY <2>5, SoundMore
  <2> QED
    BY <1>1, <2>1, <2>5, <2>6 DEF Goes
<1> QED
  BY <1>2, <1>3 DEF FireConnect

LEMMA RearmedSound ==
    ASSUME NEW s, NEW X, NEW Y, Sound(s, X), "rearmed" \in s.met
    PROVE  Sound(s, Y)
  BY DEF Sound

(* The timeout callback has left u; it keeps the connection or refuses.    *)
Continued(u, o, x) == Timed(IF o \in u.fd THEN u ELSE Met(u, "rearmed"), Insert(u.timers, Repeat(x)))
Refused(u, o) ==
    [Touch(Close(Touch(Met(u, "timeout refused"), o, "start_timer"), o), o, "start_timer") EXCEPT !.tid[o] = NoTimer]

LEMMA FireTimeoutIs ==
    ASSUME NEW s, NEW x \in Timers, NEW o \in Stream, x.fn = <<"timeout", o>>, NEW t \in FireTimeout(s, x)
    PROVE  \E u \in {s, AsyncRecv(Met(s, "rearmed"), o), CloseOwn(s, o)} \cup Sends(s, o) :
              t = Continued(u, o, x) \/ t = Refused(u, o)
<1> DEFINE r == Repeat(x)
           done == {s, AsyncRecv(Met(s, "rearmed"), o), CloseOwn(s, o)} \cup Sends(s, o)
<1>1. x.fn[2] = o
  BY FnIs
<1>2. \/ \E u \in done : t = LET v == IF o \in u.fd THEN u ELSE Met(u, "rearmed")
                             IN  [v EXCEPT !.timers = Insert(@, r)]
      \/ \E u \in done : t = LET v == Close(Touch(Met(u, "timeout refused"), o, "start_timer"), o)
                             IN  [Touch(v, o, "start_timer") EXCEPT !.tid[o] = NoTimer]
  BY <1>1 DEF FireTimeout
<1>3. \A u : Met(u, "rearmed").timers = u.timers
  BY DEF Met
<1> HIDE DEF done
<1>4. \E u \in done : t = Continued(u, o, x) \/ t = Refused(u, o)
  BY <1>2, <1>3 DEF Timed, Continued, Refused
<1> QED
  BY <1>4 DEF done

LEMMA FireTimeoutSound ==
    ASSUME NEW s, NEW x \in Timers, NEW o \in Stream, x.fn = <<"timeout", o>>, Sound(s, {o}), InOrder(s),
           s.touched = {} => o \in s.live,
           s.touched = {} /\ "rearmed" \notin s.met =>
               /\ x.id # NoTimer /\ \A y \in Range(s.timers) : y.id # x.id
               /\ x.id = s.tid[o] /\ \A p \in Obj : x.id = s.tid[p] => x.fn = <<"timeout", p>>,
           o \in s.live,
           NEW t \in FireTimeout(s, x)
    PROVE  Sound(t, {}) /\ InOrder(t)
<1> DEFINE r == Repeat(x)
           a == AsyncRecv(Met(s, "rearmed"), o)
           done == {s, a, CloseOwn(s, o)} \cup Sends(s, o)
<1>1. /\ o \in Obj /\ s \in Memories /\ x.fn[1] = "timeout" /\ x.fn[2] = o
      /\ "rearmed" \in Reasons /\ "timeout refused" \in Reasons /\ "start_timer" \in Places
  BY FnIs DEF Stream, Sound, Reasons, Places
<1>2. r \in Timers /\ r.id = x.id /\ r.fn = x.fn /\ r.fn[1] = "timeout" /\ r.fn[2] = o
  BY <1>1, RepeatIs
<1>3. PICK u \in done : t = Continued(u, o, x) \/ t = Refused(u, o)
  BY FireTimeoutIs
<1>10. \/ t = Timed(IF o \in u.fd THEN u ELSE Met(u, "rearmed"), Insert(u.timers, r))
       \/ t = [Touch(Close(Touch(Met(u, "timeout refused"), o, "start_timer"), o), o, "start_timer")
                  EXCEPT !.tid[o] = NoTimer]
  BY <1>3 DEF Continued, Refused
<1> HIDE DEF r
<1>4. \/ u = a
      \/ Spared(s, u, {o}, o)
  <2>1. Present(s, o)
    BY DEF Present, Unless
  <2>2. u = s \/ u = a \/ u = CloseOwn(s, o) \/ u \in Sends(s, o)
    BY <1>3
  <2> HIDE DEF a, done
  <2>3. CASE u = s
    BY <2>1, <2>3, SparedSame
  <2>4. CASE u = CloseOwn(s, o)
    BY <1>1, <2>1, <2>4, CloseOwnSpared
  <2>5. CASE u \in Sends(s, o)
    BY <1>1, <2>1, <2>5, SendsSpared
  <2> QED
    BY <2>2, <2>3, <2>4, <2>5
<1>5. a.touched = {} => o \in a.live
  <2>1. Met(s, "rearmed").live = s.live /\ Sound(Met(s, "rearmed"), {o}) /\ "rearmed" \in Met(s, "rearmed").met
    BY <1>1, MetSound, MetIs DEF Sockets
  <2> QED
    BY <2>1, AsyncRecvSound
<1>6. Sound(a, {}) /\ Goes(s, a, o) /\ "rearmed" \in a.met
  <2> DEFINE v == Met(s, "rearmed")
  <2>1. v.live = s.live /\ Sound(v, {o}) /\ Goes(s, v, o) /\ "rearmed" \in v.met
    BY <1>1, MetSound, MetIs DEF Sockets
  <2>2. a = AsyncRecv(v, o)
    OBVIOUS
  <2> HIDE DEF a, v
  <2>3. Sound(a, {o} \ {o}) /\ Goes(v, a, o)
    BY <2>1, <2>2, AsyncRecvSound
  <2>4. "rearmed" \in a.met /\ Goes(s, a, o)
    BY <2>1, <2>3, GoesOn DEF Goes
  <2> QED
    BY <2>3, <2>4, RearmedSound
<1> HIDE DEF a, done
<1>7. Sound(u, {o}) /\ Goes(s, u, o) /\ (o = "connector" /\ u.touched = {} => o \in u.live)
  <2>1. Sound(a, {o})
    BY <1>6, RearmedSound
  <2> QED
    BY <1>4, <1>5, <1>6, <2>1 DEF Spared
<1>8. CASE t = Timed(IF o \in u.fd THEN u ELSE Met(u, "rearmed"), Insert(u.timers, r))
  <2>1. CASE o \in u.fd /\ "rearmed" \notin u.met
    <3>1. u.tid = s.tid /\ u.timers = s.timers
      BY <1>4, <1>6, <2>1 DEF Spared, Clocks
    <3>2. (s.touched # {} => u.touched # {}) /\ ("rearmed" \in s.met => "rearmed" \in u.met)
      BY <1>7 DEF Goes
    <3>3. u.touched = {} => o \in u.live
      BY <2>1, <1>7 DEF Sound, Kernel
    <3>4. u.touched = {} /\ "rearmed" \notin u.met =>
               /\ r.id # NoTimer /\ \A y \in Range(u.timers) : y.id # r.id
               /\ r.fn[1] = "timeout" => r.id = u.tid[r.fn[2]]
               /\ \A p \in Obj : r.id = u.tid[p] => r.fn = <<"timeout", p>>
      BY <1>2, <3>1, <3>2
    <3>5. u.touched = {} /\ (r.fn[2] = "connector" \/ "rearmed" \notin u.met) => r.fn[2] \in u.live
      BY <1>2, <3>3
    <3>6. t = Timed(u, Insert(u.timers, r))
      BY <1>8, <2>1
    <3>7. Sound(t, {p \in {o} : r.fn # <<"timeout", p>>}) /\ Goes(u, t, o)
      BY <1>2, <1>7, <3>4, <3>5, <3>6, PutSound, ZenonT(40)
    <3>8. {p \in {o} : r.fn # <<"timeout", p>>} \subseteq {}
      BY <1>2
    <3>9. Sound(t, {})
      BY <3>7, <3>8, SoundMore
    <3> QED
      BY <1>7, <3>7, <3>9 DEF Goes
  <2>2. CASE o \notin u.fd \/ "rearmed" \in u.met
    <3> DEFINE v == IF o \in u.fd THEN u ELSE Met(u, "rearmed")
    <3>1. /\ Sound(v, {o}) /\ Goes(u, v, o) /\ "rearmed" \in v.met /\ v.live = u.live
          /\ v.touched = u.touched /\ v.timers = u.timers
      <4>1. CASE o \in u.fd
        BY <1>7, <2>2, <4>1, GoesIfSame
      <4>2. CASE o \notin u.fd
        BY <1>1, <1>7, <4>2, MetSound, MetIs DEF Sound, Sockets, Clocks
      <4> QED
        BY <4>1, <4>2
    <3>2. t = Timed(v, Insert(v.timers, r))
      BY <1>8, <3>1
    <3> HIDE DEF v
    <3>3. v.touched = {} /\ (r.fn[2] = "connector" \/ "rearmed" \notin v.met) => r.fn[2] \in v.live
      BY <1>2, <1>7, <3>1
    <3>4. v.touched = {} /\ "rearmed" \notin v.met =>
               /\ r.id # NoTimer /\ \A y \in Range(v.timers) : y.id # r.id
               /\ r.fn[1] = "timeout" => r.id = v.tid[r.fn[2]]
               /\ \A p \in Obj : r.id = v.tid[p] => r.fn = <<"timeout", p>>
      BY <3>1
    <3>5. Sound(v, {})
      BY <3>1, RearmedSound
    <3>6. Sound(t, {p \in {} : r.fn # <<"timeout", p>>}) /\ Goes(v, t, o)
      BY <1>2, <3>2, <3>3, <3>4, <3>5, PutSound
    <3>7. "rearmed" \in t.met
      BY <3>1, <3>6 DEF Goes
    <3>8. Sound(t, {})
      BY <3>6, <3>7, RearmedSound
    <3> QED
      BY <1>7, <3>1, <3>6, <3>8 DEF Goes
  <2> QED
    BY <2>1, <2>2
<1>9. CASE t = [Touch(Close(Touch(Met(u, "timeout refused"), o, "start_timer"), o), o, "start_timer")
                   EXCEPT !.tid[o] = NoTimer]
  <2> DEFINE v == Met(u, "timeout refused")
             w == Touch(v, o, "start_timer")
             b == Close(w, o)
             c == Touch(b, o, "start_timer")
  <2>1. /\ Sound(v, {o}) /\ Goes(u, v, o) /\ "timeout refused" \in v.met
        /\ v.live = u.live /\ v.touched = u.touched
    BY <1>1, <1>7, MetSound, MetIs DEF Sound, Sockets
  <2> HIDE DEF v
  <2>2. /\ Sound(w, {o}) /\ Goes(v, w, o) /\ (w.touched = {} => o \in w.live) /\ w.live = v.live
    <3>1. Causes["start_timer"] \cap v.met # {} /\ Sound(v, {o}) /\ "start_timer" \in Places
      BY <1>1, <2>1, CausesAre
    <3>2. LET d == Touch(v, o, "start_timer")
          IN  Sound(d, {o}) /\ Goes(v, d, o) /\ d.live = v.live /\ (d.touched = {} => o \in v.live)
      BY <3>1, TouchSound, Zenon
    <3> QED
      BY <3>2, Zenon
  <2> HIDE DEF w
  <2>3. /\ Sound(b, {o} \ {o}) /\ Goes(w, b, o)
        /\ o = "connector" /\ b.touched = {} =>
              \A y \in Range(b.timers) : y.fn[1] = "timeout" => y \in Range(w.timers)
        /\ o # "connector" => o \notin b.live
    <3>1. o \in Obj /\ Sound(w, {o}) /\ (w.touched = {} => o \in w.live)
      BY <1>1, <2>2
    <3>2. LET d == Close(w, o)
          IN  /\ Sound(d, {o} \ {o}) /\ Goes(w, d, o)
              /\ o = "connector" /\ d.touched = {} =>
                    /\ o \in d.live
                    /\ \A y \in Range(d.timers) : y.fn[1] = "timeout" => y \in Range(w.timers)
              /\ o # "connector" => d.touched = w.touched /\ d.met = w.met /\ o \notin d.live
      BY <3>1, CloseSound, Zenon
    <3> QED
      BY <3>2, Zenon
  <2>4. "timeout refused" \in b.met
    BY <2>1, <2>2, <2>3 DEF Goes
  <2> HIDE DEF b
  <2>5. Sound(c, {o} \ {o}) /\ Goes(b, c, o) /\ (c.touched = {} => o \in b.live)
    <3>1. Causes["start_timer"] \cap b.met # {}
      BY <2>4, CausesAre
    <3> QED
      BY <1>1, <2>3, <3>1, TouchSound
  <2>6. o \in b.live => c = b
    BY DEF Touch
  <2>7. w.touched = {} => w = v
    BY <2>2 DEF Touch, w
  <2> HIDE DEF c
  <2>8. Goes(s, c, o)
    BY <1>7, <2>1, <2>2, <2>3, <2>5, GoesOn
  <2>9. ASSUME c.touched = {}, "rearmed" \notin c.met
        PROVE  \A y \in Range(c.timers) : y.fn # <<"timeout", o>>
    <3>1. b.touched = {} /\ w.touched = {} /\ u.touched = {} /\ "rearmed" \notin u.met
      BY <2>1, <2>2, <2>3, <2>5, <2>9 DEF Goes
    <3>2. \A y \in Range(c.timers) : y.fn[1] = "timeout" => y \in Range(w.timers)
      BY <2>3, <2>5, <2>6, <2>9, <3>1
    <3>3. c.timers \in Seq(Timers)
      BY <2>5 DEF Sound, Memories
    <3>4. Range(c.timers) \subseteq Timers
      BY <3>3 DEF Range
    <3>5. \A y \in Range(w.timers) : y.fn # <<"timeout", o>>
      <4>1. w.timers = u.timers
        <5>1. v.timers = u.timers
          BY <1>1, <1>7, MetIs DEF v, Sound, Clocks
        <5> QED
          BY <2>7, <3>1, <5>1
      <4>2. NoMore(s, u)
        BY <1>4, <1>6, <2>3, <2>5, <2>9, <3>1 DEF Spared
      <4>3. s.touched = {} /\ "rearmed" \notin s.met
        BY <1>7, <3>1 DEF Goes
      <4>4. \A y \in Range(s.timers) : y.fn[1] = "timeout" => y.id = s.tid[y.fn[2]]
        BY <4>3 DEF Sound, Clocked
      <4>5. s.timers \in Seq(Timers)
        BY <1>1 DEF Memories
      <4>6. Range(s.timers) \subseteq Timers
        BY <4>5 DEF Range
      <4>7. \A y \in Range(s.timers) : y.fn # <<"timeout", o>>
        BY <4>3, <4>4, <4>6, FnIs
      <4>8. u.timers \in Seq(Timers)
        BY <1>7 DEF Sound, Memories
      <4>9. Range(u.timers) \subseteq Timers
        BY <4>8 DEF Range
      <4> QED
        BY <4>1, <4>2, <4>7, <4>9, FnIs DEF NoMore
    <3> QED
      BY <3>2, <3>4, <3>5, FnIs
  <2>10. Sound(t, {o} \ {o}) /\ (InOrder(c) => InOrder(t))
    BY <1>1, <1>9, <2>5, <2>9, ForgetSound DEF c, b, w, v
  <2>11. Sound(t, {})
    BY <2>10, SoundMore
  <2> QED
    BY <2>8, <2>10, <2>11 DEF Goes
<1> QED
  BY <1>3, <1>8, <1>10, <1>9
----------------------------------------------------------------------------
(* add_connector: a new object has no socket, no timer and nothing to send.*)
New(s) == [s EXCEPT !.live = @ \cup {"connector"}, !.sbuf["connector"] = <<>>, !.tid["connector"] = NoTimer,
                    !.made["connector"] = 0, !.bind = @ \ {"connector"}]

LEMMA NewIs ==
    ASSUME NEW s \in Memories
    PROVE  LET t == New(s)
           IN  /\ t \in Memories /\ t.touched = s.touched /\ t.met = s.met
               /\ t.live = s.live \cup {"connector"} /\ t.fd = s.fd
               /\ t.connected = s.connected /\ t.bind = s.bind \ {"connector"}
               /\ t.mon = s.mon /\ t.ev = s.ev /\ t.reg = s.reg
               /\ t.ready = s.ready /\ t.timers = s.timers /\ t.tid = [s.tid EXCEPT !["connector"] = NoTimer]
               /\ t.wire = s.wire /\ t.sbuf = [s.sbuf EXCEPT !["connector"] = <<>>]
               /\ t.made = [s.made EXCEPT !["connector"] = 0]
<1> DEFINE t == New(s)
           a == "connector"
           tid == [s.tid EXCEPT ![a] = NoTimer]
           sbuf == [s.sbuf EXCEPT ![a] = <<>>]
           made == [s.made EXCEPT ![a] = 0]
           u == [s EXCEPT !.live = @ \cup {a}, !.sbuf = sbuf, !.tid = tid, !.made = made, !.bind = @ \ {a}]
<1>1. t = u
  BY DEF New, Memories
<1>2. tid \in [Obj -> Nat] /\ made \in [Obj -> Nat]
  BY DEF Memories, NoTimer
<1>3. sbuf \in [Obj -> Seq(Nat)]
  <2>1. s.sbuf \in [Obj -> Seq(Nat)] /\ <<>> \in Seq(Nat)
    BY DEF Memories
  <2> QED
    BY <2>1
<1> HIDE DEF tid, sbuf, made, t
<1>4. a \in Obj
  BY DEF Obj
<1>5. u \in Memories
  <2> HIDE DEF a
  <2> QED
    BY <1>2, <1>3, <1>4 DEF Memories
<1>6. u.touched = s.touched /\ u.met = s.met
  BY DEF Memories
<1>7. /\ u.live = s.live \cup {a} /\ u.fd = s.fd /\ u.connected = s.connected
      /\ u.bind = s.bind \ {a} /\ u.mon = s.mon /\ u.ev = s.ev /\ u.reg = s.reg /\ u.ready = s.ready
  BY DEF Memories
<1>8. u.timers = s.timers /\ u.tid = tid /\ u.wire = s.wire /\ u.sbuf = sbuf /\ u.made = made
  BY DEF Memories
<1> HIDE DEF u
<1> QED
  BY <1>1, <1>5, <1>6, <1>7, <1>8 DEF t, tid, sbuf, made

LEMMA NewSound ==
    ASSUME NEW s, Sound(s, {}), InOrder(s), "connector" \notin s.live
    PROVE  LET t == New(s) IN Sound(t, {}) /\ InOrder(Dial(t)) /\ "connector" \in t.live
<1> DEFINE t == New(s)
           c == "connector"
<1>1. /\ s \in Memories /\ c \in Obj /\ s.tid \in [Obj -> Nat]
      /\ s.wire \in [Obj -> Seq(Nat)] /\ s.sbuf \in [Obj -> Seq(Nat)] /\ s.made \in [Obj -> Nat]
  BY DEF Sound, Memories, Obj
<1>2. /\ t \in Memories /\ t.touched = s.touched /\ t.met = s.met
      /\ t.live = s.live \cup {c} /\ t.fd = s.fd /\ t.connected = s.connected /\ t.bind = s.bind \ {c}
      /\ t.mon = s.mon /\ t.ev = s.ev /\ t.reg = s.reg
      /\ t.ready = s.ready /\ t.timers = s.timers /\ t.tid = [s.tid EXCEPT ![c] = NoTimer]
      /\ t.wire = s.wire /\ t.sbuf = [s.sbuf EXCEPT ![c] = <<>>] /\ t.made = [s.made EXCEPT ![c] = 0]
  BY <1>1, NewIs
<1> HIDE DEF t
<1>3. \A p \in Obj : t.tid[p] = IF p = c THEN NoTimer ELSE s.tid[p]
  BY <1>1, <1>2
<1>4. Explained(t)
  BY <1>2 DEF Sound, Explained
<1>5. ASSUME Kernel(s)
      PROVE  c \notin s.reg /\ c \notin s.fd /\ \A x \in Range(s.timers) : x.fn[2] # c
  BY <1>5 DEF Kernel
<1>6. Kernel(s) => Kernel(t)
  BY <1>2, <1>5 DEF Kernel
<1>7. Heard(s) => Heard(t)
  BY <1>2 DEF Heard
<1>8. ASSUME Kernel(s), Clocked(s, {}) PROVE Clocked(t, {})
  <2>1. \A x \in Range(s.timers) :
          /\ x.id # NoTimer
          /\ x.fn[1] = "timeout" => x.fn[2] \in s.live /\ x.id = s.tid[x.fn[2]]
          /\ \A p \in Obj : x.id = s.tid[p] => x.fn = <<"timeout", p>>
    BY <1>8 DEF Clocked
  <2>2. Range(s.timers) \subseteq Timers
    <3>1. s.timers \in Seq(Timers)
      BY <1>1 DEF Memories
    <3> QED
      BY <3>1 DEF Range
  <2>3. \A x \in Range(s.timers) : x.fn[2] # c /\ x.fn[2] \in Obj
    BY <1>5, <1>8, <2>2, FnIs DEF Stream
  <2>4. \A x \in Range(s.timers) :
          x.fn[1] = "timeout" => x.fn[2] \in t.live /\ x.id = t.tid[x.fn[2]]
    BY <1>2, <1>3, <2>1, <2>3
  <2>5. \A x \in Range(s.timers) : \A p \in Obj : x.id = t.tid[p] => x.fn = <<"timeout", p>>
    BY <1>3, <2>1
  <2>6. RecvTimeout # 0 => \A p \in (Stream \cap t.fd) \ {} :
          "IN" \in t.mon[p] => \E x \in Range(s.timers) : x.fn = <<"timeout", p>>
    BY <1>2, <1>8 DEF Clocked
  <2>7. t.timers = s.timers /\ Distinct(s.timers)
    BY <1>2, <1>8 DEF Clocked
  <2> QED
    BY <2>1, <2>4, <2>5, <2>6, <2>7 DEF Clocked
<1>9. Sound(t, {})
  BY <1>2, <1>4, <1>6, <1>7, <1>8 DEF Sound
<1>10. t.sbuf[c] = <<>> /\ t.sbuf["accepted"] = s.sbuf["accepted"] /\ t.made["accepted"] = s.made["accepted"]
  BY <1>1, <1>2 DEF Obj
<1>11. RunOf(t.sbuf[c], t.made[c])
  BY <1>10 DEF RunOf
<1>12. RunOf(t.wire["accepted"] \o t.sbuf["accepted"], t.made["accepted"])
  <2>1. "accepted" \in Stream
    BY DEF Stream, Obj
  <2> QED
    BY <1>2, <1>10, <2>1 DEF InOrder
<1>13. InOrder(Dial(t))
  BY <1>2, <1>11, <1>12, DialInOrder
<1>14. c \in t.live
  BY <1>2
<1> QED
  BY <1>9, <1>13, <1>14 DEF t

LEMMA AddConnectorSound ==
    ASSUME NEW s, Sound(s, {}), InOrder(s), "connector" \notin s.live,
           NEW t \in DialSucceeds(New(s)) \cup {Close(u, "connector") : u \in DialFails(New(s))}
    PROVE  Sound(t, {}) /\ InOrder(t)
<1> DEFINE n == New(s)
<1>1. Sound(n, {}) /\ InOrder(Dial(n)) /\ "connector" \in n.live /\ "connector" \in Obj
  BY NewSound DEF Obj
<1>2. t \in DialSucceeds(n) \/ \E u \in DialFails(n) : t = Close(u, "connector")
  OBVIOUS
<1> HIDE DEF n
<1>3. CASE t \in DialSucceeds(n)
  BY <1>1, <1>3, DialSucceedsSound DEF Goes
<1>4. ASSUME NEW u \in DialFails(n), t = Close(u, "connector")
      PROVE  Sound(t, {}) /\ InOrder(t)
  <2>1. Sound(u, {}) /\ Goes(Dial(n), u, "connector") /\ u.live = n.live
    BY <1>1, DialFailsSound
  <2>2. Sound(t, {} \ {"connector"}) /\ Goes(u, t, "connector")
    BY <1>1, <1>4, <2>1, CloseSound
  <2>3. Sound(t, {})
    BY <2>2, SoundMore, SMTT(20)
  <2> QED
    BY <1>1, <2>1, <2>2, <2>3 DEF Goes
<1> QED
  BY <1>2, <1>3, <1>4

(* do_timer: the timer that is due is out of the map when it runs.         *)
(* The timer that fires is out of the map, and its object is there.        *)
LEMMA FiredSound ==
    ASSUME NEW s, Sound(s, {}), s.touched = {}, s.timers # <<>>
    PROVE  LET x == Head(s.timers)
               u == Touch(Timed(s, Tail(s.timers)), x.fn[2], "timer")
           IN  /\ x \in Timers /\ x.fn[2] \in Stream /\ Range(s.timers) = Range(u.timers) \cup {x}
               /\ Sound(u, {o \in Stream : x.fn = <<"timeout", o>>})
               /\ u.live = s.live /\ u.met = s.met /\ u.tid = s.tid /\ (InOrder(s) => InOrder(u))
               /\ u.touched = {} => x.fn[2] \in u.live /\ u = Timed(s, Tail(s.timers))
               /\ x.fn[1] = "connect" => x.fn[2] = "connector" /\ "connector" \in u.live
               /\ "rearmed" \notin s.met =>
                     /\ x.id # NoTimer /\ \A y \in Range(u.timers) : y.id # x.id
                     /\ x.fn[1] = "timeout" => x.fn[2] \in s.live /\ x.id = s.tid[x.fn[2]]
                     /\ \A o \in Obj : x.id = s.tid[o] => x.fn = <<"timeout", o>>
<1> DEFINE x == Head(s.timers)
           ts == Tail(s.timers)
           p == Timed(s, ts)
           u == Touch(p, x.fn[2], "timer")
           X == {o \in Stream : x.fn = <<"timeout", o>>}
<1>1. s \in Memories /\ s.timers \in Seq(Timers) /\ "timer" \in Places
  BY DEF Sound, Memories, Places
<1>2. /\ x \in Timers /\ ts \in Seq(Timers) /\ Range(s.timers) = Range(ts) \cup {x}
      /\ Distinct(s.timers) => Distinct(ts) /\ \A y \in Range(ts) : y.id # x.id
  BY <1>1, TailIs
<1>3. x.fn[2] \in Stream /\ (x.fn[1] = "timeout" \/ x.fn[2] = "connector")
      /\ (x.fn[1] = "connect" => x.fn[2] = "connector")
  BY <1>2, FnIs
<1> HIDE DEF ts, x
<1>4. /\ p \in Memories /\ p.touched = s.touched /\ p.met = s.met
      /\ Sockets(p) = Sockets(s) /\ Data(p) = Data(s) /\ p.tid = s.tid /\ p.timers = ts
  BY <1>1, <1>2, TimedIs
<1> HIDE DEF p
<1>5. Kernel(s)
  BY DEF Sound
<1>6. Kernel(p)
  BY <1>2, <1>4, <1>5 DEF Kernel, Sockets
<1>7. "rearmed" \notin s.met => Heard(p)
  BY <1>4 DEF Sound, Heard, Sockets
<1>8. ASSUME "rearmed" \notin s.met
      PROVE  /\ Clocked(p, X) /\ x.id # NoTimer /\ \A y \in Range(ts) : y.id # x.id
             /\ x.fn[1] = "timeout" => x.fn[2] \in s.live /\ x.id = s.tid[x.fn[2]]
             /\ \A o \in Obj : x.id = s.tid[o] => x.fn = <<"timeout", o>>
  <2>1. Clocked(s, {})
    BY <1>8 DEF Sound
  <2>2. Distinct(ts) /\ \A y \in Range(ts) : y.id # x.id
    BY <1>2, <2>1 DEF Clocked
  <2>3. \A y \in Range(s.timers) :
          /\ y.id # NoTimer
          /\ y.fn[1] = "timeout" => y.fn[2] \in s.live /\ y.id = s.tid[y.fn[2]]
          /\ \A o \in Obj : y.id = s.tid[o] => y.fn = <<"timeout", o>>
    BY <2>1 DEF Clocked
  <2>4. p.live = s.live
    BY <1>4 DEF Sockets
  <2>5. ASSUME RecvTimeout # 0, NEW o \in (Stream \cap p.fd) \ X, "IN" \in p.mon[o]
        PROVE  \E y \in Range(ts) : y.fn = <<"timeout", o>>
    <3>1. o \in (Stream \cap s.fd) \ {} /\ "IN" \in s.mon[o] /\ x.fn # <<"timeout", o>>
      BY <1>4, <2>5 DEF Sockets
    <3>2. \E y \in Range(s.timers) : y.fn = <<"timeout", o>>
      BY <2>1, <2>5, <3>1 DEF Clocked
    <3> QED
      BY <1>2, <3>1, <3>2
  <2>6. Clocked(p, X)
    BY <1>2, <1>4, <2>2, <2>3, <2>4, <2>5 DEF Clocked
  <2> QED
    BY <1>2, <2>2, <2>3, <2>6
<1>9. Sound(p, X)
  <2>1. Explained(p)
    BY <1>4 DEF Sound, Explained
  <2> QED
    BY <1>4, <1>6, <1>7, <1>8, <2>1 DEF Sound, Sockets
<1>10. p.live = s.live /\ (InOrder(s) => InOrder(p))
  BY <1>4 DEF Sockets, InOrder, Data
<1>11. x.fn[2] = "connector" => "connector" \in s.live
  BY <1>2, <1>5 DEF Kernel
<1>12. x.fn[2] \in p.live \/ Causes["timer"] \cap p.met # {}
  BY <1>3, <1>4, <1>8, <1>10, <1>11, CausesAre
<1>13. /\ Sound(u, X) /\ Goes(p, u, x.fn[2]) /\ u.live = p.live /\ (u.touched = {} => x.fn[2] \in p.live)
       /\ u.met = p.met /\ Clocks(u) = Clocks(p)
  BY <1>1, <1>4, <1>9, <1>12, TouchSound, TouchIs
<1>14. u.touched = {} => u = p
  BY <1>13 DEF Touch
<1> HIDE DEF u
<1>15. u.timers = ts /\ u.tid = s.tid /\ (InOrder(s) => InOrder(u))
  BY <1>4, <1>10, <1>13 DEF Goes, Clocks
<1>16. u.live = s.live /\ u.met = s.met /\ (u.touched = {} => x.fn[2] \in u.live)
  BY <1>4, <1>10, <1>13
<1>17. x.fn[1] = "connect" => x.fn[2] = "connector" /\ "connector" \in u.live
  BY <1>3, <1>11, <1>16
<1>18. x \in Timers /\ x.fn[2] \in Stream /\ Range(s.timers) = Range(u.timers) \cup {x} /\ Sound(u, X)
  BY <1>2, <1>3, <1>13, <1>15
<1> QED
  BY <1>8, <1>14, <1>15, <1>16, <1>17, <1>18 DEF x, ts, p, u

(* The timer that is due leaves the list; of a deleted object it is used.  *)
LEMMA FireIs ==
    ASSUME NEW s, Sound(s, {}),
           NEW t \in LET x == Head(s.timers)
                         u == [s EXCEPT !.timers = Tail(@)]
                     IN  IF x.fn[2] \notin s.live THEN {Touch(u, x.fn[2], "timer")}
                         ELSE IF x.fn[1] = "connect" THEN FireConnect(u, x) ELSE FireTimeout(u, x)
    PROVE  LET x == Head(s.timers)
               u == Touch(Timed(s, Tail(s.timers)), x.fn[2], "timer")
           IN  t \in IF x.fn[2] \notin s.live THEN {u}
                     ELSE IF x.fn[1] = "connect" THEN FireConnect(u, x) ELSE FireTimeout(u, x)
<1> DEFINE x == Head(s.timers)
           u == Touch(Timed(s, Tail(s.timers)), x.fn[2], "timer")
           v == Timed(s, Tail(s.timers))
<1>1. t \in IF x.fn[2] \notin s.live THEN {u}
            ELSE IF x.fn[1] = "connect" THEN FireConnect(v, x) ELSE FireTimeout(v, x)
  BY DEF Timed
<1>2. v.live = s.live
  <2>1. s \in Memories
    BY DEF Sound
  <2> QED
    BY <2>1 DEF Timed, Memories
<1>3. x.fn[2] \in s.live => u = v
  BY <1>2 DEF Touch
<1> HIDE DEF x, u, v
<1>4. t \in IF x.fn[2] \notin s.live THEN {u}
            ELSE IF x.fn[1] = "connect" THEN FireConnect(u, x) ELSE FireTimeout(u, x)
  <2>1. CASE x.fn[2] \in s.live
    BY <1>1, <1>3, <2>1
  <2>2. CASE x.fn[2] \notin s.live
    BY <1>1, <2>2
  <2> QED
    BY <2>1, <2>2
<1> QED
  BY <1>4 DEF x, u

LEMMA FireSound ==
    ASSUME NEW s, Sound(s, {}), InOrder(s), s.touched = {}, s.timers # <<>>,
           NEW t \in LET x == Head(s.timers)
                         u == [s EXCEPT !.timers = Tail(@)]
                     IN  IF x.fn[2] \notin s.live THEN {Touch(u, x.fn[2], "timer")}
                         ELSE IF x.fn[1] = "connect" THEN FireConnect(u, x) ELSE FireTimeout(u, x)
    PROVE  Sound(t, {}) /\ InOrder(t)
<1> DEFINE x == Head(s.timers)
           u == Touch(Timed(s, Tail(s.timers)), x.fn[2], "timer")
           X == {o \in Stream : x.fn = <<"timeout", o>>}
<1>1. /\ x \in Timers /\ x.fn[2] \in Stream /\ Range(s.timers) = Range(u.timers) \cup {x}
      /\ Sound(u, X)
      /\ u.live = s.live /\ u.met = s.met /\ u.tid = s.tid /\ (InOrder(s) => InOrder(u))
      /\ u.touched = {} => x.fn[2] \in u.live /\ u = Timed(s, Tail(s.timers))
      /\ x.fn[1] = "connect" => x.fn[2] = "connector" /\ "connector" \in u.live
      /\ "rearmed" \notin s.met =>
            /\ x.id # NoTimer /\ \A y \in Range(u.timers) : y.id # x.id
            /\ x.fn[1] = "timeout" => x.fn[2] \in s.live /\ x.id = s.tid[x.fn[2]]
            /\ \A o \in Obj : x.id = s.tid[o] => x.fn = <<"timeout", o>>
  BY FiredSound, Zenon
<1>2. t \in IF x.fn[2] \notin s.live THEN {u}
            ELSE IF x.fn[1] = "connect" THEN FireConnect(u, x) ELSE FireTimeout(u, x)
  BY FireIs, Zenon
<1>0. CASE x.fn[2] \notin s.live
  <2>1. t = u /\ u.touched # {}
    BY <1>0, <1>1, <1>2
  <2> QED
    BY <1>1, <2>1 DEF Sound
<1> HIDE DEF x, u
<1>3. CASE x.fn[2] \in s.live /\ x.fn[1] = "connect"
  <2>1. x.fn[1] # "timeout"
    BY <1>3
  <2>2. x.fn[2] = "connector" /\ \A o : x.fn # <<"timeout", o>>
    BY <1>1, <2>1, FnIs
  <2>3. X \subseteq {}
    BY <2>2
  <2>4. Sound(u, {})
    BY <1>1, <2>3, SoundMore
  <2>5. "rearmed" \notin u.met =>
               /\ x.id # NoTimer /\ \A y \in Range(u.timers) : y.id # x.id
               /\ \A o \in Obj : x.id # u.tid[o]
    BY <1>1, <2>2
  <2>6. t \in FireConnect(u, x)
    BY <1>2, <1>3
  <2> QED
    BY <1>1, <1>3, <2>2, <2>4, <2>5, <2>6, FireConnectSound
<1>4. CASE x.fn[2] \in s.live /\ x.fn[1] # "connect"
  <2> DEFINE o == x.fn[2]
  <2>1. x.fn[1] = "timeout" /\ x.fn = <<"timeout", o>> /\ o \in Stream
    BY <1>1, <1>4, FnIs
  <2>2. \A q : x.fn = <<"timeout", q>> => q = o
    BY <1>1, FnIs
  <2>3. X \subseteq {o}
    BY <2>2
  <2>4. t \in FireTimeout(u, x)
    BY <1>2, <1>4
  <2>5. o \in u.live
    BY <1>1, <1>4
  <2>6. "rearmed" \notin u.met =>
               /\ x.id # NoTimer /\ \A y \in Range(u.timers) : y.id # x.id
               /\ x.id = u.tid[o] /\ \A q \in Obj : x.id = u.tid[q] => x.fn = <<"timeout", q>>
    BY <1>1, <2>1
  <2> HIDE DEF o
  <2>7. Sound(u, {o})
    BY <1>1, <2>3, SoundMore
  <2> QED
    BY <1>1, <2>1, <2>4, <2>5, <2>6, <2>7, FireTimeoutSound
<1> QED
  BY <1>0, <1>3, <1>4
----------------------------------------------------------------------------
(* The invariant: the memory is sound, the streams are in order, and what  *)
(* is still to be handled is there, or is the acceptor that another closed.*)
Kept(b, s) == b.o \in s.live \/ (b.o = "acceptor" /\ "closed another" \in s.met)

BatchInv == /\ pc # "events" => batch = {}
            /\ \A b, c \in batch : b.o = c.o => b = c
            /\ m.touched = {} => \A b \in batch : Kept(b, m)

IInv == TypeOK /\ Sound(m, {}) /\ InOrder(m) /\ BatchInv

LEMMA Starts == Init => IInv
<1> SUFFICES ASSUME Init PROVE IInv
  OBVIOUS
<1> DEFINE mon == [o \in Obj |-> IF o = "acceptor" THEN {"IN"} ELSE {}]
           none == [o \in Obj |-> NoTimer]
           empty == [o \in Obj |-> <<>>]
           zero == [o \in Obj |-> 0]
           off == [o \in Obj |-> "none"]
<1>1. PICK role \in Stream, reconnect \in BOOLEAN :
         m = [role |-> role, reconnect |-> reconnect, live |-> {"acceptor"}, fd |-> {"acceptor"},
              connected |-> {"accepted"}, bind |-> {"acceptor"}, mon |-> mon, tid |-> none, timers |-> <<>>,
              sbuf |-> empty, made |-> zero, reg |-> {"acceptor"}, ev |-> mon, net |-> off,
              unread |-> {}, full |-> {}, ready |-> {}, wire |-> empty, touched |-> {}, met |-> {}]
  BY DEF Init
<1>2. /\ mon \in [Obj -> SUBSET {"IN", "OUT"}] /\ none \in [Obj -> Nat] /\ zero \in [Obj -> Nat]
      /\ off \in [Obj -> {"none", "connecting", "refused", "up", "eof", "reset"}]
  BY DEF NoTimer
<1>3. empty \in [Obj -> Seq(Nat)] /\ <<>> \in Seq(Timers)
  <2>1. <<>> \in Seq(Nat) /\ <<>> \in Seq(Timers)
    OBVIOUS
  <2> QED
    BY <2>1
<1>4. /\ \A o \in Stream : o \in Obj /\ o # "acceptor" /\ mon[o] = {} /\ empty[o] = <<>>
      /\ "acceptor" \in Obj /\ "accepted" \in Obj
  BY DEF Stream, Obj
<1> HIDE DEF mon, none, empty, zero, off
<1>5. m \in Memories
  BY <1>1, <1>2, <1>3, <1>4 DEF Memories
<1>6. /\ m.live = {"acceptor"} /\ m.fd = {"acceptor"} /\ m.connected = {"accepted"} /\ m.bind = {"acceptor"}
      /\ m.mon = mon /\ m.reg = {"acceptor"} /\ m.ready = {} /\ m.timers = <<>>
      /\ m.touched = {} /\ m.met = {} /\ m.wire = empty /\ m.sbuf = empty
  BY <1>1
<1>7. Range(m.timers) = {} /\ DOMAIN m.timers = {}
  BY <1>6 DEF Range
<1>8. Explained(m)
  BY <1>6 DEF Explained
<1>9. Kernel(m)
  BY <1>6, <1>7 DEF Kernel
<1>10. Heard(m)
  BY <1>4, <1>6 DEF Heard
<1>11. Clocked(m, {})
  BY <1>4, <1>6, <1>7 DEF Clocked, Distinct
<1>12. Sound(m, {})
  BY <1>5, <1>6, <1>8, <1>9, <1>10, <1>11 DEF Sound
<1>13. InOrder(m)
  <2>1. \A last : RunOf(<<>> \o <<>>, last)
    BY DEF RunOf
  <2> QED
    BY <1>4, <1>6, <2>1 DEF InOrder
<1>14. pc = "timers" /\ batch = {}
  BY DEF Init
<1> QED
  BY <1>5, <1>12, <1>13, <1>14 DEF IInv, TypeOK, BatchInv

LEMMA AddConnectorKeeps == IInv /\ m.touched = {} /\ AddConnector => IInv'
<1> SUFFICES ASSUME IInv, m.touched = {}, AddConnector PROVE IInv'
  OBVIOUS
<1>1. m' \in DialSucceeds(New(m)) \cup {Close(u, "connector") : u \in DialFails(New(m))}
  BY DEF AddConnector, New
<1>2. "connector" \notin m.live /\ pc = "timers" /\ pc' = pc /\ batch' = batch
  BY DEF AddConnector
<1>3. Sound(m', {}) /\ InOrder(m')
  BY <1>1, <1>2, AddConnectorSound DEF IInv
<1>4. m' \in Memories /\ batch = {} /\ Sound(m, {})' /\ InOrder(m)'
  BY <1>2, <1>3 DEF IInv, BatchInv, Sound, InOrder, RunOf, Explained, Kernel, Heard, Clocked, Distinct
<1> QED
  BY <1>2, <1>4 DEF IInv, TypeOK, BatchInv

LEMMA FireKeeps == IInv /\ m.touched = {} /\ Fire => IInv'
<1> SUFFICES ASSUME IInv, m.touched = {}, Fire PROVE IInv'
  OBVIOUS
<1>1. /\ pc = "timers" /\ pc' = pc /\ batch' = batch /\ IsDue(m.timers)
      /\ m' \in LET x == Head(m.timers)
                    u == [m EXCEPT !.timers = Tail(@)]
                IN  IF x.fn[2] \notin m.live THEN {Touch(u, x.fn[2], "timer")}
                    ELSE IF x.fn[1] = "connect" THEN FireConnect(u, x) ELSE FireTimeout(u, x)
  BY DEF Fire
<1>2. m.timers # <<>>
  BY <1>1 DEF IsDue
<1>3. Sound(m', {}) /\ InOrder(m')
  BY <1>1, <1>2, FireSound DEF IInv
<1>4. m' \in Memories /\ batch = {}
  BY <1>1, <1>3 DEF IInv, BatchInv, Sound
<1> QED
  BY <1>1, <1>3, <1>4 DEF IInv, TypeOK, BatchInv

LEMMA DoneTimersKeeps == IInv /\ DoneTimers => IInv'
  BY DEF IInv, DoneTimers, TypeOK, BatchInv

LEMMA EpollWaitKeeps == IInv /\ m.touched = {} /\ EpollWait => IInv'
<1> SUFFICES ASSUME IInv, m.touched = {}, EpollWait PROVE IInv'
  OBVIOUS
<1>1. Sound(m, {}) /\ m \in Memories /\ m.met \subseteq Reasons /\ m.ready \subseteq Obj
  BY DEF IInv, Sound, Memories
<1>2. /\ m' = [m EXCEPT !.ready = {}, !.met = m.met \cap (Lasting \cup {"overlooked"})]
      /\ batch' = {[o |-> o, events |-> Reported(m, o)] : o \in {p \in m.ready : Reported(m, p) # {}}}
      /\ pc' = IF batch' = {} THEN "timers" ELSE "events"
  BY <1>1 DEF EpollWait, Memories
<1>3. m' \in Memories
  BY <1>1, <1>2 DEF Memories
<1>4. /\ m'.live = m.live /\ m'.fd = m.fd /\ m'.connected = m.connected /\ m'.bind = m.bind
      /\ m'.mon = m.mon /\ m'.reg = m.reg /\ m'.ev = m.ev
  BY <1>1, <1>2 DEF Memories
<1>5. m'.touched = m.touched /\ m'.ready = {} /\ m'.met = m.met \cap (Lasting \cup {"overlooked"})
  BY <1>1, <1>2 DEF Memories
<1>6. m'.tid = m.tid /\ m'.timers = m.timers
  BY <1>1, <1>2 DEF Memories
<1>7. m'.wire = m.wire /\ m'.sbuf = m.sbuf /\ m'.made = m.made
  BY <1>1, <1>2 DEF Memories
<1>8. Kernel(m) /\ ("rearmed" \notin m.met => Heard(m) /\ Clocked(m, {}))
  BY <1>1 DEF Sound
<1>9. Kernel(m')
  BY <1>4, <1>5, <1>6, <1>8 DEF Kernel
<1>10. "rearmed" \notin m'.met => Heard(m') /\ Clocked(m', {})
  <2>1. "rearmed" \notin m'.met => "rearmed" \notin m.met
    BY <1>5 DEF Lasting
  <2>2. Heard(m) => Heard(m')
    BY <1>4 DEF Heard
  <2>3. Clocked(m, {}) => Clocked(m', {})
    BY <1>4, <1>6 DEF Clocked
  <2> QED
    BY <1>8, <2>1, <2>2, <2>3
<1>11. Sound(m', {})
  BY <1>1, <1>3, <1>4, <1>5, <1>9, <1>10 DEF Sound, Explained
<1>12. InOrder(m')
  BY <1>7 DEF IInv, InOrder
<1>13. \A o : Reported(m, o) \subseteq {"IN", "OUT", "ERR"}
  BY DEF Reported, Level
<1>14. \A b \in batch' : b \in [o : Obj, events : SUBSET {"IN", "OUT", "ERR"}] /\ b.o \in m.ready
  BY <1>1, <1>2, <1>13
<1>15. \A b, c \in batch' : b.o = c.o => b = c
  BY <1>2
<1>16. \A b \in batch' : b.o \in m'.live
  BY <1>4, <1>8, <1>14 DEF Kernel
<1>17. pc' \in {"timers", "wait", "events"} /\ (pc' # "events" => batch' = {})
  BY <1>2
<1> QED
  BY <1>3, <1>11, <1>12, <1>14, <1>15, <1>16, <1>17 DEF IInv, TypeOK, BatchInv, Kept

LEMMA HandledSound ==
    ASSUME IInv, m.touched = {}, NEW e, Handle(e)
    PROVE  LET s == Touch(m, e.o, "event")
           IN  /\ e \in batch /\ batch' = batch \ {e}
               /\ Sound(m, {}) /\ Sound(s, {}) /\ Sound(m', {}) /\ Goes(m, s, e.o) /\ Goes(s, m', e.o)
               /\ s.touched = {} => e.o \in m.live
               /\ \/ e.o = "acceptor" /\ m' \in OnAccept(s)
                  \/ e.o \in Stream /\ e.o \in m.live /\ e.o \in s.connected /\ m' \in OnConnection(s, e.o, e.events)
                  \/ /\ e.o = "connector" /\ e.o \in m.live /\ e.o \notin s.connected
                     /\ m' \in OnConnect(s, e.events)
<1> DEFINE s == Touch(m, e.o, "event")
<1>1. /\ e \in batch /\ batch' = batch \ {e}
      /\ m' \in CASE e.o = "acceptor" -> OnAccept(s)
                  [] e.o \in Stream \cap s.connected -> OnConnection(s, e.o, e.events)
                  [] OTHER -> OnConnect(s, e.events)
  BY DEF Handle
<1>2. /\ Sound(m, {}) /\ "event" \in Places /\ e.o \in Obj /\ Kept(e, m)
  BY <1>1 DEF IInv, Sound, Memories, Places, TypeOK, BatchInv
<1>3. e.o \in m.live \/ Causes["event"] \cap m.met # {}
  BY <1>2, CausesAre DEF Kept
<1>4. /\ Sound(s, {}) /\ Goes(m, s, e.o) /\ s.live = m.live /\ (s.touched = {} => e.o \in m.live)
  BY <1>2, <1>3, TouchSound
<1>5. e.o = "acceptor" => m' \in OnAccept(s)
  <2>1. e.o = "acceptor" => e.o \notin Stream
    BY DEF Stream
  <2> QED
    BY <1>1, <2>1
<1> HIDE DEF s
<1>6. CASE e.o = "acceptor"
  <2>1. m' \in OnAccept(s)
    BY <1>5, <1>6
  <2>2. Sound(m', {}) /\ Goes(s, m', e.o)
    BY <1>4, <1>6, <2>1, OnAcceptSound
  <2> QED
    BY <1>1, <1>2, <1>4, <1>6, <2>1, <2>2 DEF s
<1>7. CASE e.o # "acceptor"
  <2>1. e.o \in Stream /\ e.o \in m.live /\ e.o \in s.live
    BY <1>2, <1>4, <1>7 DEF Kept, Stream
  <2>2. CASE e.o \in s.connected
    <3>1. m' \in OnConnection(s, e.o, e.events)
      BY <1>1, <1>7, <2>1, <2>2
    <3>2. Sound(m', {}) /\ Goes(s, m', e.o)
      BY <1>4, <2>1, <3>1, OnConnectionSound
    <3> QED
      BY <1>1, <1>2, <1>4, <2>1, <2>2, <3>1, <3>2 DEF s
  <2>3. CASE e.o \notin s.connected
    <3>1. m' \in OnConnect(s, e.events)
      BY <1>1, <1>7, <2>3
    <3>2. e.o = "connector"
      BY <1>4, <2>1, <2>3 DEF Sound, Stream, Obj
    <3>3. Sound(m', {}) /\ Goes(s, m', e.o)
      BY <1>4, <2>1, <2>3, <3>1, <3>2, OnConnectSound
    <3> QED
      BY <1>1, <1>2, <1>4, <2>1, <2>3, <3>1, <3>2, <3>3 DEF s
  <2> QED
    BY <2>2, <2>3
<1> QED
  BY <1>6, <1>7

LEMMA HandleKeeps == \A e : IInv /\ m.touched = {} /\ Handle(e) => IInv'
<1> SUFFICES ASSUME NEW e, IInv, m.touched = {}, Handle(e) PROVE IInv'
  OBVIOUS
<1> DEFINE s == Touch(m, e.o, "event")
<1>1. /\ e \in batch /\ batch' = batch \ {e} /\ Sound(m', {}) /\ Goes(m, s, e.o) /\ Goes(s, m', e.o)
  BY HandledSound
<1>2. pc' = IF batch' = {} THEN "timers" ELSE "events"
  BY DEF Handle
<1>3. /\ \A b \in batch : b.o \in Obj /\ Kept(b, m)
      /\ \A b, c \in batch : b.o = c.o => b = c
  BY DEF IInv, TypeOK, BatchInv
<1> HIDE DEF s
<1>4. Goes(m, m', e.o)
  BY <1>1, GoesOn
<1>5. m' \in Memories /\ InOrder(m')
  BY <1>1, <1>4 DEF IInv, Sound, Goes
<1>6. ASSUME m'.touched = {}, NEW b \in batch'
      PROVE  Kept(b, m')
  <2>1. b \in batch /\ b.o \in Obj /\ b.o # e.o
    BY <1>1, <1>3, <1>6
  <2>2. Kept(b, m)
    BY <1>3, <2>1
  <2> QED
    BY <1>4, <2>1, <2>2 DEF Goes, Kept
<1>7. pc' \in {"timers", "wait", "events"} /\ (pc' # "events" => batch' = {}) /\ batch' \subseteq batch
  BY <1>1, <1>2
<1>8. \A b, c \in batch' : b.o = c.o => b = c
  BY <1>3, <1>7
<1>9. TypeOK'
  BY <1>5, <1>7 DEF IInv, TypeOK
<1>10. BatchInv'
  BY <1>6, <1>7, <1>8 DEF BatchInv, Kept
<1> QED
  BY <1>1, <1>5, <1>9, <1>10 DEF IInv
----------------------------------------------------------------------------
(* What the clock and the peers do: nothing of the program changes.        *)
LEMMA TickSound ==
    ASSUME NEW s, NEW X, Sound(s, X)
    PROVE  LET t == Timed(s, Tick(s.timers))
           IN  /\ Sound(t, X) /\ (InOrder(s) => InOrder(t))
               /\ t.live = s.live /\ t.touched = s.touched /\ t.met = s.met
<1> DEFINE ts == Tick(s.timers)
           t == Timed(s, ts)
<1>1. s \in Memories /\ s.timers \in Seq(Timers)
  BY DEF Sound, Memories
<1>2. /\ ts \in Seq(Timers)
      /\ Distinct(s.timers) => Distinct(ts)
      /\ \A x \in Range(ts) : \E y \in Range(s.timers) : x.id = y.id /\ x.fn = y.fn
      /\ \A y \in Range(s.timers) : \E x \in Range(ts) : x.id = y.id /\ x.fn = y.fn
  BY <1>1, TickIs
<1> HIDE DEF ts
<1>3. /\ t \in Memories /\ t.touched = s.touched /\ t.met = s.met
      /\ Sockets(t) = Sockets(s) /\ Data(t) = Data(s) /\ t.tid = s.tid /\ t.timers = ts
  BY <1>1, <1>2, TimedIs
<1> HIDE DEF t
<1>4. /\ t.live = s.live /\ t.fd = s.fd /\ t.connected = s.connected /\ t.bind = s.bind
      /\ t.mon = s.mon /\ t.reg = s.reg /\ t.ev = s.ev /\ t.ready = s.ready
  BY <1>3 DEF Sockets
<1>5. Explained(t)
  BY <1>3 DEF Sound, Explained
<1>6. Kernel(s) => Kernel(t)
  BY <1>2, <1>3, <1>4 DEF Kernel
<1>7. Heard(s) => Heard(t)
  BY <1>4 DEF Heard
<1>8. ASSUME Clocked(s, X) PROVE Clocked(t, X)
  <2>1. Distinct(ts)
    BY <1>2, <1>8 DEF Clocked
  <2>2. \A x \in Range(ts) :
          /\ x.id # NoTimer
          /\ x.fn[1] = "timeout" => x.fn[2] \in s.live /\ x.id = s.tid[x.fn[2]]
          /\ \A o \in Obj : x.id = s.tid[o] => x.fn = <<"timeout", o>>
    <3>1. \A y \in Range(s.timers) :
            /\ y.id # NoTimer
            /\ y.fn[1] = "timeout" => y.fn[2] \in s.live /\ y.id = s.tid[y.fn[2]]
            /\ \A o \in Obj : y.id = s.tid[o] => y.fn = <<"timeout", o>>
      BY <1>8 DEF Clocked
    <3> TAKE x \in Range(ts)
    <3>2. PICK y \in Range(s.timers) : x.id = y.id /\ x.fn = y.fn
      BY <1>2
    <3> QED
      BY <3>1, <3>2
  <2>3. ASSUME RecvTimeout # 0, NEW o \in (Stream \cap s.fd) \ X, "IN" \in s.mon[o]
        PROVE  \E x \in Range(ts) : x.fn = <<"timeout", o>>
    <3>1. PICK y \in Range(s.timers) : y.fn = <<"timeout", o>>
      BY <1>8, <2>3 DEF Clocked
    <3> QED
      BY <1>2, <3>1
  <2> QED
    BY <1>3, <1>4, <2>1, <2>2, <2>3 DEF Clocked
<1>9. Sound(t, X)
  BY <1>3, <1>4, <1>5, <1>6, <1>7, <1>8 DEF Sound
<1>10. InOrder(s) => InOrder(t)
  BY <1>3 DEF InOrder, Data
<1> QED
  BY <1>3, <1>4, <1>9, <1>10 DEF t, ts

LEMMA StillKeeps ==
    ASSUME IInv, Sound(m', {}), InOrder(m'), m'.live = m.live, m'.touched = m.touched, m'.met = m.met,
           UNCHANGED <<pc, batch>>
    PROVE  IInv'
<1>1. m' \in Memories
  BY DEF Sound
<1> QED
  BY <1>1 DEF IInv, TypeOK, BatchInv, Kept

LEMMA PeerKeeps ==
    ASSUME IInv, NEW o \in Obj, NEW net \in [Obj -> {"none", "connecting", "refused", "up", "eof", "reset"}],
           NEW unread \in SUBSET Obj, NEW full \in SUBSET Obj,
           Peer(o, [m EXCEPT !.net = net, !.unread = unread, !.full = full]), UNCHANGED <<pc, batch>>
    PROVE  IInv'
<1> DEFINE t == [m EXCEPT !.net = net, !.unread = unread, !.full = full]
<1>1. Sound(m, {}) /\ m \in Memories /\ InOrder(m)
  BY DEF IInv, Sound
<1>2. m' = Wake(t, o)
  BY DEF Peer
<1>3. t \in Memories
  BY <1>1 DEF Memories
<1>4. t.touched = m.touched /\ t.met = m.met /\ t.live = m.live
  BY <1>1 DEF Memories
<1>5. Sockets(t) = Sockets(m)
  BY <1>1 DEF Memories, Sockets
<1>6. Clocks(t) = Clocks(m)
  BY <1>1 DEF Memories, Clocks
<1>7. t.wire = m.wire /\ t.sbuf = m.sbuf /\ t.made = m.made
  BY <1>1 DEF Memories
<1> HIDE DEF t
<1>8. Sound(t, {})
  BY <1>1, <1>3, <1>4, <1>5, <1>6, SameSound
<1>9. InOrder(t)
  BY <1>1, <1>7 DEF InOrder
<1>10. /\ Sound(m', {}) /\ Goes(t, m', o) /\ m'.live = t.live
      /\ m'.touched = t.touched /\ m'.met = t.met
  BY <1>2, <1>8, WakeSound
<1> QED
  BY <1>4, <1>9, <1>10, StillKeeps DEF Goes

LEMMA WorldKeeps == IInv /\ World => IInv'
<1> SUFFICES ASSUME IInv, World PROVE IInv'
  OBVIOUS
<1> DEFINE nets == {"none", "connecting", "refused", "up", "eof", "reset"}
<1>1. /\ Sound(m, {}) /\ InOrder(m) /\ m \in Memories /\ m.net \in [Obj -> nets]
      /\ m.unread \in SUBSET Obj /\ m.full \in SUBSET Obj /\ UNCHANGED <<pc, batch>>
  BY DEF IInv, Sound, Memories, World
<1>2. CASE Clock
  <2>1. m' = Timed(m, Tick(m.timers))
    BY <1>2 DEF Clock, Timed
  <2>2. /\ Sound(m', {}) /\ InOrder(m') /\ m'.live = m.live /\ m'.touched = m.touched /\ m'.met = m.met
    BY <1>1, <2>1, TickSound
  <2> QED
    BY <1>1, <2>2, StillKeeps
<1>3. ASSUME NEW o \in Obj, NEW net \in [Obj -> nets], NEW unread \in SUBSET Obj, NEW full \in SUBSET Obj,
             Peer(o, [m EXCEPT !.net = net, !.unread = unread, !.full = full])
      PROVE  IInv'
  BY <1>1, <1>3, PeerKeeps
<1>4. CASE PeerConnects
  <2>1. Peer("acceptor", [m EXCEPT !.net = m.net, !.unread = m.unread \cup {"acceptor"}, !.full = m.full])
    BY <1>1, <1>4 DEF PeerConnects, Memories
  <2>2. "acceptor" \in Obj
    BY DEF Obj
  <2> QED
    BY <1>1, <1>3, <2>1, <2>2
<1>5. ASSUME NEW o \in Stream,
             \/ PeerAnswers(o) \/ PeerRefuses(o) \/ PeerSends(o) \/ PeerReads(o) \/ PeerCloses(o) \/ PeerResets(o)
      PROVE  IInv'
  <2>1. o \in Obj
    BY DEF Stream
  <2>2. \A n \in nets : [m.net EXCEPT ![o] = n] \in [Obj -> nets]
    BY <1>1
  <2>3. CASE PeerAnswers(o)
    <3>1. Peer(o, [m EXCEPT !.net = [m.net EXCEPT ![o] = "up"], !.unread = m.unread, !.full = m.full])
      BY <1>1, <2>3 DEF PeerAnswers, Memories
    <3> QED
      BY <1>1, <1>3, <2>1, <2>2, <3>1
  <2>4. CASE PeerRefuses(o)
    <3>1. Peer(o, [m EXCEPT !.net = [m.net EXCEPT ![o] = "refused"], !.unread = m.unread, !.full = m.full])
      BY <1>1, <2>4 DEF PeerRefuses, Memories
    <3> QED
      BY <1>1, <1>3, <2>1, <2>2, <3>1
  <2>5. CASE PeerSends(o)
    <3>1. Peer(o, [m EXCEPT !.net = m.net, !.unread = m.unread \cup {o}, !.full = m.full])
      BY <1>1, <2>5 DEF PeerSends, Memories
    <3> QED
      BY <1>1, <1>3, <2>1, <3>1
  <2>6. CASE PeerReads(o)
    <3>1. Peer(o, [m EXCEPT !.net = m.net, !.unread = m.unread, !.full = m.full \ {o}])
      BY <1>1, <2>6 DEF PeerReads, Memories
    <3>2. m.full \ {o} \in SUBSET Obj
      BY <1>1
    <3> QED
      BY <1>1, <1>3, <2>1, <3>1, <3>2
  <2>7. CASE PeerCloses(o)
    <3>1. Peer(o, [m EXCEPT !.net = [m.net EXCEPT ![o] = "eof"], !.unread = m.unread, !.full = m.full])
      BY <1>1, <2>7 DEF PeerCloses, Memories
    <3> QED
      BY <1>1, <1>3, <2>1, <2>2, <3>1
  <2>8. CASE PeerResets(o)
    <3>1. Peer(o, [m EXCEPT !.net = [m.net EXCEPT ![o] = "reset"], !.unread = m.unread \ {o}, !.full = m.full])
      BY <1>1, <2>8 DEF PeerResets, Reset, Peer, Memories
    <3>2. [m.net EXCEPT ![o] = "reset"] \in [Obj -> nets] /\ m.unread \ {o} \in SUBSET Obj
      BY <1>1, <2>2
    <3> QED
      BY <1>1, <1>3, <2>1, <3>1, <3>2
  <2> QED
    BY <1>5, <2>3, <2>4, <2>5, <2>6, <2>7, <2>8
<1> QED
  BY <1>2, <1>4, <1>5 DEF World

LEMMA Invariance == Spec => []IInv
<1>1. ASSUME IInv, [Next]_vars PROVE IInv'
  <2>1. CASE Run
    <3>1. m.touched = {} /\ (AddConnector \/ Fire \/ DoneTimers \/ EpollWait \/ \E e \in batch : Handle(e))
      BY <2>1 DEF Run
    <3> QED
      BY <1>1, <3>1, AddConnectorKeeps, FireKeeps, DoneTimersKeeps, EpollWaitKeeps, HandleKeeps
  <2>2. CASE World
    BY <1>1, <2>2, WorldKeeps
  <2>3. CASE UNCHANGED vars
    BY <1>1, <2>3 DEF vars, IInv, TypeOK, BatchInv, Kept, Sound, Explained, Kernel, Heard, Clocked, Distinct,
                      InOrder, RunOf
  <2> QED
    BY <1>1, <2>1, <2>2, <2>3 DEF Next, Undefined
<1> QED
  BY <1>1, Starts, PTL DEF Spec
----------------------------------------------------------------------------
(* The fields of m keep their types, whatever the callbacks do.            *)
THEOREM TypeCorrect == Spec => []TypeOK
<1>1. IInv => TypeOK
  BY DEF IInv
<1> QED
  BY <1>1, Invariance, PTL

(* A deleted object is used only in the places that are listed, and there  *)
(* only after what is listed: close and its callers, epoll.hpp:120-320.    *)
THEOREM UsedAfterDeleteOnlyWhereHolds == Spec => []UsedAfterDeleteOnlyWhere
<1>1. IInv => UsedAfterDeleteOnlyWhere
  BY DEF IInv, Sound, Explained, UsedAfterDeleteOnlyWhere
<1> QED
  BY <1>1, Invariance, PTL

(* What the socket has taken and what do_send has left in the buffer are   *)
(* the units appended, in order, each once.                                *)
THEOREM StreamInOrderHolds == Spec => []StreamInOrder
<1>1. IInv => StreamInOrder
  <2> SUFFICES ASSUME IInv, NEW o \in Stream
               PROVE  LET all == m.wire[o] \o m.sbuf[o]
                      IN  \A i \in DOMAIN all : all[i] = m.made[o] - (Len(all) - i)
    BY DEF StreamInOrder
  <2> DEFINE all == m.wire[o] \o m.sbuf[o]
  <2>1. m.wire[o] \in Seq(Nat) /\ m.sbuf[o] \in Seq(Nat)
    BY DEF IInv, TypeOK, Memories, Stream
  <2>2. all \in Seq(Nat) /\ RunOf(all, m.made[o])
    BY <2>1 DEF IInv, InOrder
  <2> HIDE DEF all
  <2>3. DOMAIN all = 1 .. Len(all)
    BY <2>2
  <2>4. \A i \in DOMAIN all : all[i] = m.made[o] - (Len(all) - i)
    BY <2>2, <2>3 DEF RunOf
  <2> QED
    BY <2>4 DEF all
<1> QED
  BY <1>1, Invariance, PTL

LEMMA UndisturbedIs ==
    ASSUME IInv, Undisturbed
    PROVE  m \in Memories /\ Kernel(m) /\ Heard(m) /\ Clocked(m, {})
<1>1. m.touched = {} /\ "rearmed" \notin m.met
  BY DEF Undisturbed, Lasting
<1> QED
  BY <1>1 DEF IInv, Sound

LEMMA TimeoutIsPending ==
    ASSUME IInv, Undisturbed, RecvTimeout # 0, NEW o \in Stream \cap m.reg, "IN" \in m.ev[o]
    PROVE  \E x \in Range(m.timers) : x.fn = <<"timeout", o>>
<1>1. o \in (Stream \cap m.fd) \ {} /\ "IN" \in m.mon[o]
  BY UndisturbedIs DEF Kernel, Heard
<1> QED
  BY <1>1, UndisturbedIs DEF Clocked

(* A connection that asks for data has its one timeout, and no timeout     *)
(* outlives its connection: start_timer, close.                            *)
THEOREM OneTimerEachHolds == Spec => []OneTimerEach
<1>1. IInv => OneTimerEach
  <2> SUFFICES ASSUME IInv, Undisturbed
               PROVE  /\ \A i \in DOMAIN m.timers :
                            m.timers[i].fn[1] = "timeout" =>
                               m.timers[i].fn[2] \in m.live /\ m.tid[m.timers[i].fn[2]] = m.timers[i].id
                      /\ RecvTimeout # 0 => \A o \in Stream \cap m.reg :
                            "IN" \in m.ev[o] => \E i \in DOMAIN m.timers : m.timers[i].id = m.tid[o]
    BY DEF OneTimerEach
  <2>1. m.timers \in Seq(Timers)
    BY DEF IInv, TypeOK, Memories
  <2>2. \A x \in Range(m.timers) : x.fn[1] = "timeout" => x.fn[2] \in m.live /\ x.id = m.tid[x.fn[2]]
    BY UndisturbedIs DEF Clocked
  <2>3. \A i \in DOMAIN m.timers : m.timers[i] \in Range(m.timers)
    BY DEF Range
  <2>4. ASSUME RecvTimeout # 0, NEW o \in Stream \cap m.reg, "IN" \in m.ev[o]
        PROVE  \E i \in DOMAIN m.timers : m.timers[i].id = m.tid[o]
    <3>1. PICK x \in Range(m.timers) : x.fn = <<"timeout", o>>
      BY <2>4, TimeoutIsPending
    <3>2. x.id = m.tid[o]
      BY <2>2, <3>1
    <3>3. PICK i \in DOMAIN m.timers : m.timers[i] = x
      BY DEF Range
    <3> QED
      BY <3>2, <3>3
  <2> QED
    BY <2>2, <2>3, <2>4
<1> QED
  BY <1>1, Invariance, PTL

(* The end of a stream that do_recv left unread is met by the timeout,     *)
(* where there is one: start_recv_timeout_timer.                           *)
THEOREM EndIsNoticedHolds == Spec => []EndIsNoticed
<1>1. IInv => EndIsNoticed
  <2> SUFFICES ASSUME IInv, Undisturbed, RecvTimeout # 0, NEW o \in Stream \cap m.reg, "IN" \in m.ev[o]
               PROVE  Pending(<<"timeout", o>>)
    BY DEF EndIsNoticed
  <2>1. PICK x \in Range(m.timers) : x.fn = <<"timeout", o>>
    BY TimeoutIsPending
  <2> QED
    BY <2>1 DEF Pending, Range
<1> QED
  BY <1>1, Invariance, PTL
----------------------------------------------------------------------------
(* The edges, and what becomes of a connection: a ...Fit lemma says what   *)
(* state a method leaves its stream in, and a ...Serves lemma follows the  *)
(* action, as above for ...Sound and ...Keeps.                             *)
(* Nothing that lasts has been done to the objects.                        *)
Quiet(s) == s.touched = {} /\ s.met \cap Lasting = {}

(* The timers that dial, by id, and the timeouts of o.                     *)
Redials(s) == {x.id : x \in {y \in Range(s.timers) : y.fn = <<"connect", "connector">>}}
Waits(s, o) == \E x \in Range(s.timers) : x.fn = <<"timeout", o>>

(* epoll has the object when it is bound; a socket that broke is on its    *)
(* way, or its event is in errs; no timer dials beside it.                 *)
Linked(s, o, errs) ==
    /\ o \in s.bind <=> o \in s.reg
    /\ o \in s.reg => s.net[o] # "none"
    /\ s.net[o] # "none" => o \in s.fd
    /\ o \in s.reg /\ s.net[o] \in {"refused", "reset"} => o \in s.ready \cup errs
    /\ o = "connector" => Redials(s) = {}

Watched(s, o) == o \in s.reg /\ s.ev[o] = s.mon[o]

(* Room is awaited when the buffer is not empty, and the edge is not lost: *)
(* it is on its way, or the event is in outs.  Within a callback the       *)
(* buffer is empty or the socket full.                                     *)
Sending(s, o) == s.net[o] = "up" /\ s.wire[o] # <<>> /\ "overlooked" \notin s.met
Filled(s, o) == Sending(s, o) /\ s.sbuf[o] # <<>> => o \in s.full
Awaits(s, o, outs) ==
    Sending(s, o) =>
        /\ s.sbuf[o] # <<>> <=> "OUT" \in s.mon[o]
        /\ "OUT" \in s.mon[o] => o \in s.full \cup s.ready \cup outs

(* The three states of a connection between two methods.                   *)
Open(s, o, errs) == Linked(s, o, errs) /\ o \in s.connected /\ s.net[o] \notin {"none", "connecting"}
Serving(s, o, outs, errs) == Open(s, o, errs) /\ Watched(s, o) /\ Awaits(s, o, outs)
Calling(s, o, errs) ==
    /\ Linked(s, o, errs) /\ Watched(s, o) /\ o \notin s.connected /\ s.net[o] # "none"
    /\ s.mon[o] = {"OUT"} /\ s.wire[o] = <<>> /\ ~Waits(s, o)
Closed(s, o) ==
    /\ s.net[o] = "none" /\ o \notin s.reg \cup s.bind
    /\ o \in s.live =>
          /\ o = "connector" /\ ~Waits(s, o) /\ \A x, y \in Redials(s) : x = y
          /\ s.reconnect /\ ReconnectDelay # 0 => Redials(s) # {}
Fit(s, o, outs, errs) == Closed(s, o) \/ Calling(s, o, errs) \/ Serving(s, o, outs, errs)

(* What t has of o as s had it.                                            *)
Same(s, t, o) ==
    /\ o \in t.live <=> o \in s.live
    /\ o \in t.fd <=> o \in s.fd
    /\ o \in t.connected <=> o \in s.connected
    /\ o \in t.bind <=> o \in s.bind
    /\ o \in t.reg <=> o \in s.reg
    /\ o \in t.full <=> o \in s.full
    /\ o \in s.ready => o \in t.ready
    /\ t.net[o] = s.net[o] /\ t.mon[o] = s.mon[o] /\ t.ev[o] = s.ev[o]
    /\ t.wire[o] = s.wire[o] /\ t.sbuf[o] = s.sbuf[o]
    /\ t.reconnect = s.reconnect /\ Redials(t) = Redials(s)
    /\ s.met \subseteq t.met

(* One stream at a time, and what has a connection has a socket.           *)
Cast(s) == /\ s.live \subseteq {"acceptor", s.role}
           /\ \A q \in Stream : s.net[q] # "none" => q \in s.fd
           /\ "acceptor" \in s.unread => s.role = "accepted"
Kin(s, t) == /\ t.role = s.role /\ t.live \subseteq s.live
             /\ \A q \in Stream : t.net[q] # "none" /\ q \notin t.fd => s.net[q] # "none" /\ q \notin s.fd
             /\ "acceptor" \in t.unread => "acceptor" \in s.unread

LEMMA KinCast == ASSUME NEW s, NEW t, Cast(s), Kin(s, t) PROVE Cast(t)
  BY DEF Cast, Kin

LEMMA KinOn == ASSUME NEW s, NEW t, NEW u, Kin(s, t), Kin(t, u) PROVE Kin(s, u)
  BY DEF Kin

LEMMA KinIfSame ==
    ASSUME NEW s, NEW t, t.role = s.role, t.live = s.live, s.fd \subseteq t.fd, Net(t) = Net(s)
    PROVE  Kin(s, t)
  BY DEF Kin, Net

LEMMA QuietBefore == ASSUME NEW s, NEW t, NEW o, Goes(s, t, o), Quiet(t) PROVE Quiet(s)
  BY DEF Goes, Quiet

LEMMA SameServing ==
    ASSUME NEW s, NEW t, NEW o, NEW outs, NEW errs, Same(s, t, o), Serving(s, o, outs, errs)
    PROVE  Serving(t, o, outs, errs)
  BY DEF Same, Serving, Open, Linked, Watched, Awaits, Sending

LEMMA SameOpen ==
    ASSUME NEW s, NEW t, NEW o, NEW errs, Same(s, t, o), Open(s, o, errs)
    PROVE  Open(t, o, errs)
  BY DEF Same, Open, Linked

LEMMA SameCalling ==
    ASSUME NEW s, NEW t, NEW o, NEW errs, Same(s, t, o), Calling(s, o, errs), Waits(t, o) => Waits(s, o)
    PROVE  Calling(t, o, errs)
  BY DEF Same, Calling, Linked, Watched

LEMMA SameClosed ==
    ASSUME NEW s, NEW t, NEW o, Same(s, t, o), Closed(s, o), Waits(t, o) => Waits(s, o)
    PROVE  Closed(t, o)
  BY DEF Same, Closed

LEMMA SameFit ==
    ASSUME NEW s, NEW t, NEW o, NEW outs, NEW errs, Same(s, t, o), Waits(t, o) => Waits(s, o),
           Fit(s, o, outs, errs)
    PROVE  Fit(t, o, outs, errs)
  BY SameClosed, SameServing, SameCalling DEF Fit

LEMMA SameOn ==
    ASSUME NEW s, NEW t, NEW u, NEW o, Same(s, t, o), Same(t, u, o)
    PROVE  Same(s, u, o)
  BY DEF Same

(* A later memory of which only these fields, or none of o, have changed.  *)
LEMMA SameIf ==
    ASSUME NEW s, NEW t, NEW o, Sockets(t) = Sockets(s), Clocks(t) = Clocks(s), Data(t) = Data(s),
           Net(t) = Net(s), t.reconnect = s.reconnect, s.met \subseteq t.met
    PROVE  Same(s, t, o) /\ (Waits(t, o) => Waits(s, o))
  BY DEF Same, Sockets, Clocks, Data, Net, Redials, Waits
----------------------------------------------------------------------------
LEMMA MetFit ==
    ASSUME NEW s \in Memories, NEW w \in Reasons, NEW o
    PROVE  LET t == Met(s, w)
           IN  Kin(s, t) /\ Same(s, t, o) /\ (Waits(t, o) => Waits(s, o)) /\ (Quiet(t) => w \notin Lasting)
<1> DEFINE t == Met(s, w)
<1>1. /\ t.met = s.met \cup {w} /\ t.reconnect = s.reconnect
      /\ Sockets(t) = Sockets(s) /\ Clocks(t) = Clocks(s) /\ Data(t) = Data(s) /\ Net(t) = Net(s)
  BY MetIs
<1>2. t.role = s.role
  BY DEF Memories, Met
<1> HIDE DEF t
<1>3. Kin(s, t)
  BY <1>1, <1>2, KinIfSame DEF Sockets
<1>4. Same(s, t, o) /\ (Waits(t, o) => Waits(s, o))
  BY <1>1, SameIf
<1> QED
  BY <1>1, <1>3, <1>4 DEF Quiet, t

LEMMA TouchFit ==
    ASSUME NEW s \in Memories, NEW o, NEW place \in Places, NEW p
    PROVE  LET t == Touch(s, o, place)
           IN  Kin(s, t) /\ Same(s, t, p) /\ (Waits(t, p) => Waits(s, p)) /\ (Quiet(t) => t = s)
<1> DEFINE t == Touch(s, o, place)
<1>1. /\ t.touched = s.touched \cup (IF o \in s.live THEN {} ELSE {place}) /\ t.reconnect = s.reconnect
      /\ t.met = s.met
      /\ Sockets(t) = Sockets(s) /\ Clocks(t) = Clocks(s) /\ Data(t) = Data(s) /\ Net(t) = Net(s)
  BY TouchIs
<1>2. t.role = s.role /\ (o \in s.live => t = s)
  BY DEF Memories, Touch
<1> HIDE DEF t
<1>3. Kin(s, t)
  BY <1>1, <1>2, KinIfSame DEF Sockets
<1>4. Same(s, t, p) /\ (Waits(t, p) => Waits(s, p))
  BY <1>1, SameIf
<1> QED
  BY <1>1, <1>2, <1>3, <1>4 DEF Quiet, t

LEMMA GoneFit ==
    ASSUME NEW s \in Memories, NEW o, o \notin s.live, NEW place \in Places
    PROVE  Touch(s, o, place).touched # {}
<1>1. Touch(s, o, place).touched = s.touched \cup {place}
  BY GoneIs
<1> QED
  BY <1>1

LEMMA WakeIs ==
    ASSUME NEW s \in Memories, NEW o \in Obj
    PROVE  LET t == Wake(s, o)
           IN  /\ t \in Memories /\ t.touched = s.touched /\ t.met = s.met /\ t.reconnect = s.reconnect
               /\ t.role = s.role /\ t.live = s.live /\ t.fd = s.fd /\ t.connected = s.connected
               /\ t.bind = s.bind /\ t.mon = s.mon /\ t.reg = s.reg /\ t.ev = s.ev
               /\ s.ready \subseteq t.ready /\ (o \in s.reg /\ Reported(s, o) # {} => o \in t.ready)
               /\ Clocks(t) = Clocks(s) /\ Data(t) = Data(s) /\ Net(t) = Net(s)
<1> DEFINE u == [s EXCEPT !.ready = @ \cup {o}]
<1>1. u \in Memories
  BY DEF Memories
<1>2. /\ u.touched = s.touched /\ u.met = s.met /\ u.reconnect = s.reconnect /\ u.role = s.role
      /\ u.ready = s.ready \cup {o} /\ u.live = s.live /\ u.fd = s.fd /\ u.connected = s.connected
      /\ u.bind = s.bind /\ u.mon = s.mon /\ u.reg = s.reg /\ u.ev = s.ev
  BY DEF Memories
<1>3. Clocks(u) = Clocks(s)
  BY DEF Memories, Clocks
<1>4. Data(u) = Data(s)
  BY DEF Memories, Data
<1>5. Net(u) = Net(s)
  BY DEF Memories, Net
<1>6. Wake(s, o) = IF o \in s.reg /\ Reported(s, o) # {} THEN u ELSE s
  BY DEF Wake
<1> HIDE DEF u
<1> QED
  BY <1>1, <1>2, <1>3, <1>4, <1>5, <1>6

LEMMA WakeFit ==
    ASSUME NEW s \in Memories, NEW o \in Obj, NEW p
    PROVE  LET t == Wake(s, o) IN Kin(s, t) /\ Same(s, t, p) /\ (Waits(t, p) => Waits(s, p))
<1> DEFINE t == Wake(s, o)
<1>1. /\ t.reconnect = s.reconnect /\ t.met = s.met
      /\ t.role = s.role /\ t.live = s.live /\ t.fd = s.fd /\ t.connected = s.connected
      /\ t.bind = s.bind /\ t.mon = s.mon /\ t.reg = s.reg /\ t.ev = s.ev /\ s.ready \subseteq t.ready
      /\ Clocks(t) = Clocks(s) /\ Data(t) = Data(s) /\ Net(t) = Net(s)
  BY WakeIs
<1> HIDE DEF t
<1>2. Kin(s, t)
  BY <1>1, KinIfSame
<1>3. Same(s, t, p) /\ (Waits(t, p) => Waits(s, p))
  BY <1>1 DEF Same, Clocks, Data, Net, Redials, Waits
<1> QED
  BY <1>2, <1>3 DEF t
----------------------------------------------------------------------------
(* Timers.                                                                 *)
LEMMA ClockedIs ==
    ASSUME NEW s, NEW X, Sound(s, X), Quiet(s)
    PROVE  Kernel(s) /\ Heard(s) /\ Clocked(s, X)
  BY DEF Sound, Quiet, Lasting

LEMMA StopTimerFit ==
    ASSUME NEW s, NEW X, Sound(s, X), NEW o \in Obj
    PROVE  LET t == StopTimer(s, o)
           IN  /\ t.role = s.role /\ Kin(s, t)
               /\ Quiet(s) => \A p \in Stream : Same(s, t, p) /\ (Waits(t, p) => p # o /\ Waits(s, p))
<1> DEFINE t == StopTimer(s, o)
<1>1. s \in Memories /\ s.timers \in Seq(Timers) /\ s.tid[o] \in Nat /\ Range(s.timers) \subseteq Timers
  BY DEF Sound, Memories, Range
<1>2. t.role = s.role
  BY <1>1 DEF Memories, StopTimer
<1>3. /\ t.touched = s.touched /\ t.met = s.met /\ t.reconnect = s.reconnect
      /\ Sockets(t) = Sockets(s) /\ Data(t) = Data(s) /\ Net(t) = Net(s)
      /\ t.timers = CancelTimer(s.timers, s.tid[o])
  BY <1>1, StopTimerIs
<1> HIDE DEF t
<1>4. Kin(s, t)
  BY <1>2, <1>3, KinIfSame DEF Sockets
<1>5. /\ Range(t.timers) \subseteq Range(s.timers)
      /\ \A x \in Range(s.timers) : x.id = NoTimer \/ x.id # s.tid[o] => x \in Range(t.timers)
      /\ Distinct(s.timers) => /\ Distinct(t.timers)
                               /\ \A x \in Range(t.timers) : x.id # s.tid[o] \/ s.tid[o] = NoTimer
  <2>1. s.timers \in Seq(Timers) /\ s.tid[o] \in Nat /\ t.timers = CancelTimer(s.timers, s.tid[o])
    BY <1>1, <1>3
  <2> DEFINE id == s.tid[o]
             ts == s.timers
             r == CancelTimer(ts, id)
  <2>2. id \in Nat /\ ts \in Seq(Timers) /\ t.timers = r
    BY <2>1
  <2> HIDE DEF id, ts
  <2>3. /\ Range(r) \subseteq Range(ts)
        /\ \A x \in Range(ts) : x.id = NoTimer \/ x.id # id => x \in Range(r)
        /\ Distinct(ts) => /\ Distinct(r)
                           /\ \A x \in Range(r) : x.id # id \/ id = NoTimer
    BY <2>2, CancelIs
  <2> HIDE DEF r
  <2> QED
    BY <2>2, <2>3 DEF id, ts
<1>6. ASSUME Quiet(s), NEW p \in Stream
      PROVE  Same(s, t, p) /\ (Waits(t, p) => p # o /\ Waits(s, p))
  <2>1. Clocked(s, X)
    BY <1>6, ClockedIs
  <2>2. Distinct(s.timers)
    BY <2>1 DEF Clocked
  <2>3. /\ Range(t.timers) \subseteq Range(s.timers)
        /\ \A x \in Range(s.timers) : x.id = NoTimer \/ x.id # s.tid[o] => x \in Range(t.timers)
        /\ \A x \in Range(t.timers) : x.id # s.tid[o] \/ s.tid[o] = NoTimer
    BY <1>5, <2>2
  <2>4. \A x \in Range(s.timers) : x.fn = <<"connect", "connector">> => x.id # s.tid[o]
    BY <2>1 DEF Clocked
  <2>5. Redials(t) = Redials(s)
    BY <2>3, <2>4 DEF Redials
  <2>6. \A x \in Range(s.timers) : x.fn = <<"timeout", o>> => x.id = s.tid[o] /\ x.id # NoTimer
    BY <1>1, <2>1, FnIs DEF Clocked
  <2>7. Waits(t, p) => p # o /\ Waits(s, p)
    BY <2>3, <2>6 DEF Waits
  <2>8. Same(s, t, p)
    BY <1>3, <2>5 DEF Same, Sockets, Data, Net
  <2> QED
    BY <2>7, <2>8
<1> QED
  BY <1>2, <1>4, <1>6 DEF t

LEMMA StartTimerFit ==
    ASSUME NEW s, NEW X, Sound(s, X), NEW o \in Stream
    PROVE  LET t == StartTimer(s, o)
           IN  Kin(s, t) /\ (Quiet(s) => Same(s, t, o))
<1> DEFINE u == StopTimer(s, o)
           id == FreshId(u)
           x == [id |-> id, left |-> RecvTimeout, delay |-> RecvTimeout, fn |-> <<"timeout", o>>]
           tid == [u.tid EXCEPT ![o] = id]
           v == Arm(u, x, tid)
<1>1. o \in Obj /\ s \in Memories
  BY DEF Stream, Sound
<1>2. u \in Memories /\ Kin(s, u) /\ (Quiet(s) => Same(s, u, o))
  BY <1>1, StopTimerFit, StopTimerIs
<1>3. StartTimer(s, o) = IF RecvTimeout = 0 THEN u
        ELSE [u EXCEPT !.timers = SetTimer(@, id, RecvTimeout, <<"timeout", o>>), !.tid[o] = id]
  BY DEF StartTimer
<1> HIDE DEF u
<1>4. id \in Nat
  BY <1>2, FreshIdIs
<1> HIDE DEF id
<1>5. CASE RecvTimeout = 0
  BY <1>2, <1>3, <1>5
<1>6. CASE RecvTimeout # 0
  <2>1. StartTimer(s, o) = v
    <3>1. SetTimer(u.timers, id, RecvTimeout, <<"timeout", o>>) = Insert(u.timers, x)
      BY <1>6 DEF SetTimer
    <3> QED
      BY <1>3, <1>6, <3>1 DEF Arm
  <2>2. x \in Timers /\ x.fn = <<"timeout", o>>
    BY <1>4, ReactorAssumption DEF Timers
  <2> HIDE DEF x
  <2>3. tid \in [Obj -> Nat]
    BY <1>1, <1>2, <1>4 DEF Memories
  <2> HIDE DEF tid
  <2>4. /\ v.touched = u.touched /\ v.met = u.met /\ v.reconnect = u.reconnect
        /\ Sockets(v) = Sockets(u) /\ Data(v) = Data(u) /\ Net(v) = Net(u)
        /\ v.timers = Insert(u.timers, x)
    BY <1>2, <2>2, <2>3, ArmIs
  <2>5. v.role = u.role
    BY <1>2 DEF Arm, Memories
  <2> HIDE DEF v
  <2>6. Kin(u, v)
    BY <2>4, <2>5, KinIfSame DEF Sockets
  <2>7. Range(v.timers) = Range(u.timers) \cup {x}
    BY <1>2, <2>2, <2>4, InsertIs DEF Memories
  <2>8. Redials(v) = Redials(u)
    <3>1. x.fn # <<"connect", "connector">>
      BY <2>2
    <3> QED
      BY <2>7, <3>1 DEF Redials
  <2>9. Same(u, v, o)
    BY <2>4, <2>8 DEF Same, Sockets, Data, Net
  <2> QED
    BY <1>2, <2>1, <2>6, <2>9, KinOn, SameOn
<1> QED
  BY <1>5, <1>6
----------------------------------------------------------------------------
(* Events.                                                                 *)

(* The table f once o's entry is events (set_monitor_events).               *)
Entered(f, o, events) == [f EXCEPT ![o] = events]

(* What do_monitor_events leaves of the memory (epoll.hpp).                *)
LEMMA DoMonitorEventsIs ==
    ASSUME NEW s \in Memories, NEW o \in Obj, NEW events \in SUBSET {"IN", "OUT"}
    PROVE  LET t == DoMonitorEvents(s, o, events)
           IN  /\ t \in Memories /\ t.touched = s.touched /\ t.met = s.met /\ t.reconnect = s.reconnect
               /\ t.role = s.role /\ t.live = s.live /\ t.fd = s.fd /\ t.connected = s.connected
               /\ t.bind = s.bind \cup {o} /\ t.mon = Entered(s.mon, o, events)
               /\ s.ready \subseteq t.ready /\ Clocks(t) = Clocks(s) /\ Data(t) = Data(s) /\ Net(t) = Net(s)
               /\ o \in s.fd /\ (o \in s.bind <=> o \in s.reg) =>
                     /\ t.reg = s.reg \cup {o} /\ t.ev = Entered(s.ev, o, events)
                     /\ s.net[o] \in {"refused", "reset"} => o \in t.ready
<1> DEFINE u == Watch(s, o, events)
           v == Control(u, o, events)
<1>1. /\ u \in Memories /\ u.touched = s.touched /\ u.met = s.met /\ u.reconnect = s.reconnect
      /\ u.live = s.live /\ u.fd = s.fd /\ u.connected = s.connected
      /\ u.reg = s.reg /\ u.ev = s.ev /\ u.ready = s.ready
      /\ u.bind = s.bind \cup {o} /\ u.mon = [s.mon EXCEPT ![o] = events]
      /\ Clocks(u) = Clocks(s) /\ Data(u) = Data(s) /\ Net(u) = Net(s)
  BY WatchIs, Zenon
<1>2. u.role = s.role
  BY DEF Watch, Memories
<1>3. DoMonitorEvents(s, o, events) =
        IF o \in s.fd /\ (o \in s.bind) = (o \in s.reg) THEN Wake(v, o) ELSE u
  BY DEF DoMonitorEvents, Watch, Control
<1> HIDE DEF u
<1>4. /\ v \in Memories /\ v.touched = u.touched /\ v.met = u.met /\ v.reconnect = u.reconnect
      /\ v.live = u.live /\ v.fd = u.fd /\ v.connected = u.connected
      /\ v.bind = u.bind /\ v.mon = u.mon /\ v.ready = u.ready
      /\ v.reg = u.reg \cup {o} /\ v.ev = [u.ev EXCEPT ![o] = events]
      /\ Clocks(v) = Clocks(u) /\ Data(v) = Data(u) /\ Net(v) = Net(u)
  BY <1>1, ControlIs, Zenon
<1>5. v.role = u.role
  BY <1>1 DEF Control, Memories
<1> HIDE DEF v
<1> DEFINE w == Wake(v, o)
<1>6. /\ w \in Memories /\ w.touched = v.touched /\ w.met = v.met /\ w.reconnect = v.reconnect
      /\ w.role = v.role /\ w.live = v.live /\ w.fd = v.fd /\ w.connected = v.connected
      /\ w.bind = v.bind /\ w.mon = v.mon /\ w.reg = v.reg /\ w.ev = v.ev
      /\ v.ready \subseteq w.ready /\ (o \in v.reg /\ Reported(v, o) # {} => o \in w.ready)
      /\ Clocks(w) = Clocks(v) /\ Data(w) = Data(v) /\ Net(w) = Net(v)
  BY <1>4, WakeIs, Zenon
<1> HIDE DEF w
<1>7. /\ u.mon = Entered(s.mon, o, events)
      /\ v.ev = Entered(u.ev, o, events)
  BY <1>1, <1>4 DEF Entered
<1>8. CASE o \in s.fd /\ (o \in s.bind) = (o \in s.reg)
  <2>1. DoMonitorEvents(s, o, events) = w
    BY <1>3, <1>8 DEF w
  <2>2. s.net[o] \in {"refused", "reset"} => o \in w.ready
    <3>1. v.net = s.net /\ o \in v.reg
      BY <1>1, <1>4 DEF Net
    <3>2. s.net[o] \in {"refused", "reset"} => "ERR" \in Reported(v, o)
      BY <3>1 DEF Reported, Level
    <3> QED
      BY <1>6, <3>1, <3>2
  <2> QED
    BY <1>1, <1>2, <1>4, <1>5, <1>6, <1>7, <2>1, <2>2
<1>9. CASE ~(o \in s.fd /\ (o \in s.bind) = (o \in s.reg))
  BY <1>1, <1>2, <1>3, <1>7, <1>9
<1> QED
  BY <1>8, <1>9

(* A socket that is linked is watched for what was asked.                  *)
LEMMA DoMonitorEventsFit ==
    ASSUME NEW s \in Memories, NEW o \in Obj, NEW events \in SUBSET {"IN", "OUT"}
    PROVE  LET t == DoMonitorEvents(s, o, events)
           IN  /\ Kin(s, t) /\ t.touched = s.touched /\ t.met = s.met /\ t.live = s.live
               /\ t.net = s.net /\ t.wire = s.wire /\ t.sbuf = s.sbuf /\ t.full = s.full
               /\ t.connected = s.connected /\ t.mon[o] = events /\ s.ready \subseteq t.ready
               /\ \A errs : Linked(s, o, errs) /\ s.net[o] # "none" => Linked(t, o, errs) /\ Watched(t, o)
<1> DEFINE t == DoMonitorEvents(s, o, events)
<1>1. /\ t \in Memories /\ t.touched = s.touched /\ t.met = s.met /\ t.reconnect = s.reconnect
      /\ t.role = s.role /\ t.live = s.live /\ t.fd = s.fd /\ t.connected = s.connected
      /\ t.bind = s.bind \cup {o} /\ t.mon = Entered(s.mon, o, events)
      /\ s.ready \subseteq t.ready /\ Clocks(t) = Clocks(s) /\ Data(t) = Data(s) /\ Net(t) = Net(s)
      /\ o \in s.fd /\ (o \in s.bind <=> o \in s.reg) =>
            /\ t.reg = s.reg \cup {o} /\ t.ev = Entered(s.ev, o, events)
            /\ s.net[o] \in {"refused", "reset"} => o \in t.ready
  BY DoMonitorEventsIs
<1> HIDE DEF t
<1>2. s.mon \in [Obj -> SUBSET {"IN", "OUT"}] /\ s.ev \in [Obj -> SUBSET {"IN", "OUT"}]
  BY DEF Memories
<1>3. t.mon[o] = events
  BY <1>1, <1>2 DEF Entered
<1>4. Kin(s, t)
  BY <1>1, KinIfSame
<1>5. /\ t.net = s.net /\ t.wire = s.wire /\ t.sbuf = s.sbuf /\ t.full = s.full /\ t.timers = s.timers
  BY <1>1 DEF Clocks, Data, Net
<1>6. ASSUME NEW errs, Linked(s, o, errs), s.net[o] # "none"
      PROVE  Linked(t, o, errs) /\ Watched(t, o)
  <2>1. o \in s.fd /\ (o \in s.bind <=> o \in s.reg)
    BY <1>6 DEF Linked
  <2>2. /\ t.reg = s.reg \cup {o} /\ t.ev = Entered(s.ev, o, events)
        /\ s.net[o] \in {"refused", "reset"} => o \in t.ready
    BY <1>1, <2>1
  <2>3. t.ev[o] = events
    BY <1>2, <2>2 DEF Entered
  <2>4. Watched(t, o)
    BY <1>3, <2>2, <2>3 DEF Watched
  <2>5. Redials(t) = Redials(s)
    BY <1>5 DEF Redials
  <2>6. Linked(t, o, errs)
    BY <1>1, <1>5, <1>6, <2>2, <2>5 DEF Linked
  <2> QED
    BY <2>4, <2>6
<1> QED
  BY <1>1, <1>3, <1>4, <1>5, <1>6 DEF t
----------------------------------------------------------------------------
(* close().                                                                *)
LEMMA ShutNet ==
    ASSUME NEW s \in Memories, NEW o \in Obj
    PROVE  LET t == Shut(s, o)
           IN  /\ t.role = s.role /\ t.net = [s.net EXCEPT ![o] = "none"]
               /\ t.unread = s.unread \ {o} /\ t.full = s.full \ {o}
<1> DEFINE u == StopTimer(s, o)
           v == SocketClose(u, o)
           t == Unbind(v, o)
<1>1. u \in Memories /\ Net(u) = Net(s)
  BY StopTimerIs
<1>2. u.role = s.role
  BY DEF StopTimer, Memories
<1> HIDE DEF u
<1>3. v \in Memories
  BY <1>1, SocketCloseIs
<1>4. /\ v.role = u.role /\ v.net = [u.net EXCEPT ![o] = "none"]
      /\ v.unread = u.unread \ {o} /\ v.full = u.full \ {o}
  BY <1>1 DEF SocketClose, Memories
<1> HIDE DEF v
<1>5. t.role = v.role /\ Net(t) = Net(v)
  BY <1>3 DEF Unbind, Memories, Net
<1>6. Shut(s, o) = t
  BY DEF Shut, t, v, u
<1> HIDE DEF t
<1> QED
  BY <1>1, <1>2, <1>4, <1>5, <1>6 DEF Net

LEMMA ShutKin ==
    ASSUME NEW s \in Memories, NEW o \in Obj
    PROVE  Kin(s, Shut(s, o))
<1> DEFINE t == Shut(s, o)
<1>1. /\ t.role = s.role /\ t.net = [s.net EXCEPT ![o] = "none"] /\ t.unread = s.unread \ {o}
      /\ t.live = s.live /\ t.fd = s.fd \ {o}
  <2>1. t.live = s.live /\ t.fd = s.fd \ {o}
    BY ShutIs
  <2> QED
    BY <2>1, ShutNet
<1> HIDE DEF t
<1>2. \A q \in Stream : t.net[q] # "none" => q # o /\ t.net[q] = s.net[q]
  BY <1>1 DEF Memories, Stream
<1> QED
  BY <1>1, <1>2 DEF Kin, t

LEMMA FreeKin ==
    ASSUME NEW s \in Memories, NEW o \in Obj
    PROVE  Kin(s, Free(s, o)) /\ Net(Free(s, o)) = Net(s)
<1> DEFINE t == Free(s, o)
<1>1. t.role = s.role /\ Net(t) = Net(s)
  BY DEF Free, Memories, Net
<1>2. t.live = s.live \ {o} /\ t.fd = s.fd
  BY FreeIs
<1> HIDE DEF t
<1> QED
  BY <1>1, <1>2 DEF Kin, Net, t

LEMMA CloseConnectionKin ==
    ASSUME NEW s \in Memories, NEW o \in Obj, NEW force
    PROVE  Kin(s, CloseConnection(s, o, force)) /\ CloseConnection(s, o, force) \in Memories
<1> DEFINE v == IF o \in s.fd THEN Shut(s, o) ELSE s
<1>1. v \in Memories /\ Kin(s, v)
  <2>1. Shut(s, o) \in Memories
    BY ShutIs
  <2> QED
    BY <2>1, ShutKin, KinIfSame
<1>2. CloseConnection(s, o, force) = IF force THEN Free(v, o) ELSE v
  BY CloseConnectionIsShut
<1> HIDE DEF v
<1>3. Free(v, o) \in Memories /\ Kin(v, Free(v, o))
  BY <1>1, FreeKin, FreeIs
<1> QED
  BY <1>1, <1>2, <1>3, KinOn

LEMMA TimedKin ==
    ASSUME NEW s \in Memories, NEW ts \in Seq(Timers)
    PROVE  Kin(s, Timed(s, ts))
<1>1. Timed(s, ts).role = s.role
  BY DEF Timed, Memories
<1>2. Sockets(Timed(s, ts)) = Sockets(s) /\ Net(Timed(s, ts)) = Net(s)
  BY TimedIs
<1> QED
  BY <1>1, <1>2, KinIfSame DEF Sockets

(* The timer that dials, if the delay is not 0.                            *)
LEMMA SetTimerIs ==
    ASSUME NEW ts \in Seq(Timers), NEW id \in Nat
    PROVE  LET r == SetTimer(ts, id, ReconnectDelay, <<"connect", "connector">>)
               x == [id |-> id, left |-> ReconnectDelay, delay |-> ReconnectDelay, fn |-> <<"connect", "connector">>]
           IN  /\ r \in Seq(Timers)
               /\ Range(r) = IF ReconnectDelay = 0 THEN Range(ts) ELSE Range(ts) \cup {x}
<1> DEFINE x == [id |-> id, left |-> ReconnectDelay, delay |-> ReconnectDelay, fn |-> <<"connect", "connector">>]
<1>1. x \in Timers
  BY ReactorAssumption DEF Timers
<1>2. SetTimer(ts, id, ReconnectDelay, <<"connect", "connector">>) = IF ReconnectDelay = 0 THEN ts ELSE Insert(ts, x)
  BY DEF SetTimer
<1> HIDE DEF x
<1>3. Insert(ts, x) \in Seq(Timers) /\ Range(Insert(ts, x)) = Range(ts) \cup {x}
  BY <1>1, InsertIs
<1> QED
  BY <1>2, <1>3 DEF x

LEMMA CloseConnectorKin ==
    ASSUME NEW s \in Memories
    PROVE  Kin(s, CloseConnector(s))
<1> DEFINE o == "connector"
           v == CloseConnection(s, o, ~s.reconnect)
           w == Met(v, "no reconnect")
           again == IF o \in s.fd THEN v ELSE Met(v, "closed while closed")
           ts == SetTimer(again.timers, FreshId(v), ReconnectDelay, <<"connect", o>>)
<1>1. o \in Obj /\ "connector close" \in Places
  BY DEF Obj, Places
<1>2. v \in Memories /\ Kin(s, v)
  BY <1>1, CloseConnectionKin
<1>3. CloseConnector(s) = IF ~s.reconnect THEN Touch(w, o, "connector close") ELSE Timed(again, ts)
  BY DEF CloseConnector, Timed
<1> HIDE DEF v
<1>4. w \in Memories /\ Kin(v, w) /\ again \in Memories /\ Kin(v, again)
  <2>1. "no reconnect" \in Reasons /\ "closed while closed" \in Reasons
    BY DEF Reasons
  <2> QED
    BY <1>2, <2>1, MetIs, MetFit, KinIfSame
<1> HIDE DEF w, again
<1>5. Kin(w, Touch(w, o, "connector close"))
  BY <1>1, <1>4, TouchFit
<1>6. Kin(again, Timed(again, ts))
  <2>1. again.timers \in Seq(Timers)
    BY <1>4 DEF Memories
  <2>2. FreshId(v) \in Nat
    BY <1>2, FreshIdIs
  <2>3. ts \in Seq(Timers)
    BY <2>1, <2>2, SetTimerIs
  <2> QED
    BY <1>4, <2>3, TimedKin
<1>7. Kin(s, Touch(w, o, "connector close"))
  BY <1>2, <1>4, <1>5, KinOn
<1>8. Kin(s, Timed(again, ts))
  BY <1>2, <1>4, <1>6, KinOn
<1> QED
  BY <1>3, <1>7, <1>8

LEMMA CloseKin ==
    ASSUME NEW s \in Memories, NEW o \in Obj
    PROVE  Kin(s, Close(s, o))
  BY CloseConnectorKin, CloseConnectionKin DEF Close

(* A socket that is shut leaves no timeout and no timer that dials.        *)
LEMMA ShutFit ==
    ASSUME NEW s, NEW X, Sound(s, X), NEW o \in Obj, Quiet(s)
    PROVE  LET t == Shut(s, o)
           IN  /\ t.net[o] = "none" /\ o \notin t.reg \cup t.bind
               /\ \A p \in Stream : /\ Redials(t) = Redials(s) /\ (Waits(t, p) => p # o /\ Waits(s, p))
                                    /\ p # o => Same(s, t, p)
<1> DEFINE t == Shut(s, o)
           u == StopTimer(s, o)
<1>1. s \in Memories /\ s.net \in [Obj -> {"none", "connecting", "refused", "up", "eof", "reset"}]
  BY DEF Sound, Memories
<1>2. /\ t.reconnect = s.reconnect /\ t.met = s.met
      /\ t.live = s.live /\ t.connected = s.connected /\ t.mon = s.mon /\ t.ev = s.ev
      /\ t.fd = s.fd \ {o} /\ t.reg = s.reg \ {o} /\ t.ready = s.ready \ {o}
      /\ t.bind = s.bind \ {o} /\ t.timers = u.timers /\ Data(t) = Data(s)
  BY <1>1, ShutIs
<1>3. t.net = [s.net EXCEPT ![o] = "none"] /\ t.full = s.full \ {o}
  BY <1>1, ShutNet
<1>4. \A p \in Stream : Same(s, u, p) /\ (Waits(u, p) => p # o /\ Waits(s, p))
  BY StopTimerFit
<1> HIDE DEF t, u
<1>5. t.net[o] = "none" /\ \A p \in Stream : p # o => t.net[p] = s.net[p]
  BY <1>1, <1>3 DEF Stream
<1>6. ASSUME NEW p \in Stream
      PROVE  Redials(t) = Redials(s) /\ (Waits(t, p) => p # o /\ Waits(s, p)) /\ (p # o => Same(s, t, p))
  <2>1. Redials(t) = Redials(s)
    BY <1>2, <1>4, <1>6 DEF Same, Redials
  <2>2. Waits(t, p) => p # o /\ Waits(s, p)
    BY <1>2, <1>4, <1>6 DEF Waits
  <2>3. p # o => Same(s, t, p)
    BY <1>2, <1>3, <1>5, <2>1 DEF Same, Data
  <2> QED
    BY <2>1, <2>2, <2>3
<1> QED
  BY <1>2, <1>5, <1>6 DEF t

(* close() of another object leaves this one alone.                        *)
LEMMA CloseOther ==
    ASSUME NEW s, NEW X, Sound(s, X), Quiet(s), NEW p \in Stream, NEW o \in {"acceptor", "accepted"}, p # o
    PROVE  LET t == CloseConnection(s, o, TRUE) IN Same(s, t, p) /\ (Waits(t, p) => Waits(s, p))
<1> DEFINE v == IF o \in s.fd THEN Shut(s, o) ELSE s
           t == Free(v, o)
<1>1. s \in Memories /\ o \in Obj
  BY DEF Sound, Obj
<1>2. v \in Memories
  <2>1. Shut(s, o) \in Memories
    BY <1>1, ShutIs
  <2> QED
    BY <1>1, <2>1
<1>3. Same(s, v, p) /\ (Waits(v, p) => Waits(s, p))
  <2>1. Same(s, s, p)
    BY DEF Same
  <2>2. Same(s, Shut(s, o), p) /\ (Waits(Shut(s, o), p) => Waits(s, p))
    BY <1>1, ShutFit
  <2> QED
    BY <2>1, <2>2
<1>4. CloseConnection(s, o, TRUE) = t
  BY CloseConnectionIsShut
<1> HIDE DEF v
<1>5. /\ t.reconnect = v.reconnect /\ t.met = v.met
      /\ t.bind = v.bind /\ t.connected = v.connected /\ t.fd = v.fd
      /\ t.mon = v.mon /\ t.ev = v.ev /\ t.reg = v.reg /\ t.ready = v.ready
      /\ t.live = v.live \ {o} /\ Clocks(t) = Clocks(v) /\ Data(t) = Data(v)
  BY <1>1, <1>2, FreeIs, Zenon
<1>6. Net(t) = Net(v)
  BY <1>1, <1>2, FreeKin
<1> HIDE DEF t
<1>7. Same(v, t, p) /\ (Waits(t, p) => Waits(v, p))
  BY <1>5, <1>6 DEF Same, Clocks, Data, Net, Redials, Waits
<1> QED
  BY <1>3, <1>4, <1>7, SameOn

(* close() of a connector deletes nothing when it has a socket and is to   *)
(* be connected again.                                                     *)
LEMMA CloseConnectorOnce ==
    ASSUME NEW s, NEW X, Sound(s, X), Quiet(CloseConnector(s))
    PROVE  s.reconnect /\ "connector" \in s.fd
<1> DEFINE o == "connector"
           v == Shut(s, o)
           r == CloseConnector(s)
<1>1. s \in Memories /\ o \in Obj
  BY DEF Sound, Obj
<1>2. s.reconnect
  <2> SUFFICES ASSUME ~s.reconnect PROVE FALSE
    OBVIOUS
  <2> DEFINE u == CloseConnection(s, o, TRUE)
             x == Met(u, "no reconnect")
  <2>1. r = Touch(x, o, "connector close")
    BY DEF CloseConnector
  <2>2. u = Free(IF o \in s.fd THEN v ELSE s, o)
    BY CloseConnectionIsShut
  <2>3. v \in Memories
    BY <1>1, ShutIs
  <2>4. u \in Memories /\ o \notin u.live
    <3>1. ASSUME NEW w \in Memories PROVE Free(w, o) \in Memories /\ o \notin Free(w, o).live
      BY <1>1, FreeIs
    <3> HIDE DEF v
    <3> QED
      BY <1>1, <2>2, <2>3, <3>1
  <2> HIDE DEF u
  <2>5. x \in Memories /\ o \notin x.live
    BY <2>4, MetIs DEF Reasons, Sockets
  <2> HIDE DEF x
  <2>6. "connector close" \in r.touched
    <3>1. "connector close" \in Places
      BY DEF Places
    <3>2. Touch(x, o, "connector close").touched = x.touched \cup {"connector close"}
      BY <2>5, <3>1, GoneIs
    <3> QED
      BY <2>1, <3>2
  <2> QED
    BY <2>6 DEF Quiet
<1>3. o \in s.fd
  <2> SUFFICES ASSUME o \notin s.fd PROVE FALSE
    OBVIOUS
  <2> DEFINE x == Met(s, "closed while closed")
             xs == SetTimer(x.timers, FreshId(s), ReconnectDelay, <<"connect", o>>)
  <2>1. r = Timed(x, xs)
    BY <1>2 DEF CloseConnector, CloseConnection, Timed
  <2>2. x \in Memories /\ x.timers \in Seq(Timers) /\ "closed while closed" \in x.met
    <3>1. "closed while closed" \in Reasons
      BY DEF Reasons
    <3>2. x \in Memories /\ x.met = s.met \cup {"closed while closed"}
      BY <1>1, <3>1, MetIs
    <3> QED
      BY <3>2 DEF Memories
  <2> HIDE DEF x
  <2>3. xs \in Seq(Timers)
    BY <1>1, <2>2, FreshIdIs, SetTimerIs
  <2> HIDE DEF xs
  <2>4. r.met = x.met
    <3>1. Timed(x, xs).met = x.met
      BY <2>2, <2>3, TimedIs
    <3> QED
      BY <2>1, <3>1
  <2> QED
    BY <2>2, <2>4 DEF Quiet, Lasting
<1> QED
  BY <1>2, <1>3

(* A connector that is closed with its socket has a timer to dial again.   *)
LEMMA CloseConnectorFit ==
    ASSUME NEW s, NEW X, Sound(s, X), s.touched = {} => "connector" \in s.live,
           Quiet(CloseConnector(s)), Redials(s) = {}
    PROVE  Closed(CloseConnector(s), "connector") /\ "connector" \notin CloseConnector(s).fd
<1> DEFINE o == "connector"
           v == Shut(s, o)
           id == FreshId(v)
           ts == SetTimer(v.timers, id, ReconnectDelay, <<"connect", o>>)
           t == Timed(v, ts)
           r == CloseConnector(s)
<1>1. s \in Memories /\ o \in Obj /\ o \in Stream
  BY DEF Sound, Obj, Stream
<1>2. Quiet(s)
  BY CloseConnectorSound, QuietBefore
<1>3. s.reconnect /\ o \in s.fd
  BY CloseConnectorOnce
<1>4. r = t
  BY <1>3 DEF CloseConnector, CloseConnection, Shut, Unbind, Timed
<1>5. v \in Memories /\ v.reconnect = s.reconnect /\ o \notin v.fd
  BY <1>1, ShutIs
<1>6. /\ v.net[o] = "none" /\ o \notin v.reg \cup v.bind
      /\ Redials(v) = {} /\ ~Waits(v, o)
  BY <1>1, <1>2, ShutFit
<1> HIDE DEF v
<1>7. v.timers \in Seq(Timers) /\ id \in Nat
  BY <1>5, FreshIdIs DEF Memories
<1> HIDE DEF id
<1> DEFINE x == [id |-> id, left |-> ReconnectDelay, delay |-> ReconnectDelay, fn |-> <<"connect", o>>]
<1>8. ts \in Seq(Timers) /\ Range(ts) = IF ReconnectDelay = 0 THEN Range(v.timers) ELSE Range(v.timers) \cup {x}
  BY <1>7, SetTimerIs
<1>9. x.id = id /\ x.fn = <<"connect", o>>
  OBVIOUS
<1> HIDE DEF ts, x
<1>10. /\ Sockets(t) = Sockets(v) /\ Net(t) = Net(v) /\ t.timers = ts
  BY <1>5, <1>8, TimedIs
<1> HIDE DEF t
<1>11. t.net[o] = "none" /\ o \notin t.reg \cup t.bind /\ o \notin t.fd
  BY <1>5, <1>6, <1>10 DEF Sockets, Net
<1>12. ~Waits(t, o)
  BY <1>6, <1>8, <1>9, <1>10 DEF Waits
<1>13. Redials(t) = IF ReconnectDelay = 0 THEN {} ELSE {id}
  BY <1>6, <1>8, <1>9, <1>10 DEF Redials
<1>14. (\A i, j \in Redials(t) : i = j) /\ (ReconnectDelay # 0 => Redials(t) # {})
  BY <1>13
<1> QED
  BY <1>4, <1>11, <1>12, <1>14 DEF Closed

LEMMA CloseFit ==
    ASSUME NEW s, NEW X, Sound(s, X), NEW o \in Stream, s.touched = {} => o \in s.live,
           Quiet(Close(s, o)), o = "connector" => Redials(s) = {}
    PROVE  Closed(Close(s, o), o)
<1>1. CASE o = "connector"
  BY <1>1, CloseConnectorFit DEF Close
<1>2. CASE o = "accepted"
  <2> DEFINE v == Shut(s, o)
             t == Free(v, o)
  <2>1. o \in Obj /\ s \in Memories
    BY DEF Stream, Sound
  <2>2. Goes(s, Close(s, o), o)
    BY <2>1, CloseSound
  <2>3. Quiet(s)
    BY <2>2, QuietBefore
  <2>4. o \in s.fd
    BY <1>2, <2>3, ClockedIs DEF Quiet, Kernel
  <2>5. Close(s, o) = t
    BY <1>2, <2>4, CloseConnectionIsShut DEF Close
  <2>6. v \in Memories /\ v.net[o] = "none" /\ o \notin v.reg \cup v.bind
    BY <2>1, <2>3, ShutFit, ShutIs
  <2> HIDE DEF v
  <2>7. t.reg = v.reg /\ t.bind = v.bind /\ Net(t) = Net(v) /\ o \notin t.live
    BY <2>1, <2>6, FreeIs, FreeKin
  <2> QED
    BY <1>2, <2>5, <2>6, <2>7 DEF Closed, Net
<1> QED
  BY <1>1, <1>2 DEF Stream, Obj
----------------------------------------------------------------------------
(* Sending.                                                                *)
LEMMA AwaitRoomFit ==
    ASSUME NEW s \in Memories, NEW o \in Obj
    PROVE  LET t == AwaitRoom(s, o)
           IN  /\ Kin(s, t) /\ t.touched = s.touched /\ t.met = s.met /\ t.live = s.live
               /\ t.net = s.net /\ t.wire = s.wire /\ t.sbuf = s.sbuf /\ t.full = s.full
               /\ t.connected = s.connected /\ s.ready \subseteq t.ready
               /\ "IN" \in t.mon[o] <=> "IN" \in s.mon[o]
               /\ s.sbuf[o] # <<>> <=> "OUT" \in t.mon[o]
               /\ \A errs : Linked(s, o, errs) /\ s.net[o] # "none" =>
                     Linked(t, o, errs) /\ (Watched(s, o) => Watched(t, o))
<1> DEFINE t == AwaitRoom(s, o)
           events == IF s.sbuf[o] # <<>> THEN s.mon[o] \cup {"OUT"} ELSE s.mon[o] \ {"OUT"}
           u == DoMonitorEvents(s, o, events)
<1>1. s.mon[o] \in SUBSET {"IN", "OUT"}
  BY DEF Memories
<1>2. CASE (s.sbuf[o] # <<>>) = ("OUT" \in s.mon[o])
  <2>1. t = s
    BY <1>2 DEF AwaitRoom
  <2> HIDE DEF t
  <2> QED
    BY <1>2, <2>1, KinIfSame DEF t
<1>3. CASE (s.sbuf[o] # <<>>) # ("OUT" \in s.mon[o])
  <2>1. t = u
    BY <1>3 DEF AwaitRoom
  <2>2. /\ events \in SUBSET {"IN", "OUT"} /\ ("IN" \in events <=> "IN" \in s.mon[o])
        /\ s.sbuf[o] # <<>> <=> "OUT" \in events
    BY <1>1
  <2> HIDE DEF events
  <2>3. /\ Kin(s, u) /\ u.touched = s.touched /\ u.met = s.met /\ u.live = s.live
        /\ u.net = s.net /\ u.wire = s.wire /\ u.sbuf = s.sbuf /\ u.full = s.full
        /\ u.connected = s.connected /\ u.mon[o] = events /\ s.ready \subseteq u.ready
        /\ \A errs : Linked(s, o, errs) /\ s.net[o] # "none" => Linked(u, o, errs) /\ Watched(u, o)
    BY <2>2, DoMonitorEventsFit
  <2> HIDE DEF u, t
  <2> QED
    BY <2>1, <2>2, <2>3 DEF t
<1> QED
  BY <1>2, <1>3

LEMMA TakenNet ==
    ASSUME NEW s \in Memories, NEW o \in Obj, NEW n \in 0 .. Len(s.sbuf[o]), NEW full \in SUBSET Obj
    PROVE  LET t == Taken(s, o, n, full)
           IN  /\ t.role = s.role /\ t.net = s.net /\ t.unread = s.unread /\ t.full = full
               /\ n = Len(s.sbuf[o]) => t.sbuf[o] = <<>>
               /\ Kin(s, t)
<1> DEFINE t == Taken(s, o, n, full)
           q == SubSeq(s.sbuf[o], n + 1, Len(s.sbuf[o]))
<1>1. s.sbuf \in [Obj -> Seq(Nat)] /\ s.sbuf[o] \in Seq(Nat)
  BY DEF Memories
<1>2. t.role = s.role /\ t.net = s.net /\ t.unread = s.unread /\ t.full = full
  BY DEF Taken, Flush, Memories
<1>3. t.sbuf = [s.sbuf EXCEPT ![o] = q]
  BY DEF Taken, Flush, Memories
<1>4. n = Len(s.sbuf[o]) => q = <<>>
  BY <1>1
<1>5. t.live = s.live /\ t.fd = s.fd
  BY TakenIs DEF Sockets
<1> HIDE DEF t, q
<1>6. n = Len(s.sbuf[o]) => t.sbuf[o] = <<>>
  BY <1>1, <1>3, <1>4
<1>7. Kin(s, t)
  BY <1>2, <1>5 DEF Kin
<1> QED
  BY <1>2, <1>6, <1>7 DEF t

(* What becomes of an open connection in a send, whatever the callbacks do *)
(* but close it.                                                           *)
Bears(s, t, o) ==
    /\ Kin(s, t) /\ Goes(s, t, o)
    /\ Quiet(t) =>
          /\ "IN" \in t.mon[o] <=> "IN" \in s.mon[o]
          /\ \A errs : Open(s, o, errs) => Open(t, o, errs) /\ (Watched(s, o) => Watched(t, o))

LEMMA BearsOn ==
    ASSUME NEW s, NEW t, NEW u, NEW o, Bears(s, t, o), Bears(t, u, o)
    PROVE  Bears(s, u, o)
<1>1. Kin(s, u) /\ Goes(s, u, o)
  BY KinOn, GoesOn DEF Bears
<1>2. Quiet(u) => Quiet(t)
  BY QuietBefore DEF Bears
<1> QED
  BY <1>1, <1>2 DEF Bears

LEMMA BearsIf ==
    ASSUME NEW s, NEW t, NEW o, Kin(s, t), Goes(s, t, o), Sockets(t) = Sockets(s), Clocks(t) = Clocks(s),
           t.net = s.net
    PROVE  Bears(s, t, o)
<1>1. /\ t.fd = s.fd /\ t.connected = s.connected /\ t.bind = s.bind /\ t.mon = s.mon /\ t.reg = s.reg
      /\ t.ev = s.ev /\ t.ready = s.ready /\ t.timers = s.timers
  BY DEF Sockets, Clocks
<1>2. \A errs : Open(s, o, errs) => Open(t, o, errs) /\ (Watched(s, o) => Watched(t, o))
  BY <1>1 DEF Open, Linked, Watched, Redials
<1> QED
  BY <1>1, <1>2 DEF Bears

LEMMA BearsSame ==
    ASSUME NEW s, NEW o
    PROVE  Bears(s, s, o)
  BY BearsIf, KinIfSame, GoesIfSame

(* It is closed for a reason that lasts.                                   *)
LEMMA ClosedBears ==
    ASSUME NEW s, NEW X, Sound(s, X), NEW o \in Obj, Present(s, o),
           NEW why \in {"send refused", "send reset", "closed own"}
    PROVE  Bears(s, Close(Met(s, why), o), o) /\ ~Quiet(Close(Met(s, why), o))
<1> DEFINE u == Met(s, why)
           t == Close(u, o)
<1>1. why \in Reasons /\ s \in Memories
  BY DEF Reasons, Sound
<1>2. /\ u \in Memories /\ Kin(s, u) /\ Sound(u, X) /\ u.touched = s.touched /\ u.live = s.live
      /\ why \in u.met
  BY <1>1, MetSound, MetIs, MetFit DEF Sockets
<1> HIDE DEF u
<1>3. Kin(u, t) /\ Goes(u, t, o)
  <2>1. u.touched = {} => o \in u.live
    BY <1>2 DEF Present
  <2> QED
    BY <1>2, <2>1, CloseSound, CloseKin
<1>4. Goes(s, t, o)
  BY CloseSpared DEF Spared, u
<1> HIDE DEF t
<1>5. ~Quiet(t)
  BY <1>2, <1>3 DEF Goes, Quiet, Lasting
<1>6. Bears(s, t, o)
  BY <1>2, <1>3, <1>4, <1>5, KinOn DEF Bears
<1> QED
  BY <1>5, <1>6 DEF t, u

LEMMA CloseOwnBears ==
    ASSUME NEW s, NEW X, Sound(s, X), NEW o \in Obj, Present(s, o)
    PROVE  Bears(s, CloseOwn(s, o), o) /\ ~Quiet(CloseOwn(s, o))
  BY ClosedBears DEF CloseOwn

LEMMA TouchBears ==
    ASSUME NEW s, NEW X, Sound(s, X), NEW o \in Obj, Unless(s, o),
           NEW place \in {"do_send", "do_recv", "connect callback"}
    PROVE  Bears(s, Touch(s, o, place), o) /\ (Quiet(Touch(s, o, place)) => Touch(s, o, place) = s)
<1> DEFINE t == Touch(s, o, place)
<1>1. place \in Places /\ s \in Memories
  BY DEF Places, Sound
<1>2. Kin(s, t) /\ (Quiet(t) => t = s)
  BY <1>1, TouchFit
<1>3. Goes(s, t, o)
  BY TouchSpared DEF Spared
<1> HIDE DEF t
<1>4. Bears(s, t, o)
  <2>1. Quiet(t) => /\ "IN" \in t.mon[o] <=> "IN" \in s.mon[o]
                    /\ \A errs : Open(s, o, errs) => Open(t, o, errs) /\ (Watched(s, o) => Watched(t, o))
    BY <1>2
  <2> QED
    BY <1>2, <1>3, <2>1 DEF Bears
<1> QED
  BY <1>2, <1>4 DEF t

LEMMA MeanwhileBears ==
    ASSUME NEW s, NEW X, Sound(s, X), NEW o \in Obj, Present(s, o), NEW t \in Meanwhile(s, o)
    PROVE  /\ Bears(s, t, o) /\ (t = s \/ t.net[o] = "reset")
           /\ t.net[o] = "none" <=> s.net[o] = "none"
<1> DEFINE u == [s EXCEPT !.net[o] = "reset", !.unread = @ \ {o}]
<1>1. s \in Memories /\ Goes(s, t, o)
  BY MeanwhileSpared DEF Sound, Spared
<1>2. t = s \/ (t = Wake(u, o) /\ s.net[o] \in {"up", "eof"})
  BY DEF Meanwhile, Reset
<1>3. u \in Memories /\ u.net = [s.net EXCEPT ![o] = "reset"] /\ u.role = s.role /\ u.unread = s.unread \ {o}
  BY <1>1 DEF Memories
<1>4. Sockets(u) = Sockets(s) /\ Clocks(u) = Clocks(s)
  BY <1>1 DEF Memories, Sockets, Clocks
<1> HIDE DEF u
<1>5. u.net[o] = "reset"
  BY <1>1, <1>3 DEF Memories
<1>6. /\ u.live = s.live /\ u.fd = s.fd /\ u.connected = s.connected /\ u.bind = s.bind /\ u.mon = s.mon
      /\ u.reg = s.reg /\ u.ev = s.ev /\ u.ready = s.ready /\ u.timers = s.timers
  BY <1>4 DEF Sockets, Clocks
<1>7. CASE t = s
  BY <1>7, BearsSame
<1>8. CASE t = Wake(u, o) /\ s.net[o] \in {"up", "eof"}
  <2>1. /\ t.fd = u.fd /\ t.connected = u.connected /\ t.bind = u.bind /\ t.mon = u.mon /\ t.reg = u.reg
        /\ t.ev = u.ev /\ u.ready \subseteq t.ready /\ t.net = u.net /\ t.timers = u.timers
        /\ o \in u.reg /\ Reported(u, o) # {} => o \in t.ready
    BY <1>3, <1>8, WakeIs DEF Net, Clocks
  <2>2. "ERR" \in Reported(u, o)
    BY <1>5 DEF Reported, Level
  <2>3. Kin(s, t)
    <3>1. Kin(u, t)
      BY <1>3, <1>8, WakeFit
    <3>2. \A q \in Stream : u.net[q] # "none" => s.net[q] # "none"
      BY <1>1, <1>3, <1>8 DEF Memories, Stream
    <3>3. Kin(s, u)
      BY <1>3, <1>6, <3>2 DEF Kin
    <3> QED
      BY <3>1, <3>3, KinOn
  <2>4. ASSUME NEW errs, Open(s, o, errs)
        PROVE  Open(t, o, errs) /\ (Watched(s, o) => Watched(t, o))
    BY <1>5, <1>6, <1>8, <2>1, <2>2, <2>4 DEF Open, Linked, Watched, Redials
  <2>5. Bears(s, t, o)
    BY <1>1, <1>6, <2>1, <2>3, <2>4 DEF Bears
  <2> QED
    BY <1>5, <1>8, <2>1, <2>5
<1> QED
  BY <1>2, <1>7, <1>8

(* What is appended to an empty buffer while room is awaited is exempt.    *)
LEMMA AppendedBears ==
    ASSUME NEW s, NEW X, Sound(s, X), NEW o \in Obj, Present(s, o), NEW n \in Nat
    PROVE  LET t == Appended(s, o, n)
           IN  /\ Bears(s, t, o) /\ t.net = s.net /\ t.wire = s.wire /\ t.full = s.full /\ t.mon = s.mon
               /\ t.ready = s.ready
               /\ t.sbuf[o] = <<>> => s.sbuf[o] = <<>>
               /\ "OUT" \in s.mon[o] /\ s.sbuf[o] = <<>> => "overlooked" \in t.met
<1> DEFINE t == Appended(s, o, n)
           u == IF "OUT" \in s.mon[o] /\ s.sbuf[o] = <<>> THEN Met(s, "overlooked") ELSE s
           new == [i \in 1 .. n |-> s.made[o] + i]
<1>1. s \in Memories /\ Goes(s, t, o)
  BY AppendedSpared DEF Sound, Spared
<1>2. Sockets(t) = Sockets(s) /\ Clocks(t) = Clocks(s)
  BY <1>1, AppendedIs
<1>3. /\ u \in Memories /\ Net(u) = Net(s) /\ Data(u) = Data(s) /\ u.role = s.role
      /\ "OUT" \in s.mon[o] /\ s.sbuf[o] = <<>> => "overlooked" \in u.met
  <2>1. "overlooked" \in Reasons
    BY DEF Reasons
  <2>2. Met(s, "overlooked").role = s.role
    BY <1>1 DEF Memories, Met
  <2> QED
    BY <1>1, <2>1, <2>2, MetIs
<1>4. t = [u EXCEPT !.sbuf[o] = @ \o new, !.made[o] = @ + n]
  BY DEF Appended
<1> HIDE DEF u, t
<1>5. t.role = u.role /\ Net(t) = Net(u) /\ t.met = u.met /\ t.wire = u.wire /\ t.sbuf = [u.sbuf EXCEPT ![o] = @ \o new]
  BY <1>3, <1>4 DEF Memories, Net
<1>6. u.sbuf = s.sbuf /\ u.wire = s.wire
  BY <1>3 DEF Data
<1>7. s.sbuf \in [Obj -> Seq(Nat)] /\ s.sbuf[o] \in Seq(Nat) /\ new \in Seq(Nat)
  BY <1>1 DEF Memories
<1> HIDE DEF new
<1>8. t.sbuf[o] = <<>> => s.sbuf[o] = <<>>
  <2>1. t.sbuf[o] = s.sbuf[o] \o new
    BY <1>5, <1>6, <1>7
  <2>2. Len(t.sbuf[o]) = Len(s.sbuf[o]) + Len(new)
    BY <1>7, <2>1, NatsJoined
  <2> QED
    BY <1>7, <2>2
<1>9. t.net = s.net /\ t.full = s.full
  BY <1>3, <1>5 DEF Net
<1>10. t.live = s.live /\ t.fd = s.fd /\ t.mon = s.mon /\ t.ready = s.ready
  BY <1>2 DEF Sockets
<1>11. Kin(s, t)
  BY <1>3, <1>5, <1>10, KinIfSame
<1>12. Bears(s, t, o)
  BY <1>1, <1>2, <1>9, <1>11, BearsIf
<1> QED
  BY <1>3, <1>5, <1>6, <1>8, <1>9, <1>10, <1>12 DEF t

LEMMA AwaitRoomBears ==
    ASSUME NEW s, NEW X, Sound(s, X), NEW o \in Obj
    PROVE  LET t == AwaitRoom(s, o)
           IN  Bears(s, t, o) /\ (Filled(s, o) => Filled(t, o) /\ Awaits(t, o, {}))
<1> DEFINE t == AwaitRoom(s, o)
<1>1. s \in Memories
  BY DEF Sound
<1>2. /\ Kin(s, t) /\ t.touched = s.touched /\ t.met = s.met /\ t.live = s.live
      /\ t.net = s.net /\ t.wire = s.wire /\ t.sbuf = s.sbuf /\ t.full = s.full
      /\ t.connected = s.connected /\ s.ready \subseteq t.ready
      /\ "IN" \in t.mon[o] <=> "IN" \in s.mon[o]
      /\ s.sbuf[o] # <<>> <=> "OUT" \in t.mon[o]
      /\ \A errs : Linked(s, o, errs) /\ s.net[o] # "none" =>
            Linked(t, o, errs) /\ (Watched(s, o) => Watched(t, o))
  BY <1>1, AwaitRoomFit
<1>3. Goes(s, t, o)
  BY AwaitRoomSound
<1> HIDE DEF t
<1>4. Bears(s, t, o)
  BY <1>2, <1>3 DEF Bears, Open
<1>5. Filled(s, o) => Filled(t, o) /\ Awaits(t, o, {})
  BY <1>2 DEF Filled, Awaits, Sending
<1> QED
  BY <1>4, <1>5 DEF t

(* What the socket has not taken, it is full of.                           *)
LEMMA SendLoopBears ==
    ASSUME NEW s, NEW X, Sound(s, X), NEW o \in Obj, Present(s, o), NEW loop \in SendLoop(s, o)
    PROVE  /\ Bears(s, loop.s, o) /\ (Quiet(loop.s) => Filled(loop.s, o))
           /\ s.net[o] = "none" => loop.s = s /\ loop.then = "return"
           /\ Quiet(loop.s) /\ loop.then = "return" => loop.s = s /\ (s.sbuf[o] = <<>> \/ s.net[o] # "up")
<1>1. s \in Memories /\ s.sbuf[o] \in Seq(Nat) /\ s.full \in SUBSET Obj
  BY DEF Sound, Memories
<1>2. CASE s.sbuf[o] = <<>>
  <2>1. loop.s = s /\ loop.then = "return"
    BY <1>2 DEF SendLoop
  <2> QED
    BY <1>2, <2>1, BearsSame DEF Filled
<1>3. CASE s.sbuf[o] # <<>>
  <2>1. PICK c \in Sent(s, o) :
           loop = CASE c.after = "ECONNRESET" -> [s |-> Close(Met(s, "send reset"), o), then |-> "return"]
                    [] c.after = "other" -> [s |-> s, then |-> "return"]
                    [] OTHER -> [s |-> [Flush(s, o, c.n) EXCEPT !.full = IF c.after = "EAGAIN" THEN @ \cup {o} ELSE @],
                                 then |-> IF c.n = 0 THEN "rest" ELSE "callback"]
    BY <1>3 DEF SendLoop
  <2>2. CASE c.after = "ECONNRESET"
    <3>1. loop.s = Close(Met(s, "send reset"), o)
      BY <2>1, <2>2
    <3>2. s.net[o] # "none"
      BY <2>2 DEF Sent
    <3> QED
      BY <3>1, <3>2, ClosedBears
  <2>3. CASE c.after = "other"
    <3>1. loop.s = s /\ loop.then = "return"
      BY <2>1, <2>3
    <3>2. s.net[o] # "up"
      BY <2>3 DEF Sent
    <3> QED
      BY <3>1, <3>2, BearsSame DEF Filled, Sending
  <2>4. CASE c.after # "ECONNRESET" /\ c.after # "other"
    <3> DEFINE full == IF c.after = "EAGAIN" THEN s.full \cup {o} ELSE s.full
               v == Taken(s, o, c.n, full)
    <3>1. c.n \in 0 .. Len(s.sbuf[o]) /\ (c.n # Len(s.sbuf[o]) => c.after = "EAGAIN") /\ s.net[o] # "none"
      BY <1>1, <1>3, <2>4 DEF Sent
    <3>2. full \in SUBSET Obj /\ (c.n # Len(s.sbuf[o]) => o \in full)
      BY <1>1, <3>1
    <3>3. [Flush(s, o, c.n) EXCEPT !.full = IF c.after = "EAGAIN" THEN @ \cup {o} ELSE @] = v
      BY <1>1 DEF Taken, Flush, Memories
    <3> HIDE DEF full
    <3>4. loop.s = v /\ loop.then # "return"
      BY <2>1, <2>4, <3>3
    <3>5. Sockets(v) = Sockets(s) /\ Clocks(v) = Clocks(s)
      BY <1>1, <3>1, <3>2, TakenIs
    <3>6. /\ v.net = s.net /\ v.full = full /\ Kin(s, v)
          /\ c.n = Len(s.sbuf[o]) => v.sbuf[o] = <<>>
      BY <1>1, <3>1, <3>2, TakenNet
    <3> HIDE DEF v
    <3>7. Goes(s, v, o)
      BY <3>4, SendLoopSpared DEF Spared
    <3>8. Bears(s, v, o)
      BY <3>5, <3>6, <3>7, BearsIf
    <3>9. Filled(v, o)
      BY <3>2, <3>6 DEF Filled
    <3> QED
      BY <3>1, <3>4, <3>8, <3>9
  <2> QED
    BY <2>2, <2>3, <2>4
<1> QED
  BY <1>2, <1>3

LEMMA ReturnedBears ==
    ASSUME NEW s, NEW X, NEW o \in Obj, NEW T,
           \A t \in T : Spared(s, t, X, o) /\ Bears(s, t, o) /\ (Quiet(t) => Filled(t, o)),
           NEW v \in Returned(T, o)
    PROVE  Bears(s, v, o) /\ (Quiet(v) => Filled(v, o))
<1>1. PICK w \in T \cup {Close(Met(Touch(u, o, "do_send"), "send refused"), o) : u \in T} :
         v = Touch(w, o, "do_send")
  BY DEF Returned
<1>2. /\ Sound(w, X) /\ Unless(w, o) /\ Bears(s, w, o) /\ (Quiet(w) => Filled(w, o))
  <2>1. ASSUME NEW u \in T, w = Close(Met(Touch(u, o, "do_send"), "send refused"), o)
        PROVE  Sound(w, X) /\ Unless(w, o) /\ Bears(s, w, o) /\ ~Quiet(w)
    <3> DEFINE x == Touch(u, o, "do_send")
    <3>1. Bears(s, u, o) /\ Sound(u, X) /\ Unless(u, o)
      BY <2>1 DEF Spared
    <3>2. Spared(u, x, X, o) /\ Present(x, o) /\ Bears(u, x, o)
      BY <3>1, TouchSpared, TouchBears
    <3>3. w = Close(Met(x, "send refused"), o)
      BY <2>1
    <3> HIDE DEF x
    <3>4. Spared(x, w, X, o) /\ Bears(x, w, o) /\ ~Quiet(w)
      BY <3>2, <3>3, CloseSpared, ClosedBears DEF Spared
    <3> QED
      BY <3>1, <3>2, <3>4, BearsOn DEF Spared
  <2> QED
    BY <1>1, <2>1 DEF Spared
<1>3. Bears(w, v, o) /\ (Quiet(v) => v = w)
  BY <1>1, <1>2, TouchBears
<1> QED
  BY <1>2, <1>3, BearsOn

LEMMA DoSendAgainBears ==
    ASSUME NEW s, NEW X, Sound(s, X), NEW o \in Obj, Present(s, o), NEW t \in DoSendAgain(s, o)
    PROVE  Bears(s, t, o) /\ (Quiet(t) => Filled(t, o))
<1>1. PICK loop \in SendLoop(s, o) :
         t \in CASE loop.then = "return" -> {loop.s}
                 [] loop.then = "rest" -> {AwaitRoom(loop.s, o)}
                 [] OTHER -> {AwaitRoom(u, o) : u \in Returned({loop.s, CloseOwn(loop.s, o)}, o)}
  BY DEF DoSendAgain
<1>2. /\ Sound(loop.s, X) /\ (loop.then # "return" => Present(loop.s, o))
      /\ Bears(s, loop.s, o) /\ (Quiet(loop.s) => Filled(loop.s, o))
  BY SendLoopSpared, SendLoopBears DEF Spared
<1>3. CASE loop.then = "return"
  BY <1>1, <1>2, <1>3
<1>4. ASSUME NEW u, Sound(u, X), Bears(loop.s, u, o), Quiet(u) => Filled(u, o), t = AwaitRoom(u, o)
      PROVE  Bears(s, t, o) /\ (Quiet(t) => Filled(t, o))
  <2>1. Bears(u, t, o) /\ (Filled(u, o) => Filled(t, o))
    BY <1>4, AwaitRoomBears
  <2>2. Quiet(t) => Quiet(u)
    BY <2>1, QuietBefore DEF Bears
  <2> QED
    BY <1>2, <1>4, <2>1, <2>2, BearsOn
<1>5. CASE loop.then = "rest"
  BY <1>1, <1>2, <1>4, <1>5, BearsSame
<1>6. CASE loop.then # "return" /\ loop.then # "rest"
  <2>1. PICK u \in Returned({loop.s, CloseOwn(loop.s, o)}, o) : t = AwaitRoom(u, o)
    BY <1>1, <1>6
  <2>2. \A w \in {loop.s, CloseOwn(loop.s, o)} :
           Spared(loop.s, w, X, o) /\ Bears(loop.s, w, o) /\ (Quiet(w) => Filled(w, o))
    BY <1>2, <1>6, SparedSame, BearsSame, CloseOwnSpared, CloseOwnBears
  <2>3. Spared(loop.s, u, X, o) /\ Bears(loop.s, u, o) /\ (Quiet(u) => Filled(u, o))
    BY <2>2, ReturnedSpared, ReturnedBears
  <2> QED
    BY <1>4, <2>1, <2>3 DEF Spared
<1> QED
  BY <1>3, <1>5, <1>6

LEMMA AsyncSendAgainBears ==
    ASSUME NEW s, NEW X, Sound(s, X), NEW o \in Obj, Present(s, o), NEW n \in Nat,
           NEW t \in AsyncSendAgain(s, o, n)
    PROVE  Bears(s, t, o) /\ (Quiet(t) /\ Filled(s, o) => Filled(t, o))
<1> DEFINE u == Appended(s, o, n)
<1>1. /\ Sound(u, X) /\ Present(u, o) /\ Bears(s, u, o) /\ Goes(s, u, o)
      /\ u.net = s.net /\ u.wire = s.wire /\ u.full = s.full
      /\ "OUT" \in s.mon[o] /\ s.sbuf[o] = <<>> => "overlooked" \in u.met
  BY AppendedSpared, AppendedBears DEF Spared
<1>2. IF "OUT" \in s.mon[o] THEN t = u ELSE t \in DoSendAgain(u, o)
  BY DEF AsyncSendAgain
<1> HIDE DEF u
<1>3. CASE "OUT" \in s.mon[o]
  BY <1>1, <1>2, <1>3 DEF Filled, Sending, Goes
<1>4. CASE "OUT" \notin s.mon[o]
  <2>1. Bears(u, t, o) /\ (Quiet(t) => Filled(t, o))
    BY <1>1, <1>2, <1>4, DoSendAgainBears
  <2> QED
    BY <1>1, <2>1, BearsOn
<1> QED
  BY <1>3, <1>4

LEMMA SendCallbackBears ==
    ASSUME NEW s, NEW X, Sound(s, X), NEW o \in Obj, Present(s, o), Quiet(s) => Filled(s, o),
           NEW t \in SendCallback(s, o)
    PROVE  Bears(s, t, o) /\ (Quiet(t) => Filled(t, o))
<1> DEFINE sent == UNION {AsyncSendAgain(u, o, n) : u \in Meanwhile(s, o), n \in 1 .. MaxUnits - s.made[o]}
<1>1. ASSUME NEW v \in sent PROVE Spared(s, v, X, o) /\ Bears(s, v, o) /\ (Quiet(v) => Filled(v, o))
  <2>1. PICK u \in Meanwhile(s, o), n \in 1 .. MaxUnits - s.made[o] : v \in AsyncSendAgain(u, o, n)
    BY <1>1
  <2> HIDE DEF sent
  <2>2. Spared(s, u, X, o) /\ Present(u, o) /\ Sound(u, X) /\ Bears(s, u, o) /\ (u = s \/ u.net[o] = "reset")
    BY <2>1, MeanwhileSpared, MeanwhileBears DEF Spared
  <2>3. n \in Nat
    BY <2>1, UnitsAre DEF Sound
  <2>4. Spared(u, v, X, o) /\ Bears(u, v, o) /\ (Quiet(v) /\ Filled(u, o) => Filled(v, o))
    BY <2>1, <2>2, <2>3, AsyncSendAgainSpared, AsyncSendAgainBears
  <2>5. Quiet(v) => Quiet(u) /\ Quiet(s)
    BY <2>2, <2>4, QuietBefore DEF Bears
  <2>6. Quiet(v) => Filled(u, o)
    <3>1. CASE u = s
      BY <2>5, <3>1
    <3>2. CASE u.net[o] = "reset"
      BY <3>2 DEF Filled, Sending
    <3> QED
      BY <2>2, <3>1, <3>2
  <2> QED
    BY <2>2, <2>4, <2>6, SparedOn, BearsOn
<1>2. t \in Returned({s, CloseOwn(s, o)} \cup sent, o)
  BY DEF SendCallback
<1>3. \A u \in {s, CloseOwn(s, o)} : Spared(s, u, X, o) /\ Bears(s, u, o) /\ (Quiet(u) => Filled(u, o))
  BY SparedSame, BearsSame, CloseOwnSpared, CloseOwnBears
<1> HIDE DEF sent
<1>4. \A u \in {s, CloseOwn(s, o)} \cup sent : Spared(s, u, X, o) /\ Bears(s, u, o) /\ (Quiet(u) => Filled(u, o))
  BY <1>1, <1>3
<1> QED
  BY <1>2, <1>4, ReturnedBears

(* What do_send leaves: room is awaited for what the socket did not take.  *)
LEMMA DoSendFit ==
    ASSUME NEW s, NEW X, Sound(s, X), NEW o \in Obj, Present(s, o), NEW t \in DoSend(s, o)
    PROVE  /\ Bears(s, t, o)
           /\ s.net[o] = "none" => t = s
           /\ Quiet(t) /\ (s.sbuf[o] = <<>> => Awaits(s, o, {})) => Awaits(t, o, {})
<1>1. PICK loop \in SendLoop(s, o) :
         t \in CASE loop.then = "return" -> {loop.s}
                 [] loop.then = "rest" -> {AwaitRoom(loop.s, o)}
                 [] OTHER -> {AwaitRoom(u, o) : u \in SendCallback(loop.s, o)}
  BY DEF DoSend
<1>2. /\ Sound(loop.s, X) /\ (loop.then # "return" => Present(loop.s, o))
      /\ Bears(s, loop.s, o) /\ (Quiet(loop.s) => Filled(loop.s, o))
      /\ s.net[o] = "none" => loop.s = s /\ loop.then = "return"
      /\ Quiet(loop.s) /\ loop.then = "return" => loop.s = s /\ (s.sbuf[o] = <<>> \/ s.net[o] # "up")
  BY SendLoopSpared, SendLoopBears DEF Spared
<1>3. CASE loop.then = "return"
  BY <1>1, <1>2, <1>3 DEF Awaits, Sending
<1>4. ASSUME NEW u, Sound(u, X), Bears(loop.s, u, o), Quiet(u) => Filled(u, o), t = AwaitRoom(u, o)
      PROVE  Bears(s, t, o) /\ (Quiet(t) => Awaits(t, o, {}))
  <2>1. Bears(u, t, o) /\ (Filled(u, o) => Awaits(t, o, {}))
    BY <1>4, AwaitRoomBears
  <2>2. Quiet(t) => Quiet(u)
    BY <2>1, QuietBefore DEF Bears
  <2> QED
    BY <1>2, <1>4, <2>1, <2>2, BearsOn
<1>5. CASE loop.then = "rest"
  <2>1. t = AwaitRoom(loop.s, o)
    BY <1>1, <1>5
  <2> QED
    BY <1>2, <1>4, <1>5, <2>1, BearsSame
<1>6. CASE loop.then # "return" /\ loop.then # "rest"
  <2>1. PICK u \in SendCallback(loop.s, o) : t = AwaitRoom(u, o)
    BY <1>1, <1>6
  <2>2. Spared(loop.s, u, X, o) /\ Bears(loop.s, u, o) /\ (Quiet(u) => Filled(u, o))
    BY <1>2, <1>6, SendCallbackSpared, SendCallbackBears
  <2> QED
    BY <1>2, <1>4, <1>6, <2>1, <2>2 DEF Spared
<1> QED
  BY <1>3, <1>5, <1>6

(* async_send leaves it to the edge when room is awaited already.          *)
LEMMA AsyncSendFit ==
    ASSUME NEW s, NEW X, Sound(s, X), NEW o \in Obj, Present(s, o), NEW n \in Nat,
           NEW t \in AsyncSend(s, o, n)
    PROVE  Bears(s, t, o) /\ \A outs : Quiet(t) /\ Awaits(s, o, outs) => Awaits(t, o, outs)
<1> DEFINE u == Appended(s, o, n)
<1>1. /\ Sound(u, X) /\ Present(u, o) /\ Bears(s, u, o) /\ Goes(s, u, o)
      /\ u.net = s.net /\ u.wire = s.wire /\ u.full = s.full /\ u.mon = s.mon /\ u.ready = s.ready
      /\ u.sbuf[o] = <<>> => s.sbuf[o] = <<>>
      /\ "OUT" \in s.mon[o] /\ s.sbuf[o] = <<>> => "overlooked" \in u.met
  BY AppendedSpared, AppendedBears DEF Spared
<1>2. IF "OUT" \in s.mon[o] THEN t = u ELSE t \in DoSend(u, o)
  BY DEF AsyncSend
<1> HIDE DEF u
<1>3. CASE "OUT" \in s.mon[o]
  <2>1. ASSUME NEW outs, Awaits(s, o, outs)
        PROVE  Awaits(u, o, outs)
    <3>1. s.met \subseteq u.met
      BY <1>1 DEF Goes
    <3> QED
      BY <1>1, <1>3, <2>1, <3>1 DEF Awaits, Sending
  <2> QED
    BY <1>1, <1>2, <1>3, <2>1
<1>4. CASE "OUT" \notin s.mon[o]
  <2>1. /\ Bears(u, t, o)
        /\ Quiet(t) /\ (u.sbuf[o] = <<>> => Awaits(u, o, {})) => Awaits(t, o, {})
    BY <1>1, <1>2, <1>4, DoSendFit
  <2>2. u.sbuf[o] = <<>> => Awaits(u, o, {})
    BY <1>1, <1>4 DEF Awaits
  <2>3. \A outs : Awaits(t, o, {}) => Awaits(t, o, outs)
    BY DEF Awaits
  <2> QED
    BY <1>1, <2>1, <2>2, <2>3, BearsOn
<1> QED
  BY <1>3, <1>4

LEMMA SendsFit ==
    ASSUME NEW s, NEW X, Sound(s, X), NEW o \in Obj, Present(s, o), NEW t \in Sends(s, o)
    PROVE  Bears(s, t, o) /\ \A outs : Quiet(t) /\ Awaits(s, o, outs) => Awaits(t, o, outs)
<1>1. PICK u \in Meanwhile(s, o), n \in 1 .. MaxUnits - s.made[o] : t \in AsyncSend(u, o, n)
  BY DEF Sends
<1>2. Sound(u, X) /\ Present(u, o) /\ Bears(s, u, o) /\ (u = s \/ u.net[o] = "reset")
  BY <1>1, MeanwhileSpared, MeanwhileBears DEF Spared
<1>3. n \in Nat
  BY <1>1, UnitsAre DEF Sound
<1>4. Bears(u, t, o) /\ \A outs : Quiet(t) /\ Awaits(u, o, outs) => Awaits(t, o, outs)
  BY <1>1, <1>2, <1>3, AsyncSendFit
<1>5. \A outs : Awaits(s, o, outs) => Awaits(u, o, outs)
  BY <1>2 DEF Awaits, Sending
<1> QED
  BY <1>2, <1>4, <1>5, BearsOn
----------------------------------------------------------------------------
(* Receiving.                                                              *)
LEMMA AsyncRecvFit ==
    ASSUME NEW s, NEW X, Sound(s, X), NEW o \in Stream, s.touched = {} => o \in s.live,
           o \in s.connected \/ "rearmed" \in s.met
    PROVE  LET t == AsyncRecv(s, o)
           IN  /\ Kin(s, t)
               /\ \A outs, errs : /\ Quiet(s) /\ Open(s, o, errs) /\ Awaits(s, o, outs)
                                  /\ "IN" \in s.mon[o] => Watched(s, o)
                                  => Serving(t, o, outs, errs)
<1> DEFINE events == s.mon[o] \cup {"IN"}
           v == DoMonitorEvents(s, o, events)
           u == IF "IN" \in s.mon[o] THEN s ELSE v
           Y == X \cup {o}
<1>1. o \in Obj /\ s \in Memories /\ s.mon[o] \in SUBSET {"IN", "OUT"}
  BY DEF Sound, Memories, Stream
<1>2. events \in SUBSET {"IN", "OUT"} /\ ("OUT" \in events <=> "OUT" \in s.mon[o])
  BY <1>1
<1>3. AsyncRecv(s, o) = StartTimer(u, o)
  BY DEF AsyncRecv
<1> HIDE DEF events
<1>4. CASE "IN" \in s.mon[o]
  <2>1. u = s
    BY <1>4
  <2>2. Kin(s, StartTimer(s, o)) /\ (Quiet(s) => Same(s, StartTimer(s, o), o))
    BY StartTimerFit
  <2>3. \A outs, errs : /\ Quiet(s) /\ Open(s, o, errs) /\ Awaits(s, o, outs)
                        /\ "IN" \in s.mon[o] => Watched(s, o)
                        => Serving(StartTimer(s, o), o, outs, errs)
    BY <1>4, <2>2, SameServing DEF Serving
  <2> QED
    BY <1>3, <2>1, <2>2, <2>3
<1>5. CASE "IN" \notin s.mon[o]
  <2>1. u = v
    BY <1>5
  <2>2. Sound(v, Y)
    <3>1. X \subseteq Y /\ o \in Y
      OBVIOUS
    <3> HIDE DEF Y
    <3>2. "IN" \notin events \/ "IN" \in s.mon[o] \/ (o \in Y /\ (o \in s.connected \/ "rearmed" \in s.met))
      BY <3>1
    <3>3. X \subseteq Y /\ o \in Obj /\ events \in SUBSET {"IN", "OUT"}
      BY <1>1, <1>2, <3>1
    <3>4. LET t == DoMonitorEvents(s, o, events)
          IN  /\ Sound(t, Y) /\ (\A p : Goes(s, t, p)) /\ t.live = s.live
              /\ t.touched = s.touched /\ t.met = s.met
      BY <3>2, <3>3, DoMonitorEventsSound
    <3> QED
      BY <3>4
  <2>3. /\ Kin(s, v) /\ v.touched = s.touched /\ v.met = s.met
        /\ v.net = s.net /\ v.wire = s.wire /\ v.sbuf = s.sbuf /\ v.full = s.full
        /\ v.connected = s.connected /\ v.mon[o] = events /\ s.ready \subseteq v.ready
        /\ \A errs : Linked(s, o, errs) /\ s.net[o] # "none" => Linked(v, o, errs) /\ Watched(v, o)
    BY <1>1, <1>2, DoMonitorEventsFit
  <2> HIDE DEF v, Y
  <2>4. Kin(v, StartTimer(v, o)) /\ (Quiet(v) => Same(v, StartTimer(v, o), o))
    BY <2>2, StartTimerFit
  <2>5. ASSUME NEW outs, NEW errs, Quiet(s), Open(s, o, errs), Awaits(s, o, outs)
        PROVE  Serving(StartTimer(v, o), o, outs, errs)
    <3>1. Quiet(v)
      BY <2>3, <2>5 DEF Quiet
    <3>2. Open(v, o, errs) /\ Watched(v, o)
      BY <2>3, <2>5 DEF Open
    <3>3. Awaits(v, o, outs)
      BY <1>2, <2>3, <2>5 DEF Awaits, Sending
    <3> QED
      BY <2>4, <3>1, <3>2, <3>3, SameServing DEF Serving
  <2>6. Kin(s, StartTimer(v, o))
    BY <2>3, <2>4, KinOn
  <2> QED
    BY <1>3, <2>1, <2>5, <2>6
<1> QED
  BY <1>4, <1>5

LEMMA ReadFit ==
    ASSUME NEW s \in Memories, NEW o \in Obj, NEW p
    PROVE  LET t == Read(s, o) IN t \in Memories /\ Kin(s, t) /\ Same(s, t, p) /\ (Waits(t, p) => Waits(s, p))
<1> DEFINE t == Read(s, o)
<1>1. t \in Memories
  BY DEF Memories, Read
<1>2. /\ t.reconnect = s.reconnect /\ t.role = s.role /\ t.net = s.net /\ t.full = s.full
      /\ t.unread = s.unread \ {o} /\ t.met = s.met
  BY DEF Memories, Read
<1>3. Sockets(t) = Sockets(s)
  BY DEF Memories, Read, Sockets
<1>4. Clocks(t) = Clocks(s) /\ Data(t) = Data(s)
  BY DEF Memories, Read, Clocks, Data
<1> HIDE DEF t
<1>5. Kin(s, t)
  BY <1>2, <1>3 DEF Kin, Sockets
<1>6. Same(s, t, p) /\ (Waits(t, p) => Waits(s, p))
  BY <1>2, <1>3, <1>4 DEF Same, Sockets, Clocks, Data, Redials, Waits
<1> QED
  BY <1>1, <1>5, <1>6 DEF t

LEMMA SendsServing ==
    ASSUME NEW s, NEW X, Sound(s, X), NEW o \in Obj, Present(s, o),
           NEW t \in {s, CloseOwn(s, o)} \cup Sends(s, o)
    PROVE  /\ Kin(s, t)
           /\ \A outs, errs : Quiet(t) /\ Serving(s, o, outs, errs) => Serving(t, o, outs, errs)
<1>1. CASE t = s
  BY <1>1, KinIfSame
<1>2. CASE t = CloseOwn(s, o)
  BY <1>2, CloseOwnBears DEF Bears
<1>3. CASE t \in Sends(s, o)
  <2>1. Bears(s, t, o) /\ \A outs : Quiet(t) /\ Awaits(s, o, outs) => Awaits(t, o, outs)
    BY <1>3, SendsFit
  <2> QED
    BY <2>1 DEF Bears, Serving
<1> QED
  BY <1>1, <1>2, <1>3

LEMMA RecvCallbackFit ==
    ASSUME NEW s, NEW X, Sound(s, X), NEW o \in Stream, o \in s.live,
           NEW c \in RecvCallback(s, o)
    PROVE  /\ Kin(s, c.s)
           /\ \A outs, errs : Quiet(c.s) /\ Serving(s, o, outs, errs) => Serving(c.s, o, outs, errs)
<1>1. CASE c.s \in {s, CloseOwn(s, o)} \cup Sends(s, o)
  <2>1. o \in Obj /\ Present(s, o)
    BY DEF Stream, Present, Unless
  <2> QED
    BY <1>1, <2>1, SendsServing
<1>2. CASE o = "accepted" /\ "acceptor" \in s.live /\ c.s = Close(Met(s, "closed another"), "acceptor")
  <2> DEFINE u == Met(s, "closed another")
             t == c.s
  <2>1. "closed another" \in Reasons /\ s \in Memories /\ "acceptor" \in Obj /\ "acceptor" # o
    BY <1>2 DEF Reasons, Sound, Obj
  <2>2. /\ Sound(u, X) /\ Kin(s, u) /\ Same(s, u, o) /\ u.live = s.live
    BY <2>1, MetSound, MetIs, MetFit DEF Sockets
  <2> HIDE DEF u
  <2>3. t = CloseConnection(u, "acceptor", TRUE) /\ t = Close(u, "acceptor")
    BY <1>2 DEF u, Close
  <2>4. Kin(u, t)
    BY <2>1, <2>2, <2>3, CloseKin DEF Sound
  <2>5. Quiet(t) => Quiet(u)
    <3>1. Goes(u, Close(u, "acceptor"), "acceptor")
      BY <1>2, <2>1, <2>2, CloseSound
    <3> QED
      BY <2>3, <3>1, QuietBefore
  <2>6. Quiet(u) => Same(u, t, o)
    BY <2>1, <2>2, <2>3, CloseOther
  <2>7. Kin(s, t)
    BY <2>2, <2>4, KinOn
  <2> QED
    BY <2>2, <2>5, <2>6, <2>7, SameServing
<1> QED
  BY <1>1, <1>2 DEF RecvCallback

(* After a read the connection is served on, or it is closed.              *)
LEMMA RecvEndFit ==
    ASSUME NEW s, NEW X, Sound(s, X), NEW o \in Stream, s.touched = {} => o \in s.live
    PROVE  LET t == RecvEnd(s, o)
           IN  /\ Kin(s, t)
               /\ \A outs, errs : Quiet(t) /\ Serving(s, o, outs, errs) => Closed(t, o) \/ Serving(t, o, outs, errs)
<1> DEFINE t == RecvEnd(s, o)
<1>1. o \in Obj /\ s \in Memories
  BY DEF Stream, Sound
<1>2. Quiet(t) => Quiet(s)
  BY RecvEndSound, QuietBefore
<1>3. CASE t = Close(s, o)
  <2>1. Kin(s, t)
    BY <1>1, <1>3, CloseKin
  <2>2. ASSUME NEW outs, NEW errs, Quiet(t), Serving(s, o, outs, errs)
        PROVE  Closed(t, o)
    BY <1>3, <2>2, CloseFit DEF Serving, Open, Linked
  <2> QED
    BY <2>1, <2>2
<1>4. CASE t = StartTimer(s, o)
  <2>1. Kin(s, t) /\ (Quiet(s) => Same(s, t, o))
    BY <1>4, StartTimerFit
  <2> HIDE DEF t
  <2> QED
    BY <1>2, <2>1, SameServing DEF t
<1>5. CASE t = StartTimer(Touch(Close(Met(s, "read error"), o), o, "do_recv"), o)
  <2> DEFINE w == Met(s, "read error")
             v == Close(w, o)
             u == Touch(v, o, "do_recv")
  <2>1. "read error" \in Reasons /\ "do_recv" \in Places /\ "read error" \in Causes["do_recv"]
    BY CausesAre DEF Reasons, Places
  <2>2. Sound(u, X \ {o}) /\ "read error" \in u.met /\ Goes(s, u, o) /\ (u.touched = {} => o \in u.live)
    BY <1>1, <2>1, CloseTouchSound, Zenon
  <2>3. w \in Memories /\ Kin(s, w) /\ Sound(w, X) /\ w.touched = s.touched /\ w.live = s.live
    BY <1>1, <2>1, MetIs, MetFit, MetSound DEF Sockets
  <2> HIDE DEF w
  <2>4. v \in Memories /\ Kin(w, v)
    BY <1>1, <2>3, CloseSound, CloseKin DEF Sound
  <2> HIDE DEF v
  <2>5. Kin(v, u)
    BY <2>1, <2>4, TouchFit
  <2> HIDE DEF u
  <2>6. t = StartTimer(u, o)
    BY <1>5 DEF u, v, w
  <2>7. Kin(u, t) /\ Goes(u, t, o)
    BY <2>2, <2>6, StartTimerFit, StartTimerSound
  <2>8. Kin(s, t)
    <3>1. Kin(s, v)
      BY <2>3, <2>4, KinOn
    <3>2. Kin(s, u)
      BY <2>5, <3>1, KinOn
    <3> QED
      BY <2>7, <3>2, KinOn
  <2>9. ~Quiet(t)
    BY <2>2, <2>7 DEF Goes, Quiet, Lasting
  <2> QED
    BY <2>8, <2>9
<1> QED
  BY <1>3, <1>4, <1>5 DEF RecvEnd

LEMMA DoRecvFit ==
    ASSUME NEW s, NEW X, Sound(s, X), NEW o \in Stream, o \in s.live,
           NEW t \in DoRecv(s, o)
    PROVE  /\ Kin(s, t)
           /\ \A outs, errs : Quiet(t) /\ Serving(s, o, outs, errs) => Closed(t, o) \/ Serving(t, o, outs, errs)
<1>1. o \in Obj /\ s \in Memories
  BY DEF Stream, Sound
<1>2. CASE t = RecvEnd(s, o)
  BY <1>2, RecvEndFit
<1> DEFINE u == Read(s, o)
<1>3. Sound(u, X) /\ u.live = s.live /\ u.touched = s.touched /\ Kin(s, u) /\ Same(s, u, o)
  BY <1>1, ReadSound, ReadFit
<1> HIDE DEF u
<1>4. ASSUME NEW c \in RecvCallback(u, o), c.keep,
             t \in {RecvEnd(Touch(c.s, o, "do_recv"), o), StartTimer(Touch(c.s, o, "do_recv"), o)}
      PROVE  /\ Kin(s, t)
             /\ \A outs, errs : Quiet(t) /\ Serving(s, o, outs, errs) => Closed(t, o) \/ Serving(t, o, outs, errs)
  <2> DEFINE v == Touch(c.s, o, "do_recv")
  <2>1. /\ Sound(c.s, X) /\ Unless(c.s, o) /\ Kin(u, c.s)
        /\ \A outs, errs : Quiet(c.s) /\ Serving(u, o, outs, errs) => Serving(c.s, o, outs, errs)
    BY <1>3, <1>4, RecvCallbackSound, RecvCallbackFit
  <2>2. "do_recv" \in Places /\ c.s \in Memories
    BY <2>1 DEF Places, Sound
  <2>3. Sound(v, X) /\ (v.touched = {} => o \in v.live)
    <3>1. o \in c.s.live \/ Causes["do_recv"] \cap c.s.met # {}
      BY <2>1, CausesAre DEF Unless
    <3> QED
      BY <2>1, <2>2, <3>1, TouchSound
  <2>4. Kin(c.s, v) /\ (Quiet(v) => v = c.s)
    BY <2>2, TouchFit
  <2>5. t \in {RecvEnd(v, o), StartTimer(v, o)}
    BY <1>4
  <2> HIDE DEF v
  <2>6. /\ Kin(v, t) /\ (Quiet(t) => Quiet(v))
        /\ \A outs, errs : Quiet(t) /\ Serving(v, o, outs, errs) => Closed(t, o) \/ Serving(t, o, outs, errs)
    <3>1. CASE t = RecvEnd(v, o)
      <4>1. Quiet(t) => Quiet(v)
        BY <2>3, <3>1, RecvEndSound, QuietBefore
      <4> QED
        BY <2>3, <3>1, <4>1, RecvEndFit
    <3>2. CASE t = StartTimer(v, o)
      <4>1. Quiet(t) => Quiet(v)
        BY <2>3, <3>2, StartTimerSound, QuietBefore
      <4>2. Kin(v, t) /\ (Quiet(v) => Same(v, t, o))
        BY <2>3, <3>2, StartTimerFit
      <4> QED
        BY <4>1, <4>2, SameServing
    <3> QED
      BY <2>5, <3>1, <3>2
  <2>7. Kin(s, t)
    <3>1. Kin(s, c.s)
      BY <1>3, <2>1, KinOn
    <3>2. Kin(s, v)
      BY <2>4, <3>1, KinOn
    <3> QED
      BY <2>6, <3>2, KinOn
  <2>8. ASSUME NEW outs, NEW errs, Quiet(t), Serving(s, o, outs, errs)
        PROVE  Closed(t, o) \/ Serving(t, o, outs, errs)
    <3>1. Serving(u, o, outs, errs)
      BY <1>3, <2>8, SameServing
    <3>2. Quiet(v) /\ v = c.s
      BY <2>4, <2>6, <2>8
    <3>3. Serving(v, o, outs, errs)
      BY <2>1, <3>1, <3>2
    <3> QED
      BY <2>6, <2>8, <3>3
  <2> QED
    BY <2>7, <2>8
<1>5. ASSUME NEW c \in RecvCallback(u, o), t = Close(Touch(c.s, o, "do_recv"), o)
      PROVE  /\ Kin(s, t)
             /\ \A outs, errs : Quiet(t) /\ Serving(s, o, outs, errs) => Closed(t, o) \/ Serving(t, o, outs, errs)
  <2> DEFINE v == Touch(c.s, o, "do_recv")
  <2>1. /\ Sound(c.s, X) /\ Unless(c.s, o) /\ Kin(u, c.s)
        /\ \A outs, errs : Quiet(c.s) /\ Serving(u, o, outs, errs) => Serving(c.s, o, outs, errs)
    BY <1>3, <1>5, RecvCallbackSound, RecvCallbackFit
  <2>2. Sound(v, X) /\ (v.touched = {} => o \in v.live) /\ Kin(c.s, v) /\ (Quiet(v) => v = c.s)
    BY <1>1, <2>1, TouchSpared, TouchBears DEF Spared, Present, Bears
  <2>3. t = Close(v, o)
    BY <1>5
  <2> HIDE DEF v
  <2>4. Kin(v, t) /\ (Quiet(t) => Quiet(v))
    BY <1>1, <2>2, <2>3, CloseKin, CloseSound, QuietBefore DEF Sound
  <2>5. ASSUME NEW outs, NEW errs, Quiet(t), Serving(s, o, outs, errs)
        PROVE  Closed(t, o)
    <3>1. Serving(u, o, outs, errs)
      BY <1>3, <2>5, SameServing
    <3>2. Serving(v, o, outs, errs)
      BY <2>1, <2>2, <2>4, <2>5, <3>1
    <3> QED
      BY <2>2, <2>3, <2>5, <3>2, CloseFit DEF Serving, Open, Linked
  <2>6. Kin(s, t)
    <3>1. Kin(s, c.s)
      BY <1>3, <2>1, KinOn
    <3> QED
      BY <2>2, <2>4, <3>1, KinOn
  <2> QED
    BY <2>5, <2>6
<1> QED
  BY <1>2, <1>4, <1>5 DEF DoRecv, Read, u

(* The application sends, perhaps, and asks for data.                      *)
LEMMA ConnectCallbackFit ==
    ASSUME NEW s, NEW X, Sound(s, X), s.touched = {} => "connector" \in s.live, Unless(s, "connector"),
           "connector" \in s.connected, NEW t \in ConnectCallback(s)
    PROVE  /\ Kin(s, t)
           /\ \A errs : /\ Quiet(t) /\ Open(s, "connector", errs) /\ Awaits(s, "connector", {})
                        /\ "IN" \notin s.mon["connector"]
                        => Serving(t, "connector", {}, errs)
<1> DEFINE o == "connector"
<1>1. o \in Obj /\ o \in Stream /\ "connect callback" \in Places /\ Present(s, o)
  BY DEF Stream, Obj, Places, Present
<1>2. PICK u \in {s} \cup Sends(s, o) : t = AsyncRecv(Touch(u, o, "connect callback"), o)
  BY DEF ConnectCallback
<1>3. /\ Sound(u, X) /\ Goes(s, u, o) /\ Unless(u, o) /\ Bears(s, u, o)
      /\ Quiet(u) /\ Awaits(s, o, {}) => Awaits(u, o, {})
  <2>1. Spared(s, u, X, o)
    BY <1>1, SparedSame, SendsSpared
  <2>2. Bears(s, u, o) /\ (Quiet(u) /\ Awaits(s, o, {}) => Awaits(u, o, {}))
    BY <1>1, BearsSame, SendsFit
  <2> QED
    BY <2>1, <2>2 DEF Spared
<1> DEFINE v == Touch(u, o, "connect callback")
<1>4. Sound(v, X) /\ Goes(u, v, o) /\ (v.touched = {} => o \in u.live) /\ v.live = u.live
  <2>1. o \in u.live \/ Causes["connect callback"] \cap u.met # {}
    BY <1>3, CausesAre DEF Unless
  <2> QED
    BY <1>1, <1>3, <2>1, TouchSound
<1>5. Kin(u, v) /\ (Quiet(v) => v = u)
  <2>1. u \in Memories
    BY <1>3 DEF Sound
  <2> QED
    BY <1>1, <2>1, TouchFit
<1>6. t = AsyncRecv(v, o)
  BY <1>2
<1>7. o \in v.connected
  BY <1>3, <1>4 DEF Goes
<1> HIDE DEF v
<1>8. /\ Kin(v, t)
      /\ \A outs, errs : /\ Quiet(v) /\ Open(v, o, errs) /\ Awaits(v, o, outs)
                         /\ "IN" \in v.mon[o] => Watched(v, o)
                         => Serving(t, o, outs, errs)
  BY <1>1, <1>4, <1>6, <1>7, AsyncRecvFit
<1>9. Quiet(t) => Quiet(v)
  BY <1>1, <1>4, <1>6, <1>7, AsyncRecvSound, QuietBefore
<1>10. Kin(s, t)
  <2>1. Kin(s, v)
    BY <1>3, <1>5, KinOn DEF Bears
  <2> QED
    BY <1>8, <2>1, KinOn
<1>11. ASSUME NEW errs, Quiet(t), Open(s, o, errs), Awaits(s, o, {}), "IN" \notin s.mon[o]
       PROVE  Serving(t, o, {}, errs)
  <2>1. Quiet(v) /\ v = u
    BY <1>5, <1>9, <1>11
  <2>2. Open(v, o, errs) /\ Awaits(v, o, {}) /\ "IN" \notin v.mon[o]
    BY <1>3, <1>11, <2>1 DEF Bears
  <2> QED
    BY <1>8, <2>1, <2>2
<1> QED
  BY <1>10, <1>11
----------------------------------------------------------------------------
(* async_connect.                                                          *)
LEMMA DialNet ==
    ASSUME NEW s \in Memories
    PROVE  LET t == Dial(s)
           IN  /\ t.role = s.role /\ t.net = [s.net EXCEPT !["connector"] = "none"]
               /\ t.unread = s.unread \ {"connector"} /\ Kin(s, t)
<1> DEFINE u == SocketClose(s, "connector")
           t == Dial(s)
<1>1. u \in Memories /\ "connector" \in Obj
  BY SocketCloseIs DEF Obj
<1>2. /\ u.role = s.role /\ u.net = [s.net EXCEPT !["connector"] = "none"]
      /\ u.unread = s.unread \ {"connector"}
  BY DEF SocketClose, Memories
<1> HIDE DEF u
<1>3. t.role = u.role /\ t.net = u.net /\ t.unread = u.unread
  BY <1>1 DEF Dial, Memories, u
<1>4. t.live = s.live /\ t.fd = s.fd \ {"connector"}
  BY DialIs
<1> HIDE DEF t
<1>5. \A q \in Stream : t.net[q] # "none" => q # "connector" /\ t.net[q] = s.net[q]
  BY <1>1, <1>2, <1>3 DEF Memories, Stream
<1>6. Kin(s, t)
  BY <1>2, <1>3, <1>4, <1>5 DEF Kin
<1> QED
  BY <1>2, <1>3, <1>6 DEF t

(* What is left for the new socket when nothing of the old one is.         *)
LEMMA DialFit ==
    ASSUME NEW s \in Memories, "connector" \notin s.bind, Redials(s) = {}, ~Waits(s, "connector")
    PROVE  LET t == Dial(s)
           IN  /\ t \in Memories /\ t.net["connector"] = "none" /\ "connector" \notin t.bind \cup t.reg
               /\ "connector" \notin t.connected /\ t.mon["connector"] = {} /\ t.wire["connector"] = <<>>
               /\ Redials(t) = {} /\ ~Waits(t, "connector")
<1> DEFINE t == Dial(s)
<1>1. /\ t \in Memories /\ t.connected = s.connected \ {"connector"} /\ t.bind = s.bind
      /\ t.mon = [s.mon EXCEPT !["connector"] = {}] /\ t.reg = s.reg \ {"connector"}
      /\ Clocks(t) = Clocks(s) /\ t.wire = [s.wire EXCEPT !["connector"] = <<>>]
  BY DialIs
<1>2. t.net = [s.net EXCEPT !["connector"] = "none"]
  BY DialNet
<1> HIDE DEF t
<1>3. "connector" \in Obj
  BY DEF Obj
<1>4. t.net["connector"] = "none"
  BY <1>2, <1>3 DEF Memories
<1>5. t.mon["connector"] = {}
  BY <1>1, <1>3 DEF Memories
<1>6. t.wire["connector"] = <<>>
  BY <1>1, <1>3 DEF Memories
<1>7. Redials(t) = {} /\ ~Waits(t, "connector")
  BY <1>1 DEF Clocks, Redials, Waits
<1> QED
  BY <1>1, <1>4, <1>5, <1>6, <1>7 DEF t

LEMMA OpenedFit ==
    ASSUME NEW s \in Memories
    PROVE  LET t == Opened(s)
           IN  /\ t \in Memories /\ Kin(s, t) /\ t.role = s.role
               /\ "connector" \in t.fd /\ t.reg = s.reg /\ t.bind = s.bind
               /\ t.connected = s.connected /\ t.mon = s.mon /\ t.net = s.net /\ t.wire = s.wire
               /\ t.live = s.live /\ t.unread = s.unread /\ t.timers = s.timers
<1> DEFINE t == Opened(s)
<1>1. t \in Memories
  BY DEF Memories, Opened, Obj
<1>2. /\ t.role = s.role /\ t.live = s.live /\ t.fd = s.fd \cup {"connector"} /\ Net(t) = Net(s)
  BY DEF Memories, Opened, Net
<1>3. t.reg = s.reg /\ t.bind = s.bind /\ t.connected = s.connected /\ t.mon = s.mon
  BY DEF Memories, Opened
<1>4. t.wire = s.wire /\ t.timers = s.timers
  BY DEF Memories, Opened
<1> HIDE DEF t
<1>5. Kin(s, t)
  BY <1>2, KinIfSame
<1> QED
  BY <1>1, <1>2, <1>3, <1>4, <1>5 DEF t, Net

LEMMA AnsweredFit ==
    ASSUME NEW s \in Memories, "connector" \in s.fd, NEW net \in Nets, NEW connected \in SUBSET Obj
    PROVE  LET t == Answered(s, net, connected)
           IN  /\ t \in Memories /\ Kin(s, t) /\ t.fd = s.fd /\ t.reg = s.reg /\ t.bind = s.bind
               /\ t.connected = connected /\ t.mon = s.mon /\ t.net["connector"] = net
               /\ t.wire = s.wire /\ t.timers = s.timers
<1> DEFINE t == Answered(s, net, connected)
<1>1. t \in Memories
  BY DEF Memories, Answered, Nets, Obj
<1>2. t.role = s.role /\ t.live = s.live /\ t.fd = s.fd /\ t.reg = s.reg /\ t.bind = s.bind
  BY DEF Memories, Answered
<1>3. t.connected = connected /\ t.mon = s.mon /\ t.wire = s.wire /\ t.timers = s.timers
  BY DEF Memories, Answered
<1>4. t.net = [s.net EXCEPT !["connector"] = net] /\ t.unread = s.unread
  BY DEF Memories, Answered
<1> HIDE DEF t
<1>5. t.net["connector"] = net /\ \A q \in Stream : q # "connector" => t.net[q] = s.net[q]
  BY <1>4 DEF Memories, Stream, Obj
<1>6. Kin(s, t)
  BY <1>2, <1>4, <1>5 DEF Kin
<1> QED
  BY <1>1, <1>2, <1>3, <1>5, <1>6 DEF t

(* A dial that goes out is calling, or it is answered at once.             *)
LEMMA DialSucceedsFit ==
    ASSUME NEW s, NEW X, Sound(s, X), "connector" \in s.live, "connector" \notin s.bind,
           Redials(s) = {}, ~Waits(s, "connector"), NEW t \in DialSucceeds(s)
    PROVE  Kin(s, t) /\ (Quiet(t) => Fit(t, "connector", {}, {}))
<1> DEFINE o == "connector"
           d == Dial(s)
           u == Opened(d)
<1>1. o \in Obj /\ {"OUT"} \in SUBSET {"IN", "OUT"} /\ s \in Memories
  BY DEF Obj, Sound
<1>2. Sound(d, X) /\ d.live = s.live /\ d.mon[o] = {} /\ Kin(s, d)
  BY <1>1, DialSound, DialNet
<1>3. /\ d \in Memories /\ d.net[o] = "none" /\ o \notin d.bind \cup d.reg /\ o \notin d.connected
      /\ d.wire[o] = <<>> /\ Redials(d) = {} /\ ~Waits(d, o)
  BY <1>1, DialFit
<1>4. DialSucceeds(s) = {DoMonitorEvents([u EXCEPT !.net[o] = "connecting"], o, {"OUT"})}
                        \cup ConnectCallback([u EXCEPT !.net[o] = "up", !.connected = @ \cup {o}])
  BY DEF DialSucceeds, Opened
<1> HIDE DEF d
<1>5. Sound(u, X) /\ u.live = d.live
  BY <1>2, OpenedSound
<1>6. /\ u \in Memories /\ Kin(d, u) /\ o \in u.fd /\ u.reg = d.reg /\ u.bind = d.bind
      /\ u.connected = d.connected /\ u.mon = d.mon /\ u.wire = d.wire /\ u.timers = d.timers
  BY <1>3, OpenedFit
<1> HIDE DEF u
<1>7. ASSUME NEW net \in {"connecting", "up"}, NEW connected \in SUBSET Obj
      PROVE  LET v == Answered(u, net, connected)
             IN  /\ v \in Memories /\ Kin(s, v) /\ v.mon[o] = {} /\ v.wire[o] = <<>> /\ v.net[o] = net
                 /\ v.connected = connected /\ v.timers = u.timers /\ Linked(v, o, {})
  <2> DEFINE v == Answered(u, net, connected)
  <2>1. net \in Nets
    BY DEF Nets
  <2>2. /\ v \in Memories /\ Kin(u, v) /\ v.fd = u.fd /\ v.reg = u.reg /\ v.bind = u.bind
        /\ v.connected = connected /\ v.mon = u.mon /\ v.net[o] = net
        /\ v.wire = u.wire /\ v.timers = u.timers
    BY <1>6, <2>1, AnsweredFit
  <2> HIDE DEF v
  <2>3. Redials(v) = {}
    BY <1>3, <1>6, <2>2 DEF Redials
  <2>4. Linked(v, o, {})
    BY <1>3, <1>6, <2>2, <2>3 DEF Linked
  <2>5. Kin(d, v)
    BY <1>6, <2>2, KinOn
  <2>6. Kin(s, v)
    BY <1>2, <2>5, KinOn
  <2> QED
    BY <1>2, <1>3, <1>6, <2>2, <2>4, <2>6 DEF v
<1>8. CASE t = DoMonitorEvents([u EXCEPT !.net[o] = "connecting"], o, {"OUT"})
  <2> DEFINE v == Answered(u, "connecting", u.connected)
  <2>1. [u EXCEPT !.net[o] = "connecting"] = v
    BY <1>6 DEF Answered, Memories
  <2>2. u.connected \in SUBSET Obj
    BY <1>6 DEF Memories
  <2>3. /\ v \in Memories /\ Kin(s, v) /\ v.mon[o] = {} /\ v.wire[o] = <<>> /\ v.net[o] = "connecting"
        /\ v.connected = u.connected /\ v.timers = u.timers /\ Linked(v, o, {})
    BY <1>7, <2>2
  <2>4. t = DoMonitorEvents(v, o, {"OUT"})
    BY <1>8, <2>1
  <2> HIDE DEF v
  <2>5. /\ Kin(v, t) /\ t.net = v.net /\ t.wire = v.wire /\ t.connected = v.connected /\ t.mon[o] = {"OUT"}
        /\ \A errs : Linked(v, o, errs) /\ v.net[o] # "none" => Linked(t, o, errs) /\ Watched(t, o)
    BY <1>1, <2>3, <2>4, DoMonitorEventsFit
  <2>6. Calling(t, o, {})
    <3>1. Clocks(t) = Clocks(v)
      BY <1>1, <2>3, <2>4, DoMonitorEventsIs
    <3>2. ~Waits(t, o)
      BY <1>3, <1>6, <2>3, <3>1 DEF Waits, Clocks
    <3> QED
      BY <1>3, <1>6, <2>3, <2>5, <3>2 DEF Calling
  <2>7. Kin(s, t)
    BY <2>3, <2>5, KinOn
  <2> QED
    BY <2>6, <2>7 DEF Fit
<1>9. CASE t \in ConnectCallback([u EXCEPT !.net[o] = "up", !.connected = @ \cup {o}])
  <2> DEFINE connected == u.connected \cup {o}
             v == Answered(u, "up", connected)
  <2>1. [u EXCEPT !.net[o] = "up", !.connected = @ \cup {o}] = v
    BY DEF Answered
  <2>2. connected \in SUBSET Obj /\ u.connected \subseteq connected /\ o \in connected /\ "up" \in Nets
    BY <1>1, <1>6 DEF Nets, Memories
  <2> HIDE DEF connected
  <2>3. Sound(v, X) /\ v.live = u.live /\ v.connected = connected
    BY <1>5, <2>2, AnsweredSound
  <2>4. /\ Kin(s, v) /\ v.mon[o] = {} /\ v.wire[o] = <<>> /\ v.net[o] = "up" /\ Linked(v, o, {})
    BY <1>7, <2>2
  <2>5. t \in ConnectCallback(v)
    BY <1>9, <2>1
  <2> HIDE DEF v
  <2>6. o \in v.live /\ Unless(v, o)
    BY <1>2, <1>5, <2>3 DEF Unless
  <2>7. /\ Kin(v, t)
        /\ \A errs : Quiet(t) /\ Open(v, o, errs) /\ Awaits(v, o, {}) /\ "IN" \notin v.mon[o]
                     => Serving(t, o, {}, errs)
    BY <2>2, <2>3, <2>5, <2>6, ConnectCallbackFit
  <2>8. Open(v, o, {}) /\ Awaits(v, o, {}) /\ "IN" \notin v.mon[o]
    BY <2>2, <2>3, <2>4 DEF Open, Awaits, Sending
  <2>9. Kin(s, t)
    BY <2>4, <2>7, KinOn
  <2> QED
    BY <2>7, <2>8, <2>9 DEF Fit
<1> QED
  BY <1>4, <1>8, <1>9

LEMMA DialFailsFit ==
    ASSUME NEW s \in Memories, "connector" \notin s.bind, Redials(s) = {}, ~Waits(s, "connector"),
           NEW t \in DialFails(s)
    PROVE  /\ t \in Memories /\ Kin(s, t) /\ t.net["connector"] = "none"
           /\ "connector" \notin t.reg \cup t.bind /\ Redials(t) = {} /\ ~Waits(t, "connector")
<1> DEFINE d == Dial(s)
           u == Opened(d)
<1>1. /\ d \in Memories /\ d.net["connector"] = "none" /\ "connector" \notin d.bind \cup d.reg
      /\ Redials(d) = {} /\ ~Waits(d, "connector") /\ Kin(s, d)
  BY DialFit, DialNet
<1>2. t = d \/ t = u
  BY DEF DialFails, Opened
<1> HIDE DEF d
<1>3. /\ u \in Memories /\ Kin(d, u) /\ u.reg = d.reg /\ u.bind = d.bind /\ u.net = d.net /\ u.timers = d.timers
  BY <1>1, OpenedFit
<1> HIDE DEF u
<1>4. Redials(u) = {} /\ ~Waits(u, "connector")
  BY <1>1, <1>3 DEF Redials, Waits
<1>5. Kin(s, u)
  BY <1>1, <1>3, KinOn
<1> QED
  BY <1>1, <1>2, <1>3, <1>4, <1>5
----------------------------------------------------------------------------
(* The events.                                                             *)
LEMMA UpFit ==
    ASSUME NEW s \in Memories
    PROVE  LET t == Up(s)
           IN  /\ t \in Memories /\ Kin(s, t)
               /\ \A errs : Calling(s, "connector", errs) /\ s.net["connector"] # "connecting" =>
                     Open(t, "connector", errs) /\ Awaits(t, "connector", {}) /\ "IN" \notin t.mon["connector"]
<1> DEFINE t == Up(s)
           o == "connector"
<1>1. s.mon \in [Obj -> SUBSET {"IN", "OUT"}] /\ o \in Obj
  BY DEF Memories, Obj
<1>2. t \in Memories
  BY <1>1 DEF Up, Memories
<1>3. /\ t.role = s.role /\ t.live = s.live /\ t.fd = s.fd /\ t.reg = s.reg /\ t.bind = s.bind
      /\ t.connected = s.connected \cup {o} /\ t.ready = s.ready
  BY DEF Memories, Up
<1>4. t.mon = [s.mon EXCEPT ![o] = {}] /\ t.wire = s.wire /\ t.timers = s.timers /\ Net(t) = Net(s)
  BY DEF Memories, Up, Net
<1> HIDE DEF t
<1>5. Kin(s, t)
  BY <1>3, <1>4, KinIfSame
<1>6. t.mon[o] = {} /\ Redials(t) = Redials(s) /\ t.net = s.net
  BY <1>1, <1>4 DEF Redials, Net
<1>7. ASSUME NEW errs, Calling(s, o, errs), s.net[o] # "connecting"
      PROVE  Open(t, o, errs) /\ Awaits(t, o, {})
  BY <1>3, <1>4, <1>6, <1>7 DEF Calling, Open, Linked, Awaits, Sending
<1> QED
  BY <1>2, <1>5, <1>6, <1>7 DEF t

(* A connect that has ended closes the connector or makes a connection.    *)
LEMMA OnConnectFit ==
    ASSUME NEW s, NEW X, Sound(s, X), "connector" \in s.live, "connector" \notin s.connected,
           NEW events, NEW t \in OnConnect(s, events)
    PROVE  /\ Kin(s, t)
           /\ \A errs : Quiet(t) /\ Calling(s, "connector", errs) /\ s.net["connector"] # "connecting" =>
                 /\ "ERR" \in events => Closed(t, "connector")
                 /\ "ERR" \notin events => Fit(t, "connector", {}, errs)
<1> DEFINE o == "connector"
           c == Close(s, o)
           up == Up(s)
<1>1. o \in Obj /\ o \in Stream /\ s \in Memories
  BY DEF Obj, Stream, Sound
<1>2. Sound(c, X \ {o}) /\ Goes(s, c, o) /\ (c.touched = {} => o \in c.live) /\ Kin(s, c)
  BY <1>1, CloseSound, CloseKin
<1>3. ASSUME t = c
      PROVE  Kin(s, t) /\ \A errs : Quiet(t) /\ Calling(s, o, errs) => Closed(t, o)
  <2>1. ASSUME NEW errs, Quiet(c), Calling(s, o, errs)
        PROVE  Closed(c, o)
    <3>1. Redials(s) = {}
      BY <2>1 DEF Calling, Linked
    <3> QED
      BY <1>1, <2>1, <3>1, CloseFit
  <2> QED
    BY <1>2, <1>3, <2>1
<1>4. ASSUME t = Close(c, o)
      PROVE  Kin(s, t) /\ \A errs : Quiet(t) /\ Calling(s, o, errs) => Closed(t, o)
  <2>1. c \in Memories
    BY <1>2 DEF Sound
  <2>2. Kin(s, t)
    BY <1>1, <1>2, <1>4, <2>1, CloseKin, KinOn
  <2>3. ASSUME NEW errs, Quiet(t), Calling(s, o, errs)
        PROVE  FALSE
    <3>1. Quiet(c)
      BY <1>1, <1>2, <1>4, <2>3, CloseSound, QuietBefore
    <3>2. Redials(s) = {}
      BY <2>3 DEF Calling, Linked
    <3>3. o \notin CloseConnector(s).fd
      BY <3>1, <3>2, CloseConnectorFit DEF Close
    <3>4. o \in c.fd
      <4>1. t = CloseConnector(c)
        BY <1>4 DEF Close
      <4>2. Sound(c, X \ {o}) /\ Quiet(CloseConnector(c))
        BY <1>2, <2>3, <4>1
      <4> HIDE DEF c
      <4> QED
        BY <4>2, CloseConnectorOnce
    <3> QED
      BY <3>3, <3>4 DEF Close
  <2> QED
    BY <2>2, <2>3
<1>5. ASSUME t = s, "ERR" \notin events
      PROVE  Kin(s, t) /\ \A errs : Calling(s, o, errs) => Fit(t, o, {}, errs)
  BY <1>5, KinIfSame DEF Fit
<1>6. ASSUME NEW u \in AsyncSend(up, o, 0), t \in ConnectCallback(Touch(u, o, "connect callback"))
      PROVE  /\ Kin(s, t)
             /\ \A errs : Quiet(t) /\ Calling(s, o, errs) /\ s.net[o] # "connecting" => Serving(t, o, {}, errs)
  <2> DEFINE v == Touch(u, o, "connect callback")
  <2>1. Sound(up, X) /\ Goes(s, up, o) /\ up.live = s.live /\ up.touched = s.touched /\ o \in up.connected
    BY UpSound
  <2>2. /\ Kin(s, up)
        /\ \A errs : Calling(s, o, errs) /\ s.net[o] # "connecting" =>
              Open(up, o, errs) /\ Awaits(up, o, {}) /\ "IN" \notin up.mon[o]
    BY <1>1, UpFit
  <2>3. u \in AsyncSend(up, o, 0)
    BY <1>6
  <2> HIDE DEF up
  <2>4. Present(up, o) /\ 0 \in Nat
    BY <2>1 DEF Present, Unless
  <2>5. /\ Sound(u, X) /\ Goes(up, u, o) /\ Unless(u, o) /\ Kin(up, u) /\ Bears(up, u, o)
        /\ Quiet(u) /\ Awaits(up, o, {}) => Awaits(u, o, {})
    BY <1>1, <2>1, <2>3, <2>4, AsyncSendSpared, AsyncSendFit DEF Spared, Bears
  <2>6. "connect callback" \in Places /\ u \in Memories
    BY <2>5 DEF Places, Sound
  <2>7. /\ Sound(v, X) /\ Goes(u, v, o) /\ v.live = u.live /\ (v.touched = {} => o \in u.live)
    <3>1. o \in u.live \/ Causes["connect callback"] \cap u.met # {}
      BY <2>5, CausesAre DEF Unless
    <3> QED
      BY <2>5, <2>6, <3>1, TouchSound
  <2>8. Kin(u, v) /\ (Quiet(v) => v = u)
    BY <2>6, TouchFit
  <2>9. t \in ConnectCallback(v)
    BY <1>6
  <2> HIDE DEF v
  <2>10. Unless(v, o) /\ o \in v.connected
    BY <2>1, <2>5, <2>7 DEF Unless, Goes
  <2>11. Goes(v, t, o)
    BY <2>7, <2>9, <2>10, ConnectCallbackSound
  <2>12. /\ Kin(v, t)
         /\ \A errs : Quiet(t) /\ Open(v, o, errs) /\ Awaits(v, o, {}) /\ "IN" \notin v.mon[o]
                      => Serving(t, o, {}, errs)
    BY <2>7, <2>9, <2>10, ConnectCallbackFit
  <2>13. Kin(s, t)
    <3>1. Kin(s, u)
      BY <2>2, <2>5, KinOn
    <3>2. Kin(s, v)
      BY <2>8, <3>1, KinOn
    <3> QED
      BY <2>12, <3>2, KinOn
  <2>14. ASSUME NEW errs, Quiet(t), Calling(s, o, errs), s.net[o] # "connecting"
         PROVE  Serving(t, o, {}, errs)
    <3>1. Quiet(v) /\ v = u
      BY <2>8, <2>11, <2>14, QuietBefore
    <3>2. Open(up, o, errs) /\ Awaits(up, o, {}) /\ "IN" \notin up.mon[o]
      BY <2>2, <2>14
    <3>3. Open(v, o, errs) /\ Awaits(v, o, {}) /\ "IN" \notin v.mon[o]
      BY <2>5, <3>1, <3>2 DEF Bears
    <3> QED
      BY <2>12, <2>14, <3>3
  <2> QED
    BY <2>13, <2>14
<1>7. OnConnect(s, events) =
        IF "ERR" \in events THEN {c, Close(c, o)}
        ELSE IF "OUT" \in events THEN UNION {ConnectCallback(Touch(u, o, "connect callback")) : u \in AsyncSend(up, o, 0)}
        ELSE {s}
  BY DEF OnConnect, Up
<1> HIDE DEF c, up
<1>8. CASE "ERR" \in events
  BY <1>3, <1>4, <1>7, <1>8
<1>9. CASE "ERR" \notin events /\ "OUT" \in events
  <2>1. t \in UNION {ConnectCallback(Touch(u, o, "connect callback")) : u \in AsyncSend(up, o, 0)}
    BY <1>7, <1>9
  <2>2. PICK u \in AsyncSend(up, o, 0) : t \in ConnectCallback(Touch(u, o, "connect callback"))
    BY <2>1
  <2> QED
    BY <1>6, <1>9, <2>2 DEF Fit
<1>10. CASE "ERR" \notin events /\ "OUT" \notin events
  BY <1>5, <1>7, <1>10
<1> QED
  BY <1>8, <1>9, <1>10

LEMMA FitMore ==
    ASSUME NEW s, NEW o, NEW outs, NEW errs, NEW outs2, NEW errs2, Fit(s, o, outs, errs),
           o \in outs => o \in outs2, o \in errs => o \in errs2
    PROVE  Fit(s, o, outs2, errs2)
  BY DEF Fit, Calling, Serving, Open, Linked, Awaits, Sending

(* What a connection makes of its events, the IN half before the OUT half. *)
LEMMA OnConnectionFit ==
    ASSUME NEW s, NEW X, Sound(s, X), NEW o \in Stream, o \in s.live,
           NEW events, NEW t \in OnConnection(s, o, events)
    PROVE  /\ Kin(s, t)
           /\ \A outs, errs : Quiet(t) /\ Serving(s, o, outs, errs) =>
                 \/ Closed(t, o)
                 \/ "ERR" \notin events /\ Serving(t, o, IF "OUT" \in events THEN {} ELSE outs, errs)
<1> DEFINE both == IF {"IN", "OUT"} \subseteq events THEN Met(s, "both halves") ELSE s
           read == IF "IN" \in events THEN DoRecv(both, o) ELSE {both}
<1>1. o \in Obj /\ "both halves" \in Reasons /\ "OUT half" \in Places /\ s \in Memories
  BY DEF Stream, Reasons, Places, Sound
<1>2. CASE t = Close(s, o)
  <2>1. Kin(s, t)
    BY <1>1, <1>2, CloseKin
  <2>2. ASSUME NEW outs, NEW errs, Quiet(t), Serving(s, o, outs, errs)
        PROVE  Closed(t, o)
    BY <1>2, <2>2, CloseFit DEF Serving, Open, Linked
  <2> QED
    BY <2>1, <2>2
<1>3. /\ Sound(both, X) /\ both.live = s.live /\ Kin(s, both) /\ Same(s, both, o)
      /\ {"IN", "OUT"} \subseteq events => "both halves" \in both.met
  <2>1. CASE {"IN", "OUT"} \subseteq events
    <3>1. /\ Met(s, "both halves").met = s.met \cup {"both halves"} /\ Met(s, "both halves").live = s.live
          /\ Sound(Met(s, "both halves"), X)
      BY <1>1, MetIs, MetSound DEF Sockets
    <3>2. Kin(s, Met(s, "both halves")) /\ Same(s, Met(s, "both halves"), o)
      BY <1>1, MetFit
    <3> QED
      BY <2>1, <3>1, <3>2
  <2>2. CASE ~({"IN", "OUT"} \subseteq events)
    <3>1. Kin(s, s) /\ Same(s, s, o)
      BY KinIfSame DEF Same
    <3> QED
      BY <2>2, <3>1
  <2> QED
    BY <2>1, <2>2
<1> HIDE DEF both
<1>4. ASSUME NEW u \in read
      PROVE  /\ Sound(u, X) /\ Kin(s, u)
             /\ "OUT" \in events => o \in u.live \/ "both halves" \in u.met
             /\ \A outs, errs : Quiet(u) /\ Serving(s, o, outs, errs) =>
                   Closed(u, o) \/ Serving(u, o, outs, errs)
  <2>1. CASE "IN" \in events
    <3>1. Sound(u, X) /\ Goes(both, u, o)
      BY <1>3, <1>4, <2>1, DoRecvSound
    <3>2. /\ Kin(both, u)
          /\ \A outs, errs : Quiet(u) /\ Serving(both, o, outs, errs) =>
                Closed(u, o) \/ Serving(u, o, outs, errs)
      BY <1>3, <1>4, <2>1, DoRecvFit
    <3>3. "OUT" \in events => "both halves" \in u.met
      BY <1>3, <2>1, <3>1 DEF Goes
    <3>4. Kin(s, u)
      BY <1>3, <3>2, KinOn
    <3> QED
      BY <1>3, <3>1, <3>2, <3>3, <3>4, SameServing
  <2>2. CASE "IN" \notin events
    BY <1>3, <1>4, <2>2, SameServing
  <2> QED
    BY <2>1, <2>2
<1> HIDE DEF read
<1>5. ASSUME "OUT" \in events, NEW u \in read,
             t \in IF o \in u.live THEN DoSend(u, o) ELSE {Touch(u, o, "OUT half")}
      PROVE  /\ Kin(s, t)
             /\ \A outs, errs : Quiet(t) /\ Serving(s, o, outs, errs) =>
                   Closed(t, o) \/ Serving(t, o, {}, errs)
  <2>1. /\ Sound(u, X) /\ Kin(s, u)
        /\ \A outs, errs : Quiet(u) /\ Serving(s, o, outs, errs) =>
              Closed(u, o) \/ Serving(u, o, outs, errs)
    BY <1>4, <1>5
  <2>2. CASE o \notin u.live
    <3>1. t = Touch(u, o, "OUT half") /\ u \in Memories
      BY <1>5, <2>1, <2>2 DEF Sound
    <3>2. Kin(u, t)
      BY <1>1, <3>1, TouchFit
    <3>3. t.touched # {}
      BY <1>1, <2>2, <3>1, GoneFit, Zenon
    <3> QED
      BY <2>1, <3>2, <3>3, KinOn DEF Quiet
  <2>3. CASE o \in u.live
    <3>1. Present(u, o) /\ t \in DoSend(u, o)
      BY <1>5, <2>3 DEF Present, Unless
    <3>2. /\ Bears(u, t, o)
          /\ u.net[o] = "none" => t = u
          /\ Quiet(t) /\ (u.sbuf[o] = <<>> => Awaits(u, o, {})) => Awaits(t, o, {})
      BY <1>1, <2>1, <3>1, DoSendFit
    <3>3. Kin(s, t)
      BY <2>1, <3>2, KinOn DEF Bears
    <3>4. ASSUME NEW outs, NEW errs, Quiet(t), Serving(s, o, outs, errs)
          PROVE  Closed(t, o) \/ Serving(t, o, {}, errs)
      <4>1. Quiet(u)
        BY <3>2, <3>4, QuietBefore DEF Bears
      <4>2. CASE Closed(u, o)
        BY <3>2, <4>2 DEF Closed
      <4>3. CASE Serving(u, o, outs, errs)
        <5>1. u.sbuf[o] = <<>> => Awaits(u, o, {})
          BY <4>3 DEF Serving, Awaits
        <5> QED
          BY <3>2, <3>4, <4>3, <5>1 DEF Serving, Bears
      <4> QED
        BY <2>1, <3>4, <4>1, <4>2, <4>3
    <3> QED
      BY <3>3, <3>4
  <2> QED
    BY <2>2, <2>3
<1>6. t \in IF "ERR" \in events THEN {Close(s, o)}
            ELSE IF "OUT" \in events
                 THEN UNION {IF o \in u.live THEN DoSend(u, o) ELSE {Touch(u, o, "OUT half")} : u \in read} ELSE read
  BY DEF OnConnection, read, both
<1>7. CASE "ERR" \in events
  BY <1>2, <1>6, <1>7
<1>8. CASE "ERR" \notin events /\ "OUT" \in events
  <2>1. PICK u \in read : t \in IF o \in u.live THEN DoSend(u, o) ELSE {Touch(u, o, "OUT half")}
    BY <1>6, <1>8
  <2> QED
    BY <1>5, <1>8, <2>1
<1>9. CASE "ERR" \notin events /\ "OUT" \notin events
  BY <1>4, <1>6, <1>9
<1> QED
  BY <1>7, <1>8, <1>9
----------------------------------------------------------------------------
(* on_accept: the client is new, or it is left alone.                      *)
LEMMA AcceptedFit ==
    ASSUME NEW s, NEW X, Sound(s, X), Cast(s), "acceptor" \in s.unread, "accepted" \notin s.live
    PROVE  LET t == Accepted(s)
           IN  /\ t \in Memories /\ t.role = s.role /\ Cast(t) /\ (Quiet(t) => Quiet(s))
               /\ Quiet(s) => /\ s.net["accepted"] = "none" /\ Open(t, "accepted", {})
                              /\ Awaits(t, "accepted", {}) /\ "IN" \notin t.mon["accepted"]
<1> DEFINE t == Accepted(s)
           a == "accepted"
<1>1. s \in Memories /\ a \in Obj /\ a \in Stream /\ a \in s.connected
  BY DEF Sound, Obj, Stream
<1>2. /\ t \in Memories /\ t.touched = s.touched /\ t.met = s.met
      /\ t.live = s.live \cup {a} /\ t.fd = s.fd \cup {a}
      /\ t.connected = s.connected /\ t.bind = s.bind \ {a}
      /\ t.mon = [s.mon EXCEPT ![a] = {}] /\ t.reg = s.reg
      /\ t.wire = [s.wire EXCEPT ![a] = <<>>]
  BY <1>1, AcceptedIs
<1>3. t.role = s.role /\ t.net = [s.net EXCEPT ![a] = "up"] /\ t.unread = s.unread \ {"acceptor"}
  BY <1>1 DEF Accepted, Memories
<1> HIDE DEF t
<1>4. t.mon[a] = {} /\ t.wire[a] = <<>>
  <2>1. s.mon \in [Obj -> SUBSET {"IN", "OUT"}] /\ s.wire \in [Obj -> Seq(Nat)]
    BY <1>1 DEF Memories
  <2> QED
    BY <1>1, <1>2, <2>1
<1>5. t.net[a] = "up" /\ \A q \in Stream : q # a => t.net[q] = s.net[q]
  BY <1>1, <1>3 DEF Memories, Stream
<1>6. s.role = a
  BY DEF Cast
<1>7. Cast(t)
  BY <1>2, <1>3, <1>5, <1>6 DEF Cast
<1>8. Quiet(t) => Quiet(s)
  BY <1>2 DEF Quiet
<1>9. ASSUME Quiet(s)
      PROVE  s.net[a] = "none" /\ Open(t, a, {}) /\ Awaits(t, a, {}) /\ "IN" \notin t.mon[a]
  <2>1. a \notin s.fd /\ a \notin s.reg
    BY <1>9, ClockedIs DEF Kernel
  <2>2. s.net[a] = "none"
    BY <1>1, <2>1 DEF Cast
  <2>3. Linked(t, a, {})
    BY <1>2, <1>5, <2>1 DEF Linked
  <2>4. Open(t, a, {}) /\ Awaits(t, a, {})
    BY <1>1, <1>2, <1>4, <1>5, <2>3 DEF Open, Awaits, Sending
  <2> QED
    BY <1>4, <2>2, <2>4
<1> QED
  BY <1>2, <1>3, <1>7, <1>8, <1>9 DEF t

(* The client of role p is served as before.                               *)
Keeps(s, t, p) ==
    \A outs, errs : Quiet(t) /\ Fit(s, p, outs, errs) =>
        Fit(t, p, outs, errs) /\ (s.net[p] # "none" => t.net[p] = s.net[p])

LEMMA KeptIfSame ==
    ASSUME NEW s, NEW t, NEW p, Same(s, t, p), Waits(t, p) => Waits(s, p)
    PROVE  Keeps(s, t, p)
  BY SameFit DEF Keeps, Same

LEMMA OnAcceptFit ==
    ASSUME NEW s, NEW X, Sound(s, X), s.touched = {} => "acceptor" \in s.live, Cast(s), s.role \in Stream,
           NEW t \in OnAccept(s)
    PROVE  Cast(t) /\ t.role = s.role /\ Keeps(s, t, s.role)
<1> DEFINE o == "acceptor"
           a == Accepted(s)
           clients == IF "acceptor" \in s.unread /\ "accepted" \notin s.live
                     THEN {AsyncRecv(a, "accepted"), Touch(Close(Met(a, "accept refused"), o), o, "on_accept")}
                     ELSE {Read(s, o)}
           p == s.role
<1>1. o \in Obj /\ "accepted" \in Stream /\ s \in Memories
  BY DEF Obj, Stream, Sound
<1>2. ASSUME NEW u \in clients
      PROVE  /\ Sound(u, X) /\ (u.touched = {} => o \in u.live)
             /\ Cast(u) /\ u.role = s.role /\ Keeps(s, u, p)
  <2>1. CASE o \in s.unread /\ "accepted" \notin s.live /\ u = AsyncRecv(a, "accepted")
    <3>1. /\ Sound(a, X) /\ "accepted" \in a.live /\ s.live \subseteq a.live /\ a.touched = s.touched
      BY <2>1, AcceptedSound
    <3>2. /\ a.role = s.role /\ Cast(a) /\ (Quiet(a) => Quiet(s))
          /\ Quiet(s) => /\ s.net["accepted"] = "none" /\ Open(a, "accepted", {})
                         /\ Awaits(a, "accepted", {}) /\ "IN" \notin a.mon["accepted"]
      BY <2>1, AcceptedFit
    <3>3. "accepted" \in a.connected
      BY <3>1 DEF Sound
    <3> HIDE DEF a
    <3>4. Sound(u, X \ {"accepted"}) /\ Goes(a, u, o) /\ u.live = a.live
      BY <1>1, <2>1, <3>1, <3>3, AsyncRecvSound
    <3>5. Sound(u, X)
      BY <3>4, SoundMore
    <3>6. /\ Kin(a, u)
          /\ \A outs, errs : /\ Quiet(a) /\ Open(a, "accepted", errs) /\ Awaits(a, "accepted", outs)
                             /\ "IN" \in a.mon["accepted"] => Watched(a, "accepted")
                             => Serving(u, "accepted", outs, errs)
      BY <1>1, <2>1, <3>1, <3>3, AsyncRecvFit
    <3>7. Cast(u) /\ u.role = s.role
      <4>1. Cast(u)
        BY <3>2, <3>6, KinCast
      <4> QED
        BY <3>2, <3>6, <4>1 DEF Kin
    <3>8. p = "accepted"
      BY <2>1 DEF Cast
    <3>9. Keeps(s, u, p)
      <4> SUFFICES ASSUME NEW outs, NEW errs, Quiet(u)
                   PROVE  Fit(u, p, outs, errs) /\ s.net[p] = "none"
        BY DEF Keeps
      <4>1. Quiet(a)
        BY <3>4, QuietBefore
      <4>2. Serving(u, "accepted", {}, {}) /\ s.net["accepted"] = "none"
        BY <3>2, <3>6, <4>1
      <4>3. Fit(u, "accepted", {}, {})
        BY <4>2 DEF Fit
      <4>4. Fit(u, "accepted", outs, errs)
        BY <4>3, FitMore
      <4> QED
        BY <3>8, <4>2, <4>4
    <3>10. u.touched = {} => s.touched = {}
      BY <3>1, <3>4 DEF Goes
    <3> QED
      BY <3>1, <3>4, <3>5, <3>7, <3>9, <3>10
  <2>2. CASE /\ o \in s.unread /\ "accepted" \notin s.live
             /\ u = Touch(Close(Met(a, "accept refused"), o), o, "on_accept")
    <3>1. Sound(a, X) /\ s.live \subseteq a.live /\ a.touched = s.touched
      BY <2>2, AcceptedSound
    <3>2. a \in Memories /\ a.role = s.role /\ Cast(a)
      BY <2>2, AcceptedFit
    <3> HIDE DEF a
    <3>3. "accept refused" \in Reasons /\ "on_accept" \in Places /\ "accept refused" \in Causes["on_accept"]
      BY CausesAre DEF Reasons, Places
    <3>4. a.touched = {} => o \in a.live
      BY <3>1
    <3>5. o # "connector"
      OBVIOUS
    <3> HIDE DEF o
    <3>6. /\ Sound(u, X \ {o}) /\ (u.touched = {} => o = "connector" /\ o \in u.live)
      BY <1>1, <2>2, <3>1, <3>3, <3>4, CloseTouchSound
    <3>7. Sound(u, X)
      BY <3>6, SoundMore
    <3> DEFINE w == Met(a, "accept refused")
               v == Close(w, o)
    <3>8. w \in Memories /\ Kin(a, w) /\ Sound(w, X) /\ w.touched = a.touched /\ w.live = a.live
      BY <3>1, <3>2, <3>3, MetIs, MetFit, MetSound DEF Sockets
    <3>9. u = Touch(v, o, "on_accept")
      BY <2>2
    <3> HIDE DEF w
    <3>10. v \in Memories /\ Kin(w, v)
      <4>1. Sound(v, X \ {o})
        BY <1>1, <3>4, <3>8, CloseSound
      <4> QED
        BY <1>1, <3>8, <4>1, CloseKin DEF Sound
    <3> HIDE DEF v
    <3>11. Kin(v, u)
      BY <3>3, <3>9, <3>10, TouchFit
    <3>12. Cast(u)
      BY <3>2, <3>8, <3>10, <3>11, KinCast
    <3>13. u.role = s.role
      BY <3>2, <3>8, <3>10, <3>11 DEF Kin
    <3>14. Keeps(s, u, p)
      BY <3>5, <3>6 DEF Keeps, Quiet
    <3> QED
      BY <3>6, <3>7, <3>12, <3>13, <3>14
  <2>3. CASE u = Read(s, o)
    <3>1. Sound(u, X) /\ u.live = s.live /\ u.touched = s.touched
      BY <1>1, <2>3, ReadSound
    <3>2. Kin(s, u) /\ Same(s, u, p) /\ (Waits(u, p) => Waits(s, p))
      BY <1>1, <2>3, ReadFit
    <3> QED
      BY <3>1, <3>2, KinCast, KeptIfSame DEF Kin
  <2> QED
    BY <2>1, <2>2, <2>3
<1>3. t \in clients \cup {Close(u, o) : u \in clients}
  BY DEF OnAccept, Read
<1> HIDE DEF clients
<1>4. CASE t \in clients
  BY <1>2, <1>4
<1>5. ASSUME NEW u \in clients, t = Close(u, o)
      PROVE  Cast(t) /\ t.role = s.role /\ Keeps(s, t, p)
  <2>1. /\ Sound(u, X) /\ (u.touched = {} => o \in u.live)
        /\ Cast(u) /\ u.role = s.role /\ Keeps(s, u, p)
    BY <1>2
  <2>2. Goes(u, t, o)
    BY <1>1, <1>5, <2>1, CloseSound
  <2>3. Kin(u, t)
    BY <1>1, <1>5, <2>1, CloseKin DEF Sound
  <2>4. ASSUME Quiet(t)
        PROVE  Same(u, t, p) /\ (Waits(t, p) => Waits(u, p))
    <3>1. t = CloseConnection(u, o, TRUE) /\ p # o /\ p \in Stream
      BY <1>5 DEF Close, Stream
    <3>2. Quiet(u)
      BY <2>2, <2>4, QuietBefore
    <3> QED
      BY <2>1, <3>1, <3>2, CloseOther
  <2>5. Keeps(s, t, p)
    <3> SUFFICES ASSUME NEW outs, NEW errs, Quiet(t), Fit(s, p, outs, errs)
                 PROVE  Fit(t, p, outs, errs) /\ (s.net[p] # "none" => t.net[p] = s.net[p])
      BY DEF Keeps
    <3>1. Quiet(u) /\ Same(u, t, p) /\ (Waits(t, p) => Waits(u, p))
      BY <2>2, <2>4, QuietBefore
    <3>2. Fit(u, p, outs, errs) /\ (s.net[p] # "none" => u.net[p] = s.net[p])
      BY <2>1, <3>1 DEF Keeps
    <3>3. Fit(t, p, outs, errs)
      BY <3>1, <3>2, SameFit
    <3> QED
      BY <3>1, <3>2, <3>3 DEF Same
  <2>6. Cast(t) /\ t.role = s.role
    BY <2>1, <2>3, KinCast DEF Kin
  <2> QED
    BY <2>5, <2>6
<1> QED
  BY <1>3, <1>4, <1>5

LEMMA ForgetFit ==
    ASSUME NEW s \in Memories, NEW o \in Obj
    PROVE  LET t == [s EXCEPT !.tid[o] = NoTimer]
           IN  /\ t.touched = s.touched /\ t.met = s.met /\ Kin(s, t)
               /\ \A p : Same(s, t, p) /\ (Waits(t, p) => Waits(s, p))
<1> DEFINE tid == [s.tid EXCEPT ![o] = NoTimer]
           t == [s EXCEPT !.tid = tid]
<1>1. [s EXCEPT !.tid[o] = NoTimer] = t
  BY DEF Memories
<1> HIDE DEF tid
<1>2. t.touched = s.touched /\ t.met = s.met /\ t.role = s.role /\ t.reconnect = s.reconnect
  BY DEF Memories
<1>3. Sockets(t) = Sockets(s)
  BY DEF Memories, Sockets
<1>4. Data(t) = Data(s) /\ Net(t) = Net(s) /\ t.timers = s.timers
  BY DEF Memories, Data, Net
<1> HIDE DEF t
<1>5. Kin(s, t)
  BY <1>2, <1>3, <1>4, KinIfSame DEF Sockets
<1>6. ASSUME NEW p
      PROVE  Same(s, t, p) /\ (Waits(t, p) => Waits(s, p))
  BY <1>2, <1>3, <1>4 DEF Same, Sockets, Data, Net, Redials, Waits
<1> QED
  BY <1>1, <1>2, <1>5, <1>6

(* A connect timer has a closed connector, which it connects or closes.    *)
LEMMA FireConnectFit ==
    ASSUME NEW s, NEW x \in Timers, Sound(s, {}), "connector" \in s.live, x.fn = <<"connect", "connector">>,
           "connector" \notin s.bind, Redials(s) = {}, ~Waits(s, "connector"),
           NEW t \in FireConnect(s, x)
    PROVE  Kin(s, t) /\ (Quiet(t) => Fit(t, "connector", {}, {}))
<1> DEFINE o == "connector"
<1>1. CASE t \in DialSucceeds(s)
  BY <1>1, DialSucceedsFit
<1>2. ASSUME NEW u \in DialFails(s), t = [u EXCEPT !.timers = Insert(@, Repeat(x))]
      PROVE  Kin(s, t) /\ Fit(t, o, {}, {})
  <2> DEFINE r == Repeat(x)
             ts == Insert(u.timers, r)
  <2>1. s \in Memories
    BY DEF Sound
  <2>2. /\ u \in Memories /\ Kin(s, u) /\ u.net[o] = "none" /\ o \notin u.reg \cup u.bind
        /\ Redials(u) = {} /\ ~Waits(u, o)
    BY <2>1, DialFailsFit
  <2>3. r \in Timers /\ r.id = x.id /\ r.fn = <<"connect", o>>
    BY RepeatIs
  <2>4. t = Timed(u, ts)
    BY <1>2 DEF Timed
  <2> HIDE DEF r
  <2>5. ts \in Seq(Timers) /\ Range(ts) = Range(u.timers) \cup {r}
    BY <2>2, <2>3, InsertIs DEF Memories
  <2> HIDE DEF ts
  <2>6. /\ Sockets(t) = Sockets(u) /\ Net(t) = Net(u) /\ t.timers = ts /\ Kin(u, t)
    BY <2>2, <2>4, <2>5, TimedIs, TimedKin
  <2>7. t.net[o] = "none" /\ o \notin t.reg \cup t.bind
    BY <2>2, <2>6 DEF Sockets, Net
  <2>8. Redials(t) = {x.id}
    <3>1. \A y \in Range(u.timers) : y.fn # <<"connect", o>>
      BY <2>2 DEF Redials
    <3>2. {y \in Range(t.timers) : y.fn = <<"connect", o>>} = {r}
      BY <2>3, <2>5, <2>6, <3>1
    <3> QED
      BY <2>3, <3>2 DEF Redials
  <2>9. ~Waits(t, o)
    BY <2>2, <2>3, <2>5, <2>6 DEF Waits
  <2>10. Closed(t, o)
    BY <2>7, <2>8, <2>9 DEF Closed
  <2>11. Kin(s, t)
    BY <2>2, <2>6, KinOn
  <2> QED
    BY <2>10, <2>11 DEF Fit
<1> QED
  BY <1>1, <1>2 DEF FireConnect

LEMMA PutMet ==
    ASSUME NEW s \in Memories, NEW x \in Timers
    PROVE  LET t == Timed(s, Insert(s.timers, Repeat(x))) IN t.touched = s.touched /\ t.met = s.met
<1>1. s.timers \in Seq(Timers) /\ Repeat(x) \in Timers
  BY RepeatIs DEF Memories
<1>2. Insert(s.timers, Repeat(x)) \in Seq(Timers)
  BY <1>1, InsertIs
<1> QED
  BY <1>2, TimedIs

(* A timeout callback that refuses: the connection is closed.              *)
LEMMA RefusedFit ==
    ASSUME NEW s, NEW X, Sound(s, X), NEW o \in Stream, NEW why \in Reasons, NEW place \in Places,
           why \in Causes[place]
    PROVE  LET t == [Touch(Close(Touch(Met(s, why), o, place), o), o, place) EXCEPT !.tid[o] = NoTimer]
           IN  /\ s.met \subseteq t.met /\ s.touched \subseteq t.touched /\ Kin(s, t)
               /\ Quiet(t) /\ (o = "connector" => Redials(s) = {}) => Closed(t, o)
<1> DEFINE d == Met(s, why)
           b == Touch(d, o, place)
           c == Close(b, o)
           e == Touch(c, o, place)
           t == [e EXCEPT !.tid[o] = NoTimer]
<1>1. o \in Obj /\ s \in Memories
  BY DEF Stream, Sound
<1>2. /\ d \in Memories /\ Sound(d, X) /\ Kin(s, d) /\ why \in d.met /\ s.met \subseteq d.met
      /\ d.touched = s.touched /\ Clocks(d) = Clocks(s)
  BY <1>1, MetIs, MetFit, MetSound
<1> HIDE DEF d
<1>4. /\ Sound(b, X) /\ Goes(d, b, o) /\ (b.touched = {} => o \in b.live)
      /\ Kin(d, b) /\ (Quiet(b) => b = d)
  <2>1. Causes[place] \cap d.met # {}
    BY <1>2
  <2>2. /\ Sound(b, X) /\ Goes(d, b, o) /\ b.live = d.live /\ (b.touched = {} => o \in d.live)
    BY <1>2, <2>1, TouchSound
  <2>3. Kin(d, b) /\ (Quiet(b) => b = d)
    BY <1>2, TouchFit
  <2> QED
    BY <2>2, <2>3
<1> HIDE DEF b
<1>5. Sound(c, X \ {o}) /\ Goes(b, c, o) /\ Kin(b, c)
  BY <1>1, <1>4, CloseSound, CloseKin DEF Sound
<1>6. c \in Memories
  BY <1>5 DEF Sound
<1>7. Quiet(c) /\ (o = "connector" => Redials(b) = {}) => Closed(c, o)
  BY <1>4, CloseFit
<1> HIDE DEF c
<1>8. /\ e \in Memories /\ Kin(c, e) /\ (Quiet(e) => e = c)
      /\ e.met = c.met /\ c.touched \subseteq e.touched
  <2>1. e \in Memories /\ e.met = c.met /\ c.touched \subseteq e.touched
    BY <1>6, TouchIs
  <2> QED
    BY <1>6, <2>1, TouchFit
<1> HIDE DEF e
<1>9. /\ t.touched = e.touched /\ t.met = e.met /\ Kin(e, t)
      /\ Same(e, t, o) /\ (Waits(t, o) => Waits(e, o))
  BY <1>1, <1>8, ForgetFit
<1> HIDE DEF t
<1>10. s.met \subseteq t.met /\ s.touched \subseteq t.touched
  <2>1. d.met \subseteq b.met /\ b.met \subseteq c.met /\ d.touched \subseteq b.touched /\ b.touched \subseteq c.touched
    BY <1>4, <1>5 DEF Goes
  <2> QED
    BY <1>2, <1>8, <1>9, <2>1
<1>11. Kin(s, t)
  <2>1. Kin(s, b)
    BY <1>2, <1>4, KinOn
  <2>2. Kin(s, c)
    BY <1>5, <2>1, KinOn
  <2>3. Kin(s, e)
    BY <1>8, <2>2, KinOn
  <2> QED
    BY <1>9, <2>3, KinOn
<1>12. ASSUME Quiet(t), o = "connector" => Redials(s) = {}
       PROVE  Closed(t, o)
  <2>1. Quiet(e) /\ e = c
    BY <1>8, <1>9, <1>12 DEF Quiet
  <2>2. Quiet(b) /\ b = d
    BY <1>4, <1>5, <2>1, QuietBefore
  <2>3. o = "connector" => Redials(b) = {}
    BY <1>2, <1>12, <2>2 DEF Redials, Clocks
  <2>4. Closed(e, o)
    BY <1>7, <2>1, <2>3
  <2> QED
    BY <1>9, <2>4, SameClosed
<1> QED
  BY <1>10, <1>11, <1>12 DEF t, e, c, b, d

LEMMA RefusedIs ==
    ASSUME NEW s, NEW X, Sound(s, X), NEW o \in Stream
    PROVE  LET t == Refused(s, o)
           IN  /\ s.met \subseteq t.met /\ s.touched \subseteq t.touched /\ Kin(s, t)
               /\ Quiet(t) /\ (o = "connector" => Redials(s) = {}) => Closed(t, o)
<1>1. /\ "timeout refused" \in Reasons /\ "start_timer" \in Places
      /\ "timeout refused" \in Causes["start_timer"]
  BY CausesAre DEF Reasons, Places
<1> QED
  BY <1>1, RefusedFit DEF Refused

(* What the callback did is not undone, and when it asked for no data the  *)
(* timer goes on as it was.                                                *)
LEMMA FireTimeoutQuiet ==
    ASSUME NEW s, NEW X, Sound(s, X), NEW x \in Timers, NEW o \in Stream, x.fn = <<"timeout", o>>, o \in s.live,
           NEW t \in FireTimeout(s, x)
    PROVE  /\ s.met \subseteq t.met
           /\ Quiet(t) => \E u \in {s, CloseOwn(s, o)} \cup Sends(s, o) :
                 /\ Sound(u, X) /\ Quiet(u)
                 /\ t = Timed(u, Insert(u.timers, Repeat(x))) \/ t = Refused(u, o)
<1> DEFINE a == AsyncRecv(Met(s, "rearmed"), o)
           done == {s, CloseOwn(s, o)} \cup Sends(s, o)
<1>1. /\ o \in Obj /\ s \in Memories /\ Present(s, o) /\ "rearmed" \in Reasons
  BY DEF Stream, Sound, Reasons, Present, Unless
<1>2. PICK u \in done \cup {a} : t = Continued(u, o, x) \/ t = Refused(u, o)
  <2>1. \E u \in {s, a, CloseOwn(s, o)} \cup Sends(s, o) : t = Continued(u, o, x) \/ t = Refused(u, o)
    BY FireTimeoutIs
  <2>2. {s, a, CloseOwn(s, o)} \cup Sends(s, o) \subseteq done \cup {a}
    OBVIOUS
  <2> HIDE DEF a, done
  <2> QED
    BY <2>1, <2>2
<1>3. ASSUME u = a
      PROVE  Sound(u, X) /\ s.met \subseteq u.met /\ "rearmed" \in u.met
  <2> DEFINE v == Met(s, "rearmed")
  <2>1. v.live = s.live /\ Sound(v, X) /\ s.met \subseteq v.met /\ "rearmed" \in v.met
    BY <1>1, MetSound, MetIs DEF Sockets
  <2>2. u = AsyncRecv(v, o)
    BY <1>3
  <2> HIDE DEF v
  <2>3. Sound(u, X \ {o}) /\ Goes(v, u, o)
    BY <2>1, <2>2, AsyncRecvSound
  <2>4. Sound(u, X)
    BY <2>3, SoundMore
  <2> QED
    BY <2>1, <2>3, <2>4 DEF Goes
<1>4. ASSUME u \in done
      PROVE  Sound(u, X) /\ s.met \subseteq u.met
  <2>1. Spared(s, u, X, o)
    BY <1>1, <1>4, SparedSame, CloseOwnSpared, SendsSpared
  <2> QED
    BY <2>1 DEF Spared, Goes
<1> HIDE DEF a, done
<1>5. Sound(u, X) /\ s.met \subseteq u.met /\ u \in Memories
  <2>1. Sound(u, X) /\ s.met \subseteq u.met
    BY <1>2, <1>3, <1>4
  <2> QED
    BY <2>1 DEF Sound
<1>6. CASE t = Continued(u, o, x)
  <2> DEFINE v == IF o \in u.fd THEN u ELSE Met(u, "rearmed")
  <2>1. /\ v \in Memories /\ v.touched = u.touched /\ u.met \subseteq v.met /\ v.timers = u.timers
        /\ v = u \/ "rearmed" \in v.met
    <3>1. LET w == Met(u, "rearmed")
          IN  w \in Memories /\ w.touched = u.touched /\ w.met = u.met \cup {"rearmed"} /\ w.timers = u.timers
      BY <1>1, <1>5, MetIs DEF Clocks
    <3> QED
      BY <1>5, <3>1
  <2>2. t = Timed(v, Insert(v.timers, Repeat(x)))
    BY <1>6, <2>1 DEF Continued
  <2> HIDE DEF v
  <2>3. t.touched = v.touched /\ t.met = v.met
    BY <2>1, <2>2, PutMet
  <2>4. Quiet(t) => Quiet(u) /\ v = u /\ "rearmed" \notin u.met
    BY <2>1, <2>3 DEF Quiet, Lasting
  <2>5. Quiet(t) => u \in done
    BY <1>2, <1>3, <2>4
  <2> QED
    BY <1>5, <2>1, <2>2, <2>3, <2>4, <2>5 DEF done
<1>7. CASE t = Refused(u, o)
  <2>1. u.met \subseteq t.met /\ u.touched \subseteq t.touched
    BY <1>5, <1>7, RefusedIs
  <2>2. Quiet(t) => Quiet(u) /\ "rearmed" \notin u.met
    BY <2>1 DEF Quiet, Lasting
  <2>3. Quiet(t) => u \in done
    BY <1>2, <1>3, <2>2
  <2> QED
    BY <1>5, <1>7, <2>1, <2>2, <2>3 DEF done
<1> QED
  BY <1>2, <1>6, <1>7

LEMMA FireFit ==
    ASSUME NEW s, Sound(s, {}), s.touched = {}, s.timers # <<>>, s.role \in Stream, Cast(s),
           Fit(s, s.role, {}, {}),
           NEW t \in LET x == Head(s.timers)
                         u == [s EXCEPT !.timers = Tail(@)]
                     IN  IF x.fn[2] \notin s.live THEN {Touch(u, x.fn[2], "timer")}
                         ELSE IF x.fn[1] = "connect" THEN FireConnect(u, x) ELSE FireTimeout(u, x),
           Quiet(s), Quiet(t)
    PROVE  Cast(t) /\ t.role = s.role /\ Fit(t, s.role, {}, {})
<1> DEFINE x == Head(s.timers)
           u == Touch(Timed(s, Tail(s.timers)), x.fn[2], "timer")
           X == {o \in Stream : x.fn = <<"timeout", o>>}
<1>1. /\ x \in Timers /\ x.fn[2] \in Stream /\ Range(s.timers) = Range(u.timers) \cup {x}
      /\ Sound(u, X)
      /\ u.live = s.live /\ u.met = s.met /\ u.tid = s.tid
      /\ u.touched = {} => x.fn[2] \in u.live /\ u = Timed(s, Tail(s.timers))
      /\ x.fn[1] = "connect" => x.fn[2] = "connector" /\ "connector" \in u.live
      /\ \A y \in Range(u.timers) : y.id # x.id
  <2>1. "rearmed" \notin s.met
    BY DEF Quiet, Lasting
  <2> QED
    BY <2>1, FiredSound
<1>2. t \in IF x.fn[2] \notin s.live THEN {u}
            ELSE IF x.fn[1] = "connect" THEN FireConnect(u, x) ELSE FireTimeout(u, x)
  BY FireIs, Zenon
<1>3. s \in Memories /\ Tail(s.timers) \in Seq(Timers)
  <2>1. s \in Memories /\ s.timers \in Seq(Timers)
    BY DEF Sound, Memories
  <2> QED
    BY <2>1
<1>4. /\ u.touched = {} /\ x.fn[2] \in s.live /\ Kin(s, u) /\ u.reconnect = s.reconnect
      /\ Sockets(u) = Sockets(s) /\ Data(u) = Data(s) /\ Net(u) = Net(s)
  <2> DEFINE v == Timed(s, Tail(s.timers))
  <2>1. /\ v.reconnect = s.reconnect /\ v.touched = s.touched
        /\ Sockets(v) = Sockets(s) /\ Data(v) = Data(s) /\ Net(v) = Net(s) /\ Kin(s, v)
    BY <1>3, TimedIs, TimedKin
  <2>2. x.fn[2] \in s.live
    BY <1>1, <1>2 DEF Quiet
  <2>3. u = v
    BY <2>1, <2>2 DEF Touch, Sockets
  <2> HIDE DEF u, v
  <2> QED
    BY <2>1, <2>2, <2>3
<1> HIDE DEF x, u
<1>5. u \in Memories
  BY <1>1 DEF Sound
<1>6. x.fn[1] = "connect" => x.fn = <<"connect", "connector">>
  <2>1. \A f : f \in {<<"timeout", o>> : o \in Stream} \cup {<<"connect", "connector">>} =>
           (f[1] = "connect" => f = <<"connect", "connector">>)
    OBVIOUS
  <2>2. x.fn \in {<<"timeout", o>> : o \in Stream} \cup {<<"connect", "connector">>}
    BY <1>1 DEF Timers
  <2> QED
    BY <2>1, <2>2
<1>7. ASSUME Kin(s, t), Fit(t, s.role, {}, {})
      PROVE  Cast(t) /\ t.role = s.role /\ Fit(t, s.role, {}, {})
  BY <1>7, KinCast DEF Kin
<1>8. CASE x.fn[1] = "connect"
  <2> DEFINE o == "connector"
  <2>1. x.fn = <<"connect", o>> /\ t \in FireConnect(u, x) /\ o \in u.live
    BY <1>1, <1>2, <1>4, <1>6, <1>8
  <2>2. s.role = o
    BY <1>1, <2>1 DEF Cast, Stream
  <2>3. x.id \in Redials(s)
    BY <1>1, <2>1 DEF Redials
  <2>4. Closed(s, o)
    BY <2>2, <2>3 DEF Fit, Calling, Serving, Open, Linked
  <2>5. Redials(u) = {}
    <3>1. \A y \in Range(u.timers) : y.fn = <<"connect", o>> => y.id \in Redials(s)
      BY <1>1 DEF Redials
    <3>2. \A i, j \in Redials(s) : i = j
      BY <1>1, <2>1, <2>4 DEF Closed
    <3> QED
      BY <1>1, <2>3, <3>1, <3>2 DEF Redials
  <2>6. ~Waits(u, o)
    BY <1>1, <2>1, <2>4 DEF Closed, Waits
  <2>7. Sound(u, {})
    <3>1. X \subseteq {}
      BY <2>1
    <3> QED
      BY <1>1, <3>1, SoundMore
  <2>8. o \notin u.bind
    BY <1>4, <2>4 DEF Closed, Sockets
  <2>9. Kin(u, t) /\ (Quiet(t) => Fit(t, o, {}, {}))
    BY <1>1, <2>1, <2>5, <2>6, <2>7, <2>8, FireConnectFit
  <2>10. Kin(s, t)
    BY <1>4, <2>9, KinOn
  <2> QED
    BY <1>7, <2>2, <2>9, <2>10
<1>9. CASE x.fn[1] # "connect"
  <2> DEFINE o == x.fn[2]
             r == Repeat(x)
  <2>1. x.fn = <<"timeout", o>> /\ o \in Stream /\ o \in Obj
    BY <1>1, <1>9, FnIs, SMTT(20) DEF Stream
  <2>2. t \in FireTimeout(u, x) /\ o \in u.live
    BY <1>1, <1>2, <1>4, <1>9
  <2> HIDE DEF o
  <2>3. r \in Timers /\ r.fn = x.fn
    BY <1>1, RepeatIs
  <2> HIDE DEF X
  <2>4. PICK w \in {u, CloseOwn(u, o)} \cup Sends(u, o) :
           /\ Sound(w, X) /\ Quiet(w)
           /\ t = Timed(w, Insert(w.timers, r)) \/ t = Refused(w, o)
    <3>1. Sound(u, X) /\ x \in Timers
      BY <1>1
    <3>2. Quiet(t) => \E w \in {u, CloseOwn(u, o)} \cup Sends(u, o) :
             /\ Sound(w, X) /\ Quiet(w)
             /\ t = Timed(w, Insert(w.timers, r)) \/ t = Refused(w, o)
      BY <2>1, <2>2, <3>1, FireTimeoutQuiet
    <3> QED
      BY <3>2
  <2> HIDE DEF r
  <2>5. s.role = o
    BY <1>1, <2>1, <2>2 DEF Cast, Stream
  <2>6. Serving(s, o, {}, {})
    <3>1. Waits(s, o) /\ o \in s.live
      BY <1>1, <2>1, <2>2 DEF Waits
    <3> QED
      BY <2>5, <3>1 DEF Fit, Closed, Calling
  <2>7. Serving(u, o, {}, {})
    <3>1. x.fn # <<"connect", "connector">>
      BY <2>1
    <3>2. Redials(u) = Redials(s)
      BY <1>1, <3>1 DEF Redials
    <3>3. Same(s, u, o)
      BY <1>1, <1>4, <3>2 DEF Same, Sockets, Data, Net
    <3> QED
      BY <2>6, <3>3, SameServing
  <2>8. Kin(u, w) /\ Serving(w, o, {}, {})
    <3>1. Present(u, o)
      BY <2>2 DEF Present, Unless
    <3> QED
      BY <1>1, <2>1, <2>4, <2>7, <3>1, SendsServing
  <2>9. Kin(s, w) /\ w \in Memories
    BY <1>4, <2>4, <2>8, KinOn DEF Sound
  <2>10. CASE t = Timed(w, Insert(w.timers, r))
    <3> DEFINE ts == Insert(w.timers, r)
    <3>1. ts \in Seq(Timers) /\ Range(ts) = Range(w.timers) \cup {r}
      BY <2>3, <2>9, InsertIs DEF Memories
    <3>2. t = Timed(w, ts)
      BY <2>10
    <3> HIDE DEF ts
    <3>3. /\ Sockets(t) = Sockets(w) /\ Data(t) = Data(w) /\ Net(t) = Net(w) /\ t.timers = ts
          /\ t.reconnect = w.reconnect /\ t.met = w.met /\ Kin(w, t)
      BY <2>9, <3>1, <3>2, TimedIs, TimedKin
    <3>4. Redials(t) = Redials(w)
      <4>1. r.fn # <<"connect", "connector">>
        BY <2>1, <2>3
      <4> QED
        BY <3>1, <3>3, <4>1 DEF Redials
    <3>5. Same(w, t, o)
      BY <3>3, <3>4 DEF Same, Sockets, Data, Net
    <3>6. Serving(t, o, {}, {})
      BY <2>8, <3>5, SameServing
    <3>7. Kin(s, t)
      BY <2>9, <3>3, KinOn
    <3> QED
      BY <1>7, <2>5, <3>6, <3>7 DEF Fit
  <2>11. CASE t = Refused(w, o)
    <3>1. o = "connector" => Redials(w) = {}
      BY <2>8 DEF Serving, Open, Linked
    <3>2. Kin(w, t) /\ Closed(t, o)
      BY <2>1, <2>4, <2>11, <3>1, RefusedIs
    <3>3. Kin(s, t)
      BY <2>9, <3>2, KinOn
    <3> QED
      BY <1>7, <2>5, <3>2, <3>3 DEF Fit
  <2> QED
    BY <2>4, <2>10, <2>11
<1> QED
  BY <1>8, <1>9

LEMMA NewFit ==
    ASSUME NEW s, Sound(s, {}), InOrder(s), s.touched = {}, s.role = "connector", Cast(s), "connector" \notin s.live
    PROVE  LET t == New(s)
           IN  /\ Sound(t, {}) /\ "connector" \in t.live /\ t.role = s.role /\ Cast(t)
               /\ "connector" \notin t.bind /\ Redials(t) = {} /\ ~Waits(t, "connector")
<1> DEFINE t == New(s)
           o == "connector"
<1>1. s \in Memories /\ Kernel(s) /\ s.timers \in Seq(Timers)
  BY DEF Sound, Memories
<1>2. t.live = s.live \cup {o} /\ t.fd = s.fd /\ t.bind = s.bind \ {o} /\ t.timers = s.timers
  BY <1>1, NewIs
<1>3. t.role = s.role /\ Net(t) = Net(s)
  BY <1>1 DEF New, Memories, Net
<1>4. Sound(t, {}) /\ o \in t.live
  BY NewSound
<1> HIDE DEF t
<1>5. Cast(t)
  BY <1>2, <1>3 DEF Cast, Net
<1>6. \A x \in Range(s.timers) : x.fn[2] # o
  BY <1>1 DEF Kernel
<1>7. Redials(t) = {} /\ ~Waits(t, o)
  BY <1>2, <1>6 DEF Redials, Waits
<1> QED
  BY <1>2, <1>3, <1>4, <1>5, <1>7 DEF t

LEMMA AddConnectorQuiet ==
    ASSUME NEW s, Sound(s, {}), InOrder(s), "connector" \notin s.live,
           NEW t \in DialSucceeds(New(s)) \cup {Close(u, "connector") : u \in DialFails(New(s))},
           Quiet(t)
    PROVE  Quiet(s)
<1> DEFINE n == New(s)
           o == "connector"
<1>1. s \in Memories /\ o \in Obj
  BY DEF Sound, Obj
<1>2. Sound(n, {}) /\ o \in n.live
  BY NewSound
<1>3. n \in Memories /\ n.touched = s.touched /\ n.met = s.met
  BY <1>1, NewIs
<1>4. t \in DialSucceeds(n) \/ \E u \in DialFails(n) : t = Close(u, o)
  OBVIOUS
<1> HIDE DEF n
<1>5. CASE t \in DialSucceeds(n)
  <2>1. Goes(Dial(n), t, o)
    BY <1>2, <1>5, DialSucceedsSound
  <2>2. Dial(n).touched = n.touched /\ Dial(n).met = n.met
    BY <1>3, DialIs
  <2> QED
    BY <1>3, <2>1, <2>2 DEF Goes, Quiet
<1>6. ASSUME NEW u \in DialFails(n), t = Close(u, o)
      PROVE  Quiet(s)
  <2>1. Sound(u, {}) /\ u.live = n.live /\ u.touched = n.touched /\ u.met = n.met
    BY <1>2, DialFailsSound
  <2>2. Goes(u, t, o)
    BY <1>1, <1>2, <1>6, <2>1, CloseSound
  <2> QED
    BY <1>3, <2>1, <2>2 DEF Goes, Quiet
<1> QED
  BY <1>4, <1>5, <1>6

LEMMA AddConnectorFit ==
    ASSUME NEW s, Sound(s, {}), InOrder(s), s.touched = {}, s.role = "connector", Cast(s), "connector" \notin s.live,
           NEW t \in DialSucceeds(New(s)) \cup {Close(u, "connector") : u \in DialFails(New(s))},
           Quiet(t)
    PROVE  Cast(t) /\ t.role = s.role /\ Fit(t, s.role, {}, {})
<1> DEFINE n == New(s)
           o == "connector"
<1>1. /\ Sound(n, {}) /\ o \in n.live /\ n.role = s.role /\ Cast(n)
      /\ o \notin n.bind /\ Redials(n) = {} /\ ~Waits(n, o)
  BY NewFit
<1>2. t \in DialSucceeds(n) \/ \E u \in DialFails(n) : t = Close(u, o)
  OBVIOUS
<1> HIDE DEF n
<1>3. CASE t \in DialSucceeds(n)
  <2>1. Kin(n, t) /\ Fit(t, o, {}, {})
    BY <1>1, <1>3, DialSucceedsFit
  <2> QED
    BY <1>1, <2>1, KinCast DEF Kin
<1>4. ASSUME NEW u \in DialFails(n), t = Close(u, o)
      PROVE  Cast(t) /\ t.role = s.role /\ Fit(t, s.role, {}, {})
  <2>1. Sound(u, {}) /\ u.live = n.live
    BY <1>1, DialFailsSound
  <2>2. u \in Memories /\ Kin(n, u) /\ Redials(u) = {}
    BY <1>1, DialFailsFit DEF Sound
  <2>3. o \in Stream /\ o \in Obj
    BY DEF Stream, Obj
  <2>4. Closed(t, o)
    BY <1>1, <1>4, <2>1, <2>2, <2>3, CloseFit
  <2>5. Kin(u, t)
    BY <1>4, <2>2, <2>3, CloseKin
  <2>6. Cast(u) /\ u.role = s.role
    BY <1>1, <2>2, KinCast DEF Kin
  <2>7. Cast(t) /\ t.role = s.role
    BY <2>5, <2>6, KinCast DEF Kin
  <2> QED
    BY <2>4, <2>7 DEF Fit
<1> QED
  BY <1>2, <1>3, <1>4
----------------------------------------------------------------------------
(* While nothing lasting has been done, the one stream there is is closed, *)
(* calling or served, and what epoll_wait has returned is of a socket that *)
(* has answered.                                                           *)
OutsOf(b) == {x.o : x \in {y \in b : "OUT" \in y.events}}
ErrsOf(b) == {x.o : x \in {y \in b : "ERR" \in y.events}}

ServedBy(s, b) ==
    /\ Cast(s) /\ Fit(s, s.role, OutsOf(b), ErrsOf(b))
    /\ \A x \in b : x.o \in Stream => s.net[x.o] \notin {"none", "connecting"}

Served == Quiet(m) => ServedBy(m, batch)

LEMMA NoBatch ==
    ASSUME NEW s, Cast(s), Fit(s, s.role, {}, {})
    PROVE  ServedBy(s, {})
<1>1. OutsOf({}) = {} /\ ErrsOf({}) = {}
  BY DEF OutsOf, ErrsOf
<1> QED
  BY <1>1 DEF ServedBy

LEMMA NoBatchIs ==
    ASSUME NEW s, ServedBy(s, {})
    PROVE  Cast(s) /\ Fit(s, s.role, {}, {})
<1>1. OutsOf({}) = {} /\ ErrsOf({}) = {}
  BY DEF OutsOf, ErrsOf
<1> QED
  BY <1>1 DEF ServedBy

LEMMA StartsServed == Init => Served
<1> SUFFICES ASSUME Init PROVE Served
  OBVIOUS
<1>1. PICK role \in Stream, reconnect \in BOOLEAN :
         m = [role |-> role, reconnect |-> reconnect,
            live |-> {"acceptor"},
            fd |-> {"acceptor"},
            connected |-> {"accepted"},
            bind |-> {"acceptor"},
            mon |-> [o \in Obj |-> IF o = "acceptor" THEN {"IN"} ELSE {}],
            tid |-> [o \in Obj |-> NoTimer], timers |-> <<>>,
            sbuf |-> [o \in Obj |-> <<>>], made |-> [o \in Obj |-> 0],
            reg |-> {"acceptor"},
            ev |-> [o \in Obj |-> IF o = "acceptor" THEN {"IN"} ELSE {}],
            net |-> [o \in Obj |-> "none"],
            unread |-> {}, full |-> {}, ready |-> {},
            wire |-> [o \in Obj |-> <<>>],
            touched |-> {}, met |-> {}]
  BY DEF Init
<1>2. /\ m.role = role /\ m.live = {"acceptor"} /\ m.bind = {"acceptor"} /\ m.reg = {"acceptor"}
      /\ m.net = [o \in Obj |-> "none"] /\ m.unread = {}
  BY <1>1
<1>3. \A o \in Stream : m.net[o] = "none" /\ o # "acceptor"
  BY <1>2 DEF Stream
<1>4. Cast(m)
  BY <1>2, <1>3 DEF Cast
<1>5. Closed(m, role)
  BY <1>2, <1>3 DEF Closed
<1>6. batch = {}
  BY DEF Init
<1> QED
  BY <1>2, <1>4, <1>5, <1>6, NoBatch DEF Served, Fit

LEMMA AddConnectorServes == IInv /\ Served /\ m.touched = {} /\ AddConnector => Served'
<1> SUFFICES ASSUME IInv, Served, m.touched = {}, AddConnector, Quiet(m') PROVE ServedBy(m', batch')
  BY DEF Served
<1>1. m' \in DialSucceeds(New(m)) \cup {Close(u, "connector") : u \in DialFails(New(m))}
  BY DEF AddConnector, New
<1>2. /\ m.role = "connector" /\ "connector" \notin m.live /\ pc = "timers" /\ batch' = batch
      /\ Sound(m, {}) /\ InOrder(m) /\ batch = {}
  BY DEF AddConnector, IInv, BatchInv
<1>4. Quiet(m)
  BY <1>1, <1>2, AddConnectorQuiet
<1>5. Cast(m)
  BY <1>2, <1>4, NoBatchIs DEF Served
<1>6. Cast(m') /\ m'.role = m.role /\ Fit(m', m.role, {}, {})
  BY <1>1, <1>2, <1>5, AddConnectorFit
<1> QED
  BY <1>2, <1>6, NoBatch

LEMMA FireQuiet ==
    ASSUME NEW s, Sound(s, {}), s.touched = {}, s.timers # <<>>,
           NEW t \in LET x == Head(s.timers)
                         u == [s EXCEPT !.timers = Tail(@)]
                     IN  IF x.fn[2] \notin s.live THEN {Touch(u, x.fn[2], "timer")}
                         ELSE IF x.fn[1] = "connect" THEN FireConnect(u, x) ELSE FireTimeout(u, x),
           Quiet(t)
    PROVE  Quiet(s)
<1> DEFINE x == Head(s.timers)
           u == Touch(Timed(s, Tail(s.timers)), x.fn[2], "timer")
           X == {o \in Stream : x.fn = <<"timeout", o>>}
<1>1. /\ x \in Timers /\ x.fn[2] \in Stream /\ Sound(u, X) /\ u.live = s.live /\ u.met = s.met
      /\ x.fn[1] = "connect" => x.fn[2] = "connector" /\ "connector" \in u.live
  <2>1. /\ x \in Timers /\ x.fn[2] \in Stream /\ Range(s.timers) = Range(u.timers) \cup {x}
        /\ Sound(u, X)
        /\ u.live = s.live /\ u.met = s.met /\ u.tid = s.tid /\ (InOrder(s) => InOrder(u))
        /\ u.touched = {} => x.fn[2] \in u.live /\ u = Timed(s, Tail(s.timers))
        /\ x.fn[1] = "connect" => x.fn[2] = "connector" /\ "connector" \in u.live
        /\ "rearmed" \notin s.met =>
              /\ x.id # NoTimer /\ \A y \in Range(u.timers) : y.id # x.id
              /\ x.fn[1] = "timeout" => x.fn[2] \in s.live /\ x.id = s.tid[x.fn[2]]
              /\ \A o \in Obj : x.id = s.tid[o] => x.fn = <<"timeout", o>>
    BY FiredSound, Zenon
  <2> QED
    BY <2>1
<1>2. t \in IF x.fn[2] \notin s.live THEN {u}
            ELSE IF x.fn[1] = "connect" THEN FireConnect(u, x) ELSE FireTimeout(u, x)
  BY FireIs, Zenon
<1> HIDE DEF x, u, X
<1>3. u \in Memories
  BY <1>1 DEF Sound
<1>4. SUFFICES u.met \subseteq t.met
  BY <1>1 DEF Quiet
<1>5. CASE x.fn[2] \notin s.live
  BY <1>2, <1>5
<1>6. CASE x.fn[2] \in s.live /\ x.fn[1] = "connect"
  <2>1. t \in FireConnect(u, x) /\ "connector" \in u.live
    BY <1>1, <1>2, <1>6
  <2>2. CASE t \in DialSucceeds(u)
    <3>1. Goes(Dial(u), t, "connector")
      BY <1>1, <2>1, <2>2, DialSucceedsSound
    <3>2. Dial(u).met = u.met
      BY <1>3, DialIs
    <3> QED
      BY <3>1, <3>2 DEF Goes
  <2>3. ASSUME NEW w \in DialFails(u), t = Timed(w, Insert(w.timers, Repeat(x)))
        PROVE  u.met \subseteq t.met
    <3>1. Sound(w, X) /\ w.met = u.met
      BY <1>1, <2>1, DialFailsSound
    <3>2. w \in Memories
      BY <3>1 DEF Sound
    <3>3. t.met = w.met
      BY <1>1, <2>3, <3>2, PutMet
    <3> QED
      BY <3>1, <3>3
  <2> QED
    BY <2>1, <2>2, <2>3 DEF FireConnect, Timed
<1>7. CASE x.fn[2] \in s.live /\ x.fn[1] # "connect"
  <2> DEFINE o == x.fn[2]
  <2>1. x.fn = <<"timeout", o>> /\ o \in Stream
    BY <1>1, <1>7, FnIs, SMTT(20)
  <2>2. t \in FireTimeout(u, x) /\ o \in u.live
    BY <1>1, <1>2, <1>7
  <2> HIDE DEF o
  <2> QED
    BY <1>1, <2>1, <2>2, FireTimeoutQuiet
<1> QED
  BY <1>5, <1>6, <1>7, Zenon

LEMMA FireServes == IInv /\ Served /\ m.touched = {} /\ Fire => Served'
<1> SUFFICES ASSUME IInv, Served, m.touched = {}, Fire, Quiet(m') PROVE ServedBy(m', batch')
  BY DEF Served
<1>1. /\ pc = "timers" /\ batch' = batch /\ IsDue(m.timers)
      /\ m' \in LET x == Head(m.timers)
                    u == [m EXCEPT !.timers = Tail(@)]
                IN  IF x.fn[2] \notin m.live THEN {Touch(u, x.fn[2], "timer")}
                    ELSE IF x.fn[1] = "connect" THEN FireConnect(u, x) ELSE FireTimeout(u, x)
  BY DEF Fire
<1>2. m.timers # <<>> /\ batch = {} /\ Sound(m, {})
  BY <1>1 DEF IsDue, IInv, BatchInv
<1>3. Quiet(m)
  BY <1>1, <1>2, FireQuiet
<1>4. Cast(m) /\ Fit(m, m.role, {}, {}) /\ m.role \in Stream
  BY <1>2, <1>3, NoBatchIs DEF Served, IInv, TypeOK, Memories
<1>5. Cast(m') /\ m'.role = m.role /\ Fit(m', m.role, {}, {})
  BY <1>1, <1>2, <1>3, <1>4, FireFit
<1> QED
  BY <1>1, <1>2, <1>5, NoBatch

LEMMA DoneTimersServes == Served /\ DoneTimers => Served'
  BY DEF Served, DoneTimers, Quiet, ServedBy, OutsOf, ErrsOf, Cast, Fit, Closed, Calling, Serving, Open, Linked,
         Watched, Awaits, Sending, Waits, Redials

(* epoll_wait: what was on its way is in the batch, with all its events.   *)
LEMMA WaitFit ==
    ASSUME NEW s \in Memories, Kernel(s), Cast(s), Fit(s, s.role, {}, {}), NEW t,
           t.role = s.role, t.reconnect = s.reconnect, t.live = s.live, t.fd = s.fd,
           t.connected = s.connected, t.bind = s.bind, t.mon = s.mon, t.reg = s.reg, t.ev = s.ev,
           t.timers = s.timers, t.wire = s.wire, t.sbuf = s.sbuf,
           t.net = s.net, t.unread = s.unread, t.full = s.full,
           "overlooked" \in s.met => "overlooked" \in t.met
    PROVE  ServedBy(t, {[o |-> o, events |-> Reported(s, o)] : o \in {p \in s.ready : Reported(s, p) # {}}})
<1> DEFINE o == s.role
           b == {[o |-> p, events |-> Reported(s, p)] : p \in {q \in s.ready : Reported(s, q) # {}}}
           outs == OutsOf(b)
           errs == ErrsOf(b)
<1>1. o \in Stream
  BY DEF Memories
<1>2. \A x \in b : x.o \in s.ready /\ x.events = Reported(s, x.o) /\ x.events # {}
  OBVIOUS
<1>3. \A e, p : p \in s.ready /\ e \in Reported(s, p) => \E x \in b : x.o = p /\ e \in x.events
  <2> SUFFICES ASSUME NEW e, NEW p, p \in s.ready, e \in Reported(s, p)
               PROVE  \E x \in b : x.o = p /\ e \in x.events
    OBVIOUS
  <2>1. p \in {q \in s.ready : Reported(s, q) # {}}
    OBVIOUS
  <2>2. [o |-> p, events |-> Reported(s, p)] \in b
    BY <2>1
  <2> QED
    BY <2>2
<1> HIDE DEF o, b
<1>4. o \in s.ready /\ "OUT" \in Reported(s, o) => o \in outs
  BY <1>3 DEF OutsOf
<1>5. o \in s.ready /\ "ERR" \in Reported(s, o) => o \in errs
  BY <1>3 DEF ErrsOf
<1> HIDE DEF outs, errs
<1>6. s.net[o] \in {"refused", "reset"} => "ERR" \in Reported(s, o)
  BY DEF Reported, Level
<1>7. s.net[o] = "up" /\ o \notin s.full /\ "OUT" \in s.ev[o] => "OUT" \in Reported(s, o)
  BY DEF Reported, Level
<1>8. Cast(t)
  BY DEF Cast
<1>9. Linked(s, o, {}) => Linked(t, o, errs)
  BY <1>5, <1>6 DEF Linked, Redials
<1>10. Watched(s, o) => Watched(t, o)
  BY DEF Watched
<1>11. Watched(s, o) /\ Awaits(s, o, {}) => Awaits(t, o, outs)
  BY <1>4, <1>7 DEF Awaits, Sending, Watched
<1>12. Fit(t, o, outs, errs)
  <2>1. Fit(s, o, {}, {})
    BY DEF o
  <2>2. Closed(s, o) => Closed(t, o)
    BY DEF Closed, Redials, Waits
  <2>3. Calling(s, o, {}) => Calling(t, o, errs)
    BY <1>9, <1>10 DEF Calling, Waits
  <2>4. Serving(s, o, {}, {}) => Serving(t, o, outs, errs)
    BY <1>9, <1>10, <1>11 DEF Serving, Open
  <2> QED
    BY <2>1, <2>2, <2>3, <2>4 DEF Fit
<1>13. ASSUME NEW x \in b, x.o \in Stream
       PROVE  t.net[x.o] \notin {"none", "connecting"}
  <2>1. x.o \in s.ready /\ Reported(s, x.o) # {}
    BY <1>2, <1>13
  <2>2. x.o = o /\ o \in s.reg
    BY <1>13, <2>1 DEF Cast, Kernel, Stream, o
  <2>3. Fit(s, o, {}, {})
    BY DEF o
  <2>4. CASE Closed(s, o)
    BY <2>2, <2>4 DEF Closed
  <2>5. CASE Calling(s, o, {})
    <3>1. s.ev[o] = {"OUT"} /\ s.net[o] # "none"
      BY <2>5 DEF Calling, Watched
    <3>2. s.net[o] = "connecting" => Reported(s, o) = {}
      BY <3>1 DEF Reported, Level
    <3> QED
      BY <2>1, <2>2, <3>1, <3>2
  <2>6. CASE Serving(s, o, {}, {})
    BY <2>2, <2>6 DEF Serving, Open
  <2> QED
    BY <2>3, <2>4, <2>5, <2>6 DEF Fit
<1>14. ServedBy(t, b)
  BY <1>8, <1>12, <1>13 DEF ServedBy, o, outs, errs
<1> QED
  BY <1>14 DEF b

LEMMA EpollWaitServes == IInv /\ Served /\ EpollWait => Served'
<1> SUFFICES ASSUME IInv, Served, EpollWait, Quiet(m') PROVE ServedBy(m', batch')
  BY DEF Served
<1>1. m \in Memories /\ Sound(m, {}) /\ batch = {}
  BY DEF IInv, Sound, BatchInv, EpollWait
<1>2. /\ m' = [m EXCEPT !.ready = {}, !.met = m.met \cap (Lasting \cup {"overlooked"})]
      /\ batch' = {[o |-> o, events |-> Reported(m, o)] : o \in {p \in m.ready : Reported(m, p) # {}}}
  BY <1>1 DEF EpollWait, Memories
<1>3. m'.touched = m.touched /\ m'.met = m.met \cap (Lasting \cup {"overlooked"})
  BY <1>1, <1>2 DEF Memories
<1>4. Quiet(m) /\ Kernel(m)
  BY <1>1, <1>3 DEF Quiet, Sound
<1>5. Cast(m) /\ Fit(m, m.role, {}, {})
  BY <1>1, <1>4, NoBatchIs DEF Served
<1>6. /\ m'.role = m.role /\ m'.reconnect = m.reconnect /\ m'.live = m.live /\ m'.fd = m.fd
      /\ m'.connected = m.connected /\ m'.bind = m.bind /\ m'.mon = m.mon /\ m'.reg = m.reg /\ m'.ev = m.ev
  BY <1>1, <1>2 DEF Memories
<1>7. /\ m'.timers = m.timers /\ m'.wire = m.wire /\ m'.sbuf = m.sbuf
      /\ m'.net = m.net /\ m'.unread = m.unread /\ m'.full = m.full
  BY <1>1, <1>2 DEF Memories
<1> QED
  BY <1>1, <1>2, <1>3, <1>4, <1>5, <1>6, <1>7, WaitFit

LEMMA HandleServes == \A e : IInv /\ Served /\ m.touched = {} /\ Handle(e) => Served'
<1> SUFFICES ASSUME NEW e, IInv, Served, m.touched = {}, Handle(e), Quiet(m') PROVE ServedBy(m', batch')
  BY DEF Served
<1> DEFINE s == Touch(m, e.o, "event")
           o == m.role
           outs == OutsOf(batch)
           errs == ErrsOf(batch)
<1>1. /\ e \in batch /\ batch' = batch \ {e}
      /\ Sound(m, {}) /\ Sound(s, {}) /\ Sound(m', {}) /\ Goes(m, s, e.o) /\ Goes(s, m', e.o)
      /\ s.touched = {} => e.o \in m.live
      /\ \/ e.o = "acceptor" /\ m' \in OnAccept(s)
         \/ e.o \in Stream /\ e.o \in m.live /\ e.o \in s.connected /\ m' \in OnConnection(s, e.o, e.events)
         \/ /\ e.o = "connector" /\ e.o \in m.live /\ e.o \notin s.connected
            /\ m' \in OnConnect(s, e.events)
  BY HandledSound
<1>2. Quiet(s) /\ Quiet(m)
  BY <1>1, QuietBefore
<1>3. s = m /\ e.o \in m.live
  BY <1>1, <1>2 DEF Quiet, Touch
<1> HIDE DEF s
<1>4. Cast(m) /\ Fit(m, o, outs, errs) /\ o \in Stream
  BY <1>2 DEF Served, ServedBy, IInv, TypeOK, Memories
<1>5. \A x \in batch : x.o \in Stream => x.o = o /\ m.net[o] \notin {"none", "connecting"}
  <2> SUFFICES ASSUME NEW x \in batch, x.o \in Stream
               PROVE  x.o = o /\ m.net[x.o] \notin {"none", "connecting"}
    OBVIOUS
  <2>1. x.o # "acceptor" /\ Kept(x, m)
    BY DEF Stream, IInv, BatchInv
  <2> QED
    BY <1>2, <1>4, <2>1 DEF Cast, Kept, Served, ServedBy
<1>6. \A x, y \in batch : x.o = y.o => x = y
  BY DEF IInv, BatchInv
<1> HIDE DEF o
<1>7. ASSUME NEW p, p # e.o
      PROVE  (p \in outs => p \in OutsOf(batch')) /\ (p \in errs => p \in ErrsOf(batch'))
  BY <1>1, <1>7 DEF OutsOf, ErrsOf
<1>8. (e.o \in outs => "OUT" \in e.events) /\ (e.o \in errs => "ERR" \in e.events)
  BY <1>1, <1>6 DEF OutsOf, ErrsOf
<1>9. ASSUME e.o = o, Kin(m, m'), Fit(m', o, {}, {})
      PROVE  ServedBy(m', batch')
  <2>1. Cast(m') /\ m'.role = o
    BY <1>4, <1>9, KinCast DEF Kin, o
  <2>2. Fit(m', o, OutsOf(batch'), ErrsOf(batch'))
    BY <1>9, FitMore
  <2>3. \A x \in batch' : x.o \notin Stream
    BY <1>1, <1>5, <1>6, <1>9
  <2> QED
    BY <2>1, <2>2, <2>3 DEF ServedBy
<1> HIDE DEF outs, errs
<1>10. CASE e.o = "acceptor" /\ m' \in OnAccept(s)
  <2>1. Cast(m') /\ m'.role = m.role /\ Keeps(m, m', m.role)
    BY <1>1, <1>3, <1>4, <1>10, OnAcceptFit DEF o
  <2>2. Fit(m', o, outs, errs) /\ (m.net[o] # "none" => m'.net[o] = m.net[o])
    BY <1>4, <2>1 DEF Keeps, o
  <2>3. o # e.o
    BY <1>4, <1>10 DEF Stream
  <2>4. Fit(m', o, OutsOf(batch'), ErrsOf(batch'))
    BY <1>7, <2>2, <2>3, FitMore
  <2>5. \A x \in batch' : x.o \in Stream => m'.net[x.o] \notin {"none", "connecting"}
    BY <1>1, <1>5, <2>2
  <2> QED
    BY <2>1, <2>4, <2>5 DEF ServedBy, o
<1>11. CASE e.o \in Stream /\ e.o \in m.live /\ e.o \in s.connected /\ m' \in OnConnection(s, e.o, e.events)
  <2>1. e.o = o /\ m.net[o] \notin {"none", "connecting"} /\ o \in m.connected
    BY <1>1, <1>3, <1>5, <1>11
  <2>2. Serving(m, o, outs, errs)
    BY <1>4, <2>1 DEF Fit, Closed, Calling
  <2>3. /\ Kin(m, m')
        /\ Closed(m', o) \/ ("ERR" \notin e.events /\ Serving(m', o, IF "OUT" \in e.events THEN {} ELSE outs, errs))
    <3>1. Sound(m, {}) /\ o \in Stream /\ o \in m.live /\ m' \in OnConnection(m, o, e.events)
      BY <1>1, <1>3, <1>11, <2>1
    <3>2. /\ Kin(m, m')
          /\ Quiet(m') /\ Serving(m, o, outs, errs) =>
                Closed(m', o) \/ ("ERR" \notin e.events /\ Serving(m', o, IF "OUT" \in e.events THEN {} ELSE outs, errs))
      BY <3>1, OnConnectionFit
    <3> QED
      BY <2>2, <3>2
  <2>4. ASSUME "ERR" \notin e.events, Serving(m', o, IF "OUT" \in e.events THEN {} ELSE outs, errs)
        PROVE  Fit(m', o, {}, {})
    <3>1. Fit(m', o, IF "OUT" \in e.events THEN {} ELSE outs, errs)
      BY <2>4 DEF Fit
    <3>2. o \notin (IF "OUT" \in e.events THEN {} ELSE outs) /\ o \notin errs
      BY <1>8, <2>1, <2>4
    <3> QED
      BY <3>1, <3>2, FitMore
  <2>5. Fit(m', o, {}, {})
    BY <2>3, <2>4 DEF Fit
  <2> QED
    BY <1>9, <2>1, <2>3, <2>5
<1>12. CASE /\ e.o = "connector" /\ e.o \in m.live /\ e.o \notin s.connected
            /\ m' \in OnConnect(s, e.events)
  <2>1. e.o = o /\ m.net[o] \notin {"none", "connecting"} /\ o \notin m.connected
    BY <1>1, <1>3, <1>5, <1>12 DEF Stream, Obj
  <2>2. Calling(m, o, errs)
    BY <1>4, <2>1 DEF Fit, Closed, Serving, Open
  <2>3. /\ Kin(m, m')
        /\ "ERR" \in e.events => Closed(m', o)
        /\ "ERR" \notin e.events => Fit(m', o, {}, errs)
    BY <1>1, <1>3, <1>12, <2>1, <2>2, OnConnectFit
  <2>4. Fit(m', o, {}, {})
    <3>1. CASE "ERR" \in e.events
      BY <2>3, <3>1 DEF Fit
    <3>2. CASE "ERR" \notin e.events
      <4>1. o \notin errs /\ Fit(m', o, {}, errs)
        BY <1>8, <2>1, <2>3, <3>2
      <4> QED
        BY <4>1, FitMore
    <3> QED
      BY <3>1, <3>2
  <2> QED
    BY <1>9, <2>1, <2>3, <2>4
<1> QED
  BY <1>1, <1>10, <1>11, <1>12

(* A peer moves a socket on, and an edge wakes who is registered for it.   *)
LEMMA PeerFit ==
    ASSUME NEW s \in Memories, NEW b, ServedBy(s, b), NEW o \in Obj, NEW t \in Memories,
           t.role = s.role, t.reconnect = s.reconnect, t.met = s.met,
           Sockets(t) = Sockets(s), Clocks(t) = Clocks(s), Data(t) = Data(s),
           \A p \in Stream : \/ t.net[p] = s.net[p]
                             \/ p = o /\ s.net[p] # "none" /\ t.net[p] \notin {"none", "connecting"},
           \A p \in Stream : t.net[p] = "up" => s.net[p] \in {"up", "connecting"},
           t.full \subseteq s.full, s.full \subseteq t.full \cup {o},
           "acceptor" \in t.unread => "acceptor" \in s.unread \/ s.role = "accepted"
    PROVE  ServedBy(Wake(t, o), b)
<1> DEFINE r == s.role
           u == Wake(t, o)
           outs == OutsOf(b)
           errs == ErrsOf(b)
<1>1. r \in Stream /\ Cast(s) /\ Fit(s, r, outs, errs)
  BY DEF Memories, ServedBy
<1>2. /\ u.met = t.met /\ u.reconnect = t.reconnect /\ u.role = t.role /\ u.live = t.live /\ u.fd = t.fd
      /\ u.connected = t.connected /\ u.bind = t.bind /\ u.mon = t.mon /\ u.reg = t.reg /\ u.ev = t.ev
      /\ t.ready \subseteq u.ready /\ (o \in t.reg /\ Reported(t, o) # {} => o \in u.ready)
      /\ Clocks(u) = Clocks(t) /\ Data(u) = Data(t) /\ Net(u) = Net(t)
  BY WakeIs
<1> SUFFICES ServedBy(u, b)
  OBVIOUS
<1> HIDE DEF u
<1>3. /\ u.met = s.met /\ u.role = s.role /\ u.reconnect = s.reconnect /\ u.live = s.live /\ u.fd = s.fd
      /\ u.connected = s.connected /\ u.bind = s.bind /\ u.mon = s.mon /\ u.reg = s.reg /\ u.ev = s.ev
      /\ s.ready \subseteq u.ready /\ u.timers = s.timers /\ u.wire = s.wire /\ u.sbuf = s.sbuf
      /\ u.net = t.net /\ u.full = t.full /\ u.unread = t.unread /\ t.reg = s.reg /\ t.ev = s.ev
  BY <1>2 DEF Sockets, Clocks, Data, Net
<1>4. Cast(u)
  BY <1>1, <1>3 DEF Cast
<1>5. \A p \in Stream : s.net[p] \notin {"none", "connecting"} => u.net[p] \notin {"none", "connecting"}
  BY <1>3
<1>6. \A p : Waits(u, p) => Waits(s, p)
  BY <1>3 DEF Waits
<1>7. Redials(u) = Redials(s)
  BY <1>3 DEF Redials
<1> HIDE DEF r, outs, errs
<1>8. CASE r # o
  <2>1. Same(s, u, r)
    BY <1>1, <1>3, <1>7, <1>8 DEF Same
  <2>2. Fit(u, r, outs, errs)
    BY <1>1, <1>6, <2>1, SameFit
  <2> QED
    BY <1>3, <1>4, <1>5, <2>2 DEF ServedBy, r, outs, errs
<1>9. CASE r = o
  <2>1. Closed(s, r) => Closed(u, r)
    BY <1>1, <1>3, <1>6, <1>7 DEF Closed
  <2>2. Watched(s, r) => Watched(u, r)
    BY <1>3 DEF Watched
  <2>3. r \in s.reg /\ t.net[r] \in {"refused", "reset"} => r \in u.ready
    BY <1>2, <1>3, <1>9 DEF Reported, Level
  <2>4. r \in s.reg /\ t.net[r] = "up" /\ r \notin t.full /\ "OUT" \in s.ev[r] => r \in u.ready
    BY <1>2, <1>3, <1>9 DEF Reported, Level
  <2>5. Linked(s, r, errs) /\ Watched(s, r) => Linked(u, r, errs)
    BY <1>1, <1>3, <1>7, <2>3 DEF Linked, Watched
  <2>6. Watched(s, r) /\ s.net[r] # "connecting" /\ Awaits(s, r, outs) => Awaits(u, r, outs)
    BY <1>1, <1>3, <2>4 DEF Awaits, Sending, Watched
  <2>7. Calling(s, r, errs) => Calling(u, r, errs)
    BY <1>1, <1>3, <1>6, <2>2, <2>5 DEF Calling
  <2>8. Serving(s, r, outs, errs) => Serving(u, r, outs, errs)
    BY <1>1, <1>3, <1>5, <2>2, <2>5, <2>6 DEF Serving, Open
  <2>9. Fit(u, r, outs, errs)
    BY <1>1, <2>1, <2>7, <2>8 DEF Fit
  <2> QED
    BY <1>3, <1>4, <1>5, <2>9 DEF ServedBy, r, outs, errs
<1> QED
  BY <1>8, <1>9

LEMMA PeerServes ==
    ASSUME IInv, Served, NEW o \in Obj, NEW net \in [Obj -> Nets], NEW unread \in SUBSET Obj, NEW full \in SUBSET Obj,
           Peer(o, [m EXCEPT !.net = net, !.unread = unread, !.full = full]), UNCHANGED <<pc, batch>>,
           \A p \in Stream : \/ net[p] = m.net[p]
                             \/ p = o /\ m.net[p] # "none" /\ net[p] \notin {"none", "connecting"},
           \A p \in Stream : net[p] = "up" => m.net[p] \in {"up", "connecting"},
           full \subseteq m.full, m.full \subseteq full \cup {o},
           "acceptor" \in unread => "acceptor" \in m.unread \/ m.role = "accepted"
    PROVE  Served'
<1> DEFINE t == [m EXCEPT !.net = net, !.unread = unread, !.full = full]
<1>1. m \in Memories
  BY DEF IInv, TypeOK
<1>2. m' = Wake(t, o) /\ batch' = batch
  BY DEF Peer
<1>3. t \in Memories
  BY <1>1 DEF Memories, Nets
<1>4. /\ t.touched = m.touched /\ t.met = m.met /\ t.role = m.role /\ t.reconnect = m.reconnect
      /\ t.net = net /\ t.unread = unread /\ t.full = full
  BY <1>1 DEF Memories
<1>5. Sockets(t) = Sockets(m)
  BY <1>1 DEF Memories, Sockets
<1>6. Clocks(t) = Clocks(m)
  BY <1>1 DEF Memories, Clocks
<1>7. Data(t) = Data(m)
  BY <1>1 DEF Memories, Data
<1> HIDE DEF t
<1>8. m'.touched = m.touched /\ m'.met = m.met
  BY <1>2, <1>3, <1>4, WakeIs
<1>9. ASSUME ServedBy(m, batch)
      PROVE  ServedBy(Wake(t, o), batch)
  BY <1>1, <1>3, <1>4, <1>5, <1>6, <1>7, <1>9, PeerFit
<1> QED
  BY <1>2, <1>8, <1>9 DEF Served, Quiet

LEMMA ClockServes == IInv /\ Served /\ Clock /\ UNCHANGED batch => Served'
<1> SUFFICES ASSUME IInv, Served, Clock, batch' = batch, Quiet(m') PROVE ServedBy(m', batch)
  BY DEF Served
<1> DEFINE ts == Tick(m.timers)
           o == m.role
<1>1. m \in Memories /\ m.timers \in Seq(Timers) /\ m' = Timed(m, ts)
  BY DEF IInv, TypeOK, Memories, Clock, Timed
<1>2. /\ ts \in Seq(Timers)
      /\ \A x \in Range(ts) : \E y \in Range(m.timers) : x.id = y.id /\ x.fn = y.fn
      /\ \A y \in Range(m.timers) : \E x \in Range(ts) : x.id = y.id /\ x.fn = y.fn
  BY <1>1, TickIs
<1> HIDE DEF ts
<1>3. /\ m'.touched = m.touched /\ m'.met = m.met /\ m'.reconnect = m.reconnect
      /\ Sockets(m') = Sockets(m) /\ Data(m') = Data(m) /\ Net(m') = Net(m) /\ m'.timers = ts
  BY <1>1, <1>2, TimedIs
<1>4. Kin(m, m')
  BY <1>1, <1>2, TimedKin
<1>5. Quiet(m)
  BY <1>3 DEF Quiet
<1>6. Cast(m) /\ Fit(m, o, OutsOf(batch), ErrsOf(batch))
  BY <1>5 DEF Served, ServedBy
<1>7. Redials(m') = Redials(m)
  BY <1>2, <1>3 DEF Redials
<1>8. Waits(m', o) => Waits(m, o)
  BY <1>2, <1>3 DEF Waits
<1>9. Same(m, m', o)
  BY <1>3, <1>7 DEF Same, Sockets, Data, Net
<1>10. Fit(m', o, OutsOf(batch), ErrsOf(batch))
  BY <1>6, <1>8, <1>9, SameFit
<1>11. Cast(m') /\ m'.role = m.role /\ m'.net = m.net
  BY <1>3, <1>4, <1>6, KinCast DEF Kin, Net
<1> QED
  BY <1>5, <1>10, <1>11 DEF Served, ServedBy

LEMMA WorldServes == IInv /\ Served /\ World => Served'
<1> SUFFICES ASSUME IInv, Served, World PROVE Served'
  OBVIOUS
<1>1. /\ m \in Memories /\ m.net \in [Obj -> Nets] /\ m.unread \in SUBSET Obj /\ m.full \in SUBSET Obj
      /\ UNCHANGED <<pc, batch>>
  BY DEF IInv, TypeOK, Memories, World, Nets
<1>2. CASE Clock
  BY <1>1, <1>2, ClockServes
<1>3. CASE PeerConnects
  <2> DEFINE unread == m.unread \cup {"acceptor"}
  <2>1. Peer("acceptor", [m EXCEPT !.net = m.net, !.unread = unread, !.full = m.full]) /\ m.role = "accepted"
    BY <1>1, <1>3 DEF PeerConnects, Memories
  <2>2. "acceptor" \in Obj /\ unread \in SUBSET Obj /\ \A p \in Stream : p \in Obj
    BY <1>1 DEF Obj, Stream
  <2>3. \A p \in Stream : m.net[p] = "up" => m.net[p] \in {"up", "connecting"}
    OBVIOUS
  <2> QED
    BY <1>1, <2>1, <2>2, <2>3, PeerServes
<1>4. ASSUME NEW o \in Stream,
             \/ PeerAnswers(o) \/ PeerRefuses(o) \/ PeerSends(o) \/ PeerReads(o) \/ PeerCloses(o) \/ PeerResets(o)
      PROVE  Served'
  <2>1. o \in Obj /\ o # "acceptor" /\ \A p \in Stream : p \in Obj
    BY DEF Stream
  <2>2. ASSUME NEW n \in Nets \ {"none", "connecting"}, NEW unread \in SUBSET Obj, m.net[o] # "none",
               n = "up" => m.net[o] = "connecting",
               "acceptor" \in unread => "acceptor" \in m.unread,
               Peer(o, [m EXCEPT !.net = [m.net EXCEPT ![o] = n], !.unread = unread, !.full = m.full])
        PROVE  Served'
    <3> DEFINE net == [m.net EXCEPT ![o] = n]
    <3>1. net \in [Obj -> Nets]
      BY <1>1
    <3>2. \A p \in Stream : net[p] = IF p = o THEN n ELSE m.net[p]
      BY <1>1, <2>1
    <3>3. Peer(o, [m EXCEPT !.net = net, !.unread = unread, !.full = m.full])
      BY <2>2
    <3> HIDE DEF net
    <3>4. \A p \in Stream : net[p] = "up" => m.net[p] \in {"up", "connecting"}
      BY <2>2, <3>2
    <3>5. \A p \in Stream : \/ net[p] = m.net[p]
                            \/ p = o /\ m.net[p] # "none" /\ net[p] \notin {"none", "connecting"}
      BY <2>2, <3>2
    <3>6. /\ "acceptor" \in unread => "acceptor" \in m.unread \/ m.role = "accepted"
          /\ m.full \subseteq m.full \cup {o} /\ m.full \subseteq m.full /\ m.full \in SUBSET Obj
          /\ o \in Obj /\ UNCHANGED <<pc, batch>>
      BY <1>1, <2>1, <2>2
    <3> QED
      BY <3>1, <3>3, <3>4, <3>5, <3>6, PeerServes, ZenonT(60)
  <2>3. CASE PeerAnswers(o)
    <3>1. Peer(o, [m EXCEPT !.net = [m.net EXCEPT ![o] = "up"], !.unread = m.unread, !.full = m.full])
      BY <1>1, <2>3 DEF PeerAnswers, Memories
    <3>2. m.net[o] = "connecting" /\ "up" \in Nets \ {"none", "connecting"}
      BY <2>3 DEF PeerAnswers, Nets
    <3> QED
      BY <1>1, <2>2, <3>1, <3>2
  <2>4. CASE PeerRefuses(o)
    <3>1. Peer(o, [m EXCEPT !.net = [m.net EXCEPT ![o] = "refused"], !.unread = m.unread, !.full = m.full])
      BY <1>1, <2>4 DEF PeerRefuses, Memories
    <3>2. m.net[o] = "connecting" /\ "refused" \in Nets \ {"none", "connecting"}
      BY <2>4 DEF PeerRefuses, Nets
    <3> QED
      BY <1>1, <2>2, <3>1, <3>2
  <2>5. CASE PeerCloses(o)
    <3>1. Peer(o, [m EXCEPT !.net = [m.net EXCEPT ![o] = "eof"], !.unread = m.unread, !.full = m.full])
      BY <1>1, <2>5 DEF PeerCloses, Memories
    <3>2. m.net[o] = "up" /\ "eof" \in Nets \ {"none", "connecting"}
      BY <2>5 DEF PeerCloses, Nets
    <3> QED
      BY <1>1, <2>2, <3>1, <3>2
  <2>6. CASE PeerResets(o)
    <3>1. Peer(o, [m EXCEPT !.net = [m.net EXCEPT ![o] = "reset"], !.unread = m.unread \ {o}, !.full = m.full])
      BY <1>1, <2>6 DEF PeerResets, Reset, Peer, Memories
    <3>2. m.net[o] \in {"up", "eof"} /\ "reset" \in Nets \ {"none", "connecting"} /\ m.unread \ {o} \in SUBSET Obj
      BY <1>1, <2>6 DEF PeerResets, Nets
    <3> QED
      BY <1>1, <2>2, <3>1, <3>2
  <2>7. \A p \in Stream : m.net[p] = "up" => m.net[p] \in {"up", "connecting"}
    OBVIOUS
  <2>8. CASE PeerSends(o)
    <3> DEFINE unread == m.unread \cup {o}
    <3>1. Peer(o, [m EXCEPT !.net = m.net, !.unread = unread, !.full = m.full])
      BY <1>1, <2>8 DEF PeerSends, Memories
    <3>2. unread \in SUBSET Obj /\ ("acceptor" \in unread => "acceptor" \in m.unread)
      BY <1>1, <2>1
    <3> HIDE DEF unread
    <3> QED
      BY <1>1, <2>1, <2>7, <3>1, <3>2, PeerServes
  <2>9. CASE PeerReads(o)
    <3> DEFINE full == m.full \ {o}
    <3>1. Peer(o, [m EXCEPT !.net = m.net, !.unread = m.unread, !.full = full])
      BY <1>1, <2>9 DEF PeerReads, Memories
    <3>2. full \in SUBSET Obj /\ full \subseteq m.full /\ m.full \subseteq full \cup {o}
      BY <1>1
    <3> HIDE DEF full
    <3> QED
      BY <1>1, <2>1, <2>7, <3>1, <3>2, PeerServes
  <2> QED
    BY <1>4, <2>3, <2>4, <2>5, <2>6, <2>8, <2>9
<1> QED
  BY <1>2, <1>3, <1>4 DEF World

LEMMA ServedAlways == Spec => [](IInv /\ Served)
<1>1. ASSUME IInv, Served, [Next]_vars PROVE Served'
  <2>1. CASE Run
    <3>1. m.touched = {} /\ (AddConnector \/ Fire \/ DoneTimers \/ EpollWait \/ \E e \in batch : Handle(e))
      BY <2>1 DEF Run
    <3> QED
      BY <1>1, <3>1, AddConnectorServes, FireServes, DoneTimersServes, EpollWaitServes, HandleServes
  <2>2. CASE World
    BY <1>1, <2>2, WorldServes
  <2>3. CASE UNCHANGED vars
    <3>1. m' = m /\ batch' = batch
      BY <2>3 DEF vars
    <3> QED
      BY <1>1, <3>1 DEF Served
  <2> QED
    BY <1>1, <2>1, <2>2, <2>3 DEF Next, Undefined
<1> QED
  BY <1>1, StartsServed, Invariance, PTL DEF Spec
----------------------------------------------------------------------------
(* What Served says of the stream that a socket or an object is of.        *)
LEMMA StreamServed ==
    ASSUME IInv, Served, Undisturbed, NEW o \in Stream, m.net[o] # "none" \/ o \in m.live
    PROVE  /\ m \in Memories /\ m.ready \subseteq m.reg /\ Fit(m, o, OutsOf(batch), ErrsOf(batch))
           /\ o \in m.live
           /\ \A e : o \in {x.o : x \in {y \in batch : e \in y.events}} => Signalled(o, e)
<1>1. m \in Memories /\ Kernel(m) /\ Quiet(m)
  BY UndisturbedIs DEF Undisturbed, Quiet
<1>2. Cast(m) /\ Fit(m, m.role, OutsOf(batch), ErrsOf(batch))
  BY <1>1 DEF Served, ServedBy
<1>3. o \in m.live /\ o # "acceptor"
  BY <1>1, <1>2 DEF Cast, Kernel, Stream
<1>4. o = m.role
  BY <1>2, <1>3 DEF Cast
<1> QED
  BY <1>1, <1>2, <1>3, <1>4 DEF Kernel, Signalled

(* A connection that is served has room or waits for it, and the edge is   *)
(* on its way: do_send, do_monitor_events.                                 *)
THEOREM RoomIsAwaitedHolds == Spec => []RoomIsAwaited
<1>1. ASSUME IInv, Served PROVE RoomIsAwaited
  <2> SUFFICES ASSUME Undisturbed, "overlooked" \notin m.met,
                      NEW o \in Stream, m.net[o] = "up", m.wire[o] # <<>>, m.sbuf[o] # <<>>
               PROVE  "OUT" \in m.ev[o] /\ (o \in m.full \/ Signalled(o, "OUT"))
    BY DEF RoomIsAwaited
  <2>1. /\ m.ready \subseteq m.reg /\ Fit(m, o, OutsOf(batch), ErrsOf(batch))
        /\ o \in {x.o : x \in {y \in batch : "OUT" \in y.events}} => Signalled(o, "OUT")
    BY <1>1, StreamServed
  <2>2. Serving(m, o, OutsOf(batch), ErrsOf(batch))
    BY <2>1 DEF Fit, Closed, Calling
  <2>3. "OUT" \in m.ev[o] /\ o \in m.full \cup m.ready \cup OutsOf(batch)
    BY <2>2 DEF Serving, Watched, Awaits, Sending
  <2>4. o \notin m.full => "OUT" \in Reported(m, o)
    BY <2>3 DEF Reported, Level
  <2> QED
    BY <2>1, <2>3, <2>4 DEF Signalled, OutsOf
<1> QED
  BY <1>1, ServedAlways, PTL

(* A connector that is to reconnect is never left without a socket, a      *)
(* connect, an event or a timer: connector::close, async_connect.          *)
THEOREM DialsAgainHolds == Spec => []DialsAgain
<1>1. ASSUME IInv, Served PROVE DialsAgain
  <2> DEFINE o == "connector"
  <2> SUFFICES ASSUME Undisturbed, m.reconnect, ReconnectDelay # 0, o \in m.live
               PROVE  CASE m.net[o] = "none" -> Pending(<<"connect", o>>)
                        [] m.net[o] = "connecting" -> o \in m.reg /\ "OUT" \in m.ev[o] /\ ~Pending(<<"connect", o>>)
                        [] m.net[o] \in {"refused", "reset"} -> Signalled(o, "ERR") \/ Signalled(o, "IN") \/ Signalled(o, "OUT")
                        [] OTHER -> o \in m.reg /\ ~Pending(<<"connect", o>>)
    BY DEF DialsAgain
  <2>1. o \in Stream
    BY DEF Stream, Obj
  <2>2. /\ Fit(m, o, OutsOf(batch), ErrsOf(batch))
        /\ o \in {x.o : x \in {y \in batch : "ERR" \in y.events}} => Signalled(o, "ERR")
    BY <1>1, <2>1, StreamServed
  <2>3. Pending(<<"connect", o>>) <=> Redials(m) # {}
    BY DEF Pending, Redials, Range
  <2>4. CASE Closed(m, o)
    <3>1. m.net[o] = "none" /\ Redials(m) # {}
      BY <2>4 DEF Closed
    <3> QED
      BY <2>3, <3>1
  <2>5. CASE Calling(m, o, ErrsOf(batch)) \/ Serving(m, o, OutsOf(batch), ErrsOf(batch))
    <3>1. /\ Linked(m, o, ErrsOf(batch)) /\ Watched(m, o) /\ m.net[o] # "none"
          /\ m.net[o] = "connecting" => m.mon[o] = {"OUT"}
      BY <2>5 DEF Calling, Serving, Open
    <3>2. Redials(m) = {} /\ o \in m.reg /\ m.ev[o] = m.mon[o]
      BY <3>1 DEF Linked, Watched
    <3>3. m.net[o] \in {"refused", "reset"} => "ERR" \in Reported(m, o)
      BY DEF Reported, Level
    <3>4. m.net[o] \in {"refused", "reset"} => Signalled(o, "ERR")
      BY <2>2, <3>1, <3>2, <3>3 DEF Linked, Signalled, ErrsOf
    <3> QED
      BY <2>3, <3>1, <3>2, <3>4
  <2> QED
    BY <2>2, <2>4, <2>5 DEF Fit
<1> QED
  BY <1>1, ServedAlways, PTL
=============================================================================
