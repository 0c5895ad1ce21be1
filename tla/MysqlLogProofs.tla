--------------------------- MODULE MysqlLogProofs ---------------------------
(***************************************************************************)
(* Theorems about the run log, for any number of threads and of lines.     *)
(*                                                                         *)
(* Who holds m_mutex is the last of calls, so what it inserts comes after  *)
(* all that is there; and a line has, in the table and in what the server  *)
(* still works on, no more copies than the tries made of it.               *)
(***************************************************************************)
EXTENDS MysqlLog, TLAPS, FiniteSetTheorems

Called(l) == \E n \in DOMAIN calls : calls[n] = l
InRequest(l) == \E t \in Threads : line[t] = l /\ pc[t] \in Inside

(* A thread in recordlog has a line of its own, which has not returned.     *)
LineInv ==
    /\ \A t \in Threads : /\ pc[t] = "idle" <=> line[t] = NoLine
                          /\ line[t] # NoLine => result[line[t]] = "none"
    /\ \A t, u \in Threads : line[t] = line[u] /\ line[t] # NoLine => t = u

(* A line gets m_mutex once; the last one that got it is the holder's.      *)
CallsInv ==
    /\ \A m, n \in DOMAIN calls : calls[m] = calls[n] => m = n
    /\ \A n \in DOMAIN calls : result[calls[n]] # "none" \/ InRequest(calls[n])
    /\ \A t \in Threads : pc[t] \in Inside => Called(line[t]) /\ calls[Len(calls)] = line[t]

(* Rows, and lines that may yet become rows, are of calls that were made.   *)
MadeInv == /\ \A i \in DOMAIN rows : Called(rows[i])
           /\ \A l \in lost : Called(l)

OrderInv ==
    \A i, j \in DOMAIN rows : \A m, n \in DOMAIN calls :
        (/\ i < j /\ rows[i] \notin lost /\ rows[j] \notin lost
         /\ calls[m] = rows[i] /\ calls[n] = rows[j]) => m <= n

First(l) == <<l, "request">>
Second(l) == <<l, "again">>

(* The copies of a line: none before its first try, and after that no more  *)
(* than its tries, those the server still works on counted in.             *)
CopyInv == \A l \in Lines :
    /\ Copies(l) \in Nat
    /\ ~Called(l) \/ (\E t \in Threads : line[t] = l /\ pc[t] = "request") =>
          Copies(l) = 0 /\ l \notin lost
    /\ (\E t \in Threads : line[t] = l /\ pc[t] \in {"open", "again"}) =>
          /\ Second(l) \notin late
          /\ Copies(l) = 0 \/ (Copies(l) = 1 /\ First(l) \notin late /\ l \in lost)
    /\ \/ Copies(l) = 0
       \/ Copies(l) = 1 /\ (First(l) \notin late \/ Second(l) \notin late)
       \/ Copies(l) = 2 /\ First(l) \notin late /\ Second(l) \notin late /\ l \in lost

(* What recordlog returned: true only of a line that is in the table, and   *)
(* false of one that is not, or whose answer was lost.                     *)
RightOf(l) == /\ result[l] = "true" => Copies(l) >= 1
              /\ result[l] = "false" /\ Copies(l) >= 1 => l \in lost
ReturnIsRight == \A l \in Lines : RightOf(l)

IInv == TypeOK /\ LineInv /\ CallsInv /\ MadeInv /\ OrderInv /\ CopyInv /\ ReturnIsRight
---------------------------------------------------------------------------
(* Copies and an INSERT. *)
LEMMA CopiesOfRows ==
    ASSUME rows \in Seq(Lines), NEW l \in Lines
    PROVE  Copies(l) \in Nat /\ IsFiniteSet({n \in DOMAIN rows : rows[n] = l})
<1>1. IsFiniteSet(1..Len(rows))
  BY FS_Interval
<1>2. {n \in DOMAIN rows : rows[n] = l} \subseteq 1..Len(rows)
  OBVIOUS
<1>3. IsFiniteSet({n \in DOMAIN rows : rows[n] = l})
  BY <1>1, <1>2, FS_Subset
<1> QED
  BY <1>3, FS_CardinalityType DEF Copies

LEMMA CopiesWithRow ==
    ASSUME rows \in Seq(Lines), NEW x \in Lines, rows' = Append(rows, x)
    PROVE  /\ Copies(x)' = Copies(x) + 1
           /\ \A l \in Lines \ {x} : Copies(l)' = Copies(l)
<1> DEFINE P(l) == {n \in DOMAIN rows : rows[n] = l}
           Q(l) == {n \in DOMAIN rows' : rows'[n] = l}
<1>1. /\ DOMAIN rows' = DOMAIN rows \union {Len(rows) + 1}
      /\ Len(rows) + 1 \notin DOMAIN rows
      /\ rows'[Len(rows) + 1] = x
      /\ \A n \in DOMAIN rows : rows'[n] = rows[n]
  OBVIOUS
<1>2. Q(x) = P(x) \union {Len(rows) + 1} /\ Len(rows) + 1 \notin P(x)
  BY <1>1
<1>3. \A l \in Lines \ {x} : Q(l) = P(l)
  BY <1>1
<1>4. Cardinality(Q(x)) = Cardinality(P(x)) + 1
  BY <1>2, CopiesOfRows, FS_AddElement
<1> QED
  BY <1>3, <1>4 DEF Copies

LEMMA CopiesKept ==
    ASSUME rows' = rows PROVE \A l \in Lines : Copies(l)' = Copies(l)
  BY DEF Copies

---------------------------------------------------------------------------
(* The holder of m_mutex and its line. *)
LEMMA Holder ==
    ASSUME TypeOK, LineInv, NEW t \in Threads, pc[t] \in Inside
    PROVE  /\ line[t] \in Lines /\ line[t] # NoLine /\ result[line[t]] = "none" /\ m_mutex = t
           /\ \A u \in Threads \ {t} : pc[u] \notin Inside /\ line[u] # line[t]
  BY DEF TypeOK, LineInv, Inside

(* What request does to the control of its thread ...                       *)
LEMMA RequestIs ==
    ASSUME TypeOK, NEW t \in Threads, request(t)
    PROVE  /\ pc[t] \in Inside /\ calls' = calls
           /\ \A u \in Threads \ {t} : pc'[u] = pc[u] /\ line'[u] = line[u]
           /\ \/ /\ pc'[t] = "idle" /\ line'[t] = NoLine
                 /\ \E v \in {"true", "false"} : Return(t, v)
              \/ /\ line' = line /\ result' = result /\ m_mutex' = m_mutex
                 /\ \/ pc[t] = "request" /\ pc'[t] = "open"
                    \/ pc[t] = "open" /\ pc'[t] = "again"
<1> USE DEF TypeOK, Inside, Asks
<1>1. CASE NoConnection(t) \/ QueryOk(t) \/ QueryRefused(t) \/ LostAgain(t) \/ OpenFails(t)
  <2>1. PICK v \in {"true", "false"} : Return(t, v)
    BY <1>1 DEF NoConnection, QueryOk, QueryRefused, LostAgain, OpenFails
  <2>2. pc[t] \in Inside /\ calls' = calls
    BY <1>1 DEF NoConnection, QueryOk, QueryRefused, LostAgain, OpenFails
  <2> QED
    BY <2>1, <2>2 DEF Return
<1>2. CASE QueryLost(t)
  BY <1>2 DEF QueryLost
<1>3. CASE OpenOk(t)
  BY <1>3 DEF OpenOk
<1> QED
  BY <1>1, <1>2, <1>3 DEF request

(* ... and what it leaves in the table and with the server.                 *)
RowsStay == UNCHANGED <<rows, late, lost>>
RowAnswered(t) == Row(t) /\ pc[t] \in {"request", "again"} /\ UNCHANGED <<late, lost>>
RowLost(t) == Row(t) /\ pc[t] \in {"request", "again"} /\ lost' = lost \union {line[t]} /\ UNCHANGED late
RowLate(t) == /\ pc[t] \in {"request", "again"} /\ UNCHANGED rows
              /\ late' = late \union {<<line[t], pc[t]>>} /\ lost' = lost \union {line[t]}

LEMMA RowsOfRequest ==
    ASSUME TypeOK, LineInv, NEW t \in Threads, request(t)
    PROVE  \/ RowsStay /\ result'[line[t]] # "true"
           \/ RowAnswered(t) /\ result'[line[t]] = "true"
           \/ RowLost(t) /\ result'[line[t]] # "true"
           \/ RowLate(t) /\ result'[line[t]] # "true"
<1> USE DEF RowsStay, RowAnswered, RowLost, RowLate, Asks
<1>0. line[t] \in Lines /\ result[line[t]] = "none"
  BY RequestIs, Holder
<1>r. \A v \in {"true", "false"} : Return(t, v) => result'[line[t]] = v
  BY <1>0 DEF Return, TypeOK
<1>1. CASE NoConnection(t) \/ QueryRefused(t) \/ OpenFails(t) \/ OpenOk(t)
  BY <1>0, <1>r, <1>1 DEF NoConnection, QueryRefused, OpenFails, OpenOk
<1>2. CASE QueryOk(t)
  BY <1>r, <1>2 DEF QueryOk
<1>3. CASE QueryLost(t) \/ LostAgain(t)
  <2>1. result'[line[t]] # "true"
    BY <1>0, <1>r, <1>3 DEF QueryLost, LostAgain
  <2>2. pc[t] \in {"request", "again"} /\ Unanswered(t)
    BY <1>3 DEF QueryLost, LostAgain
  <2> QED
    BY <2>1, <2>2 DEF Unanswered
<1> QED
  BY <1>1, <1>2, <1>3 DEF request

---------------------------------------------------------------------------
LEMMA TypeStep == TypeOK /\ LineInv /\ [Next]_vars => TypeOK'
<1> SUFFICES ASSUME TypeOK, LineInv, [Next]_vars PROVE TypeOK'
  OBVIOUS
<1>1. CASE UNCHANGED vars
  BY <1>1 DEF vars, TypeOK
<1>2. ASSUME NEW t \in Threads, NEW l \in Lines, Begin(t, l) PROVE TypeOK'
  BY <1>2 DEF Begin, TypeOK, Inside
<1>3. ASSUME NEW t \in Threads, Lock(t) PROVE TypeOK'
  <2>1. line[t] \in Lines
    BY <1>3 DEF Lock, TypeOK, LineInv
  <2>2. calls' \in Seq(Lines)
    BY <1>3, <2>1 DEF Lock, TypeOK
  <2> QED
    BY <1>3, <2>2, Nobody DEF Lock, TypeOK, Inside
<1>4. ASSUME NEW t \in Threads, request(t) PROVE TypeOK'
  <2>1. line[t] \in Lines /\ pc[t] \in Inside
    BY <1>4, RequestIs, Holder
  <2>2. /\ m_mutex' \in Threads \union {NoThread}
        /\ \A u \in Threads : pc'[u] \in Inside <=> m_mutex' = u
    BY <1>4, <2>1, RequestIs, Holder, Nobody DEF Return, Inside, TypeOK
  <2>3. conn' \in {"open", "null"} /\ calls' \in Seq(Lines)
    BY <1>4 DEF request, NoConnection, QueryOk, QueryRefused, QueryLost, LostAgain, OpenOk, OpenFails, TypeOK
  <2>4. line' \in [Threads -> Lines \union {NoLine}] /\ result' \in [Lines -> {"none", "true", "false"}]
    BY <1>4, RequestIs DEF Return, TypeOK
  <2>5. pc' \in [Threads -> {"idle", "lock"} \union Inside]
    BY <1>4 DEF request, NoConnection, QueryOk, QueryRefused, QueryLost, LostAgain, OpenOk, OpenFails, TypeOK, Return, Inside
  <2>6. rows' \in Seq(Lines)
    <3>1. rows \in Seq(Lines) /\ Append(rows, line[t]) \in Seq(Lines)
      BY <2>1 DEF TypeOK
    <3>2. rows' = rows \/ Row(t)
      BY <1>4, RowsOfRequest DEF RowsStay, RowAnswered, RowLost, RowLate
    <3> QED
      BY <3>1, <3>2 DEF Row
  <2>7. lost' \in SUBSET Lines /\ late' \subseteq lost' \X {"request", "again"}
    BY <1>4, <2>1, RowsOfRequest DEF RowsStay, RowAnswered, RowLost, RowLate, TypeOK
  <2> QED
    BY <2>2, <2>3, <2>4, <2>5, <2>6, <2>7 DEF TypeOK
<1>5. ASSUME NEW statement \in late, LateRow(statement) PROVE TypeOK'
  <2>1. rows' \in Seq(Lines)
    BY <1>5 DEF LateRow, TypeOK
  <2> QED
    BY <1>5, <2>1 DEF LateRow, TypeOK
<1> QED
  BY <1>1, <1>2, <1>3, <1>4, <1>5 DEF Next

LEMMA LineStep == TypeOK /\ LineInv /\ [Next]_vars => LineInv'
<1> SUFFICES ASSUME TypeOK, LineInv, [Next]_vars PROVE LineInv'
  OBVIOUS
<1>1. CASE UNCHANGED vars
  BY <1>1 DEF vars, LineInv
<1>2. ASSUME NEW t \in Threads, NEW l \in Lines, Begin(t, l) PROVE LineInv'
  BY <1>2, Nobody DEF Begin, TypeOK, LineInv
<1>3. ASSUME NEW t \in Threads, Lock(t) PROVE LineInv'
  BY <1>3 DEF Lock, TypeOK, LineInv
<1>4. ASSUME NEW t \in Threads, request(t) PROVE LineInv'
  <2>1. CASE /\ pc'[t] = "idle" /\ line'[t] = NoLine
             /\ \E v \in {"true", "false"} : Return(t, v)
    <3>1. \A u \in Threads \ {t} : /\ pc'[u] = pc[u] /\ line'[u] = line[u]
                                   /\ line[u] # NoLine => result'[line[u]] = result[line[u]]
      <4>1. /\ \A u \in Threads \ {t} : line[u] # line[t]
            /\ \A u \in Threads \ {t} : pc'[u] = pc[u] /\ line'[u] = line[u]
        BY <1>4, RequestIs, Holder
      <4>2. \A l \in Lines : l # line[t] => result'[l] = result[l]
        BY <2>1 DEF Return, TypeOK
      <4> QED
        BY <4>1, <4>2 DEF TypeOK
    <3> QED
      BY <2>1, <3>1 DEF LineInv
  <2>2. CASE line' = line /\ result' = result /\ pc[t] # "idle" /\ pc'[t] # "idle"
    BY <1>4, <2>2, RequestIs DEF LineInv
  <2> QED
    BY <1>4, <2>1, <2>2, RequestIs
<1>5. ASSUME NEW statement \in late, LateRow(statement) PROVE LineInv'
  BY <1>5 DEF LateRow, LineInv
<1> QED
  BY <1>1, <1>2, <1>3, <1>4, <1>5 DEF Next

LEMMA CallsStep == TypeOK /\ LineInv /\ CallsInv /\ [Next]_vars => CallsInv'
<1> SUFFICES ASSUME TypeOK, LineInv, CallsInv, [Next]_vars PROVE CallsInv'
  OBVIOUS
<1>1. CASE UNCHANGED vars
  BY <1>1 DEF vars, CallsInv, Called, InRequest
<1>2. ASSUME NEW t \in Threads, NEW l \in Lines, Begin(t, l) PROVE CallsInv'
  <2>1. /\ UNCHANGED <<calls, result>>
        /\ \A u \in Threads : /\ pc'[u] \in Inside <=> pc[u] \in Inside
                              /\ pc[u] \in Inside => line'[u] = line[u]
    BY <1>2 DEF Begin, TypeOK, Inside
  <2> QED
    BY <2>1 DEF CallsInv, Called, InRequest
<1>3. ASSUME NEW t \in Threads, Lock(t) PROVE CallsInv'
  <2>1. /\ line[t] \in Lines /\ result[line[t]] = "none" /\ pc[t] \notin Inside
        /\ \A u \in Threads \ {t} : line[u] # line[t] /\ pc[u] \notin Inside
    BY <1>3, Nobody DEF Lock, TypeOK, LineInv, Inside
  <2>2. ~Called(line[t])
    BY <2>1 DEF CallsInv, InRequest, Called
  <2>3. /\ DOMAIN calls' = DOMAIN calls \union {Len(calls) + 1}
        /\ Len(calls') = Len(calls) + 1
        /\ calls'[Len(calls) + 1] = line[t]
        /\ \A n \in DOMAIN calls : calls'[n] = calls[n]
    BY <1>3, <2>1 DEF Lock, TypeOK
  <2>4. \A m, n \in DOMAIN calls' : calls'[m] = calls'[n] => m = n
    BY <2>2, <2>3 DEF CallsInv, Called
  <2>5. /\ line' = line /\ result' = result /\ pc'[t] \in Inside
        /\ \A u \in Threads \ {t} : pc'[u] = pc[u]
    BY <1>3 DEF Lock, TypeOK, Inside
  <2>6. \A n \in DOMAIN calls' :
           result'[calls'[n]] # "none" \/ \E u \in Threads : line'[u] = calls'[n] /\ pc'[u] \in Inside
    BY <2>1, <2>3, <2>5 DEF CallsInv, InRequest
  <2>7. \A u \in Threads : pc'[u] \in Inside =>
           calls'[Len(calls')] = line'[u] /\ \E n \in DOMAIN calls' : calls'[n] = line'[u]
    BY <2>1, <2>3, <2>5
  <2> QED
    BY <2>4, <2>6, <2>7 DEF CallsInv, InRequest, Called
<1>4. ASSUME NEW t \in Threads, request(t) PROVE CallsInv'
  <2>1. /\ calls' = calls /\ pc[t] \in Inside
        /\ \A u \in Threads \ {t} : pc'[u] = pc[u] /\ line'[u] = line[u] /\ pc[u] \notin Inside
    BY <1>4, RequestIs, Holder
  <2>2. CASE /\ pc'[t] = "idle" /\ line'[t] = NoLine
             /\ \E v \in {"true", "false"} : Return(t, v)
    <3>1. /\ \A l \in Lines : l # line[t] => result'[l] = result[l]
          /\ result'[line[t]] # "none"
      <4>1. line[t] \in Lines
        BY <2>1, Holder
      <4> QED
        BY <2>2, <4>1 DEF Return, TypeOK
    <3>2. \A n \in DOMAIN calls : calls[n] \in Lines
      BY DEF TypeOK
    <3>3. \A n \in DOMAIN calls' : result'[calls'[n]] # "none"
      BY <2>1, <3>1, <3>2 DEF CallsInv, InRequest
    <3>4. \A u \in Threads : pc'[u] \notin Inside
      BY <2>1, <2>2 DEF Inside
    <3> QED
      BY <2>1, <3>3, <3>4 DEF CallsInv
  <2>3. CASE line' = line /\ result' = result /\ pc'[t] \in {"open", "again"}
    <3>1. \A u \in Threads : pc'[u] \in Inside <=> pc[u] \in Inside
      BY <2>1, <2>3 DEF Inside
    <3> QED
      BY <2>1, <2>3, <3>1 DEF CallsInv, InRequest, Called
  <2> QED
    BY <1>4, <2>2, <2>3, RequestIs
<1>5. ASSUME NEW statement \in late, LateRow(statement) PROVE CallsInv'
  BY <1>5 DEF LateRow, CallsInv, Called, InRequest
<1> QED
  BY <1>1, <1>2, <1>3, <1>4, <1>5 DEF Next
LEMMA CallsGrow ==
    ASSUME TypeOK, LineInv, [Next]_vars
    PROVE  /\ \A n \in DOMAIN calls : n \in DOMAIN calls' /\ calls'[n] = calls[n]
           /\ \A l \in Lines : Called(l) => Called(l)'
<1>1. CASE calls' = calls
  BY <1>1 DEF Called
<1>2. ASSUME NEW t \in Threads, Lock(t) PROVE \A n \in DOMAIN calls : n \in DOMAIN calls' /\ calls'[n] = calls[n]
  <2>1. line[t] \in Lines
    BY <1>2 DEF Lock, TypeOK, LineInv
  <2> QED
    BY <1>2, <2>1 DEF Lock, TypeOK
<1>3. calls' = calls \/ \E t \in Threads : Lock(t)
  BY RequestIs DEF Next, vars, Begin, LateRow
<1> QED
  BY <1>1, <1>2, <1>3 DEF Called

LEMMA MadeStep == TypeOK /\ LineInv /\ CallsInv /\ MadeInv /\ [Next]_vars => MadeInv'
<1> SUFFICES ASSUME TypeOK, LineInv, CallsInv, MadeInv, [Next]_vars PROVE MadeInv'
  OBVIOUS
<1>1. ASSUME UNCHANGED <<rows, lost>> PROVE MadeInv'
  <2>1. \A l \in Lines : Called(l) => Called(l)'
    BY CallsGrow
  <2>2. /\ \A i \in DOMAIN rows : \E l \in Lines : rows[i] = l /\ Called(l)
        /\ \A l \in lost : l \in Lines /\ Called(l)
    BY DEF MadeInv, TypeOK
  <2>3. /\ \A i \in DOMAIN rows : \E l \in Lines : rows[i] = l /\ Called(l)'
        /\ \A l \in lost : Called(l)'
    BY <2>1, <2>2
  <2> QED
    BY <1>1, <2>3 DEF MadeInv, Called
<1>2. ASSUME NEW x \in Lines, Called(x), rows' = rows \/ rows' = Append(rows, x), lost' \subseteq lost \union {x}
      PROVE  MadeInv'
  <2>1. \A l \in Lines : Called(l) => Called(l)'
    BY CallsGrow
  <2>2. \A l \in lost' : Called(l)'
    BY <1>2, <2>1 DEF MadeInv, TypeOK
  <2>3. \A i \in DOMAIN rows' : \E l \in Lines : rows'[i] = l /\ Called(l)
    <3>1. \A i \in DOMAIN rows : rows[i] \in Lines /\ Called(rows[i])
      BY DEF MadeInv, TypeOK
    <3>2. CASE rows' = Append(rows, x)
      <4>1. \A i \in DOMAIN rows' : rows'[i] = x \/ (i \in DOMAIN rows /\ rows'[i] = rows[i])
        BY <3>2 DEF TypeOK
      <4> QED
        BY <1>2, <3>1, <4>1
    <3> QED
      BY <1>2, <3>1, <3>2
  <2>4. \A i \in DOMAIN rows' : \E l \in Lines : rows'[i] = l /\ Called(l)'
    BY <2>1, <2>3
  <2> QED
    BY <2>2, <2>4 DEF MadeInv, Called
<1>3. CASE UNCHANGED vars
  BY <1>1, <1>3 DEF vars
<1>4. ASSUME NEW t \in Threads, Lock(t) \/ \E l \in Lines : Begin(t, l) PROVE MadeInv'
  BY <1>1, <1>4 DEF Lock, Begin
<1>5. ASSUME NEW t \in Threads, request(t) PROVE MadeInv'
  <2>1. line[t] \in Lines /\ Called(line[t])
    BY <1>5, RequestIs, Holder DEF CallsInv
  <2>2. (rows' = rows \/ rows' = Append(rows, line[t])) /\ lost' \subseteq lost \union {line[t]}
    BY <1>5, RowsOfRequest DEF RowsStay, RowAnswered, RowLost, RowLate, Row
  <2> QED
    BY <1>2, <2>1, <2>2
<1>6. ASSUME NEW statement \in late, LateRow(statement) PROVE MadeInv'
  <2>1. statement[1] \in lost /\ lost' = lost /\ rows' = Append(rows, statement[1])
    BY <1>6 DEF LateRow, TypeOK
  <2>2. statement[1] \in Lines /\ Called(statement[1])
    BY <2>1 DEF MadeInv, TypeOK
  <2> QED
    BY <1>2, <2>1, <2>2
<1> QED
  BY <1>3, <1>4, <1>5, <1>6 DEF Next

---------------------------------------------------------------------------
LEMMA OrderStep ==
    TypeOK /\ LineInv /\ CallsInv /\ MadeInv /\ OrderInv /\ [Next]_vars => OrderInv'
<1> SUFFICES ASSUME TypeOK, LineInv, CallsInv, MadeInv, OrderInv, [Next]_vars PROVE OrderInv'
  OBVIOUS
<1>1. ASSUME UNCHANGED <<rows, lost>> PROVE OrderInv'
  <2>1. \A i \in DOMAIN rows : \A m \in DOMAIN calls' : calls'[m] = rows[i] => m \in DOMAIN calls /\ calls[m] = rows[i]
    <3> SUFFICES ASSUME NEW i \in DOMAIN rows, NEW m \in DOMAIN calls', calls'[m] = rows[i]
                 PROVE  m \in DOMAIN calls /\ calls[m] = rows[i]
      OBVIOUS
    <3>1. PICK n \in DOMAIN calls : calls[n] = rows[i]
      BY DEF MadeInv, Called
    <3>2. n \in DOMAIN calls' /\ calls'[n] = calls'[m]
      BY <3>1, CallsGrow
    <3>3. m = n
      BY <3>2, CallsStep DEF CallsInv
    <3> QED
      BY <3>1, <3>3
  <2> QED
    BY <1>1, <2>1 DEF OrderInv
<1>2. ASSUME NEW x \in Lines, rows' = rows \/ rows' = Append(rows, x), lost \subseteq lost',
             calls' = calls, x \in lost' \/ (Called(x) /\ calls[Len(calls)] = x)
      PROVE  OrderInv'
  <2>1. CASE rows' = rows
    BY <1>2, <2>1 DEF OrderInv
  <2>2. CASE rows' = Append(rows, x)
    <3> SUFFICES ASSUME NEW i \in DOMAIN rows', NEW j \in DOMAIN rows',
                        NEW m \in DOMAIN calls, NEW n \in DOMAIN calls,
                        i < j, rows'[i] \notin lost', rows'[j] \notin lost',
                        calls[m] = rows'[i], calls[n] = rows'[j]
                 PROVE  m <= n
      BY <1>2 DEF OrderInv
    <3>1. i \in DOMAIN rows /\ rows'[i] = rows[i]
      BY <2>2 DEF TypeOK
    <3>2. CASE j \in DOMAIN rows
      <4>1. rows'[j] = rows[j]
        BY <2>2, <3>2 DEF TypeOK
      <4> QED
        BY <1>2, <3>1, <3>2, <4>1 DEF OrderInv
    <3>3. CASE j \notin DOMAIN rows
      <4>1. rows'[j] = x
        BY <2>2, <3>3 DEF TypeOK
      <4>2. calls[Len(calls)] = x /\ Len(calls) \in DOMAIN calls
        BY <1>2, <4>1 DEF Called, TypeOK
      <4>3. n = Len(calls)
        BY <4>1, <4>2 DEF CallsInv
      <4> QED
        BY <4>3 DEF TypeOK
    <3> QED
      BY <3>2, <3>3
  <2> QED
    BY <1>2, <2>1, <2>2
<1>3. CASE UNCHANGED vars
  BY <1>1, <1>3 DEF vars
<1>4. ASSUME NEW t \in Threads, Lock(t) \/ \E l \in Lines : Begin(t, l) PROVE OrderInv'
  BY <1>1, <1>4 DEF Lock, Begin
<1>5. ASSUME NEW t \in Threads, request(t) PROVE OrderInv'
  <2>1. line[t] \in Lines /\ Called(line[t]) /\ calls[Len(calls)] = line[t] /\ calls' = calls
    BY <1>5, RequestIs, Holder DEF CallsInv
  <2>2. (rows' = rows \/ rows' = Append(rows, line[t])) /\ lost \subseteq lost'
    BY <1>5, RowsOfRequest DEF RowsStay, RowAnswered, RowLost, RowLate, Row
  <2> QED
    BY <1>2, <2>1, <2>2
<1>6. ASSUME NEW statement \in late, LateRow(statement) PROVE OrderInv'
  <2>1. statement[1] \in lost /\ statement[1] \in Lines /\ lost' = lost
        /\ rows' = Append(rows, statement[1]) /\ calls' = calls
    BY <1>6 DEF LateRow, TypeOK
  <2> QED
    BY <1>2, <2>1
<1> QED
  BY <1>3, <1>4, <1>5, <1>6 DEF Next
---------------------------------------------------------------------------
(* CopyInv of one line. *)
CopyOf(l) ==
    /\ Copies(l) \in Nat
    /\ ~Called(l) \/ (\E t \in Threads : line[t] = l /\ pc[t] = "request") =>
          Copies(l) = 0 /\ l \notin lost
    /\ (\E t \in Threads : line[t] = l /\ pc[t] \in {"open", "again"}) =>
          /\ Second(l) \notin late
          /\ Copies(l) = 0 \/ (Copies(l) = 1 /\ First(l) \notin late /\ l \in lost)
    /\ \/ Copies(l) = 0
       \/ Copies(l) = 1 /\ (First(l) \notin late \/ Second(l) \notin late)
       \/ Copies(l) = 2 /\ First(l) \notin late /\ Second(l) \notin late /\ l \in lost

LEMMA CopyIs == CopyInv <=> \A l \in Lines : CopyOf(l)
  BY DEF CopyInv, CopyOf

(* A step that is not about l. *)
LEMMA CopyOfOther ==
    ASSUME NEW l \in Lines, CopyOf(l), Copies(l)' = Copies(l), Called(l) => Called(l)',
           l \in lost' <=> l \in lost,
           First(l) \in late' <=> First(l) \in late, Second(l) \in late' <=> Second(l) \in late,
           \A t \in Threads : pc'[t] \in Inside /\ line'[t] = l => pc'[t] = pc[t] /\ line[t] = l
    PROVE  CopyOf(l)'
<1>1. Copies(l)' = Copies(l)
  OBVIOUS
<1>2. ~Called(l)' \/ (\E t \in Threads : line'[t] = l /\ pc'[t] = "request") => Copies(l) = 0 /\ l \notin lost
  BY DEF CopyOf, Inside
<1>3. (\E t \in Threads : line'[t] = l /\ pc'[t] \in {"open", "again"}) =>
          /\ Second(l) \notin late
          /\ Copies(l) = 0 \/ (Copies(l) = 1 /\ First(l) \notin late /\ l \in lost)
  BY DEF CopyOf, Inside
<1>4. First(l)' = First(l) /\ Second(l)' = Second(l)
  BY DEF First, Second
<1> QED
  BY <1>1, <1>2, <1>3, <1>4 DEF CopyOf, First, Second

(* The line of the call in request. *)
LEMMA CopyOfCaller ==
    ASSUME TypeOK, LineInv, CallsInv, NEW t \in Threads, request(t), CopyOf(line[t])
    PROVE  \A l \in {line[t]} : CopyOf(l)'
<1> TAKE l \in {line[t]}
<1>1. /\ l = line[t] /\ l \in Lines /\ Called(l)' /\ pc[t] \in Inside
      /\ \A u \in Threads \ {t} : line'[u] # l /\ pc'[u] \notin Inside
  <2>1. calls' = calls /\ pc[t] \in Inside /\ line[t] \in Lines /\ Called(line[t])
    BY RequestIs, Holder DEF CallsInv
  <2>2. \A u \in Threads \ {t} : /\ line[u] # line[t] /\ line'[u] = line[u]
                                 /\ pc[u] \notin Inside /\ pc'[u] = pc[u]
    BY <2>1, RequestIs, Holder
  <2> QED
    BY <2>1, <2>2 DEF Called
<1>2. \/ line'[t] # l /\ pc'[t] = "idle"
      \/ line'[t] = l /\ pc[t] = "request" /\ pc'[t] = "open"
      \/ line'[t] = l /\ pc[t] = "open" /\ pc'[t] = "again"
  BY <1>1, RequestIs, Nobody
<1>3. late \subseteq lost \X {"request", "again"} /\ rows \in Seq(Lines)
  BY DEF TypeOK
<1>4. /\ Copies(l) \in Nat
      /\ pc[t] = "request" => Copies(l) = 0 /\ l \notin lost /\ First(l) \notin late /\ Second(l) \notin late
      /\ pc[t] \in {"open", "again"} =>
          /\ Second(l) \notin late
          /\ Copies(l) = 0 \/ (Copies(l) = 1 /\ First(l) \notin late /\ l \in lost)
  BY <1>1, <1>3 DEF CopyOf, First, Second
<1>5. First(l) # Second(l)
  BY DEF First, Second
<1>6. SUFFICES /\ Copies(l)' \in Nat
               /\ pc'[t] = "idle" =>
                     \/ Copies(l)' = 0
                     \/ Copies(l)' = 1 /\ (First(l) \notin late' \/ Second(l) \notin late')
                     \/ Copies(l)' = 2 /\ First(l) \notin late' /\ Second(l) \notin late' /\ l \in lost'
               /\ pc'[t] # "idle" =>
                     /\ Second(l) \notin late'
                     /\ Copies(l)' = 0 \/ (Copies(l)' = 1 /\ First(l) \notin late' /\ l \in lost')
  BY <1>1, <1>2 DEF CopyOf, First, Second, Inside
<1>7. CASE RowsStay
  <2>1. Copies(l)' = Copies(l) /\ late' = late /\ lost' = lost
    BY <1>1, <1>7, CopiesKept DEF RowsStay
  <2> QED
    BY <1>1, <1>2, <1>4, <2>1 DEF Inside
<1>8. CASE RowAnswered(t) /\ result'[line[t]] = "true"
  <2>1. Copies(l)' = Copies(l) + 1 /\ late' = late /\ lost' = lost /\ pc[t] \in {"request", "again"}
    BY <1>1, <1>3, <1>8, CopiesWithRow DEF RowAnswered, Row
  <2>2. pc'[t] = "idle"
    <3>1. result[line[t]] = "none"
      BY <1>1, Holder
    <3> QED
      BY <1>8, <3>1, RequestIs
  <2> QED
    BY <1>4, <2>1, <2>2
<1>9. CASE RowLost(t)
  <2>1. /\ Copies(l)' = Copies(l) + 1 /\ late' = late /\ l \in lost'
        /\ pc[t] \in {"request", "again"}
    BY <1>1, <1>3, <1>9, CopiesWithRow DEF RowLost, Row
  <2> QED
    BY <1>2, <1>4, <2>1
<1>10. CASE RowLate(t)
  <2>1. /\ Copies(l)' = Copies(l) /\ l \in lost' /\ pc[t] \in {"request", "again"}
        /\ late' = late \union {<<l, pc[t]>>}
    BY <1>1, <1>10, CopiesKept DEF RowLate
  <2>2. /\ First(l) \in late' <=> First(l) \in late \/ pc[t] = "request"
        /\ Second(l) \in late' <=> Second(l) \in late \/ pc[t] = "again"
    BY <2>1 DEF First, Second
  <2> QED
    BY <1>2, <1>4, <2>1, <2>2
<1> QED
  BY <1>7, <1>8, <1>9, <1>10, RowsOfRequest

(* The line of a statement that the server ends late. *)
LEMMA CopyOfLate ==
    ASSUME TypeOK, MadeInv, NEW statement \in late, LateRow(statement), CopyOf(statement[1])
    PROVE  \A l \in {statement[1]} : CopyOf(l)'
<1> TAKE l \in {statement[1]}
<1>1. /\ l \in Lines /\ l \in lost /\ Called(l) /\ rows \in Seq(Lines)
      /\ statement = First(l) \/ statement = Second(l)
  BY DEF TypeOK, MadeInv, First, Second
<1>2. /\ UNCHANGED <<line, pc, calls, lost>> /\ rows' = Append(rows, l)
      /\ late' = late \ {statement}
  BY DEF LateRow
<1>3. Copies(l)' = Copies(l) + 1
  BY <1>1, <1>2, CopiesWithRow
<1>4. CopyOf(l)
  OBVIOUS
<1>5. /\ First(l) # Second(l) /\ First(l)' = First(l) /\ Second(l)' = Second(l)
  BY DEF First, Second
<1>6. First(l) \notin late' \/ Second(l) \notin late'
  BY <1>1, <1>2
<1>7. \A t \in Threads : ~(line[t] = l /\ pc[t] = "request")
  BY <1>1, <1>4 DEF CopyOf
<1>8. Copies(l) = 0 \/ (Copies(l) = 1 /\ First(l) \notin late' /\ Second(l) \notin late')
  BY <1>1, <1>2, <1>4, <1>5 DEF CopyOf
<1>9. (\E t \in Threads : line[t] = l /\ pc[t] \in {"open", "again"}) =>
         Copies(l) = 0 /\ First(l) \notin late' /\ Second(l) \notin late'
  BY <1>1, <1>2, <1>4, <1>5 DEF CopyOf
<1>10. Called(l)'
  BY <1>1, <1>2 DEF Called
<1> QED
  BY <1>1, <1>2, <1>3, <1>5, <1>6, <1>7, <1>8, <1>9, <1>10 DEF CopyOf

LEMMA CopyStep ==
    TypeOK /\ LineInv /\ CallsInv /\ MadeInv /\ CopyInv /\ [Next]_vars => CopyInv'
<1> SUFFICES ASSUME TypeOK, LineInv, CallsInv, MadeInv, CopyInv, [Next]_vars,
                    NEW l \in Lines
             PROVE  CopyOf(l)'
  BY DEF CopyInv, CopyOf
<1>1. CopyOf(l) /\ (Called(l) => Called(l)')
  BY CopyIs, CallsGrow
<1>2. CASE UNCHANGED vars
  BY <1>1, <1>2, CopiesKept, CopyOfOther DEF vars
<1>3. ASSUME NEW t \in Threads, NEW x \in Lines, Begin(t, x) PROVE CopyOf(l)'
  <2>1. \A u \in Threads : pc'[u] \in Inside => pc'[u] = pc[u] /\ line'[u] = line[u]
    BY <1>3 DEF Begin, TypeOK, Inside
  <2>2. UNCHANGED <<rows, late, lost>>
    BY <1>3 DEF Begin
  <2> QED
    BY <1>1, <2>1, <2>2, CopiesKept, CopyOfOther
<1>4. ASSUME NEW t \in Threads, Lock(t) PROVE CopyOf(l)'
  <2>1. UNCHANGED <<rows, late, lost, line>> /\ pc'[t] = "request"
        /\ \A u \in Threads \ {t} : pc'[u] = pc[u]
    BY <1>4 DEF Lock, TypeOK
  <2>2. CASE l # line[t]
    BY <1>1, <2>1, <2>2, CopiesKept, CopyOfOther
  <2>3. CASE l = line[t]
    <3>1. /\ result[line[t]] = "none" /\ pc[t] \notin Inside
          /\ \A u \in Threads \ {t} : line[u] # line[t]
      BY <1>4, Nobody DEF Lock, TypeOK, LineInv, Inside
    <3>2. ~Called(l)
      BY <2>3, <3>1 DEF CallsInv, InRequest, Called
    <3>3. Copies(l) = 0 /\ l \notin lost /\ Copies(l)' = Copies(l)
      BY <1>1, <2>1, <3>2, CopiesKept DEF CopyOf
    <3> QED
      BY <2>1, <2>3, <3>1, <3>3 DEF CopyOf
  <2> QED
    BY <2>2, <2>3
<1>5. ASSUME NEW t \in Threads, request(t) PROVE CopyOf(l)'
  <2>1. CASE l = line[t]
    BY <1>1, <1>5, <2>1, CopyOfCaller
  <2>2. CASE l # line[t]
    <3>1. line[t] \in Lines /\ rows \in Seq(Lines)
      BY <1>5, RequestIs, Holder DEF TypeOK
    <3>2. \A u \in Threads : pc'[u] \in Inside /\ line'[u] = l => pc'[u] = pc[u] /\ line[u] = l
      BY <1>5, <2>2, RequestIs, Nobody
    <3>3. Copies(l)' = Copies(l)
      BY <1>5, <2>2, <3>1, RowsOfRequest, CopiesKept, CopiesWithRow
         DEF RowsStay, RowAnswered, RowLost, RowLate, Row
    <3>4. /\ l \in lost' <=> l \in lost
          /\ First(l) \in late' <=> First(l) \in late
          /\ Second(l) \in late' <=> Second(l) \in late
      BY <1>5, <2>2, RowsOfRequest DEF RowsStay, RowAnswered, RowLost, RowLate, First, Second
    <3> QED
      BY <1>1, <3>2, <3>3, <3>4, CopyOfOther
  <2> QED
    BY <2>1, <2>2
<1>6. ASSUME NEW statement \in late, LateRow(statement) PROVE CopyOf(l)'
  <2>1. CASE l = statement[1]
    BY <1>1, <1>6, <2>1, CopyOfLate
  <2>2. CASE l # statement[1]
    <3>1. statement[1] \in Lines /\ rows \in Seq(Lines)
      BY DEF TypeOK
    <3>2. UNCHANGED <<line, pc, lost>> /\ rows' = Append(rows, statement[1]) /\ late' = late \ {statement}
      BY <1>6 DEF LateRow
    <3>3. Copies(l)' = Copies(l)
      BY <2>2, <3>1, <3>2, CopiesWithRow
    <3>4. First(l) # statement /\ Second(l) # statement
      BY <2>2 DEF First, Second
    <3> QED
      BY <1>1, <3>2, <3>3, <3>4, CopyOfOther
  <2> QED
    BY <2>1, <2>2
<1> QED
  BY <1>2, <1>3, <1>4, <1>5, <1>6 DEF Next
---------------------------------------------------------------------------
LEMMA ReturnStep ==
    TypeOK /\ LineInv /\ CallsInv /\ MadeInv /\ CopyInv /\ ReturnIsRight /\ [Next]_vars
        => ReturnIsRight'
<1> SUFFICES ASSUME TypeOK, LineInv, CallsInv, MadeInv, CopyInv, ReturnIsRight, [Next]_vars,
                    NEW l \in Lines
             PROVE  RightOf(l)'
  BY DEF ReturnIsRight
<1>1. /\ Copies(l) \in Nat
      /\ result[l] = "true" => Copies(l) >= 1
      /\ result[l] = "false" /\ Copies(l) >= 1 => l \in lost
  BY CopyIs DEF CopyOf, ReturnIsRight, RightOf
<1>2. CASE UNCHANGED <<rows, lost, result>>
  BY <1>1, <1>2, CopiesKept DEF RightOf
<1>3. ASSUME NEW t \in Threads, request(t)
      PROVE  RightOf(l)'
  <2>1. /\ line[t] \in Lines /\ rows \in Seq(Lines) /\ pc[t] \in Inside
        /\ result[line[t]] = "none"
    BY <1>3, RequestIs, Holder DEF TypeOK
  <2>2. CASE l # line[t]
    <3>1. result'[l] = result[l]
      BY <1>3, <2>2, RequestIs DEF Return, TypeOK
    <3>2. Copies(l)' = Copies(l) /\ lost \subseteq lost'
      BY <1>3, <2>1, <2>2, RowsOfRequest, CopiesKept, CopiesWithRow
         DEF RowsStay, RowAnswered, RowLost, RowLate, Row
    <3> QED
      BY <1>1, <3>1, <3>2 DEF RightOf
  <2>3. CASE l = line[t]
    <3>1. Copies(l) = 0 \/ l \in lost
      BY <2>1, <2>3, CopyIs DEF CopyOf, Inside
    <3>2. CASE RowsStay /\ result'[line[t]] # "true"
      BY <2>3, <3>1, <3>2, CopiesKept DEF RowsStay, RightOf
    <3>3. CASE RowAnswered(t) /\ result'[line[t]] = "true"
      BY <1>1, <2>1, <2>3, <3>3, CopiesWithRow DEF RowAnswered, Row, RightOf
    <3>4. CASE (RowLost(t) \/ RowLate(t)) /\ result'[line[t]] # "true"
      BY <2>3, <3>4 DEF RowLost, RowLate, RightOf
    <3> QED
      BY <1>3, <3>2, <3>3, <3>4, RowsOfRequest
  <2> QED
    BY <2>2, <2>3
<1>4. ASSUME NEW statement \in late, LateRow(statement)
      PROVE  RightOf(l)'
  <2>1. /\ statement[1] \in Lines /\ statement[1] \in lost /\ rows \in Seq(Lines)
        /\ rows' = Append(rows, statement[1]) /\ UNCHANGED <<result, lost>>
    BY <1>4 DEF LateRow, TypeOK
  <2>2. Copies(l)' = Copies(l) \/ (l \in lost /\ Copies(l)' = Copies(l) + 1)
    BY <2>1, CopiesWithRow
  <2> QED
    BY <1>1, <2>1, <2>2 DEF RightOf
<1> QED
  BY <1>2, <1>3, <1>4 DEF Next, Begin, Lock, vars

---------------------------------------------------------------------------
LEMMA InitIsClean == Init => IInv
<1> SUFFICES ASSUME Init PROVE IInv
  OBVIOUS
<1>1. TypeOK /\ LineInv /\ CallsInv /\ MadeInv /\ OrderInv
  BY Nobody DEF Init, TypeOK, LineInv, CallsInv, MadeInv, OrderInv, Inside
<1>2. \A l \in Lines : Copies(l) = 0
  <2>1. \A l \in Lines : {n \in DOMAIN rows : rows[n] = l} = {}
    BY DEF Init
  <2> QED
    BY <2>1, FS_EmptySet DEF Copies
<1>3. CopyInv /\ ReturnIsRight
  BY <1>2 DEF Init, CopyInv, ReturnIsRight, RightOf
<1> QED
  BY <1>1, <1>3 DEF IInv

(* The invariant holds in every state.                                      *)
THEOREM Invariant == Spec => []IInv
<1>1. Init => IInv
  BY InitIsClean
<1>2. IInv /\ [Next]_vars => IInv'
  BY TypeStep, LineStep, CallsStep, MadeStep, OrderStep, CopyStep, ReturnStep DEF IInv
<1> QED
  BY <1>1, <1>2, PTL DEF Spec

(* Every value is of its type, and only the holder of m_mutex is in request. *)
THEOREM TypeCorrect == Spec => []TypeOK
<1>1. IInv => TypeOK
  BY DEF IInv
<1> QED
  BY <1>1, Invariant, PTL

(* request makes at most two rows of a line, and two only if the answer to  *)
(* an INSERT was lost (mysql.hpp's retry after CR_SERVER_LOST).             *)
THEOREM TwiceOnlyIfLostHolds == Spec => []TwiceOnlyIfLost
<1>1. IInv => TwiceOnlyIfLost
  BY DEF IInv, CopyInv, TwiceOnlyIfLost
<1> QED
  BY <1>1, Invariant, PTL

(* run_logs stands in the order in which recordlog got m_mutex, but for the *)
(* lines whose answer was lost.                                            *)
THEOREM RowsInCallOrderHolds == Spec => []RowsInCallOrder
<1>1. IInv => RowsInCallOrder
  <2> SUFFICES ASSUME IInv, NEW i \in DOMAIN rows, NEW j \in DOMAIN rows, i < j,
                      {rows[i], rows[j]} \intersect lost = {}
               PROVE  Turn(rows[i]) <= Turn(rows[j])
    BY DEF RowsInCallOrder
  <2>1. /\ Turn(rows[i]) \in DOMAIN calls /\ calls[Turn(rows[i])] = rows[i]
        /\ Turn(rows[j]) \in DOMAIN calls /\ calls[Turn(rows[j])] = rows[j]
    BY DEF IInv, MadeInv, Called, Turn
  <2> QED
    BY <2>1 DEF IInv, OrderInv
<1> QED
  BY <1>1, Invariant, PTL

(* recordlog's answer can be relied on: true only if the row is there, and  *)
(* false with a row only if the answer of the server was lost.              *)
THEOREM ReturnIsRightHolds == Spec => []ReturnIsRight
<1>1. IInv => ReturnIsRight
  BY DEF IInv
<1> QED
  BY <1>1, Invariant, PTL
=============================================================================
