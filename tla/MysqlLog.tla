------------------------------ MODULE MysqlLog ------------------------------
(***************************************************************************)
(* mysql_logs::recordlog (src/Include/mysql/Header/mysql_logs.h) and the   *)
(* request it makes of the one connection all threads share (mysql.hpp):   *)
(* under m_mutex, one INSERT into run_logs, and if the connection was lost *)
(* close, open and the INSERT once more.                                   *)
(*                                                                         *)
(* The server executes a statement, at once or when the client has given   *)
(* up, or does not, and its answer arrives or does not.  Every call records *)
(* a line of its own.                                                      *)
(***************************************************************************)
EXTENDS Integers, Sequences, FiniteSets

CONSTANTS Threads,   \* main, the io threads, the poll thread
          Lines,     \* the calls of recordlog
          NoThread, NoLine

ASSUME Nobody == NoThread \notin Threads /\ NoLine \notin Lines

VARIABLES
    m_mutex,   \* its holder, or NoThread
    pc, line,  \* per thread: place in recordlog and request, its line
    conn,      \* "open", or "null" where get_conn() is NULL
    rows,      \* the table run_logs
    result,    \* per line: what recordlog returned
    calls,     \* history: the lines in the order m_mutex was taken for them
    lost,      \* history: lines the server got but whose answer was lost
    late       \* statements <<line, try>> it still works on, the client gone

vars == <<m_mutex, pc, line, conn, rows, result, calls, lost, late>>

Inside == {"request", "open", "again"}

TypeOK ==
    /\ m_mutex \in Threads \union {NoThread}
    /\ pc \in [Threads -> {"idle", "lock"} \union Inside]
    /\ line \in [Threads -> Lines \union {NoLine}]
    /\ conn \in {"open", "null"}
    /\ rows \in Seq(Lines) /\ calls \in Seq(Lines)
    /\ result \in [Lines -> {"none", "true", "false"}]
    /\ lost \in SUBSET Lines
    /\ late \subseteq lost \X {"request", "again"}
    /\ \A t \in Threads : pc[t] \in Inside <=> m_mutex = t

(* The constructor ignores whether open succeeded.                          *)
Init ==
    /\ m_mutex = NoThread
    /\ pc = [t \in Threads |-> "idle"]
    /\ line = [t \in Threads |-> NoLine]
    /\ conn \in {"open", "null"}
    /\ rows = << >> /\ calls = << >>
    /\ result = [l \in Lines |-> "none"]
    /\ lost = {} /\ late = {}

---------------------------------------------------------------------------
Begin(t, l) ==
    /\ pc[t] = "idle"
    /\ result[l] = "none" /\ \A u \in Threads : line[u] # l
    /\ pc' = [pc EXCEPT ![t] = "lock"]
    /\ line' = [line EXCEPT ![t] = l]
    /\ UNCHANGED <<m_mutex, conn, rows, result, calls, lost, late>>

(* Altered: recordlog does not lock m_mutex.                                *)
Lock_NoTest(t) ==
    /\ pc[t] = "lock"
    /\ m_mutex' = t
    /\ calls' = Append(calls, line[t])
    /\ pc' = [pc EXCEPT ![t] = "request"]
    /\ UNCHANGED <<line, conn, rows, result, lost, late>>

Lock(t) ==
    /\ pc[t] = "lock"
    /\ m_mutex = NoThread
    /\ m_mutex' = t
    /\ calls' = Append(calls, line[t])
    /\ pc' = [pc EXCEPT ![t] = "request"]
    /\ UNCHANGED <<line, conn, rows, result, lost, late>>

Return(t, value) ==
    /\ m_mutex' = NoThread
    /\ pc' = [pc EXCEPT ![t] = "idle"]
    /\ line' = [line EXCEPT ![t] = NoLine]
    /\ result' = [result EXCEPT ![line[t]] = value]

Row(t) == rows' = Append(rows, line[t])

(* get_conn() == NULL: request does not try to open it.                     *)
NoConnection(t) ==
    /\ pc[t] = "request"
    /\ conn = "null"
    /\ Return(t, "false")
    /\ UNCHANGED <<conn, rows, calls, lost, late>>

Asks(t) == pc[t] \in {"request", "again"} /\ conn = "open"

QueryOk(t) ==
    /\ Asks(t)
    /\ Row(t)
    /\ Return(t, "true")
    /\ UNCHANGED <<conn, calls, lost, late>>

(* An error that is not a lost connection (a quote in the remarks, ...).    *)
QueryRefused(t) ==
    /\ Asks(t)
    /\ Return(t, "false")
    /\ UNCHANGED <<conn, rows, calls, lost, late>>

(* CR_SERVER_LOST or CR_SERVER_GONE_ERROR: the server has made the row, has  *)
(* not and will not, or still works on it when the client is gone.         *)
Unanswered(t) ==
    \/ UNCHANGED <<rows, late, lost>>
    \/ Row(t) /\ lost' = lost \union {line[t]} /\ UNCHANGED late
    \/ /\ late' = late \union {<<line[t], pc[t]>>}
       /\ lost' = lost \union {line[t]} /\ UNCHANGED rows

(* The server ends a statement that nobody waits for.                       *)
LateRow(statement) ==
    /\ statement \in late
    /\ rows' = Append(rows, statement[1])
    /\ late' = late \ {statement}
    /\ UNCHANGED <<m_mutex, conn, pc, line, result, calls, lost>>

(* Altered: the statement is tried until the server answers.                *)
QueryLost_KeepsTrying(t) ==
    /\ Asks(t) /\ Len(rows) < 2 * Cardinality(Lines) + 2
    /\ Unanswered(t)
    /\ conn' = "null"
    /\ pc' = [pc EXCEPT ![t] = "open"]
    /\ UNCHANGED <<m_mutex, line, result, calls>>

(* The first time: close, then open.                                        *)
QueryLost(t) ==
    /\ Asks(t) /\ pc[t] = "request"
    /\ Unanswered(t)
    /\ conn' = "null"
    /\ pc' = [pc EXCEPT ![t] = "open"]
    /\ UNCHANGED <<m_mutex, line, result, calls>>

(* The second time: give up, with the broken connection kept.               *)
LostAgain(t) ==
    /\ Asks(t) /\ pc[t] = "again"
    /\ Unanswered(t)
    /\ Return(t, "false")
    /\ UNCHANGED <<conn, calls>>

OpenOk(t) ==
    /\ pc[t] = "open"
    /\ conn' = "open"
    /\ pc' = [pc EXCEPT ![t] = "again"]
    /\ UNCHANGED <<m_mutex, line, result, rows, calls, lost, late>>

(* Altered: a failed open returns with m_mutex still locked.                *)
OpenFails_KeepsLock(t) ==
    /\ pc[t] = "open"
    /\ result' = [result EXCEPT ![line[t]] = "false"]
    /\ pc' = [pc EXCEPT ![t] = "idle"]
    /\ line' = [line EXCEPT ![t] = NoLine]
    /\ UNCHANGED <<m_mutex, conn, rows, calls, lost, late>>

(* mysql_init, mysql_real_connect or mysql_autocommit fails: NULL again.    *)
OpenFails(t) ==
    /\ pc[t] = "open"
    /\ Return(t, "false")
    /\ UNCHANGED <<conn, rows, calls, lost, late>>

request(t) == \/ NoConnection(t) \/ QueryOk(t) \/ QueryRefused(t) \/ QueryLost(t)
              \/ LostAgain(t) \/ OpenOk(t) \/ OpenFails(t)

Next == \/ \E t \in Threads : Lock(t) \/ request(t) \/ \E l \in Lines : Begin(t, l)
        \/ \E statement \in late : LateRow(statement)
Spec == Init /\ [][Next]_vars

(* The server answers or the connection breaks (no timeout of the client    *)
(* sees to that: rw_timeout is 0), and m_mutex starves nobody.             *)
FairSpec == Spec /\ \A t \in Threads : WF_vars(request(t)) /\ SF_vars(Lock(t))

---------------------------------------------------------------------------
(* The rows stand in the order in which the calls got m_mutex, whatever     *)
(* connections break, but for lines a server may have been left with.      *)
Turn(l) == CHOOSE n \in DOMAIN calls : calls[n] = l
RowsInCallOrder ==
    \A i, j \in DOMAIN rows :
        (i < j /\ {rows[i], rows[j]} \intersect lost = {}) => Turn(rows[i]) <= Turn(rows[j])

(* A line is in the table twice only if the answer to its first INSERT was  *)
(* lost, and never three times: request tries twice, not more.              *)
Copies(l) == Cardinality({n \in DOMAIN rows : rows[n] = l})
TwiceOnlyIfLost == \A l \in Lines : /\ Copies(l) <= 2
                                    /\ Copies(l) = 2 => l \in lost

(* While the server answers or breaks off, every call returns, though all   *)
(* threads of the program queue at the one mutex.                           *)
EveryCallReturns == \A t \in Threads : pc[t] = "lock" ~> pc[t] = "idle"
=============================================================================
