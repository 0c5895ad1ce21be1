----------------------------- MODULE FifoQueue -----------------------------
(***************************************************************************)
(* What CRequestQueue (src/Include/queue/queue.hpp) promises its callers,  *)
(* with no mutex, no condition variable and no threads inside a call: an   *)
(* unbounded queue whose operations are single steps.  RequestQueue, which *)
(* models the locking and waiting of the code, implements this module, and *)
(* TaskManger uses the queue only through it.                              *)
(*                                                                         *)
(* accepted, delivered and dropped are history: the items in the order     *)
(* they were put, the deliveries in the order they were made (with the     *)
(* thread that got each), and the items Erase and QueueClean threw away.   *)
(***************************************************************************)
EXTENDS Integers, Sequences

CONSTANTS Threads,  \* the threads that call the queue
          Items     \* the items (TaskBase pointers): each is put at most once

VARIABLES queue, accepted, delivered, dropped

fifoVars == <<queue, accepted, delivered, dropped>>

InSeq(s) == {s[k] : k \in DOMAIN s}

(* s without the first occurrence of i (std::list::erase shifts the rest).  *)
WithoutFirst(s, i) ==
    IF i \in InSeq(s)
    THEN [j \in 1..(Len(s) - 1) |-> IF \E k \in 1..j : s[k] = i THEN s[j + 1] ELSE s[j]]
    ELSE s

Init == /\ queue = << >>
        /\ accepted = << >>
        /\ delivered = << >>
        /\ dropped = {}

Enqueue(i) == /\ i \notin InSeq(accepted)
              /\ queue' = Append(queue, i)
              /\ accepted' = Append(accepted, i)
              /\ UNCHANGED <<delivered, dropped>>

Dequeue(t) == /\ queue # << >>
              /\ queue' = Tail(queue)
              /\ delivered' = Append(delivered, [by |-> t, item |-> Head(queue)])
              /\ UNCHANGED <<accepted, dropped>>

Remove(i) == /\ i \in InSeq(queue)
             /\ queue' = WithoutFirst(queue, i)
             /\ dropped' = dropped \union {i}
             /\ UNCHANGED <<accepted, delivered>>

Clear == /\ queue # << >>
         /\ queue' = << >>
         /\ dropped' = dropped \union InSeq(queue)
         /\ UNCHANGED <<accepted, delivered>>

Next == \/ \E i \in Items : Enqueue(i) \/ Remove(i)
        \/ \E t \in Threads : Dequeue(t)
        \/ Clear

Spec == Init /\ [][Next]_fifoVars
=============================================================================
