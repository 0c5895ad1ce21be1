---------------------------- MODULE RequestQueue ----------------------------
(***************************************************************************)
(* CRequestQueue<T> of src/Include/queue/queue.hpp: a std::list guarded by *)
(* the class-wide mutex m_mutex, with the condition variable m_condGet on  *)
(* which Get waits while the list is empty.                                *)
(*                                                                         *)
(* Every thread runs one call at a time: op[t] is the call, pc[t] the      *)
(* place in it.  A call that locks starts at "lock" and holds the mutex    *)
(* from "body" to its return; a thread inside m_condGet.wait is "asleep"   *)
(* and, once notified or woken for no reason, is back at "lock", so that   *)
(* the next thing it does with the mutex is the test of the while loop.    *)
(* GetQueueHead takes no lock: its test, its read of the first node and    *)
(* its copy of the element are three steps.                                *)
(***************************************************************************)
EXTENDS Integers, Sequences, FiniteSets

CONSTANTS Threads,   \* the threads that call the queue
          Items,     \* what is queued; the program queues fresh heap pointers
          Role,      \* Role[t]: the operations thread t may call
          NoThread, NoItem, Garbage

Locking == {"create_instance", "Put", "Get", "Erase", "QueueClean", "QueueLength"}
Ops     == Locking \union {"GetQueueHead"}

ASSUME ThreadsFinite == IsFiniteSet(Threads)
ASSUME RoleType == Role \in [Threads -> SUBSET Ops]
ASSUME Distinct == /\ NoThread \notin Threads
                   /\ NoItem \notin Items /\ Garbage \notin Items
                   /\ NoItem # Garbage

VARIABLES
    m_list,      \* the std::list
    m_instance,  \* how many objects "new CRequestQueue" has made
    owner,       \* the thread that holds m_mutex, or NoThread
    op, pc,      \* per thread: the call it is in and the place in the call
    reg,         \* per thread: the argument or the result of its call
    accepted, delivered, dropped   \* history, as in FifoQueue

vars == <<m_list, m_instance, owner, op, pc, reg, accepted, delivered, dropped>>
history == <<accepted, delivered, dropped>>

(* What the queue promises, seen through this module's variables.           *)
Fifo == INSTANCE FifoQueue WITH queue <- m_list

Places   == {"idle", "lock", "body", "construct", "notify", "pop",
             "asleep", "peek", "front", "copy"}
Critical == {"body", "construct", "notify", "pop"}

TypeOK ==
    /\ m_list \in Seq(Items)
    /\ m_instance \in Nat
    /\ owner \in Threads \union {NoThread}
    /\ op \in [Threads -> Ops]
    /\ pc \in [Threads -> Places]
    /\ reg \in [Threads -> Items \union {NoItem, Garbage}]
    /\ accepted \in Seq(Items)
    /\ delivered \in Seq([by : Threads, item : Items])
    /\ dropped \in SUBSET Items

Init ==
    /\ m_list = << >>
    /\ m_instance = 0
    /\ owner = NoThread
    /\ op = [t \in Threads |-> "create_instance"]
    /\ pc = [t \in Threads |-> "idle"]
    /\ reg = [t \in Threads |-> NoItem]
    /\ accepted = << >>
    /\ delivered = << >>
    /\ dropped = {}

---------------------------------------------------------------------------
(* Steps every call shares.                                                *)

(* Thread t calls o.  Put(i) is given an item nobody has put before (a      *)
(* fresh TaskBase), Erase(i) any item.  Everything but create_instance     *)
(* goes through the pointer create_instance returned.                      *)
Call(t, o, i) ==
    /\ pc[t] = "idle"
    /\ o \in Role[t]
    /\ o # "create_instance" => m_instance > 0
    /\ o = "Put" => /\ i \notin Fifo!InSeq(accepted)
                    /\ \A u \in Threads \ {t} :
                          ~(op[u] = "Put" /\ pc[u] # "idle" /\ reg[u] = i)
    /\ op' = [op EXCEPT ![t] = o]
    /\ pc' = [pc EXCEPT ![t] = IF o \in Locking THEN "lock" ELSE "peek"]
    /\ reg' = [reg EXCEPT ![t] = IF o \in {"Put", "Erase"} THEN i ELSE NoItem]
    /\ UNCHANGED <<m_list, m_instance, owner, history>>

(* The constructor of scoped_lock, and the relock at the end of a wait.     *)
Lock(t) ==
    /\ pc[t] = "lock"
    /\ owner = NoThread
    /\ owner' = t
    /\ pc' = [pc EXCEPT ![t] = "body"]
    /\ UNCHANGED <<m_list, m_instance, op, reg, history>>

(* The destructor of scoped_lock: the call returns.                         *)
Return(t) ==
    /\ owner' = NoThread
    /\ pc' = [pc EXCEPT ![t] = "idle"]

At(t, o, p) == op[t] = o /\ pc[t] = p

Sleepers == {t \in Threads : pc[t] = "asleep"}

---------------------------------------------------------------------------
(* create_instance                                                         *)
FindInstance(t) ==
    /\ At(t, "create_instance", "body")
    /\ m_instance > 0
    /\ Return(t)
    /\ UNCHANGED <<m_list, m_instance, op, reg, history>>

MissInstance(t) ==
    /\ At(t, "create_instance", "body")
    /\ m_instance = 0
    /\ pc' = [pc EXCEPT ![t] = "construct"]
    /\ UNCHANGED <<m_list, m_instance, owner, op, reg, history>>

Construct(t) ==
    /\ At(t, "create_instance", "construct")
    /\ m_instance' = m_instance + 1
    /\ m_list' = << >>
    /\ Return(t)
    /\ UNCHANGED <<op, reg, history>>

---------------------------------------------------------------------------
(* Put                                                                     *)
(* Altered: push_front for push_back.                                       *)
PutPush_Front(t) ==
    /\ At(t, "Put", "body")
    /\ m_list' = <<reg[t]>> \o m_list
    /\ accepted' = Append(accepted, reg[t])
    /\ pc' = [pc EXCEPT ![t] = "notify"]
    /\ UNCHANGED <<m_instance, owner, op, reg, delivered, dropped>>

PutPush(t) ==
    /\ At(t, "Put", "body")
    /\ m_list' = Append(m_list, reg[t])
    /\ accepted' = Append(accepted, reg[t])
    /\ pc' = [pc EXCEPT ![t] = "notify"]
    /\ UNCHANGED <<m_instance, owner, op, reg, delivered, dropped>>

(* Altered: only the Put that finds the list empty notifies.                *)
PutNotify_FirstOnly(t) ==
    /\ At(t, "Put", "notify")
    /\ owner' = NoThread
    /\ IF Sleepers = {} \/ Len(m_list) > 1
       THEN pc' = [pc EXCEPT ![t] = "idle"]
       ELSE \E s \in Sleepers : pc' = [pc EXCEPT ![t] = "idle", ![s] = "lock"]
    /\ UNCHANGED <<m_list, m_instance, op, reg, history>>

(* Altered: no notification at all.                                         *)
PutNotify_Silent(t) ==
    /\ At(t, "Put", "notify")
    /\ Return(t)
    /\ UNCHANGED <<m_list, m_instance, op, reg, history>>

(* notify_one wakes one sleeper, whichever the system picks; if nobody      *)
(* sleeps the notification is lost.                                        *)
PutNotify(t) ==
    /\ At(t, "Put", "notify")
    /\ owner' = NoThread
    /\ \/ /\ Sleepers = {}
          /\ pc' = [pc EXCEPT ![t] = "idle"]
       \/ \E s \in Sleepers : pc' = [pc EXCEPT ![t] = "idle", ![s] = "lock"]
    /\ UNCHANGED <<m_list, m_instance, op, reg, history>>

---------------------------------------------------------------------------
(* Get                                                                     *)
GetWait(t) ==
    /\ At(t, "Get", "body")
    /\ m_list = << >>
    /\ owner' = NoThread
    /\ pc' = [pc EXCEPT ![t] = "asleep"]
    /\ UNCHANGED <<m_list, m_instance, op, reg, history>>

(* boost::condition_variable_any may return from wait without a notify.     *)
SpuriousWakeup(t) ==
    /\ pc[t] = "asleep"
    /\ pc' = [pc EXCEPT ![t] = "lock"]
    /\ UNCHANGED <<m_list, m_instance, owner, op, reg, history>>

GetFront(t) ==
    /\ At(t, "Get", "body")
    /\ m_list # << >>
    /\ reg' = [reg EXCEPT ![t] = Head(m_list)]
    /\ pc' = [pc EXCEPT ![t] = "pop"]
    /\ UNCHANGED <<m_list, m_instance, owner, op, history>>

GetPop(t) ==
    /\ At(t, "Get", "pop")
    /\ m_list' = Tail(m_list)
    /\ delivered' = Append(delivered, [by |-> t, item |-> reg[t]])
    /\ Return(t)
    /\ UNCHANGED <<m_instance, op, reg, accepted, dropped>>

---------------------------------------------------------------------------
(* The other calls; the program makes none of them.                        *)
(* Altered: the loop erases the first element whatever it is.               *)
EraseItem_Head(t) ==
    /\ At(t, "Erase", "body")
    /\ m_list' = IF reg[t] \in Fifo!InSeq(m_list) THEN Tail(m_list) ELSE m_list
    /\ dropped' = dropped \union ({reg[t]} \intersect Fifo!InSeq(m_list))
    /\ Return(t)
    /\ UNCHANGED <<m_instance, op, reg, accepted, delivered>>

EraseItem(t) ==
    /\ At(t, "Erase", "body")
    /\ m_list' = Fifo!WithoutFirst(m_list, reg[t])
    /\ dropped' = dropped \union ({reg[t]} \intersect Fifo!InSeq(m_list))
    /\ Return(t)
    /\ UNCHANGED <<m_instance, op, reg, accepted, delivered>>

CleanList(t) ==
    /\ At(t, "QueueClean", "body")
    /\ m_list' = << >>
    /\ dropped' = dropped \union Fifo!InSeq(m_list)
    /\ Return(t)
    /\ UNCHANGED <<m_instance, op, reg, accepted, delivered>>

(* The length is returned and nothing changes.                              *)
ReadLength(t) ==
    /\ At(t, "QueueLength", "body")
    /\ Return(t)
    /\ UNCHANGED <<m_list, m_instance, op, reg, history>>

(* GetQueueHead: m_list.empty() with no lock ...                            *)
PeekEmpty(t) ==
    /\ At(t, "GetQueueHead", "peek")
    /\ pc' = [pc EXCEPT ![t] = IF m_list = << >> THEN "idle" ELSE "front"]
    /\ UNCHANGED <<m_list, m_instance, owner, op, reg, history>>

(* ... then front(), which on a list emptied meanwhile names no element ... *)
PeekFront(t) ==
    /\ At(t, "GetQueueHead", "front")
    /\ reg' = [reg EXCEPT ![t] = IF m_list = << >> THEN Garbage ELSE Head(m_list)]
    /\ pc' = [pc EXCEPT ![t] = "copy"]
    /\ UNCHANGED <<m_list, m_instance, owner, op, history>>

(* ... then the copy out of the node, which may have been freed meanwhile.  *)
PeekCopy(t) ==
    /\ At(t, "GetQueueHead", "copy")
    /\ \/ UNCHANGED reg
       \/ /\ reg[t] \notin Fifo!InSeq(m_list)
          /\ reg' = [reg EXCEPT ![t] = Garbage]
    /\ pc' = [pc EXCEPT ![t] = "idle"]
    /\ UNCHANGED <<m_list, m_instance, owner, op, history>>

---------------------------------------------------------------------------
(* What a thread does inside a call it has made.                           *)
Inside(t) ==
    \/ FindInstance(t) \/ MissInstance(t) \/ Construct(t)
    \/ PutPush(t) \/ PutNotify(t)
    \/ GetWait(t) \/ GetFront(t) \/ GetPop(t)
    \/ EraseItem(t) \/ CleanList(t) \/ ReadLength(t)
    \/ PeekEmpty(t) \/ PeekFront(t) \/ PeekCopy(t)

Next == \E t \in Threads :
           \/ \E o \in Ops, i \in Items : Call(t, o, i)
           \/ Lock(t)
           \/ Inside(t)
           \/ SpuriousWakeup(t)

Spec == Init /\ [][Next]_vars

(* The scheduler runs every thread that can run and does not starve one at  *)
(* the mutex for ever; a thread whose only job is Get calls it again, as    *)
(* taskPoll's loop does.  Nothing makes a spurious wakeup happen.          *)
Fairness ==
    \A t \in Threads :
        /\ SF_vars(Lock(t))
        /\ WF_vars(Inside(t))
        /\ Role[t] = {"Get"} => WF_vars(\E i \in Items : Call(t, "Get", i))

FairSpec == Spec /\ Fairness

---------------------------------------------------------------------------
(* m_mutex at work: whoever is between the lock and the return of a locking *)
(* call is the one owner, so two threads are never in the list at once.     *)
(* queue.hpp: the scoped_lock of every call and the relock of a wait.       *)
MutualExclusion == \A t \in Threads : pc[t] \in Critical <=> owner = t

(* create_instance is called by every taskpush and every taskPoll: a second *)
(* object would strand what the first one holds.                           *)
OneInstance == m_instance <= 1

(* Threads on their way to an item: in a Get and not asleep, so that they   *)
(* test the list before they sleep again, or in a Put about to notify.     *)
Coming == {t \in Threads : \/ (op[t] = "Get" /\ pc[t] \in {"lock", "body", "pop"})
                            \/ pc[t] = "notify"}

(* No lost wakeup: while a thread sleeps in Get, somebody is coming for     *)
(* EVERY queued item.  Put calls notify_one once per item and a waiter      *)
(* leaves its wait once per notification, so one notification that goes    *)
(* astray is one item that stays in the list beside a sleeping consumer.   *)
NoLostWakeup == Sleepers # {} => Len(m_list) <= Cardinality(Coming)

(* Exactly once and in order, while nobody edits the queue (the program     *)
(* never does): what has been delivered, followed by what is queued, is    *)
(* what was put.  No interleaving of Puts and Gets loses, duplicates or    *)
(* reorders an item, whichever consumers get them.                         *)
DeliveredItems == [k \in DOMAIN delivered |-> delivered[k].item]
InOrder == dropped = {} => accepted = DeliveredItems \o m_list

(* The same with Erase and QueueClean at work: what has been delivered and  *)
(* what is queued is all that was put but for what they took out, each item *)
(* once, in the order of the Puts.                                         *)
Left == DeliveredItems \o m_list
InOrderLessDropped ==
    /\ Fifo!InSeq(Left) = Fifo!InSeq(accepted) \ dropped
    /\ \A i, j \in DOMAIN Left : \A m, n \in DOMAIN accepted :
          i < j /\ accepted[m] = Left[i] /\ accepted[n] = Left[j] => m < n

(* GetQueueHead, unlocked as it is, is safe for a thread that is the only   *)
(* one to remove items: Puts by others cannot make it return garbage.       *)
Removing == {"Get", "Erase", "QueueClean"}
HeadIsSafeForSoleRemover ==
    \A t \in Threads :
        (\A u \in Threads \ {t} : Role[u] \intersect Removing = {}) => reg[t] # Garbage

(* The calls above implement the queue of single steps.                     *)
ImplementsFifo == Fifo!Spec

(* Every queued item leaves the queue: with a thread that keeps calling     *)
(* Get, no item stays behind a sleeping consumer for ever.                  *)
EveryItemLeaves == \A i \in Items : i \in Fifo!InSeq(m_list) ~> i \notin Fifo!InSeq(m_list)
=============================================================================
