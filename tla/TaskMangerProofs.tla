-------------------------- MODULE TaskMangerProofs --------------------------
(***************************************************************************)
(* Theorems about TaskManger, for any sets of io threads, poll threads and *)
(* tasks and any number of crashes.                                        *)
(*                                                                         *)
(* LockInv says who holds which mutex and which thread has a task in hand. *)
(* HolderInv, on top of it, is OneHolder spelled out pair by pair: the     *)
(* form in which each step's move of a task from one place to the next is  *)
(* easy to see.                                                            *)
(***************************************************************************)
EXTENDS TaskManger, TLAPS

LockInv ==
    /\ \A h \in IoThreads : /\ t_mutex = h <=> io[h] = "spawn"
                            /\ arg[h] # NoTask <=> io[h] \in {"product", "spawn"}
    /\ \A k \in Tasks : t_mutex = k <=> push[k] = "put"
    /\ \A p \in Pollers : /\ task_mutex = p <=> poll[p] \notin {"none", "lock"}
                          /\ cur[p] # NoTask <=> InTask(p)

Pushing(k) == push[k] \in {"lock", "put"}

CtlInv == TypeOK /\ LockInv

---------------------------------------------------------------------------
LEMMA CtlInit == Init => CtlInv
BY Names, MaxCrashesType DEF Init, CtlInv, TypeOK, LockInv, InTask, Q!Init, IoPlaces,
   PushPlaces, PollPlaces

(* One step keeps types and locks. *)
LEMMA CtlStep == CtlInv /\ [Next]_vars => CtlInv'
<1> SUFFICES ASSUME CtlInv, [Next]_vars PROVE CtlInv'
  OBVIOUS
<1> USE Names, MaxCrashesType
    DEF CtlInv, TypeOK, LockInv, InTask, IoPlaces, PushPlaces, PollPlaces
<1>1. CASE UNCHANGED vars
  BY <1>1 DEF vars, queueVars
<1>2. CASE Main
  <2>1. CASE MakeManger
    BY <2>1 DEF MakeManger, taskVars, queueVars
  <2>2. CASE StartWeb
    BY <2>2 DEF StartWeb, taskVars, queueVars
  <2>3. ASSUME NEW p \in Pollers, StartDel(p) PROVE CtlInv'
    BY <2>3 DEF StartDel, taskVars, queueVars
  <2> QED
    BY <1>2, <2>1, <2>2, <2>3 DEF Main
<1>3. ASSUME NEW h \in IoThreads, Receive(h) \/ Handler(h) PROVE CtlInv'
  <2> USE DEF ioOthers, queueVars
  <2>1. CASE Receive(h)
    BY <2>1 DEF Receive
  <2>2. CASE GetInstance(h)
    BY <2>2 DEF GetInstance
  <2>3. CASE OtherAction(h)
    BY <2>3 DEF OtherAction
  <2>4. ASSUME NEW k \in Tasks, NewTask(h, k) PROVE CtlInv'
    BY <2>4 DEF NewTask
  <2>5. CASE ProductLock(h)
    BY <2>5 DEF ProductLock
  <2>6. CASE Spawn(h)
    BY <2>6 DEF Spawn
  <2>7. CASE SpawnThrows(h)
    BY <2>7 DEF SpawnThrows
  <2>8. CASE Reply(h)
    BY <2>8 DEF Reply
  <2> QED
    BY <1>3, <2>1, <2>2, <2>3, <2>4, <2>5, <2>6, <2>7, <2>8 DEF Handler
<1>4. ASSUME NEW k \in Tasks, TaskPush(k) PROVE CtlInv'
  <2> USE DEF pushOthers, queueVars
  <2>1. CASE PushLock(k)
    BY <2>1 DEF PushLock
  <2>2. CASE PushPut(k)
    BY <2>2 DEF PushPut, Q!Enqueue
  <2> QED
    BY <1>4, <2>1, <2>2 DEF TaskPush
<1>5. ASSUME NEW p \in Pollers, TaskPoll(p) PROVE CtlInv'
  <2> USE DEF pollOthers, queueVars, Go
  <2>1. CASE PollLock(p)
    BY <2>1 DEF PollLock
  <2>2. CASE PollGet(p)
    BY <2>2 DEF PollGet, Q!Dequeue
  <2>3. CASE ExecuteBegin(p)
    BY <2>3 DEF ExecuteBegin
  <2>4. CASE ExecuteValid(p)
    BY <2>4 DEF ExecuteValid
  <2>5. CASE ExecuteInvalid(p)
    BY <2>5 DEF ExecuteInvalid
  <2>6. CASE ExecuteAfter(p)
    BY <2>6 DEF ExecuteAfter
  <2>7. CASE Delete(p)
    BY <2>7 DEF Delete
  <2>8. CASE Sleep(p)
    BY <2>8 DEF Sleep
  <2> QED
    BY <1>5, <2>1, <2>2, <2>3, <2>4, <2>5, <2>6, <2>7, <2>8 DEF TaskPoll
<1>6. CASE Crash
  BY <1>6 DEF Crash
<1> QED
  BY <1>1, <1>2, <1>3, <1>4, <1>5, <1>6 DEF Next

(* The types of the variables. *)
THEOREM TypeCorrect == Spec => []TypeOK
<1>1. CtlInv => TypeOK
  BY DEF CtlInv
<1> QED
  BY <1>1, CtlInit, CtlStep, PTL DEF Spec

(* One poll thread at a time has a task, however many start_del makes.     *)
THEOREM OneRunnerHolds == Spec => []OneRunner
<1>1. CtlInv => OneRunner
  BY DEF CtlInv, LockInv, OneRunner, InTask
<1> QED
  BY <1>1, CtlInit, CtlStep, PTL DEF Spec

---------------------------------------------------------------------------
(* OneHolder pair by pair. *)
Queued(k) == \E n \in DOMAIN queue : queue[n] = k

HolderInv ==
    \A k \in Tasks :
        /\ obj[k] = "live" <=> \/ \E h \in IoThreads : arg[h] = k
                               \/ Pushing(k)
                               \/ Queued(k)
                               \/ \E p \in Pollers : cur[p] = k
        /\ \A h \in IoThreads :
             arg[h] = k => /\ ~Pushing(k) /\ ~Queued(k)
                           /\ \A g \in IoThreads : arg[g] = k => g = h
                           /\ \A p \in Pollers : cur[p] # k
        /\ Pushing(k) => ~Queued(k) /\ \A p \in Pollers : cur[p] # k
        /\ Queued(k) => \A p \in Pollers : cur[p] # k
        /\ \A m, n \in DOMAIN queue : queue[m] = k /\ queue[n] = k => m = n
        /\ \A p, q \in Pollers : cur[p] = k /\ cur[q] = k => p = q

(* What Append and Tail do to the places in a queue. *)
LEMMA AppendPlaces ==
    ASSUME NEW s \in Seq(Tasks), NEW k \in Tasks
    PROVE  /\ DOMAIN Append(s, k) = DOMAIN s \union {Len(s) + 1}
           /\ Len(s) + 1 \notin DOMAIN s
           /\ Append(s, k)[Len(s) + 1] = k
           /\ \A n \in DOMAIN s : Append(s, k)[n] = s[n]
OBVIOUS

LEMMA TailPlaces ==
    ASSUME NEW s \in Seq(Tasks), s # << >>
    PROVE  /\ Head(s) = s[1] /\ 1 \in DOMAIN s /\ Head(s) \in Tasks
           /\ \A n \in DOMAIN Tail(s) : /\ n + 1 \in DOMAIN s /\ n + 1 # 1
                                         /\ Tail(s)[n] = s[n + 1]
           /\ \A n \in DOMAIN s : n # 1 => n - 1 \in DOMAIN Tail(s) /\ s[n] = Tail(s)[n - 1]
           /\ \A m, n \in DOMAIN Tail(s) : m + 1 = n + 1 => m = n
OBVIOUS

LEMMA HolderInit == Init => HolderInv
BY Names DEF Init, HolderInv, Pushing, Queued, Q!Init

(* One step moves a task to one new place. *)
LEMMA HolderStep == CtlInv /\ HolderInv /\ [Next]_vars => HolderInv'
<1> SUFFICES ASSUME CtlInv, HolderInv, [Next]_vars PROVE HolderInv'
  OBVIOUS
<1>0. /\ queue \in Seq(Tasks) /\ arg \in [IoThreads -> Tasks \union {NoTask}]
      /\ cur \in [Pollers -> Tasks \union {NoTask}] /\ push \in [Tasks -> PushPlaces]
      /\ io \in [IoThreads -> IoPlaces] /\ poll \in [Pollers -> PollPlaces]
      /\ obj \in [Tasks -> {"none", "live", "deleted", "leaked", "lost"}]
      /\ NoTask \notin Tasks
  BY Names DEF CtlInv, TypeOK
<1> USE <1>0 DEF Pushing
<1>1. CASE UNCHANGED vars
  BY <1>1 DEF vars, queueVars, HolderInv, Queued
<1>2. CASE Main
  BY <1>2 DEF Main, MakeManger, StartWeb, StartDel, taskVars, queueVars, HolderInv, Queued
<1>3. ASSUME NEW h \in IoThreads, Receive(h) \/ Handler(h) PROVE HolderInv'
  <2> USE DEF ioOthers, queueVars, HolderInv, Queued
  <2>1. CASE Receive(h) \/ GetInstance(h) \/ OtherAction(h) \/ ProductLock(h) \/ Reply(h)
    BY <2>1 DEF Receive, GetInstance, OtherAction, ProductLock, Reply
  <2>2. ASSUME NEW k \in Tasks, NewTask(h, k) PROVE HolderInv'
    <3>1. arg[h] = NoTask
      BY <2>2 DEF NewTask, CtlInv, LockInv
    <3>2. /\ obj[k] = "none" /\ obj' = [obj EXCEPT ![k] = "live"]
          /\ arg' = [arg EXCEPT ![h] = k] /\ UNCHANGED <<push, queue, cur>>
      BY <2>2 DEF NewTask
    <3>3. /\ \A g \in IoThreads : arg[g] # k
          /\ ~Pushing(k) /\ ~Queued(k) /\ \A p \in Pollers : cur[p] # k
      BY <3>2
    <3>4. /\ obj'[k] = "live" /\ arg'[h] = k
          /\ \A g \in IoThreads \ {h} : arg'[g] = arg[g]
          /\ \A j \in Tasks \ {k} : obj'[j] = obj[j] /\ arg[h] # j /\ arg'[h] # j
      BY <3>1, <3>2
    <3> QED
      BY <3>2, <3>3, <3>4
  <2>3. CASE Spawn(h)
    <3>1. arg[h] \in Tasks
      BY <2>3 DEF Spawn, CtlInv, LockInv
    <3>2. PICK k \in Tasks : k = arg[h]
      BY <3>1
    <3>3. /\ push' = [push EXCEPT ![k] = "lock"] /\ arg' = [arg EXCEPT ![h] = NoTask]
          /\ UNCHANGED <<obj, queue, cur>>
      BY <2>3, <3>2 DEF Spawn
    <3>4. \A j \in Tasks \ {k} : /\ Pushing(j)' <=> Pushing(j)
                                 /\ \A g \in IoThreads : arg'[g] = j <=> arg[g] = j
      BY <3>2, <3>3
    <3>5. Pushing(k)' /\ \A g \in IoThreads : arg'[g] # k
      BY <3>2, <3>3
    <3> QED
      BY <3>2, <3>3, <3>4, <3>5
  <2>4. CASE SpawnThrows(h)
    <3>1. arg[h] \in Tasks
      BY <2>4 DEF SpawnThrows, CtlInv, LockInv
    <3> QED
      BY <2>4, <3>1 DEF SpawnThrows
  <2> QED
    BY <1>3, <2>1, <2>2, <2>3, <2>4 DEF Handler
<1>4. ASSUME NEW k \in Tasks, TaskPush(k) PROVE HolderInv'
  <2> USE DEF pushOthers, queueVars
  <2>1. CASE PushLock(k)
    BY <2>1 DEF PushLock, HolderInv, Queued
  <2>2. CASE PushPut(k)
    <3>1. /\ queue' = Append(queue, k) /\ push' = [push EXCEPT ![k] = "end"]
          /\ push[k] = "put" /\ UNCHANGED <<obj, arg, cur>>
      BY <2>2 DEF PushPut, Q!Enqueue
    <3>2. Queued(k)' /\ \A j \in Tasks \ {k} : Queued(j)' <=> Queued(j)
      BY <3>1, AppendPlaces DEF Queued
    <3>3. \A j \in Tasks : \A m, n \in DOMAIN queue' : queue'[m] = j /\ queue'[n] = j => m = n
      BY <3>1, AppendPlaces DEF HolderInv, Queued
    <3> QED
      BY <3>1, <3>2, <3>3 DEF HolderInv
  <2> QED
    BY <1>4, <2>1, <2>2 DEF TaskPush
<1>5. ASSUME NEW p \in Pollers, TaskPoll(p) PROVE HolderInv'
  <2> USE DEF pollOthers, queueVars, Go
  <2>1. CASE PollGet(p)
    <3>1. /\ queue # << >> /\ queue' = Tail(queue) /\ cur' = [cur EXCEPT ![p] = Head(queue)]
          /\ UNCHANGED <<obj, arg, push>>
      BY <2>1 DEF PollGet, Q!Dequeue
    <3>2. cur[p] = NoTask
      BY <2>1 DEF PollGet, CtlInv, LockInv, InTask
    <3>3. PICK k \in Tasks : k = Head(queue) /\ k = queue[1] /\ Queued(k)
      BY <3>1, TailPlaces DEF Queued
    <3>5. ~Queued(k)'
      <4>1. \A n \in DOMAIN queue : queue[n] = k => n = 1
        BY <3>1, <3>3, TailPlaces DEF HolderInv
      <4> QED
        BY <3>1, <4>1, TailPlaces DEF Queued
    <3>6. \A j \in Tasks \ {k} : Queued(j)' <=> Queued(j)
      <4> TAKE j \in Tasks \ {k}
      <4>1. Queued(j)' => Queued(j)
        BY <3>1, TailPlaces DEF Queued
      <4>2. Queued(j) => Queued(j)'
        <5>1. SUFFICES ASSUME NEW n \in DOMAIN queue, queue[n] = j PROVE Queued(j)'
          BY DEF Queued
        <5>2. n # 1
          BY <5>1, <3>3
        <5>3. n - 1 \in DOMAIN queue' /\ queue'[n - 1] = j
          BY <3>1, <5>1, <5>2, TailPlaces
        <5> QED
          BY <5>3 DEF Queued
      <4> QED
        BY <4>1, <4>2
    <3>7. cur'[p] = k /\ \A q \in Pollers \ {p} : cur'[q] = cur[q]
      BY <3>1, <3>3
    <3>4. \A j \in Tasks : \A m, n \in DOMAIN queue' : queue'[m] = j /\ queue'[n] = j => m = n
      BY <3>1, TailPlaces DEF HolderInv
    <3> QED
      BY <3>1, <3>2, <3>3, <3>4, <3>5, <3>6, <3>7 DEF HolderInv
  <2>2. CASE Delete(p)
    <3>1. cur[p] \in Tasks
      BY <2>2 DEF Delete, CtlInv, LockInv, InTask
    <3> QED
      BY <2>2, <3>1 DEF Delete, HolderInv, Queued
  <2>3. CASE ~PollGet(p) /\ ~Delete(p)
    <3>1. UNCHANGED <<obj, arg, push, cur, queue>>
      BY <1>5, <2>3 DEF TaskPoll, PollLock, ExecuteBegin, ExecuteValid, ExecuteInvalid,
         ExecuteAfter, Sleep
    <3> QED
      BY <3>1 DEF HolderInv, Queued
  <2> QED
    BY <2>1, <2>2, <2>3
<1>6. CASE Crash
  BY <1>6 DEF Crash, HolderInv, Queued
<1> QED
  BY <1>1, <1>2, <1>3, <1>4, <1>5, <1>6 DEF Next

(* Every live task is in exactly one place.                                *)
THEOREM OneHolderHolds == Spec => []OneHolder
<1>1. HolderInv => OneHolder
  <2> SUFFICES ASSUME HolderInv, NEW k \in Tasks
               PROVE  /\ obj[k] = "live" <=> Holders(k) # {}
                      /\ \A a, b \in Holders(k) : a = b
    BY DEF OneHolder
  <2>1. \A a : a \in Holders(k) <=>
             \/ \E h \in IoThreads : arg[h] = k /\ a = <<"handler", h>>
             \/ Pushing(k) /\ a = <<"push", k>>
             \/ \E n \in DOMAIN queue : queue[n] = k /\ a = <<"queue", n>>
             \/ \E p \in Pollers : cur[p] = k /\ a = <<"poll", p>>
    BY DEF Holders, Pushing
  <2>2. Holders(k) # {} <=> \/ \E h \in IoThreads : arg[h] = k
                            \/ Pushing(k)
                            \/ Queued(k)
                            \/ \E p \in Pollers : cur[p] = k
    BY <2>1 DEF Queued
  <2>3. \A a, b \in Holders(k) : a = b
    BY <2>1 DEF HolderInv, Queued
  <2> QED
    BY <2>2, <2>3 DEF HolderInv
<1> QED
  BY <1>1, CtlInit, CtlStep, HolderInit, HolderStep, PTL DEF Spec

---------------------------------------------------------------------------
(* A task that has begun to run is with its poll thread or done with.      *)
Begun(k) == \/ obj[k] \in {"deleted", "lost"}
            \/ \E p \in Pollers : cur[p] = k /\ poll[p] \in {"running", "after", "delete"}

RunsInv == RunsOnce /\ \A i \in DOMAIN runs : Begun(runs[i])

(* One step: only ExecuteBegin adds to runs, and what it adds had not begun. *)
LEMMA RunsStep == CtlInv /\ HolderInv /\ RunsInv /\ [Next]_vars => RunsInv'
<1> SUFFICES ASSUME CtlInv, HolderInv, RunsInv, [Next]_vars PROVE RunsInv'
  OBVIOUS
<1>0. /\ runs \in Seq(Tasks) /\ cur \in [Pollers -> Tasks \union {NoTask}]
      /\ poll \in [Pollers -> PollPlaces] /\ NoTask \notin Tasks
      /\ obj \in [Tasks -> {"none", "live", "deleted", "leaked", "lost"}]
      /\ \A i \in DOMAIN runs : runs[i] \in Tasks
  BY Names DEF CtlInv, TypeOK
<1> USE <1>0
<1>1. CASE runs' = runs /\ \A k \in Tasks : Begun(k) => Begun(k)'
  BY <1>1 DEF RunsInv, RunsOnce
<1>2. ASSUME NEW p \in Pollers, ExecuteBegin(p) PROVE RunsInv'
  <2>1. cur[p] \in Tasks /\ obj[cur[p]] = "live"
    BY <1>2 DEF ExecuteBegin, Go, CtlInv, LockInv, InTask, HolderInv
  <2>2. ~Begun(cur[p])
    BY <1>2, <2>1 DEF ExecuteBegin, Go, HolderInv, Begun
  <2>3. /\ runs' = Append(runs, cur[p]) /\ UNCHANGED <<cur, obj>>
        /\ poll' = [poll EXCEPT ![p] = "running"] /\ poll[p] = "execute"
    BY <1>2 DEF ExecuteBegin, Go
  <2>4. Begun(cur[p])' /\ \A k \in Tasks : Begun(k) => Begun(k)'
    BY <2>1, <2>3 DEF Begun
  <2>5. /\ DOMAIN runs' = DOMAIN runs \union {Len(runs) + 1}
        /\ runs'[Len(runs) + 1] = cur[p]
        /\ \A i \in DOMAIN runs : runs'[i] = runs[i]
    BY <2>1, <2>3, AppendPlaces
  <2>6. \A i \in DOMAIN runs : runs[i] # cur[p]
    BY <2>2 DEF RunsInv
  <2>7. RunsOnce'
    BY <2>5, <2>6 DEF RunsInv, RunsOnce
  <2>8. \A i \in DOMAIN runs' : \E k \in Tasks : k = runs'[i] /\ Begun(k)'
    <3>1. \A i \in DOMAIN runs : \E k \in Tasks : k = runs[i] /\ Begun(k)
      BY DEF RunsInv, Begun
    <3>2. \A i \in DOMAIN runs : \E k \in Tasks : k = runs'[i] /\ Begun(k)'
      BY <2>4, <2>5, <3>1
    <3>3. PICK k \in Tasks : k = cur[p]
      BY <2>1
    <3>4. k = runs'[Len(runs) + 1] /\ Begun(k)'
      BY <2>3, <2>4, <2>5, <3>3 DEF Begun
    <3> QED
      BY <2>5, <3>2, <3>4
  <2>9. (\A i \in DOMAIN runs : Begun(runs[i]))'
    BY <2>8 DEF Begun
  <2> QED
    BY <2>7, <2>9 DEF RunsInv
<1>3. ASSUME NEW p \in Pollers, TaskPoll(p), ~ExecuteBegin(p)
      PROVE  runs' = runs /\ \A k \in Tasks : Begun(k) => Begun(k)'
  <2>1. CASE PollLock(p) \/ PollGet(p)
    BY <2>1 DEF PollLock, PollGet, Go, pollOthers, Begun, CtlInv, LockInv, InTask
  <2>2. CASE ExecuteValid(p) \/ ExecuteInvalid(p) \/ ExecuteAfter(p)
    BY <2>2 DEF ExecuteValid, ExecuteInvalid, ExecuteAfter, Go, pollOthers, Begun, PollPlaces
  <2>3. CASE Delete(p)
    BY <2>3 DEF Delete, Go, pollOthers, Begun, PollPlaces
  <2>4. CASE Sleep(p)
    BY <2>4 DEF Sleep, Go, pollOthers, Begun
  <2> QED
    BY <1>3, <2>1, <2>2, <2>3, <2>4 DEF TaskPoll
<1>4. ASSUME NEW h \in IoThreads, Receive(h) \/ Handler(h)
      PROVE  runs' = runs /\ \A k \in Tasks : Begun(k) => Begun(k)'
  BY <1>4 DEF Handler, Receive, GetInstance, OtherAction, NewTask, ProductLock, Spawn,
     SpawnThrows, Reply, ioOthers, Begun, CtlInv, LockInv, HolderInv
<1>5. ASSUME NEW k \in Tasks, TaskPush(k)
      PROVE  runs' = runs /\ \A j \in Tasks : Begun(j) => Begun(j)'
  BY <1>5 DEF TaskPush, PushLock, PushPut, pushOthers, Begun
<1>6. CASE Main
  BY <1>6, <1>1 DEF Main, MakeManger, StartWeb, StartDel, taskVars, Begun
<1>7. CASE Crash
  BY <1>7, <1>1 DEF Crash, Begun, HolderInv
<1>8. CASE UNCHANGED vars
  BY <1>8, <1>1 DEF vars, Begun
<1> QED
  BY <1>1, <1>2, <1>3, <1>4, <1>5, <1>6, <1>7, <1>8 DEF Next

(* No task is run twice, however often the process is restarted.           *)
THEOREM RunsOnceHolds == Spec => []RunsOnce
<1>1. Init => RunsInv
  BY DEF Init, RunsInv, RunsOnce
<1>2. RunsInv => RunsOnce
  BY DEF RunsInv
<1> QED
  BY <1>1, <1>2, CtlInit, CtlStep, HolderInit, HolderStep, RunsStep, PTL DEF Spec

---------------------------------------------------------------------------
(* The queue is what is left of accepted.  All tasks before it have begun, *)
(* except that the last of them may be with a poll thread at "execute".    *)
Taken == Len(accepted) - Len(queue)

HasRun(k) == \E j \in DOMAIN runs : runs[j] = k

QueueInv ==
    /\ accepted \in Seq(Tasks)
    /\ \A a, b \in DOMAIN accepted : accepted[a] = accepted[b] => a = b
    /\ Taken \in Nat
    /\ \A n \in DOMAIN queue : queue[n] = accepted[Taken + n]

TakenInv ==
    /\ \A p \in Pollers : poll[p] = "execute" => Taken > 0 /\ cur[p] = accepted[Taken]
    /\ \A a \in 1..Taken : \/ HasRun(accepted[a])
                           \/ a = Taken /\ \E p \in Pollers : poll[p] = "execute"

OrderInv == QueueInv /\ TakenInv /\ RunsInPutOrder

LEMMA OrderInit == Init => OrderInv
<1> SUFFICES ASSUME Init PROVE OrderInv
  OBVIOUS
<1>1. accepted = << >> /\ queue = << >> /\ Taken = 0
  BY DEF Init, Q!Init, Taken
<1>2. \A p \in Pollers : poll[p] # "execute"
  BY DEF Init
<1> QED
  BY <1>1, <1>2 DEF OrderInv, QueueInv, TakenInv, RunsInPutOrder

(* What is in a handler, in a push thread or in the queue has not run.     *)
LEMMA NotYetRun ==
    ASSUME CtlInv, HolderInv, RunsInv, NEW k \in Tasks, Pushing(k) \/ Queued(k)
    PROVE  ~HasRun(k)
BY DEF HolderInv, RunsInv, Begun, HasRun

(* The steps that leave both sequences alone. *)
LEMMA OrderKept ==
    ASSUME OrderInv, UNCHANGED <<queue, accepted, runs>>,
           \A p \in Pollers : /\ poll[p] = "execute" <=> poll'[p] = "execute"
                              /\ poll[p] = "execute" => cur'[p] = cur[p]
    PROVE  OrderInv'
BY DEF OrderInv, QueueInv, TakenInv, Taken, HasRun, RunsInPutOrder

LEMMA PutOrder ==
    ASSUME CtlInv, HolderInv, RunsInv, OrderInv, NEW k \in Tasks, PushPut(k)
    PROVE  OrderInv'
<1>1. /\ queue \in Seq(Tasks) /\ accepted \in Seq(Tasks)
      /\ queue' = Append(queue, k) /\ accepted' = Append(accepted, k)
      /\ k \notin {accepted[a] : a \in DOMAIN accepted}
      /\ UNCHANGED <<runs, poll, cur>>
  BY DEF PushPut, Q!Enqueue, Q!InSeq, pushOthers, CtlInv, TypeOK, OrderInv, QueueInv
<1>2. Taken' = Taken /\ Taken \in Nat
  BY <1>1 DEF Taken, OrderInv, QueueInv
<1>3. QueueInv'
  <2>1. /\ accepted' \in Seq(Tasks)
        /\ \A a, b \in DOMAIN accepted' : accepted'[a] = accepted'[b] => a = b
    BY <1>1, AppendPlaces DEF OrderInv, QueueInv
  <2>2. ASSUME NEW n \in DOMAIN queue' PROVE queue'[n] = accepted'[Taken + n]
    <3>1. CASE n \in DOMAIN queue
      <4>1. queue'[n] = queue[n] /\ queue[n] = accepted[Taken + n]
        BY <1>1, <3>1, AppendPlaces DEF OrderInv, QueueInv
      <4>2. Taken + n \in DOMAIN accepted
        BY <1>1, <1>2, <3>1 DEF Taken
      <4> QED
        BY <1>1, <4>1, <4>2, AppendPlaces
    <3>2. CASE n = Len(queue) + 1
      BY <1>1, <3>2, AppendPlaces DEF Taken
    <3>3. DOMAIN queue' = DOMAIN queue \union {Len(queue) + 1}
      BY <1>1, AppendPlaces
    <3> QED
      BY <2>2, <3>1, <3>2, <3>3
  <2> QED
    BY <1>2, <2>1, <2>2 DEF QueueInv
<1>4. TakenInv'
  <2>1. \A a \in 1..Taken : accepted'[a] = accepted[a]
    BY <1>1 DEF Taken, OrderInv, QueueInv
  <2>2. \A p \in Pollers : poll'[p] = "execute" => Taken > 0 /\ cur'[p] = accepted'[Taken]
    <3> SUFFICES ASSUME NEW p \in Pollers, poll[p] = "execute"
                 PROVE  Taken > 0 /\ cur[p] = accepted'[Taken]
      BY <1>1
    <3>1. Taken > 0 /\ cur[p] = accepted[Taken]
      BY DEF OrderInv, TakenInv
    <3> QED
      BY <1>2, <2>1, <3>1
  <2>3. \A a \in 1..Taken : \/ HasRun(accepted[a])'
                            \/ a = Taken /\ \E p \in Pollers : poll'[p] = "execute"
    <3> TAKE a \in 1..Taken
    <3>1. HasRun(accepted[a]) => HasRun(accepted[a])'
      BY <1>1, <2>1 DEF HasRun
    <3> QED
      BY <1>1, <3>1 DEF OrderInv, TakenInv
  <2> QED
    BY <1>2, <2>2, <2>3 DEF TakenInv
<1>5. RunsInPutOrder'
  <2>1. \A j \in DOMAIN runs : runs[j] # k
    BY NotYetRun DEF PushPut, Pushing, HasRun
  <2> QED
    BY <1>1, <2>1, AppendPlaces DEF OrderInv, RunsInPutOrder
<1> QED
  BY <1>3, <1>4, <1>5 DEF OrderInv

LEMMA GetOrder ==
    ASSUME CtlInv, OrderInv, NEW p \in Pollers, PollGet(p)
    PROVE  OrderInv'
<1>1. /\ queue \in Seq(Tasks) /\ accepted \in Seq(Tasks) /\ queue # << >>
      /\ queue' = Tail(queue) /\ cur' = [cur EXCEPT ![p] = Head(queue)]
      /\ poll' = [poll EXCEPT ![p] = "execute"]
      /\ cur \in [Pollers -> Tasks \union {NoTask}] /\ poll \in [Pollers -> PollPlaces]
      /\ UNCHANGED <<runs, accepted>>
  BY DEF PollGet, Q!Dequeue, Go, pollOthers, CtlInv, TypeOK, OrderInv, QueueInv
<1>2. Taken' = Taken + 1 /\ Taken \in Nat
  BY <1>1 DEF Taken, OrderInv, QueueInv
<1>3. \A q \in Pollers : poll[q] # "execute"
  BY DEF PollGet, Go, CtlInv, LockInv
<1>4. QueueInv'
  <2>1. \A n \in DOMAIN queue' : n + 1 \in DOMAIN queue /\ queue'[n] = queue[n + 1]
    BY <1>1, TailPlaces
  <2>2. \A n \in DOMAIN queue' : queue'[n] = accepted[Taken + (n + 1)]
    BY <2>1 DEF OrderInv, QueueInv
  <2>3. \A n \in DOMAIN queue' : Taken + (n + 1) = (Taken + 1) + n
    BY <1>1, <1>2
  <2> QED
    BY <1>1, <1>2, <2>2, <2>3 DEF OrderInv, QueueInv
<1>5. TakenInv'
  <2>1. Head(queue) = accepted[Taken + 1]
    BY <1>1, TailPlaces DEF OrderInv, QueueInv
  <2>2. \A q \in Pollers : poll'[q] = "execute" => Taken' > 0 /\ cur'[q] = accepted'[Taken']
    BY <1>1, <1>2, <1>3, <2>1
  <2>3. \A a \in 1..Taken : HasRun(accepted[a])'
    BY <1>1, <1>3 DEF OrderInv, TakenInv, HasRun
  <2>4. \E q \in Pollers : poll'[q] = "execute"
    BY <1>1
  <2> QED
    BY <1>1, <1>2, <2>2, <2>3, <2>4 DEF TakenInv, HasRun
<1>6. RunsInPutOrder'
  BY <1>1 DEF OrderInv, RunsInPutOrder
<1> QED
  BY <1>4, <1>5, <1>6 DEF OrderInv

(* What begins is accepted[Taken]: all before it have run.                 *)
LEMMA BeginOrder ==
    ASSUME CtlInv, OrderInv, NEW p \in Pollers, ExecuteBegin(p)
    PROVE  OrderInv'
<1>1. /\ runs \in Seq(Tasks) /\ cur[p] \in Tasks /\ poll \in [Pollers -> PollPlaces]
      /\ poll[p] = "execute" /\ poll' = [poll EXCEPT ![p] = "running"]
      /\ runs' = Append(runs, cur[p])
      /\ UNCHANGED <<queue, accepted, cur>> /\ Taken' = Taken
  BY DEF ExecuteBegin, Go, pollOthers, queueVars, CtlInv, TypeOK, LockInv, InTask, Taken
<1>2. /\ DOMAIN runs' = DOMAIN runs \union {Len(runs) + 1}
      /\ runs'[Len(runs) + 1] = cur[p]
      /\ \A i \in DOMAIN runs : runs'[i] = runs[i]
  BY <1>1, AppendPlaces
<1>3. Taken > 0 /\ Taken \in Nat /\ cur[p] = accepted[Taken] /\ Taken \in DOMAIN accepted
  BY <1>1 DEF OrderInv, QueueInv, TakenInv, Taken, CtlInv, TypeOK
<1>4. \A a \in 1..Taken : a # Taken => HasRun(accepted[a])
  BY DEF OrderInv, TakenInv
<1>5. QueueInv'
  BY <1>1 DEF OrderInv, QueueInv
<1>6. TakenInv'
  <2>1. \A q \in Pollers : poll'[q] # "execute"
    BY <1>1 DEF CtlInv, LockInv
  <2>2. \A a \in 1..Taken : HasRun(accepted[a])'
    BY <1>1, <1>2, <1>3, <1>4 DEF HasRun
  <2> QED
    BY <1>1, <2>1, <2>2 DEF TakenInv, HasRun
<1>7. RunsInPutOrder'
  <2> SUFFICES ASSUME NEW a \in DOMAIN accepted, NEW b \in DOMAIN accepted, a < b,
                      NEW j \in DOMAIN runs', runs'[j] = accepted[b]
               PROVE  \E i \in 1..(j - 1) : runs'[i] = accepted[a]
    BY <1>1 DEF RunsInPutOrder
  <2>0. DOMAIN runs = 1..Len(runs) /\ Len(runs) \in Nat /\ DOMAIN accepted = 1..Len(accepted)
    BY <1>1 DEF OrderInv, QueueInv
  <2>1. CASE j \in DOMAIN runs
    <3>1. PICK i \in 1..(j - 1) : runs[i] = accepted[a]
      BY <1>2, <2>1 DEF OrderInv, RunsInPutOrder
    <3>2. i \in DOMAIN runs
      BY <2>0, <2>1, <3>1
    <3> QED
      BY <1>2, <3>1, <3>2
  <2>2. CASE j = Len(runs) + 1
    <3>1. b = Taken
      BY <1>2, <1>3, <2>2 DEF OrderInv, QueueInv
    <3>2. a \in 1..Taken /\ a # Taken
      BY <1>3, <2>0, <3>1
    <3>3. PICK i \in DOMAIN runs : runs[i] = accepted[a]
      BY <1>4, <3>2 DEF HasRun
    <3>4. i \in 1..(j - 1)
      BY <2>0, <2>2, <3>3
    <3> QED
      BY <1>2, <3>3, <3>4
  <2> QED
    BY <1>2, <2>1, <2>2
<1> QED
  BY <1>5, <1>6, <1>7 DEF OrderInv

LEMMA OrderStep == CtlInv /\ HolderInv /\ RunsInv /\ OrderInv /\ [Next]_vars => OrderInv'
<1> SUFFICES ASSUME CtlInv, HolderInv, RunsInv, OrderInv, [Next]_vars PROVE OrderInv'
  OBVIOUS
<1>0. poll \in [Pollers -> PollPlaces]
  BY DEF CtlInv, TypeOK
<1>1. CASE UNCHANGED vars
  BY <1>1, OrderKept DEF vars, queueVars
<1>2. CASE Main
  BY <1>0, <1>2, OrderKept DEF Main, MakeManger, StartWeb, StartDel, taskVars, queueVars
<1>3. ASSUME NEW h \in IoThreads, Receive(h) \/ Handler(h) PROVE OrderInv'
  BY <1>3, OrderKept DEF Handler, Receive, GetInstance, OtherAction, NewTask, ProductLock,
     Spawn, SpawnThrows, Reply, ioOthers, queueVars
<1>4. ASSUME NEW k \in Tasks, TaskPush(k) PROVE OrderInv'
  <2>1. CASE PushLock(k)
    BY <2>1, OrderKept DEF PushLock, pushOthers, queueVars
  <2> QED
    BY <1>4, <2>1, PutOrder DEF TaskPush
<1>5. ASSUME NEW p \in Pollers, TaskPoll(p) PROVE OrderInv'
  <2>1. CASE PollGet(p)
    BY <2>1, GetOrder
  <2>2. CASE ExecuteBegin(p)
    BY <2>2, BeginOrder
  <2>3. CASE ~PollGet(p) /\ ~ExecuteBegin(p)
    <3>1. /\ UNCHANGED <<queue, accepted, runs>>
          /\ \A q \in Pollers : /\ poll[q] = "execute" <=> poll'[q] = "execute"
                                /\ poll[q] = "execute" => cur'[q] = cur[q]
      <4> USE DEF Go, queueVars, pollOthers
      <4>1. CASE PollLock(p) \/ Sleep(p)
        BY <1>0, <4>1 DEF PollLock, Sleep
      <4>2. CASE ExecuteValid(p) \/ ExecuteInvalid(p) \/ ExecuteAfter(p)
        BY <1>0, <4>2 DEF ExecuteValid, ExecuteInvalid, ExecuteAfter
      <4>3. CASE Delete(p)
        BY <1>0, <4>3 DEF Delete
      <4> QED
        BY <1>5, <2>3, <4>1, <4>2, <4>3 DEF TaskPoll
    <3> QED
      BY <3>1, OrderKept
  <2> QED
    BY <2>1, <2>2, <2>3
<1>6. CASE Crash
  <2>1. /\ accepted' = << >> /\ queue' = << >> /\ Taken' = 0
        /\ \A p \in Pollers : poll'[p] # "execute"
    BY <1>6 DEF Crash, Taken
  <2> QED
    BY <2>1 DEF OrderInv, QueueInv, TakenInv, RunsInPutOrder
<1> QED
  BY <1>1, <1>2, <1>3, <1>4, <1>5, <1>6 DEF Next

(* Tasks run in the order in which the push threads put them.              *)
THEOREM RunsInPutOrderHolds == Spec => []RunsInPutOrder
<1>1. OrderInv => RunsInPutOrder
  BY DEF OrderInv
<1>2. Init => RunsInv
  BY DEF Init, RunsInv, RunsOnce
<1> QED
  BY <1>1, <1>2, CtlInit, CtlStep, HolderInit, HolderStep, RunsStep, OrderInit, OrderStep, PTL
     DEF Spec

---------------------------------------------------------------------------
(* How far a task with finish set, or one the robot was told about, is.    *)
JudgedInv ==
    /\ \A k \in Tasks : obj[k] \in {"none", "live"} =>
         /\ finish[k] => \E p \in Pollers : /\ cur[p] = k
                                            /\ \/ poll[p] = "after"
                                               \/ poll[p] = "delete" /\ k \in continued
         /\ k \in continued => \E p \in Pollers : cur[p] = k /\ poll[p] = "delete"
    /\ \A p \in Pollers : poll[p] = "after" => finish[cur[p]]

(* One step: ExecuteValid judges, ExecuteAfter continues, Delete ends it.  *)
LEMMA JudgedStep == CtlInv /\ HolderInv /\ JudgedInv /\ [Next]_vars => JudgedInv'
<1> SUFFICES ASSUME CtlInv, HolderInv, JudgedInv, [Next]_vars PROVE JudgedInv'
  OBVIOUS
<1>0. /\ cur \in [Pollers -> Tasks \union {NoTask}] /\ poll \in [Pollers -> PollPlaces]
      /\ NoTask \notin Tasks /\ finish \in [Tasks -> BOOLEAN]
      /\ obj \in [Tasks -> {"none", "live", "deleted", "leaked", "lost"}]
      /\ \A p \in Pollers : InTask(p) <=> cur[p] \in Tasks
  BY Names DEF CtlInv, TypeOK, LockInv
<1> USE <1>0 DEF JudgedInv, InTask
<1>1. ASSUME NEW p \in Pollers, TaskPoll(p) PROVE JudgedInv'
  <2> USE DEF Go, pollOthers
  <2>1. CASE PollLock(p) \/ Sleep(p)
    BY <2>1 DEF PollLock, Sleep, PollPlaces
  <2>2. CASE PollGet(p)
    <3>1. /\ poll[p] = "get" /\ poll' = [poll EXCEPT ![p] = "execute"] /\ queue # << >>
          /\ cur' = [cur EXCEPT ![p] = Head(queue)]
          /\ UNCHANGED <<obj, finish, continued>>
      BY <2>2 DEF PollGet, Q!Dequeue
    <3> QED
      BY <3>1 DEF PollPlaces
  <2>3. CASE ExecuteBegin(p) \/ ExecuteInvalid(p)
    <3>1. \A q \in Pollers : q # p => cur[q] # cur[p]
      BY <2>3 DEF ExecuteBegin, ExecuteInvalid, HolderInv
    <3> QED
      BY <2>3, <3>1 DEF ExecuteBegin, ExecuteInvalid, PollPlaces
  <2>4. CASE ExecuteValid(p)
    <3>1. \A q \in Pollers : q # p => cur[q] # cur[p]
      BY <2>4 DEF ExecuteValid, HolderInv
    <3> QED
      BY <2>4, <3>1 DEF ExecuteValid, PollPlaces
  <2>5. CASE ExecuteAfter(p)
    BY <2>5 DEF ExecuteAfter, PollPlaces
  <2>6. CASE Delete(p)
    <3>1. \A q \in Pollers : q # p => cur[q] # cur[p]
      BY <2>6 DEF Delete, HolderInv
    <3> QED
      BY <2>6, <3>1 DEF Delete, PollPlaces
  <2> QED
    BY <1>1, <2>1, <2>2, <2>3, <2>4, <2>5, <2>6 DEF TaskPoll
<1>2. ASSUME NEW h \in IoThreads, Receive(h) \/ Handler(h) PROVE JudgedInv'
  <2>1. ASSUME NEW k \in Tasks, NewTask(h, k) PROVE JudgedInv'
    <3>1. \A p \in Pollers : cur[p] # k
      BY <2>1 DEF NewTask, HolderInv
    <3> QED
      BY <2>1, <3>1 DEF NewTask, ioOthers
  <2>2. CASE SpawnThrows(h)
    BY <2>2 DEF SpawnThrows, ioOthers, CtlInv, LockInv
  <2>3. ASSUME \A k \in Tasks : ~NewTask(h, k), ~SpawnThrows(h)
        PROVE  UNCHANGED <<obj, finish, poll, cur, continued>>
    BY <1>2, <2>3 DEF Handler, Receive, GetInstance, OtherAction, ProductLock, Spawn, Reply,
       ioOthers
  <2> QED
    BY <2>1, <2>2, <2>3
<1>3. ASSUME NEW k \in Tasks, TaskPush(k) PROVE JudgedInv'
  BY <1>3 DEF TaskPush, PushLock, PushPut, pushOthers
<1>4. CASE Main
  BY <1>4 DEF Main, MakeManger, StartWeb, StartDel, taskVars, PollPlaces
<1>5. CASE Crash
  BY <1>5 DEF Crash, HolderInv
<1>6. CASE UNCHANGED vars
  BY <1>6 DEF vars
<1> QED
  BY <1>1, <1>2, <1>3, <1>4, <1>5, <1>6 DEF Next

---------------------------------------------------------------------------
(* The refinement mapping, step by step.                                   *)
(* What the places of the threads say about a task's status.               *)
LEMMA StatusAt ==
    ASSUME CtlInv, HolderInv
    PROVE  /\ \A k \in Tasks : obj[k] = "none" => Status(k) = "none"
           /\ \A p \in Pollers : InTask(p) =>
                /\ cur[p] \in Tasks /\ obj[cur[p]] = "live"
                /\ Status(cur[p]) = IF poll[p] = "execute" THEN "accepted" ELSE "running"
           /\ \A k \in Tasks, p \in Pollers :
                Status(k) = "running" /\ InTask(p) => cur[p] = k
           /\ \A h \in IoThreads : arg[h] \in Tasks =>
                obj[arg[h]] = "live" /\ Status(arg[h]) = "accepted"
<1>0. /\ cur \in [Pollers -> Tasks \union {NoTask}] /\ NoTask \notin Tasks
      /\ \A p \in Pollers : InTask(p) <=> cur[p] # NoTask
      /\ \A p, q \in Pollers : InTask(p) /\ InTask(q) => p = q
  <2>1. \A p \in Pollers : InTask(p) => task_mutex = p
    BY DEF CtlInv, LockInv, InTask
  <2> QED
    BY <2>1, Names DEF CtlInv, TypeOK, LockInv
<1> QED
  BY <1>0 DEF HolderInv, Status, InTask

(* A step that moves no task leaves the abstract state alone. *)
LEMMA StatusSame ==
    ASSUME UNCHANGED <<obj, finish, continued>>,
           \A k \in Tasks : Status(k)' = Status(k)
    PROVE  UNCHANGED Service!serviceVars
BY DEF Service!serviceVars

LEMMA ServiceStep ==
    CtlInv /\ HolderInv /\ JudgedInv /\ CtlInv' /\ HolderInv' /\ [Next]_vars
      => [Service!Next]_(Service!serviceVars)
<1> SUFFICES ASSUME CtlInv, HolderInv, JudgedInv, CtlInv', HolderInv', [Next]_vars
             PROVE  Service!Next \/ UNCHANGED Service!serviceVars
  OBVIOUS
<1>0. /\ cur \in [Pollers -> Tasks \union {NoTask}] /\ poll \in [Pollers -> PollPlaces]
      /\ NoTask \notin Tasks /\ finish \in [Tasks -> BOOLEAN]
      /\ obj \in [Tasks -> {"none", "live", "deleted", "leaked", "lost"}]
      /\ \A p \in Pollers : InTask(p) <=> cur[p] \in Tasks
  BY Names DEF CtlInv, TypeOK, LockInv
<1> USE <1>0
<1>1. ASSUME NEW p \in Pollers, TaskPoll(p)
      PROVE  Service!Next \/ UNCHANGED Service!serviceVars
  <2> DEFINE k == cur[p]
  <2> USE DEF Go, pollOthers
  <2>1. CASE PollLock(p) \/ Sleep(p)
    BY <2>1, StatusSame DEF PollLock, Sleep, Status
  <2>2. CASE PollGet(p)
    <3>1. \A j \in Tasks : Status(j)' = Status(j)
      BY <2>2 DEF PollGet, Status, InTask
    <3> QED
      BY <2>2, <3>1, StatusSame DEF PollGet
  <2>3. CASE ExecuteBegin(p)
    <3>1. /\ k \in Tasks /\ Status(k) = "accepted"
          /\ \A j \in Tasks : Status(j) # "running"
      BY <2>3, StatusAt DEF ExecuteBegin, InTask
    <3>2. /\ UNCHANGED <<obj, cur, finish, continued>>
          /\ poll' = [poll EXCEPT ![p] = "running"] /\ poll[p] = "execute"
      BY <2>3 DEF ExecuteBegin
    <3>3. Status(k)' = "running" /\ \A j \in Tasks \ {k} : Status(j)' = Status(j)
      BY <3>1, <3>2 DEF Status
    <3>4. Service!Start(k)
      BY <3>1, <3>2, <3>3 DEF Service!Start, Service!Move
    <3> QED
      BY <3>1, <3>4 DEF Service!Next
  <2>4. CASE ExecuteValid(p)
    <3>1. /\ k \in Tasks /\ obj[k] = "live" /\ Status(k) = "running"
          /\ \A q \in Pollers \ {p} : cur[q] # k
      BY <2>4, StatusAt DEF ExecuteValid, InTask, HolderInv
    <3>2. /\ UNCHANGED <<obj, cur, continued>> /\ finish' = [finish EXCEPT ![k] = TRUE]
          /\ poll' = [poll EXCEPT ![p] = "after"] /\ poll[p] = "running"
      BY <2>4 DEF ExecuteValid
    <3>3. \A j \in Tasks : Status(j)' = Status(j)
      BY <3>1, <3>2 DEF Status
    <3>4. k \notin continued
      BY <3>1, <3>2 DEF JudgedInv
    <3>5. Service!Judge(k)
      BY <3>1, <3>2, <3>3, <3>4 DEF Service!Judge
    <3> QED
      BY <3>1, <3>5 DEF Service!Next
  <2>5. CASE ExecuteInvalid(p)
    <3>1. \A j \in Tasks : Status(j)' = Status(j)
      BY <2>5 DEF ExecuteInvalid, Status
    <3> QED
      BY <2>5, <3>1, StatusSame DEF ExecuteInvalid
  <2>6. CASE ExecuteAfter(p)
    <3>1. k \in Tasks /\ Status(k) = "running" /\ finish[k]
      BY <2>6, StatusAt DEF ExecuteAfter, InTask, JudgedInv
    <3>2. \A j \in Tasks : Status(j)' = Status(j)
      BY <2>6 DEF ExecuteAfter, Status
    <3>3. Service!Continue(k)
      BY <2>6, <3>1, <3>2 DEF ExecuteAfter, Service!Continue
    <3> QED
      BY <3>1, <3>3 DEF Service!Next
  <2>7. CASE Delete(p)
    <3>0. PICK d \in Tasks : d = cur[p]
      BY <2>7 DEF Delete, InTask
    <3>1. /\ obj[d] = "live" /\ Status(d) = "running"
          /\ \A q \in Pollers \ {p} : cur[q] # d
      BY <2>7, <3>0, StatusAt DEF Delete, InTask, HolderInv
    <3>2. /\ UNCHANGED <<finish, continued>> /\ obj' = [obj EXCEPT ![d] = "deleted"]
          /\ cur' = [cur EXCEPT ![p] = NoTask]
          /\ poll' = [poll EXCEPT ![p] = "sleep"] /\ poll[p] = "delete"
      BY <2>7, <3>0 DEF Delete
    <3>3. Status(d)' = "done" /\ \A j \in Tasks \ {d} : Status(j)' = Status(j)
      BY <3>0, <3>1, <3>2 DEF Status
    <3>4. finish[d] => d \in continued
      BY <3>0, <3>1, <3>2 DEF JudgedInv
    <3>5. Service!Done(d)
      BY <3>1, <3>2, <3>3, <3>4 DEF Service!Done, Service!Move
    <3> QED
      BY <3>5 DEF Service!Next
  <2> QED
    BY <1>1, <2>1, <2>2, <2>3, <2>4, <2>5, <2>6, <2>7 DEF TaskPoll
<1>2. ASSUME NEW h \in IoThreads, Receive(h) \/ Handler(h)
      PROVE  Service!Next \/ UNCHANGED Service!serviceVars
  <2> USE DEF ioOthers
  <2>1. ASSUME NEW k \in Tasks, NewTask(h, k) PROVE Service!Next
    <3>1. /\ Status(k) = "none" /\ ~finish[k] /\ \A p \in Pollers : cur[p] # k
      BY <2>1, StatusAt DEF NewTask, HolderInv, JudgedInv
    <3>2. /\ UNCHANGED <<cur, poll, finish, continued>> /\ obj' = [obj EXCEPT ![k] = "live"]
      BY <2>1, <3>1 DEF NewTask
    <3>3. Status(k)' = "accepted" /\ \A j \in Tasks \ {k} : Status(j)' = Status(j)
      BY <3>1, <3>2 DEF Status
    <3>4. Service!Accept(k)
      BY <3>1, <3>2, <3>3 DEF Service!Accept, Service!Move
    <3> QED
      BY <3>4 DEF Service!Next
  <2>2. CASE SpawnThrows(h)
    <3>0. PICK k \in Tasks : k = arg[h]
      BY <2>2, Names DEF SpawnThrows, CtlInv, TypeOK, LockInv
    <3>1. obj[k] = "live" /\ Status(k) = "accepted"
      BY <3>0, StatusAt
    <3>2. /\ UNCHANGED <<cur, poll, finish, continued>> /\ obj' = [obj EXCEPT ![k] = "leaked"]
      BY <2>2, <3>0 DEF SpawnThrows
    <3>3. Status(k)' = "lost" /\ \A j \in Tasks \ {k} : Status(j)' = Status(j)
      BY <3>1, <3>2 DEF Status
    <3>4. Service!Lose(k)
      BY <3>1, <3>2, <3>3 DEF Service!Lose, Service!Move
    <3> QED
      BY <3>4 DEF Service!Next
  <2>3. ASSUME \A k \in Tasks : ~NewTask(h, k), ~SpawnThrows(h)
        PROVE  UNCHANGED Service!serviceVars
    <3>1. UNCHANGED <<obj, finish, poll, cur, continued>>
      BY <1>2, <2>3 DEF Handler, Receive, GetInstance, OtherAction, ProductLock, Spawn, Reply
    <3> QED
      BY <3>1, StatusSame DEF Status
  <2> QED
    BY <2>1, <2>2, <2>3
<1>3. ASSUME NEW k \in Tasks, TaskPush(k) PROVE UNCHANGED Service!serviceVars
  BY <1>3, StatusSame DEF TaskPush, PushLock, PushPut, pushOthers, Status
<1>4. CASE Main
  <2>1. UNCHANGED <<obj, finish, cur, continued>>
    BY <1>4 DEF Main, MakeManger, StartWeb, StartDel, taskVars
  <2>2. \A p \in Pollers : poll'[p] # poll[p] => poll[p] = "none" /\ poll'[p] = "lock"
    BY <1>4 DEF Main, MakeManger, StartWeb, StartDel
  <2>3. \A j \in Tasks : Status(j)' = Status(j)
    BY <2>1, <2>2 DEF Status
  <2> QED
    BY <2>1, <2>3, StatusSame
<1>5. CASE Crash
  <2>1. \A j \in Tasks : Status(j)' = IF Status(j) \in {"accepted", "running"}
                                      THEN "lost" ELSE Status(j)
    BY <1>5 DEF Crash, Status
  <2>2. Service!Crash
    BY <1>5, <2>1 DEF Crash, Service!Crash
  <2> QED
    BY <2>2 DEF Service!Next
<1>6. CASE UNCHANGED vars
  BY <1>6, StatusSame DEF vars, Status
<1> QED
  BY <1>1, <1>2, <1>3, <1>4, <1>5, <1>6 DEF Next

(* The task machinery implements TaskService: at most one run per task, one *)
(* task at a time, continue exactly for the valid ones, losses only where  *)
(* TaskService has them.                                                   *)
THEOREM TaskMangerImplementsService == Spec => ImplementsService
<1>1. Init => Service!Init
  BY DEF Init, Service!Init, Status
<1>2. Init => JudgedInv
  BY DEF Init, JudgedInv
<1> QED
  BY <1>1, <1>2, CtlInit, CtlStep, HolderInit, HolderStep, JudgedStep, ServiceStep, PTL
     DEF Spec, ImplementsService, Service!Spec
=============================================================================
