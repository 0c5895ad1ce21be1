----------------------------- MODULE TaskManger -----------------------------
(***************************************************************************)
(* TaskManger (src/Include/task/Header/taskManger.h) with the threads that *)
(* use it: main, which starts it; the io threads of the web server, whose  *)
(* handler of POST /robot/tips makes a task and hands it over; one push    *)
(* thread per task (named here by its task); and the poll threads that     *)
(* start_del makes (main makes one).                                       *)
(*                                                                         *)
(* Two mutexes are modelled: t_mutex (get_instance, taskpush, start_del,   *)
(* start_product) and task_mutex, which a poll thread takes once and never *)
(* gives back.  The queue is FifoQueue, one step per call: RequestQueue    *)
(* implements it.  execute and execute_after are their effect on the task; *)
(* PhotoTask models what happens inside them.                              *)
(***************************************************************************)
EXTENDS Integers, Sequences, FiniteSets

CONSTANTS IoThreads,   \* the threads running the io_context
          Pollers,     \* the poll threads main makes
          Tasks,       \* the PhotoTask objects; each is made at most once
          Free, NoTask,
          MaxCrashes   \* bound: how often the process dies

ASSUME Names == /\ IoThreads \intersect Tasks = {}
                /\ Free \notin IoThreads \union Tasks \union Pollers
                /\ NoTask \notin Tasks
ASSUME MaxCrashesType == MaxCrashes \in Nat

VARIABLES
    main,                \* what main has done: "begin", "task" or "web"
    t_mutex, task_mutex, \* the thread that holds it, or Free
    io, arg,             \* per io thread: place in the handler, task in hand
    push,                \* per task: place of its push thread in taskpush
    poll, cur,           \* per poll thread: place in taskPoll, taskBase
    obj,                 \* per task: none, live, deleted, leaked or lost
    finish,              \* per task: the member getisvaild() returns
    queue, accepted, delivered, dropped,  \* FifoQueue
    runs,                \* history: the tasks in the order they began to run
    continued,           \* history: the tasks execute_after was called for
    crashes

queueVars == <<queue, accepted, delivered, dropped>>
vars == <<main, t_mutex, task_mutex, io, arg, push, poll, cur, obj, finish,
          queueVars, runs, continued, crashes>>

Q == INSTANCE FifoQueue WITH Threads <- Pollers, Items <- Tasks

IoPlaces   == {"idle", "instance", "decode", "product", "spawn", "reply"}
PushPlaces == {"none", "lock", "put", "end"}
PollPlaces == {"none", "lock", "get", "execute", "running", "after", "delete", "sleep"}

TypeOK ==
    /\ main \in {"begin", "task", "web"}
    /\ t_mutex \in IoThreads \union Tasks \union {Free}
    /\ task_mutex \in Pollers \union {Free}
    /\ io \in [IoThreads -> IoPlaces]
    /\ arg \in [IoThreads -> Tasks \union {NoTask}]
    /\ push \in [Tasks -> PushPlaces]
    /\ poll \in [Pollers -> PollPlaces]
    /\ cur \in [Pollers -> Tasks \union {NoTask}]
    /\ obj \in [Tasks -> {"none", "live", "deleted", "leaked", "lost"}]
    /\ finish \in [Tasks -> BOOLEAN]
    /\ queue \in Seq(Tasks)
    /\ runs \in Seq(Tasks)
    /\ continued \in SUBSET Tasks
    /\ crashes \in 0..MaxCrashes

Init ==
    /\ main = "begin"
    /\ t_mutex = Free
    /\ task_mutex = Free
    /\ io = [h \in IoThreads |-> "idle"]
    /\ arg = [h \in IoThreads |-> NoTask]
    /\ push = [k \in Tasks |-> "none"]
    /\ poll = [p \in Pollers |-> "none"]
    /\ cur = [p \in Pollers |-> NoTask]
    /\ obj = [k \in Tasks |-> "none"]
    /\ finish = [k \in Tasks |-> FALSE]
    /\ Q!Init
    /\ runs = << >>
    /\ continued = {}
    /\ crashes = 0

---------------------------------------------------------------------------
(* main                                                                    *)
taskVars == <<arg, push, obj, finish, queueVars, runs, continued>>

(* TaskManger::get_instance: nobody else runs yet, and the object is made.  *)
MakeManger ==
    /\ main = "begin"
    /\ t_mutex = Free
    /\ main' = "task"
    /\ UNCHANGED <<t_mutex, task_mutex, io, poll, cur, taskVars, crashes>>

(* start_del: a detached thread that runs taskPoll, made under t_mutex.     *)
StartDel(p) ==
    /\ main = "task"
    /\ poll[p] = "none"
    /\ t_mutex = Free
    /\ poll' = [poll EXCEPT ![p] = "lock"]
    /\ UNCHANGED <<main, t_mutex, task_mutex, io, cur, taskVars, crashes>>

(* The listener is made and the io threads run.                             *)
StartWeb ==
    /\ main = "task"
    /\ \A p \in Pollers : poll[p] # "none"
    /\ main' = "web"
    /\ UNCHANGED <<t_mutex, task_mutex, io, poll, cur, taskVars, crashes>>

---------------------------------------------------------------------------
(* The handler of POST /robot/tips on an io thread.                         *)
ioOthers == <<main, task_mutex, poll, cur, queueVars, runs, continued, crashes>>

Receive(h) ==
    /\ main = "web"
    /\ io[h] = "idle"
    /\ io' = [io EXCEPT ![h] = "instance"]
    /\ UNCHANGED <<t_mutex, arg, push, obj, finish, ioOthers>>

(* get_instance locks and unlocks t_mutex.                                  *)
GetInstance(h) ==
    /\ io[h] = "instance"
    /\ t_mutex = Free
    /\ io' = [io EXCEPT ![h] = "decode"]
    /\ UNCHANGED <<t_mutex, arg, push, obj, finish, ioOthers>>

(* ACTION is 1, 2 or 3: new PhotoTask(new Detector()).                      *)
NewTask(h, k) ==
    /\ io[h] = "decode"
    /\ obj[k] = "none"
    /\ obj' = [obj EXCEPT ![k] = "live"]
    /\ finish' = [finish EXCEPT ![k] = FALSE]
    /\ arg' = [arg EXCEPT ![h] = k]
    /\ io' = [io EXCEPT ![h] = "product"]
    /\ UNCHANGED <<t_mutex, push, ioOthers>>

(* Any other ACTION: nothing to do, the reply is the same.                  *)
OtherAction(h) ==
    /\ io[h] = "decode"
    /\ io' = [io EXCEPT ![h] = "reply"]
    /\ UNCHANGED <<t_mutex, arg, push, obj, finish, ioOthers>>

(* start_product: t_mutex, ...                                              *)
ProductLock(h) ==
    /\ io[h] = "product"
    /\ t_mutex = Free
    /\ t_mutex' = h
    /\ io' = [io EXCEPT ![h] = "spawn"]
    /\ UNCHANGED <<arg, push, obj, finish, ioOthers>>

(* ... a detached push thread that now has the task, unlock.                *)
Spawn(h) ==
    /\ io[h] = "spawn"
    /\ push' = [push EXCEPT ![arg[h]] = "lock"]
    /\ arg' = [arg EXCEPT ![h] = NoTask]
    /\ t_mutex' = Free
    /\ io' = [io EXCEPT ![h] = "reply"]
    /\ UNCHANGED <<obj, finish, ioOthers>>

(* Altered: t_mutex stays locked when no thread can be made.                *)
SpawnThrows_KeepsLock(h) ==
    /\ io[h] = "spawn"
    /\ obj' = [obj EXCEPT ![arg[h]] = "leaked"]
    /\ arg' = [arg EXCEPT ![h] = NoTask]
    /\ io' = [io EXCEPT ![h] = "reply"]
    /\ UNCHANGED <<t_mutex, push, finish, ioOthers>>

(* boost::thread throws when the system has no thread to give; the lock is  *)
(* released on the way to the handler's catch(...), which forgets the task. *)
SpawnThrows(h) ==
    /\ io[h] = "spawn"
    /\ obj' = [obj EXCEPT ![arg[h]] = "leaked"]
    /\ arg' = [arg EXCEPT ![h] = NoTask]
    /\ t_mutex' = Free
    /\ io' = [io EXCEPT ![h] = "reply"]
    /\ UNCHANGED <<push, finish, ioOthers>>

(* 200 with an empty body, whatever became of the task.                     *)
Reply(h) ==
    /\ io[h] = "reply"
    /\ io' = [io EXCEPT ![h] = "idle"]
    /\ UNCHANGED <<t_mutex, arg, push, obj, finish, ioOthers>>

---------------------------------------------------------------------------
(* taskpush on the push thread of task k.                                   *)
pushOthers == <<main, task_mutex, io, arg, poll, cur, obj, finish, runs, continued, crashes>>

PushLock(k) ==
    /\ push[k] = "lock"
    /\ t_mutex = Free
    /\ t_mutex' = k
    /\ push' = [push EXCEPT ![k] = "put"]
    /\ UNCHANGED <<queueVars, pushOthers>>

(* Altered: the task is put at the front of the queue.                      *)
PushPut_Front(k) ==
    /\ push[k] = "put"
    /\ queue' = <<k>> \o queue
    /\ accepted' = Append(accepted, k)
    /\ push' = [push EXCEPT ![k] = "end"]
    /\ t_mutex' = Free
    /\ UNCHANGED <<delivered, dropped, pushOthers>>

PushPut(k) ==
    /\ push[k] = "put"
    /\ Q!Enqueue(k)
    /\ push' = [push EXCEPT ![k] = "end"]
    /\ t_mutex' = Free
    /\ UNCHANGED pushOthers

---------------------------------------------------------------------------
(* taskPoll on poll thread p.                                               *)
pollOthers == <<main, t_mutex, io, arg, push, crashes>>

Go(p, from, to) == /\ poll[p] = from
                   /\ poll' = [poll EXCEPT ![p] = to]

(* Altered: the poll thread locks t_mutex in place of task_mutex.           *)
PollLock_TMutex(p) ==
    /\ Go(p, "lock", "get")
    /\ t_mutex = Free
    /\ t_mutex' = p
    /\ UNCHANGED <<task_mutex, cur, obj, finish, queueVars, runs, continued,
                   main, io, arg, push, crashes>>

PollLock(p) ==
    /\ Go(p, "lock", "get")
    /\ task_mutex = Free
    /\ task_mutex' = p
    /\ UNCHANGED <<cur, obj, finish, queueVars, runs, continued, pollOthers>>

(* Altered: the first task is read and stays in the queue.                  *)
PollGet_KeepsHead(p) ==
    /\ Go(p, "get", "execute")
    /\ queue # << >>
    /\ cur' = [cur EXCEPT ![p] = Head(queue)]
    /\ UNCHANGED <<task_mutex, obj, finish, queueVars, runs, continued, pollOthers>>

(* job->Get(taskBase) blocks while the queue is empty.                      *)
PollGet(p) ==
    /\ Go(p, "get", "execute")
    /\ Q!Dequeue(p)
    /\ cur' = [cur EXCEPT ![p] = Head(queue)]
    /\ UNCHANGED <<task_mutex, obj, finish, runs, continued, pollOthers>>

ExecuteBegin(p) ==
    /\ Go(p, "execute", "running")
    /\ runs' = Append(runs, cur[p])
    /\ UNCHANGED <<task_mutex, cur, obj, finish, queueVars, continued, pollOthers>>

(* execute ends with finish set or not, and taskPoll asks getisvaild().     *)
ExecuteValid(p) ==
    /\ Go(p, "running", "after")
    /\ finish' = [finish EXCEPT ![cur[p]] = TRUE]
    /\ UNCHANGED <<task_mutex, cur, obj, queueVars, runs, continued, pollOthers>>

(* Altered: execute_after is called whatever getisvaild() says.             *)
ExecuteInvalid_After(p) ==
    /\ Go(p, "running", "after")
    /\ UNCHANGED <<task_mutex, cur, obj, finish, queueVars, runs, continued, pollOthers>>

ExecuteInvalid(p) ==
    /\ Go(p, "running", "delete")
    /\ UNCHANGED <<task_mutex, cur, obj, finish, queueVars, runs, continued, pollOthers>>

ExecuteAfter(p) ==
    /\ Go(p, "after", "delete")
    /\ continued' = continued \union {cur[p]}
    /\ UNCHANGED <<task_mutex, cur, obj, finish, queueVars, runs, pollOthers>>

(* Altered: only a valid task is deleted.                                   *)
Delete_OnlyValid(p) ==
    /\ Go(p, "delete", "sleep")
    /\ obj' = IF finish[cur[p]] THEN [obj EXCEPT ![cur[p]] = "deleted"] ELSE obj
    /\ cur' = [cur EXCEPT ![p] = NoTask]
    /\ UNCHANGED <<task_mutex, finish, queueVars, runs, continued, pollOthers>>

Delete(p) ==
    /\ Go(p, "delete", "sleep")
    /\ obj' = [obj EXCEPT ![cur[p]] = "deleted"]
    /\ cur' = [cur EXCEPT ![p] = NoTask]
    /\ UNCHANGED <<task_mutex, finish, queueVars, runs, continued, pollOthers>>

(* The log line, a second of sleep, the log line of the next round.         *)
Sleep(p) ==
    /\ Go(p, "sleep", "get")
    /\ UNCHANGED <<task_mutex, cur, obj, finish, queueVars, runs, continued, pollOthers>>

---------------------------------------------------------------------------
(* The process dies and is started again: nothing it held survives.         *)
Crash ==
    /\ crashes < MaxCrashes
    /\ crashes' = crashes + 1
    /\ main' = "begin"
    /\ t_mutex' = Free
    /\ task_mutex' = Free
    /\ io' = [h \in IoThreads |-> "idle"]
    /\ arg' = [h \in IoThreads |-> NoTask]
    /\ push' = [k \in Tasks |-> "none"]
    /\ poll' = [p \in Pollers |-> "none"]
    /\ cur' = [p \in Pollers |-> NoTask]
    /\ obj' = [k \in Tasks |-> IF obj[k] = "live" THEN "lost" ELSE obj[k]]
    /\ queue' = << >>
    /\ accepted' = << >>
    /\ delivered' = << >>
    /\ dropped' = {}
    /\ UNCHANGED <<finish, runs, continued>>

Handler(h) == \/ GetInstance(h) \/ OtherAction(h) \/ \E k \in Tasks : NewTask(h, k)
              \/ ProductLock(h) \/ Spawn(h) \/ SpawnThrows(h) \/ Reply(h)

TaskPush(k) == PushLock(k) \/ PushPut(k)

TaskPoll(p) == \/ PollLock(p) \/ PollGet(p) \/ ExecuteBegin(p) \/ ExecuteValid(p)
               \/ ExecuteInvalid(p) \/ ExecuteAfter(p) \/ Delete(p) \/ Sleep(p)

Main == MakeManger \/ StartWeb \/ \E p \in Pollers : StartDel(p)

Next == \/ Main
        \/ \E h \in IoThreads : Receive(h) \/ Handler(h)
        \/ \E k \in Tasks : TaskPush(k)
        \/ \E p \in Pollers : TaskPoll(p)
        \/ Crash

Spec == Init /\ [][Next]_vars

(* Threads that can run do run.  A thread waiting for t_mutex gets it in    *)
(* the end, as every holder gives it back.  A call of execute ends: its    *)
(* HTTP calls have timeouts, its retries are counted, and the operator     *)
(* presses the key getchar waits for.  Requests and crashes need not come. *)
Fairness ==
    /\ WF_vars(Main)
    /\ \A h \in IoThreads : WF_vars(Handler(h)) /\ SF_vars(GetInstance(h) \/ ProductLock(h))
    /\ \A k \in Tasks : WF_vars(PushPut(k)) /\ SF_vars(PushLock(k))
    /\ \A p \in Pollers : WF_vars(TaskPoll(p))

FairSpec == Spec /\ Fairness

---------------------------------------------------------------------------
(* Who has a pointer to task k that it will use or delete.                  *)
Holders(k) ==
    {<<"handler", h>> : h \in {h \in IoThreads : arg[h] = k}}
    \union {<<"push", k>> : x \in {x \in {k} : push[x] \in {"lock", "put"}}}
    \union {<<"queue", n>> : n \in {n \in DOMAIN queue : queue[n] = k}}
    \union {<<"poll", p>> : p \in {p \in Pollers : cur[p] = k}}

(* A task that is not deleted is in exactly one place (handler, push        *)
(* thread, queue, poll thread), so that it is neither leaked nor deleted   *)
(* under somebody who still uses it; a deleted one is in none.  The        *)
(* pointer crosses three threads, and nothing in the code counts it.       *)
OneHolder ==
    \A k \in Tasks :
        /\ obj[k] = "live" <=> Holders(k) # {}
        /\ \A a, b \in Holders(k) : a = b

(* However many poll threads start_del makes, one runs tasks: the others    *)
(* wait for task_mutex ("double lock", taskManger.h:48).                   *)
InTask(p) == poll[p] \in {"execute", "running", "after", "delete"}
OneRunner == \A p, q \in Pollers : InTask(p) /\ InTask(q) => p = q

(* No task is run twice, not even across a restart.                         *)
RunsOnce == \A i, j \in DOMAIN runs : runs[i] = runs[j] => i = j

(* Tasks are run in the order of the Puts: when one is run, all that were   *)
(* put before it (since the last start) have been.                         *)
RunsInPutOrder ==
    \A a, b \in DOMAIN accepted : a < b =>
        \A j \in DOMAIN runs : runs[j] = accepted[b] =>
            \E i \in 1..(j - 1) : runs[i] = accepted[a]

(* The implementation of TaskService.                                       *)
Status(k) ==
    IF obj[k] = "live"
    THEN IF \E p \in Pollers : cur[p] = k /\ poll[p] \in {"running", "after", "delete"}
         THEN "running" ELSE "accepted"
    ELSE CASE obj[k] = "none" -> "none"
           [] obj[k] = "deleted" -> "done"
           [] OTHER -> "lost"

Service == INSTANCE TaskService WITH status <- [k \in Tasks |-> Status(k)],
                                     valid <- finish

ImplementsService == Service!Spec

(* A task handed to its push thread is run and deleted, or lost in a crash: *)
(* whatever the io threads, the other push threads and a second poll       *)
(* thread do with the mutexes meanwhile.                                   *)
EveryTaskEnds ==
    \A k \in Tasks : push[k] = "lock" ~> obj[k] \in {"deleted", "lost"}

(* The web server never waits for a task: every request is answered.        *)
EveryRequestAnswered ==
    \A h \in IoThreads : io[h] = "instance" ~> io[h] = "idle"
=============================================================================
