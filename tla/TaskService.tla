---------------------------- MODULE TaskService ----------------------------
(***************************************************************************)
(* What the task machinery promises the robot that posts to /robot/tips,   *)
(* without threads, mutexes or a queue: an accepted task is run at most    *)
(* once, one task at a time, and the robot is told to continue exactly for *)
(* the tasks found valid, before they are done with.  Tasks are kept in    *)
(* memory only: a crash loses those that are not done, and a task can be   *)
(* lost before it is run when no thread can be made to queue it.           *)
(*                                                                         *)
(* TaskManger implements this module.                                      *)
(***************************************************************************)
CONSTANT Tasks

VARIABLES status,     \* per task: none, accepted, running, done or lost
          valid,      \* per task: did execute end with getisvaild()
          continued   \* the tasks the robot was told to continue after

serviceVars == <<status, valid, continued>>

Init == /\ status = [k \in Tasks |-> "none"]
        /\ valid = [k \in Tasks |-> FALSE]
        /\ continued = {}

Move(k, from, to) == /\ status[k] = from
                     /\ status' = [status EXCEPT ![k] = to]

Accept(k) == Move(k, "none", "accepted") /\ UNCHANGED <<valid, continued>>

Lose(k) == Move(k, "accepted", "lost") /\ UNCHANGED <<valid, continued>>

Start(k) == /\ \A j \in Tasks : status[j] # "running"
            /\ Move(k, "accepted", "running")
            /\ UNCHANGED <<valid, continued>>

Judge(k) == /\ status[k] = "running"
            /\ k \notin continued
            /\ valid' = [valid EXCEPT ![k] = TRUE]
            /\ UNCHANGED <<status, continued>>

Continue(k) == /\ status[k] = "running"
               /\ valid[k]
               /\ continued' = continued \union {k}
               /\ UNCHANGED <<status, valid>>

Done(k) == /\ valid[k] => k \in continued
           /\ Move(k, "running", "done")
           /\ UNCHANGED <<valid, continued>>

Crash == /\ status' = [k \in Tasks |-> IF status[k] \in {"accepted", "running"}
                                       THEN "lost" ELSE status[k]]
         /\ UNCHANGED <<valid, continued>>

Next == \/ \E k \in Tasks : \/ Accept(k) \/ Lose(k) \/ Start(k)
                            \/ Judge(k) \/ Continue(k) \/ Done(k)
        \/ Crash

Spec == Init /\ [][Next]_serviceVars
=============================================================================
