------------------------------ MODULE PhotoTask ------------------------------
(***************************************************************************)
(* One run of a task on the poll thread: PhotoTask::execute                *)
(* (src/Include/task/Source/photoTask.cpp) and, if it set finish,          *)
(* TaskBase::execute_after (taskImp.cpp), against the photo service (EA)   *)
(* that is asked for photos and the robot that is to be told to continue.  *)
(*                                                                         *)
(* Both loops read config->ser_config.cn_photo again in every round, while *)
(* the io threads may load a new configuration; the body is encoded once.  *)
(* A call either reaches EA or not, and its answer may be lost.  An answer *)
(* without the keys the code reads makes it use a null pointer: the        *)
(* process dies (pc = "crashed").                                          *)
(***************************************************************************)
EXTENDS Integers, Sequences

CONSTANTS CnValues,    \* values of take_photo_times
          Bodies,      \* photo configurations, as encoded
          Faults,      \* what may go wrong in a call: a subset of AllFaults
          EaIp, EaPort, \* ea_ip and ea_port, each a sequence of pieces of text
          Listening,   \* the addresses somebody answers at
          MaxReloads   \* bound: configuration uploads during the run

AllFaults == {"unreached", "lost", "thrown", "malformed"}

ASSUME ConstantTypes == /\ CnValues \subseteq Nat
                        /\ Faults \subseteq AllFaults
                        /\ MaxReloads \in Nat

VARIABLES
    pc,       \* the place in execute, then in execute_after
    cfg,      \* the live configuration: cn_photo and the photo body
    body,     \* execute's copy of the body
    n_cur,    \* rounds begun in execute, then in execute_after
    finish,   \* TaskBase::finish
    res_flag, \* execute_after's flag
    posted,   \* history: the photo requests EA got, and the answer we saw
    told,     \* history: has the robot received a continue
    log,      \* run_logs: how many rows each line has
    peak,     \* history: the largest cn_photo seen in force during the run
    reloads

vars == <<pc, cfg, body, n_cur, finish, res_flag, posted, told, log, peak, reloads>>

Answers == {"none", "partial", "complete"}
Lines   == {"photo_success", "photo_faild", "num_unsuccess",
            "continhue_success", "continhue_faild"}

TypeOK ==
    /\ pc \in {"key", "loop", "call", "again", "valid?", "after", "tell", "done", "crashed"}
    /\ cfg \in [cn : CnValues, body : Bodies]
    /\ body \in Bodies
    /\ n_cur \in Nat
    /\ finish \in BOOLEAN /\ res_flag \in BOOLEAN /\ told \in BOOLEAN
    /\ posted \in Seq([body : Bodies, answer : Answers])
    /\ log \in [Lines -> Nat]
    /\ peak \in CnValues
    /\ reloads \in 0..MaxReloads

Init ==
    /\ pc = "key"
    /\ cfg \in [cn : CnValues, body : Bodies]
    /\ body = cfg.body
    /\ n_cur = 0
    /\ finish = FALSE /\ res_flag = FALSE /\ told = FALSE
    /\ posted = << >>
    /\ log = [l \in Lines |-> 0]
    /\ peak = cfg.cn
    /\ reloads = 0

(* recordlog, whose result nobody looks at: no row where there is no         *)
(* connection or the statement fails, two where the answer to the first is  *)
(* lost and the retry succeeds (MysqlLog).  A row the server makes late is  *)
(* counted at the call.                                                     *)
Record(line) == \E made \in 0..2 : log' = [log EXCEPT ![line] = @ + made]
Posts(a)     == posted' = Append(posted, [body |-> body, answer |-> a])

---------------------------------------------------------------------------
(* Addresses.  A host is a sequence of pieces of text.  reset_socket adds   *)
(* ":80" to a host without a colon, parse_addr splits at the first colon,  *)
(* and atoi reads the port up to the next one.                             *)
PhotoHost    == EaIp \o <<":">> \o EaPort
ContinueHost == EaIp \o EaPort

UpToColon(s) == LET colons == {i \in DOMAIN s : s[i] = ":"}
                IN  SubSeq(s, 1, IF colons = {} THEN Len(s)
                                 ELSE (CHOOSE i \in colons : \A j \in colons : i <= j) - 1)

Dialled(host) ==
    LET addr == IF \E i \in DOMAIN host : host[i] = ":" THEN host ELSE host \o <<":", "80">>
        ip   == UpToColon(addr)
    IN  [ip |-> ip, port |-> UpToColon(SubSeq(addr, Len(ip) + 2, Len(addr)))]

Reaches(host) == Dialled(host) \in Listening

---------------------------------------------------------------------------
(* PhotoTask::execute                                                      *)

(* The operator presses a key (getchar); then the body is encoded.          *)
Prepare ==
    /\ pc = "key"
    /\ body' = cfg.body
    /\ n_cur' = 0
    /\ pc' = "loop"
    /\ UNCHANGED <<cfg, finish, res_flag, posted, told, log, peak, reloads>>

(* Altered: <= for <.                                                       *)
NextRound_OneMore ==
    /\ pc = "loop"
    /\ n_cur <= cfg.cn /\ ~finish
    /\ n_cur' = n_cur + 1
    /\ pc' = "call"
    /\ UNCHANGED <<cfg, body, finish, res_flag, posted, told, log, peak, reloads>>

NextRound ==
    /\ pc = "loop"
    /\ n_cur < cfg.cn /\ ~finish
    /\ n_cur' = n_cur + 1
    /\ pc' = "call"
    /\ UNCHANGED <<cfg, body, finish, res_flag, posted, told, log, peak, reloads>>

(* Altered: the loop ends only when the counter equals the limit.           *)
LeaveLoop_Equal ==
    /\ pc = "loop"
    /\ n_cur = cfg.cn \/ finish
    /\ pc' = "valid?"
    /\ UNCHANGED <<cfg, body, n_cur, finish, res_flag, posted, told, log, peak, reloads>>

LeaveLoop ==
    /\ pc = "loop"
    /\ ~(n_cur < cfg.cn /\ ~finish)
    /\ pc' = "valid?"
    /\ UNCHANGED <<cfg, body, n_cur, finish, res_flag, posted, told, log, peak, reloads>>

callOthers == <<cfg, body, n_cur, res_flag, told, peak, reloads>>

(* sync_c.call() returns false: EA never got the request, or its answer     *)
(* did not arrive in time.                                                 *)
CallFails ==
    /\ pc = "call"
    /\ \/ (~Reaches(PhotoHost) \/ "unreached" \in Faults) /\ UNCHANGED posted
       \/ "lost" \in Faults /\ Reaches(PhotoHost) /\ Posts("none")
    /\ Record("photo_faild")
    /\ pc' = "loop"
    /\ UNCHANGED <<finish, callOthers>>

(* Altered: the answer is recorded before the numbers are compared.         *)
AnswerPartial_LoggedBefore ==
    /\ pc = "call"
    /\ Reaches(PhotoHost)
    /\ Posts("partial")
    /\ Record("photo_success")
    /\ pc' = "again"
    /\ UNCHANGED <<finish, callOthers>>

(* Altered: setisvaild(true) is called before the numbers are compared.     *)
AnswerPartial_SetsFinish ==
    /\ pc = "call"
    /\ Reaches(PhotoHost)
    /\ Posts("partial")
    /\ finish' = TRUE
    /\ Record("num_unsuccess")
    /\ pc' = "again"
    /\ UNCHANGED callOthers

(* successnum differs from tablenum: log, wait for the key, try again.      *)
AnswerPartial ==
    /\ pc = "call"
    /\ Reaches(PhotoHost)
    /\ Posts("partial")
    /\ Record("num_unsuccess")
    /\ pc' = "again"
    /\ UNCHANGED <<finish, callOthers>>

KeyAgain ==
    /\ pc = "again"
    /\ pc' = "loop"
    /\ UNCHANGED <<finish, posted, log, callOthers>>

AnswerComplete ==
    /\ pc = "call"
    /\ Reaches(PhotoHost)
    /\ Posts("complete")
    /\ finish' = TRUE
    /\ Record("photo_success")
    /\ pc' = "loop"
    /\ UNCHANGED callOthers

(* catch (...): something in the round threw, perhaps after finish was set, *)
(* in recordlog before its statement.  The recordlog of the catch itself is *)
(* assumed not to throw.                                                    *)
RoundThrows ==
    /\ pc = "call"
    /\ "thrown" \in Faults
    /\ UNCHANGED posted \/ \E a \in Answers : Posts(a)
    /\ finish' = FALSE
    /\ Record("photo_faild")
    /\ pc' = "loop"
    /\ UNCHANGED callOthers

(* find_kv_child returns nullptr and is used.                               *)
AnswerMalformed ==
    /\ pc = "call"
    /\ "malformed" \in Faults
    /\ Reaches(PhotoHost)
    /\ Posts("none")
    /\ pc' = "crashed"
    /\ UNCHANGED <<finish, log, callOthers>>

---------------------------------------------------------------------------
(* taskPoll's getisvaild(), and TaskBase::execute_after                     *)
Judge ==
    /\ pc = "valid?"
    /\ pc' = IF finish THEN "after" ELSE "done"
    /\ n_cur' = IF finish THEN 0 ELSE n_cur
    /\ UNCHANGED <<cfg, body, finish, res_flag, posted, told, log, peak, reloads>>

TellRound ==
    /\ pc = "after"
    /\ n_cur < cfg.cn /\ ~res_flag
    /\ n_cur' = n_cur + 1
    /\ pc' = "tell"
    /\ UNCHANGED <<cfg, body, finish, res_flag, posted, told, log, peak, reloads>>

LeaveAfter ==
    /\ pc = "after"
    /\ ~(n_cur < cfg.cn /\ ~res_flag)
    /\ pc' = "done"
    /\ UNCHANGED <<cfg, body, n_cur, finish, res_flag, posted, told, log, peak, reloads>>

tellOthers == <<cfg, body, n_cur, finish, posted, peak, reloads>>

TellSucceeds ==
    /\ pc = "tell"
    /\ Reaches(ContinueHost)
    /\ told' = TRUE
    /\ res_flag' = TRUE
    /\ Record("continhue_success")
    /\ pc' = "after"
    /\ UNCHANGED tellOthers

TellFails ==
    /\ pc = "tell"
    /\ \/ (~Reaches(ContinueHost) \/ "unreached" \in Faults) /\ UNCHANGED told
       \/ "lost" \in Faults /\ Reaches(ContinueHost) /\ told' = TRUE
    /\ Record("continhue_faild")
    /\ pc' = "after"
    /\ UNCHANGED <<res_flag, tellOthers>>

(* call() may have told the robot before it, or recordlog, threw.           *)
TellThrows ==
    /\ pc = "tell"
    /\ "thrown" \in Faults
    /\ UNCHANGED told \/ (Reaches(ContinueHost) /\ told' = TRUE)
    /\ res_flag' = FALSE
    /\ Record("photo_faild")
    /\ pc' = "after"
    /\ UNCHANGED tellOthers

---------------------------------------------------------------------------
(* An io thread loads an uploaded configuration: loadserver_config and      *)
(* loadphoto_config write the live Config.                                 *)
Reload ==
    /\ pc \notin {"done", "crashed"}
    /\ reloads < MaxReloads
    /\ reloads' = reloads + 1
    /\ cfg' \in [cn : CnValues, body : Bodies]
    /\ peak' = IF cfg'.cn > peak THEN cfg'.cn ELSE peak
    /\ UNCHANGED <<pc, body, n_cur, finish, res_flag, posted, told, log>>

Execute == \/ Prepare \/ NextRound \/ LeaveLoop \/ CallFails \/ AnswerPartial \/ KeyAgain
           \/ AnswerComplete \/ RoundThrows \/ AnswerMalformed

ExecuteAfter == TellRound \/ LeaveAfter \/ TellSucceeds \/ TellFails \/ TellThrows

Next == Execute \/ Judge \/ ExecuteAfter \/ Reload

Spec == Init /\ [][Next]_vars

(* The poll thread runs, the socket timeouts end every call, the operator   *)
(* presses the key.  No reload need come.                                  *)
FairSpec == Spec /\ WF_vars(Execute \/ Judge \/ ExecuteAfter)

---------------------------------------------------------------------------
(* EA is asked for photos at most as often as the largest take_photo_times  *)
(* in force during the run allows, whatever is lost, thrown or reloaded.   *)
AttemptsWithinLimit == Len(posted) <= peak

(* All requests of a run carry the same body: a configuration loaded        *)
(* between two retries does not change what is photographed.               *)
OneBodyPerRun == \A i, j \in DOMAIN posted : posted[i].body = posted[j].body

(* finish means that EA's latest answer, to the latest request, said that   *)
(* all photos succeeded; the robot is told to continue only after that.    *)
Confirmed == posted # << >> /\ posted[Len(posted)].answer = "complete"
ContinueOnlyConfirmed == (finish \/ told) => Confirmed

(* Whatever recordlog loses or repeats, run_logs never claims more than     *)
(* happened: a success stands there only in a run whose photos EA confirmed *)
(* and that still counts as valid, a continue only of a robot that was      *)
(* told, and what rows a success has are those of one call.                 *)
RunLogNeverOverstates ==
    /\ log["photo_success"] > 0 => finish /\ Confirmed
    /\ log["continhue_success"] > 0 => told
    /\ log["continhue_success"] + log["continhue_faild"] > 0 => finish
    /\ log["photo_success"] <= 2 /\ log["continhue_success"] <= 2

(* The run ends: the poll thread comes back for the next task.              *)
RunEnds == <>(pc \in {"done", "crashed"})

(* "//continue run" (taskImp.cpp:65), logged as                            *)
(* "send continue to the robot" (action.hpp:21): where nothing goes wrong,  *)
(* the robot of a valid task has been told when the run is over.           *)
ContinueReachesRobot == (pc = "done" /\ finish /\ peak > 0) => told
=============================================================================
