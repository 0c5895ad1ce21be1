--------------------------- MODULE PhotoTaskProofs ---------------------------
(***************************************************************************)
(* Theorems about PhotoTask, for every limit, body, address and fault, and *)
(* any number of reloads.                                                  *)
(*                                                                         *)
(* One invariant, IInv, carries all four: per place of the run it relates  *)
(* the counter to the requests EA got, and says where finish, told and the *)
(* rows of a success may be.  Each part is inductive over TypeOK, the rows *)
(* over where finish may be as well.                                       *)
(***************************************************************************)
EXTENDS PhotoTask, TLAPS

(* In execute: a request is posted in a round, and no round begins beyond  *)
(* the limit in force.                                                     *)
CountInv ==
    /\ cfg.cn <= peak
    /\ Len(posted) <= peak
    /\ pc = "key" => n_cur = 0
    /\ pc \in {"key", "loop", "again"} => Len(posted) <= n_cur /\ n_cur <= peak
    /\ pc = "call" => Len(posted) < n_cur /\ n_cur <= peak

(* Requests carry execute's copy of the body, which Prepare made last.     *)
BodyInv ==
    /\ pc = "key" => posted = << >>
    /\ \A i \in DOMAIN posted : posted[i].body = body

(* finish is set by the answer that ends the loop, told after the loop.    *)
ConfirmInv ==
    /\ ContinueOnlyConfirmed
    /\ pc \in {"key", "call", "again"} => ~finish
    /\ pc \in {"key", "loop", "call", "again", "valid?"} => ~told
    /\ pc \in {"after", "tell"} => finish

(* A success has no row before the call that records it, and there is no   *)
(* such call after it.                                                     *)
LogInv ==
    /\ RunLogNeverOverstates
    /\ pc \in {"key", "loop", "call", "again", "valid?"} =>
         ~res_flag /\ log["continhue_success"] = 0 /\ log["continhue_faild"] = 0
    /\ pc = "tell" => ~res_flag
    /\ pc = "key" => ~finish
    /\ ~res_flag => log["continhue_success"] = 0

IInv == TypeOK /\ CountInv /\ BodyInv /\ ConfirmInv /\ LogInv

---------------------------------------------------------------------------
(* What is behind the last element of an appended sequence stays.          *)
LEMMA AppendFacts ==
    ASSUME NEW S, NEW s \in Seq(S), NEW e \in S
    PROVE  /\ Append(s, e) \in Seq(S) /\ Append(s, e) # << >>
           /\ Len(s) \in Nat /\ Len(Append(s, e)) = Len(s) + 1
           /\ DOMAIN s = 1 .. Len(s) /\ DOMAIN Append(s, e) = 1 .. Len(s) + 1
           /\ Append(s, e)[Len(s) + 1] = e
           /\ \A i \in 1 .. Len(s) : Append(s, e)[i] = s[i]
OBVIOUS

(* A recorded line gains at most two rows, the others none. *)
LEMMA Recorded ==
    ASSUME TypeOK, NEW line \in Lines, Record(line)
    PROVE  /\ log' \in [Lines -> Nat]
           /\ \A l \in Lines : log[l] \in Nat /\ log'[l] \in Nat
           /\ \A l \in Lines \ {line} : log'[l] = log[l]
           /\ log'[line] <= log[line] + 2
<1>1. PICK made \in 0..2 : log' = [log EXCEPT ![line] = @ + made]
  BY DEF Record
<1>2. log \in [Lines -> Nat]
  BY DEF TypeOK
<1> QED
  BY <1>1, <1>2

(* The same for a posted request: it is the last one. *)
LEMMA Posted ==
    ASSUME TypeOK, NEW a \in Answers, Posts(a)
    PROVE  /\ posted' \in Seq([body : Bodies, answer : Answers]) /\ posted' # << >>
           /\ Len(posted) \in Nat /\ Len(posted') = Len(posted) + 1
           /\ DOMAIN posted = 1 .. Len(posted) /\ DOMAIN posted' = 1 .. Len(posted) + 1
           /\ posted'[Len(posted')] = [body |-> body, answer |-> a]
           /\ \A i \in 1 .. Len(posted) : posted'[i] = posted[i]
<1>1. [body |-> body, answer |-> a] \in [body : Bodies, answer : Answers]
  BY DEF TypeOK
<1>2. posted \in Seq([body : Bodies, answer : Answers])
  BY DEF TypeOK
<1> QED
  BY <1>1, <1>2, AppendFacts DEF Posts

(* What a step may do to the history: nothing, or one entry. *)
OneMorePosted == posted' = posted \/ \E a \in Answers : Posts(a)
OneMoreLogged == log' = log \/ \E line \in Lines : Record(line)

LEMMA HistoryStep == Next => OneMorePosted /\ OneMoreLogged
BY DEF Next, Execute, ExecuteAfter, Prepare, NextRound, LeaveLoop, CallFails, AnswerPartial,
   KeyAgain, AnswerComplete, RoundThrows, AnswerMalformed, Judge, TellRound, LeaveAfter,
   TellSucceeds, TellFails, TellThrows, Reload, OneMorePosted, OneMoreLogged, callOthers,
   tellOthers, Answers, Lines

---------------------------------------------------------------------------
LEMMA InitInv == Init => IInv
<1> SUFFICES ASSUME Init PROVE IInv
  OBVIOUS
<1>1. TypeOK
  <2>1. cfg.cn \in CnValues /\ cfg.body \in Bodies
    BY DEF Init
  <2>2. << >> \in Seq([body : Bodies, answer : Answers]) /\ [l \in Lines |-> 0] \in [Lines -> Nat]
    OBVIOUS
  <2>3. 0 \in Nat /\ 0 \in 0..MaxReloads
    BY ConstantTypes
  <2> QED
    BY <2>1, <2>2, <2>3 DEF Init, TypeOK
<1>2. CountInv
  <2>1. cfg.cn \in Nat
    BY ConstantTypes DEF Init
  <2> QED
    BY <2>1 DEF Init, CountInv
<1>3. BodyInv /\ ConfirmInv
  BY DEF Init, BodyInv, ConfirmInv, ContinueOnlyConfirmed
<1>4. LogInv
  BY DEF Init, LogInv, RunLogNeverOverstates, Lines
<1> QED
  BY <1>1, <1>2, <1>3, <1>4 DEF IInv

LEMMA TypeStep == TypeOK /\ [Next]_vars => TypeOK'
<1> SUFFICES ASSUME TypeOK, [Next]_vars PROVE TypeOK'
  OBVIOUS
<1>1. CASE UNCHANGED vars
  BY <1>1 DEF vars, TypeOK
<1>2. CASE Next
  <2>1. posted' \in Seq([body : Bodies, answer : Answers])
    BY <1>2, HistoryStep, Posted DEF OneMorePosted, TypeOK
  <2>2. log' \in [Lines -> Nat]
    BY <1>2, HistoryStep, Recorded DEF OneMoreLogged, TypeOK
  <2>3. CASE Execute
    <3>1. CASE Prepare
      BY <2>1, <2>2, <3>1 DEF TypeOK, Prepare, callOthers
    <3>2. CASE NextRound
      BY <2>1, <2>2, <3>2 DEF TypeOK, NextRound, callOthers
    <3>3. CASE LeaveLoop
      BY <2>1, <2>2, <3>3 DEF TypeOK, LeaveLoop, callOthers
    <3>4. CASE CallFails
      BY <2>1, <2>2, <3>4 DEF TypeOK, CallFails, callOthers
    <3>5. CASE AnswerPartial
      BY <2>1, <2>2, <3>5 DEF TypeOK, AnswerPartial, callOthers
    <3>6. CASE KeyAgain
      BY <2>1, <2>2, <3>6 DEF TypeOK, KeyAgain, callOthers
    <3>7. CASE AnswerComplete
      BY <2>1, <2>2, <3>7 DEF TypeOK, AnswerComplete, callOthers
    <3>8. CASE RoundThrows
      BY <2>1, <2>2, <3>8 DEF TypeOK, RoundThrows, callOthers
    <3>9. CASE AnswerMalformed
      BY <2>1, <2>2, <3>9 DEF TypeOK, AnswerMalformed, callOthers
    <3> QED
      BY <2>3, <3>1, <3>2, <3>3, <3>4, <3>5, <3>6, <3>7, <3>8, <3>9 DEF Execute
  <2>4. CASE Judge
    BY <2>1, <2>2, <2>4 DEF TypeOK, Judge
  <2>5. CASE ExecuteAfter
    <3>1. CASE TellRound
      BY <2>1, <2>2, <3>1 DEF TypeOK, TellRound, tellOthers
    <3>2. CASE LeaveAfter
      BY <2>1, <2>2, <3>2 DEF TypeOK, LeaveAfter, tellOthers
    <3>3. CASE TellSucceeds
      BY <2>1, <2>2, <3>3 DEF TypeOK, TellSucceeds, tellOthers
    <3>4. CASE TellFails
      BY <2>1, <2>2, <3>4 DEF TypeOK, TellFails, tellOthers
    <3>5. CASE TellThrows
      BY <2>1, <2>2, <3>5 DEF TypeOK, TellThrows, tellOthers
    <3> QED
      BY <2>5, <3>1, <3>2, <3>3, <3>4, <3>5 DEF ExecuteAfter
  <2>6. CASE Reload
    BY <2>1, <2>2, <2>6, ConstantTypes DEF TypeOK, Reload
  <2> QED
    BY <1>2, <2>3, <2>4, <2>5, <2>6 DEF Next
<1> QED
  BY <1>1, <1>2

LEMMA CountStep == TypeOK /\ CountInv /\ [Next]_vars => CountInv'
<1> SUFFICES ASSUME TypeOK, CountInv, [Next]_vars PROVE CountInv'
  OBVIOUS
<1>0. /\ cfg.cn \in Nat /\ peak \in Nat /\ n_cur \in Nat /\ Len(posted) \in Nat
  <2>1. cfg \in [cn : CnValues, body : Bodies] /\ peak \in CnValues /\ n_cur \in Nat
    BY DEF TypeOK
  <2>2. posted \in Seq([body : Bodies, answer : Answers])
    BY DEF TypeOK
  <2>3. Len(posted) \in Nat
    BY <2>2
  <2> QED
    BY <2>1, <2>3, ConstantTypes
<1>1. CASE UNCHANGED vars
  BY <1>1 DEF vars, CountInv
<1>2. CASE Execute
  <2>1. Len(posted') = Len(posted) \/ (pc = "call" /\ Len(posted') = Len(posted) + 1)
    BY <1>2, Posted DEF Execute, Prepare, NextRound, LeaveLoop, CallFails, AnswerPartial, KeyAgain,
       AnswerComplete, RoundThrows, AnswerMalformed, callOthers, Answers
  <2> QED
    BY <1>0, <1>2, <2>1 DEF CountInv, Execute, Prepare, NextRound, LeaveLoop, CallFails, AnswerPartial,
       KeyAgain, AnswerComplete, RoundThrows, AnswerMalformed, callOthers
<1>3. CASE Judge
  BY <1>0, <1>3 DEF CountInv, Judge
<1>4. CASE ExecuteAfter
  BY <1>0, <1>4 DEF CountInv, ExecuteAfter, TellRound, LeaveAfter, TellSucceeds, TellFails,
     TellThrows, tellOthers
<1>5. CASE Reload
  <2>1. cfg'.cn \in Nat
    BY <1>5, ConstantTypes DEF Reload
  <2> QED
    BY <1>0, <1>5, <2>1 DEF CountInv, Reload
<1> QED
  BY <1>1, <1>2, <1>3, <1>4, <1>5 DEF Next

LEMMA BodyStep == TypeOK /\ BodyInv /\ [Next]_vars => BodyInv'
<1> SUFFICES ASSUME TypeOK, BodyInv, [Next]_vars PROVE BodyInv'
  OBVIOUS
<1>1. CASE UNCHANGED vars
  BY <1>1 DEF vars, BodyInv
<1>2. CASE Prepare
  BY <1>2 DEF BodyInv, Prepare
<1>3. ASSUME Next, ~Prepare PROVE BodyInv'
  <2>1. body' = body /\ (posted' # posted => pc = "call") /\ (pc' = "key" => pc = "key")
    BY <1>3 DEF Next, Execute, ExecuteAfter, NextRound, LeaveLoop, CallFails, AnswerPartial,
       KeyAgain, AnswerComplete, RoundThrows, AnswerMalformed, Judge, TellRound, LeaveAfter,
       TellSucceeds, TellFails, TellThrows, Reload, callOthers, tellOthers
  <2>2. CASE posted' = posted
    BY <2>1, <2>2 DEF BodyInv
  <2>3. ASSUME NEW a \in Answers, Posts(a), posted' # posted PROVE BodyInv'
    <3>1. pc' # "key" /\ body' = body
      BY <2>1, <2>3, <1>3 DEF Next, Execute, ExecuteAfter, NextRound, LeaveLoop, CallFails, AnswerPartial,
         KeyAgain, AnswerComplete, RoundThrows, AnswerMalformed, Judge, TellRound, LeaveAfter,
         TellSucceeds, TellFails, TellThrows, Reload, callOthers, tellOthers
    <3>2. /\ Len(posted) \in Nat /\ Len(posted') = Len(posted) + 1
          /\ DOMAIN posted = 1 .. Len(posted) /\ DOMAIN posted' = 1 .. Len(posted) + 1
          /\ posted'[Len(posted')] = [body |-> body, answer |-> a]
          /\ \A i \in 1 .. Len(posted) : posted'[i] = posted[i]
      BY <2>3, Posted
    <3>3. ASSUME NEW i \in DOMAIN posted' PROVE posted'[i].body = body
      <4>1. CASE i \in 1 .. Len(posted)
        BY <3>2, <4>1 DEF BodyInv
      <4>2. CASE i = Len(posted) + 1
        BY <3>2, <4>2
      <4> QED
        BY <3>2, <3>3, <4>1, <4>2
    <3> QED
      BY <3>1, <3>3 DEF BodyInv
  <2> QED
    BY <1>3, <2>2, <2>3, HistoryStep DEF OneMorePosted
<1> QED
  BY <1>1, <1>2, <1>3

LEMMA ConfirmStep == TypeOK /\ ConfirmInv /\ [Next]_vars => ConfirmInv'
<1> SUFFICES ASSUME TypeOK, ConfirmInv, [Next]_vars PROVE ConfirmInv'
  OBVIOUS
<1> USE DEF ConfirmInv, ContinueOnlyConfirmed, Confirmed
<1>1. CASE UNCHANGED vars
  BY <1>1 DEF vars
<1>2. CASE AnswerComplete
  BY <1>2, Posted DEF AnswerComplete, callOthers, Answers
<1>3. CASE Execute /\ ~AnswerComplete
  BY <1>3 DEF Execute, Prepare, NextRound, LeaveLoop, CallFails, AnswerPartial, KeyAgain, RoundThrows,
     AnswerMalformed, callOthers, TypeOK
<1>4. CASE Judge
  BY <1>4 DEF Judge
<1>5. CASE ExecuteAfter
  BY <1>5 DEF ExecuteAfter, TellRound, LeaveAfter, TellSucceeds, TellFails, TellThrows, tellOthers
<1>6. CASE Reload
  BY <1>6 DEF Reload
<1> QED
  BY <1>1, <1>2, <1>3, <1>4, <1>5, <1>6 DEF Next

LEMMA LogStep == TypeOK /\ ConfirmInv /\ LogInv /\ ConfirmInv' /\ [Next]_vars => LogInv'
<1> SUFFICES ASSUME TypeOK, ConfirmInv, LogInv, ConfirmInv', [Next]_vars PROVE LogInv'
  OBVIOUS
<1> USE DEF LogInv, RunLogNeverOverstates
<1>0. \A l \in Lines : log[l] \in Nat
  BY DEF TypeOK
<1>1. CASE UNCHANGED vars
  BY <1>1 DEF vars, Confirmed
<1>2. CASE Execute
  <2>0. finish' /\ finish => posted' = posted
    BY <1>2 DEF ConfirmInv, Execute, Prepare, NextRound, LeaveLoop, CallFails, AnswerPartial,
       KeyAgain, AnswerComplete, RoundThrows, AnswerMalformed, callOthers
  <2>1. CASE Prepare \/ NextRound \/ LeaveLoop \/ KeyAgain \/ AnswerMalformed
    BY <1>0, <2>0, <2>1 DEF Prepare, NextRound, LeaveLoop, KeyAgain, AnswerMalformed, callOthers,
       ConfirmInv, Confirmed
  <2>2. ASSUME NEW line \in Lines \ {"photo_success", "continhue_success", "continhue_faild"},
               Record(line), pc = "call", pc' \in {"loop", "again"}, res_flag' = res_flag,
               told' = told, ~finish'
        PROVE  LogInv'
    <3>1. /\ log'["photo_success"] = 0 /\ log'["continhue_success"] = 0
          /\ log'["continhue_faild"] = 0
      BY <1>0, <2>2, Recorded DEF ConfirmInv, Lines
    <3> QED
      BY <2>2, <3>1
  <2>3. CASE AnswerComplete
    <3>1. /\ log'["photo_success"] <= 2 /\ log'["continhue_success"] = 0
          /\ log'["continhue_faild"] = 0
      BY <1>0, <2>3, Recorded DEF AnswerComplete, ConfirmInv, Lines
    <3>2. finish' /\ pc' = "loop" /\ res_flag' = res_flag /\ pc = "call" /\ Confirmed'
      BY <2>3 DEF AnswerComplete, callOthers, ConfirmInv, ContinueOnlyConfirmed
    <3> QED
      BY <3>1, <3>2
  <2>4. CASE CallFails
    BY <2>2, <2>4 DEF CallFails, callOthers, Lines, ConfirmInv
  <2>5. CASE AnswerPartial
    BY <2>2, <2>5 DEF AnswerPartial, callOthers, Lines, ConfirmInv
  <2>6. CASE RoundThrows
    BY <2>2, <2>6 DEF RoundThrows, callOthers, Lines
  <2> QED
    BY <1>2, <2>1, <2>3, <2>4, <2>5, <2>6 DEF Execute
<1>3. CASE Judge
  BY <1>0, <1>3 DEF Judge, Confirmed
<1>4. CASE ExecuteAfter
  <2>1. CASE TellRound \/ LeaveAfter
    BY <1>0, <2>1 DEF TellRound, LeaveAfter, Confirmed
  <2>2. finish' = finish /\ posted' = posted /\ (pc = "tell" => finish)
    BY <1>4 DEF ExecuteAfter, TellRound, LeaveAfter, TellSucceeds, TellFails, TellThrows,
       tellOthers, ConfirmInv
  <2>3. CASE TellSucceeds
    <3>1. log'["photo_success"] = log["photo_success"] /\ log'["continhue_success"] <= 2
      BY <1>0, <2>3, Recorded DEF TellSucceeds, Lines
    <3>2. pc' = "after" /\ told' /\ res_flag' /\ finish'
      BY <2>2, <2>3 DEF TellSucceeds
    <3> QED
      BY <2>2, <3>1, <3>2 DEF Confirmed
  <2>4. ASSUME NEW line \in Lines \ {"photo_success", "continhue_success"}, Record(line),
               pc = "tell", pc' = "after", ~res_flag'
        PROVE  LogInv'
    <3>1. log'["photo_success"] = log["photo_success"] /\ log'["continhue_success"] = 0
      BY <1>0, <2>4, Recorded DEF Lines
    <3> QED
      BY <2>2, <2>4, <3>1 DEF Confirmed
  <2>5. CASE TellFails
    BY <2>4, <2>5 DEF TellFails, tellOthers, Lines
  <2>6. CASE TellThrows
    BY <2>4, <2>6 DEF TellThrows, Lines
  <2> QED
    BY <1>4, <2>1, <2>3, <2>5, <2>6 DEF ExecuteAfter
<1>5. CASE Reload
  BY <1>5 DEF Reload, Confirmed
<1> QED
  BY <1>1, <1>2, <1>3, <1>4, <1>5 DEF Next

LEMMA InvStep == IInv /\ [Next]_vars => IInv'
BY TypeStep, CountStep, BodyStep, ConfirmStep, LogStep DEF IInv

---------------------------------------------------------------------------
(* The types of the variables of a run. *)
THEOREM TypeCorrect == Spec => []TypeOK
<1>1. IInv => TypeOK
  BY DEF IInv
<1> QED
  BY <1>1, InitInv, InvStep, PTL DEF Spec

(* EA is asked at most as often as the largest limit in force allows,      *)
(* however often the limit is changed between two rounds.                  *)
THEOREM AttemptsWithinLimitHolds == Spec => []AttemptsWithinLimit
<1>1. IInv => AttemptsWithinLimit
  BY DEF IInv, CountInv, AttemptsWithinLimit
<1> QED
  BY <1>1, InitInv, InvStep, PTL DEF Spec

(* The retries ask for what the first request asked for.                   *)
THEOREM OneBodyPerRunHolds == Spec => []OneBodyPerRun
<1>1. IInv => OneBodyPerRun
  BY DEF IInv, BodyInv, OneBodyPerRun
<1> QED
  BY <1>1, InitInv, InvStep, PTL DEF Spec

(* The robot is told to go on only after EA confirmed the latest request.  *)
THEOREM ContinueOnlyConfirmedHolds == Spec => []ContinueOnlyConfirmed
<1>1. IInv => ContinueOnlyConfirmed
  BY DEF IInv, ConfirmInv
<1> QED
  BY <1>1, InitInv, InvStep, PTL DEF Spec

(* run_logs claims no more than happened, whatever recordlog loses or makes *)
(* twice: a success row means confirmed photos, a continue a robot told.   *)
THEOREM RunLogNeverOverstatesHolds == Spec => []RunLogNeverOverstates
<1>1. IInv => RunLogNeverOverstates
  BY DEF IInv, LogInv
<1> QED
  BY <1>1, InitInv, InvStep, PTL DEF Spec
=============================================================================
