---------------------------- MODULE TimerManager ----------------------------
(***************************************************************************)
(* util/timer.hpp: timer_manager, a multimap from due time to timer.  It   *)
(* is a sequence here, in the order of the multimap: by time, and by       *)
(* insertion among equal times.  A timer keeps the time LEFT until it is   *)
(* due, negative when it is late, so that the clock needs no bound.  The   *)
(* manager has one thread, the reactor's, and no lock.                     *)
(***************************************************************************)
EXTENDS Integers, Sequences, FiniteSets, SequencesExt

NoTimer == 0

\* insert: behind every timer that is due no later.
Insert(ts, t) ==
    LET before == Cardinality({i \in DOMAIN ts : ts[i].left <= t.left})
    IN  InsertAt(ts, before + 1, t)

\* set_timer: a delay of 0 sets nothing.
SetTimer(ts, id, delay, fn) ==
    IF delay = 0 THEN ts
    ELSE Insert(ts, [id |-> id, left |-> delay, delay |-> delay, fn |-> fn])

\* cancel_timer: takes out the first timer with this id.  The timer whose
\* callback runs is not in the map, so it cannot be cancelled from there.
CancelTimer(ts, id) ==
    IF id = NoTimer THEN ts
    ELSE LET same == {i \in DOMAIN ts : ts[i].id = id}
         IN  IF same = {} THEN ts ELSE RemoveAt(ts, Min(same))

\* do_timer stops at the first timer that is not due.
IsDue(ts) == ts # <<>> /\ Head(ts).left <= 0

\* A repeated timer is due a delay after it was due, and at once when that
\* is past already (relative is false: no caller sets it).
Repeat(t) == [t EXCEPT !.left = IF t.left + t.delay < 0 THEN 0 ELSE t.left + t.delay]

\* The clock moves on.
Tick(ts) == [i \in DOMAIN ts |-> [ts[i] EXCEPT !.left = @ - 1]]
=============================================================================
