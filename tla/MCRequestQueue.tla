--------------------------- MODULE MCRequestQueue ---------------------------
(***************************************************************************)
(* An instance of RequestQueue for TLC: a push thread, a poll thread that  *)
(* keeps calling Get, and a thread that makes every call there is.         *)
(***************************************************************************)
EXTENDS RequestQueue

CONSTANTS p, g, x

RoleCalls == [t \in Threads |-> CASE t = p -> {"Put"} [] t = g -> {"Get"} [] t = x -> Ops]
=============================================================================
