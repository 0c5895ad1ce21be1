---------------------------- MODULE MCTaskManger ----------------------------
(***************************************************************************)
(* An instance of TaskManger for TLC: the .cfg file gives the threads and   *)
(* the tasks as model values.  No symmetry is declared, as it checks        *)
(* temporal formulas.                                                      *)
(***************************************************************************)
EXTENDS TaskManger
=============================================================================
