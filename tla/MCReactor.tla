------------------------------ MODULE MCReactor -----------------------------
(***************************************************************************)
(* Values for the constants of Reactor.                                    *)
(***************************************************************************)
EXTENDS Reactor
=============================================================================
