---------------------------- MODULE MCHttpServer ----------------------------
(***************************************************************************)
(* Instances of HttpServer for TLC: one client with two requests, which it *)
(* may pipeline, and one with a single request, which may hold the thread. *)
(***************************************************************************)
EXTENDS HttpServer, TLC
CONSTANTS c1, c2

TwoAndOne == c1 :> 2 @@ c2 :> 1
=============================================================================
