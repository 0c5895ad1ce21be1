---------------------------- MODULE MCHttpClient ----------------------------
(***************************************************************************)
(* Instances of HttpClient for TLC: one answer of each kind, its data of   *)
(* three tokens in two parts with a line end among them.                   *)
(***************************************************************************)
EXTENDS HttpClient

Data(n) == Token("data", n)
Parts == << <<Data(1), LineEnd>>, <<Data(2)>> >>
OneEach == [kind : Kinds, parts : {Parts}]
=============================================================================
