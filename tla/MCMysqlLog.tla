----------------------------- MODULE MCMysqlLog -----------------------------
(***************************************************************************)
(* Instances of MysqlLog for TLC; the .cfg gives threads and lines.        *)
(***************************************************************************)
EXTENDS MysqlLog
=============================================================================
