--------------------------- MODULE MCConfigStore ---------------------------
(***************************************************************************)
(* Instances of ConfigStore for TLC: server files that differ in both      *)
(* fields, one of which main cannot start with, and photo files of one and *)
(* of three elements.                                                      *)
(***************************************************************************)
EXTENDS ConfigStore, TLC

S1 == [ip |-> "a", port |-> "1"]
S2 == [ip |-> "b", port |-> "2"]
S3 == [ip |-> "c", port |-> "3"]
AllServers == {S1, S2, S3}
NumericServers == {S1, S2}

P1 == [size |-> 1]
P3 == [size |-> 3]
TwoPhotos == {P1, P3}

OnePhoto == {P1}

Sym == Permutations(IoThreads)
=============================================================================
