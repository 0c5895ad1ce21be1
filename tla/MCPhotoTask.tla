---------------------------- MODULE MCPhotoTask ----------------------------
(***************************************************************************)
(* Instances of PhotoTask for TLC.  Shipped: the addresses of              *)
(* src/server_config.xml (ea_ip and ea_port are one piece of text each).   *)
(* InOne: an ea_ip that already ends in ":80" and an ea_port "80", so that *)
(* ea_ip + ea_port is an address (port 8080) where the robot can listen.   *)
(***************************************************************************)
EXTENDS PhotoTask

ShippedIp == <<"192.168.65.54">>
ShippedPort == <<"9989">>
ShippedListening == {[ip |-> <<"192.168.65.54">>, port |-> <<"9989">>]}

InOneIp == <<"192.168.65.54", ":", "80">>
InOnePort == <<"80">>
InOneListening == {[ip |-> <<"192.168.65.54">>, port |-> <<"80">>],
                   [ip |-> <<"192.168.65.54">>, port |-> <<"80", "80">>]}
=============================================================================
