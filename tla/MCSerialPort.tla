---------------------------- MODULE MCSerialPort ----------------------------
(***************************************************************************)
(* Values for the constants of SerialPort.                                 *)
(***************************************************************************)
EXTENDS SerialPort

\* Every parity, both sizes and both numbers of stop bits.
FiveParams == {<<0, 8, 1>>, <<1, 8, 2>>, <<2, 7, 1>>, <<3, 8, 1>>, <<4, 8, 1>>}
OneSpeed == {9600}
ShortOrNone == {-1, 2}
=============================================================================
