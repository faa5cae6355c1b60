---------------------------- MODULE MCServeContainer ---------------------------
(* Small instances of ServeContainer for TLC.                              *)
EXTENDS ServeContainer

CONSTANTS s1, s2, s3, s4, orca, radix, loopback, lan, any

(* s1 and s2 serve the same target, s3 and s4 another one.                 *)
MCTargetOf == [s \in Server |-> IF s \in {s1, s2} THEN orca ELSE radix]
MCSameTarget == [s \in Server |-> orca]

(* s4 takes another port; s2 asks for every address, s3 for one of them.   *)
MCPorts == [s \in Server |-> IF s = s4 THEN 18301 ELSE 18300]
MCDefaultPort == [s \in Server |-> 18300]
MCBinds == [s \in Server |-> CASE s = s2 -> any [] s = s3 -> lan [] OTHER -> loopback]
MCLoopback == [s \in Server |-> loopback]
================================================================================
