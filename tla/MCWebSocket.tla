------------------------------ MODULE MCWebSocket ------------------------------
(* Instances of WebSocket for TLC.                                         *)
EXTENDS WebSocket, TLC
CONSTANTS s1, s2
Symmetry == Permutations(Sockets)
MCIdle == [s \in Sockets |-> 8]
MCIdleNever == [s \in Sockets |-> IF s = s1 THEN 0 ELSE 8]
=============================================================================
