------------------------- MODULE MCSignalingServer -------------------------
(* Small instances of SignalingServer: the connections x1, x2 and x3 belong *)
(* to one id, y1 and z1 to others, all of them in one network.              *)
EXTENDS SignalingServer

CONSTANTS x1, x2, x3, y1, z1, X, Y, Z, n1

OneNet == [c \in Conns |-> n1]
Owner == [c \in Conns |-> IF c \in {x1, x2, x3} THEN X ELSE IF c = y1 THEN Y ELSE Z]
=============================================================================
