----------------------------- MODULE MCReconnect -----------------------------
(* Instances of Reconnect for TLC. *)
EXTENDS Reconnect

CONSTANTS p1, w1, w2

\* Everybody is somebody else, or the pages are one person.
Distinct == [c \in Clients |-> c]
OnePerson == [c \in Clients |-> IF c \in Web THEN w1 ELSE c]
=============================================================================
