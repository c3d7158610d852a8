------------------------------ MODULE MCBridge ------------------------------
(* Bridge for TLC: two containers whose ids hash to one address and that     *)
(* publish one port, one of them twice.                                      *)
EXTENDS Bridge

CONSTANTS c1, c2, web, x

CollidingAddr == [c \in Conts |-> x]
SomePorts == [c \in Conts |-> IF c = c1 THEN <<web, web>> ELSE <<web>>]
=============================================================================
