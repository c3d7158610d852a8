------------------------------ MODULE MCPivot -------------------------------
(* Two children on one plain directory beside one on an overlay of its own. *)
EXTENDS Pivot

CONSTANTS c1, c2, c3, plain, merged

SharedAndOwn == [c \in {c1, c2, c3} |-> IF c = c3 THEN merged ELSE plain]
=============================================================================
