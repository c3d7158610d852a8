---------------------------- MODULE MCLayerStack ----------------------------
(* LayerStack for TLC: a directory that may be a file, what is in it, and a  *)
(* file beside it.                                                           *)
EXTENDS LayerStack

D == <<"d">>
X == <<"d", "x">>
F == <<"f">>

AllPaths == {D, X, F}

AllEntries ==
  [kind : {"dir"}, path : {D}, mode : {"rw", "ro"}]
    \cup [kind : {"file"}, path : AllPaths, mode : {"rw"}]
    \cup [kind : {"file"}, path : {X, F}, mode : {"ro"}]
    \cup [kind : {"symlink"}, path : AllPaths]
    \cup [kind : {"whiteout"}, path : AllPaths]
    \cup [kind : {"opaque"}, path : {D}]
    \cup {[kind |-> "link", path |-> F, to |-> X],
          [kind |-> "link", path |-> X, to |-> F]}
=============================================================================
