----------------------------- MODULE MCImagePull -----------------------------
(* Instances of ImagePull for TLC: two images that share their base layer   *)
(* and a third one that shares nothing, and a single image.                 *)
EXTENDS ImagePull, TLC

CONSTANTS p1, p2, p3, app, tool, other, base, top, own

ThreePulls == {p1, p2, p3}
OnePull    == {p1}
PullSymmetry == Permutations(Pulls)

SharedBase ==
  (app :> <<base, top>>) @@ (tool :> <<base>>) @@ (other :> <<own>>)

OneLayer == tool :> <<base>>

\* The shared layer has a write-protected file, the third image has a
\* write-protected directory.
Modes == (base :> "again") @@ (top :> "never") @@ (own :> "always")
Writable == base :> "never"
=============================================================================
