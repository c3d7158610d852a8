--------------------------- MODULE MCSeccompFilter ---------------------------
(* SeccompFilter with the allow list of amd64, decided for every number the *)
(* kernel's table uses and beyond, through three entry points.              *)
EXTENDS SeccompFilter, AllowLists

CONSTANTS x86_64, aarch64, i386

AllArchs == {x86_64, aarch64, i386}
AllNrs   == 0..450
=============================================================================
