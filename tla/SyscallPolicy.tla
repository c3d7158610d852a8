---------------------------- MODULE SyscallPolicy ----------------------------
(***************************************************************************)
(* What the default seccomp profile promises about a container process:    *)
(* once the profile is in force, a system call returns to the program if   *)
(* it is made through the native entry point and its number is on the      *)
(* allow list; any other call kills the process.                           *)
(***************************************************************************)
CONSTANTS NativeArch,  \* AUDIT_ARCH_* of the binary
          Archs,       \* entry points a process can use
          Nrs,         \* system call numbers
          Permitted    \* the numbers on the allow list

VARIABLES phase,       \* "unfiltered", "running", "deciding", "killed", "failed"
          call         \* the call the kernel is looking at

Calls == [arch : Archs, nr : Nrs]

Allowed(c) == c.arch = NativeArch /\ c.nr \in Permitted

Init == phase = "unfiltered" /\ call \in Calls

\* The profile takes effect, or the child gives up without it.
Enforce == phase = "unfiltered" /\ phase' \in {"running", "failed"}
           /\ UNCHANGED call

Issue == phase = "running" /\ phase' = "deciding" /\ call' \in Calls

Decide == /\ phase = "deciding"
          /\ phase' = IF Allowed(call) THEN "running" ELSE "killed"
          /\ UNCHANGED call

Next == Enforce \/ Issue \/ Decide

Spec == Init /\ [][Next]_<<phase, call>>
=============================================================================
