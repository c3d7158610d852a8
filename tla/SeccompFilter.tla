---------------------------- MODULE SeccompFilter ----------------------------
(***************************************************************************)
(* package seccomp: the cBPF program buildFilter emits, seccomp.Apply      *)
(* installing it on the child as the last step before execve, and the      *)
(* kernel interpreting it, one instruction per step, on every system call  *)
(* from that execve on.                                                    *)
(*                                                                         *)
(* This is a run with seccomp enabled; without it Child execs unfiltered.  *)
(* Simplifications: the process is one thread (TSYNC installs the filter   *)
(* on all of them at once); AUDIT_ARCH_* values are names.                 *)
(***************************************************************************)
EXTENDS Naturals, Sequences

CONSTANTS NativeArch,  \* archAuditCurrent()
          Archs,       \* values of seccomp_data.arch a call may carry
          Nrs,         \* values of seccomp_data.nr
          AllowList,   \* DefaultAllowList(), a sequence of numbers
          ExecveNr     \* the number of execve on this architecture

ASSUME FilterAssumption ==
  /\ NativeArch \in Archs
  /\ AllowList \in Seq(Nrs)
  /\ ExecveNr \in Nrs

VARIABLES
  phase,    \* "start", "nnp", "filtered", "running", "deciding", "killed",
            \* "failed"
  call,     \* seccomp_data of the call being decided
  ip, acc,  \* instruction pointer and accumulator of the interpreter
  execed    \* the execve at the end of Child has been let through

vars == <<phase, call, ip, acc, execed>>

(***************************************************************************)
(* The program.                                                            *)
(***************************************************************************)
Load(field)     == [op |-> "ld",  k |-> field, jt |-> 0]
JumpEq(k, skip) == [op |-> "jeq", k |-> k,     jt |-> skip]
Return(verdict) == [op |-> "ret", k |-> verdict, jt |-> 0]

Size == Len(AllowList)

\* Mutant: the distance is counted from the comparison itself.
SkipShort(i) == (Size - i - 1) % 256

\* JT is a uint8: the distance to the ALLOW at the end is truncated, so only
\* a list of at most 255 numbers is compiled correctly.
Skip(i) == (Size - i) % 256

\* Mutant: the architecture check does not jump over its KILL.
ProgramNoArchJump ==
  [x \in 0..(Size + 5) |->
     CASE x = 0 -> Load("arch")
       [] x = 1 -> JumpEq(NativeArch, 0)
       [] x \in {2, Size + 4} -> Return("kill")
       [] x = 3 -> Load("nr")
       [] x \in 4..(Size + 3) -> JumpEq(AllowList[x - 3], Skip(x - 4))
       [] x = Size + 5 -> Return("allow")]

\* buildFilter: instruction 4+i compares with the i-th allowed number.
Program ==
  [x \in 0..(Size + 5) |->
     CASE x = 0 -> Load("arch")
       [] x = 1 -> JumpEq(NativeArch, 1)
       [] x = 2 -> Return("kill")
       [] x = 3 -> Load("nr")
       [] x \in 4..(Size + 3) -> JumpEq(AllowList[x - 3], Skip(x - 4))
       [] x = Size + 4 -> Return("kill")
       [] x = Size + 5 -> Return("allow")]

\* The kernel's check of a filter (bpf_check_classic): at most 4096
\* instructions and no jump beyond the last.
Accepted ==
  /\ Size + 6 <= 4096
  /\ \A x \in DOMAIN Program : Program[x].op = "jeq" =>
       x + 1 + Program[x].jt \in DOMAIN Program

(***************************************************************************)
(* Apply and the execve that follows it.                                   *)
(***************************************************************************)
Calls == [arch : Archs, nr : Nrs]

Init ==
  /\ phase = "start"
  /\ call = [arch |-> NativeArch, nr |-> ExecveNr]
  /\ ip = 0 /\ acc = 0
  /\ execed = FALSE

SetNoNewPrivs ==
  /\ phase = "start" /\ phase' = "nnp"
  /\ UNCHANGED <<call, ip, acc, execed>>

Install ==
  /\ phase = "nnp" /\ Accepted /\ phase' = "filtered"
  /\ UNCHANGED <<call, ip, acc, execed>>

\* prctl fails, the architecture is unknown, or the kernel refuses the
\* filter: Child returns the error and never reaches execve.
ApplyFails ==
  /\ phase \in {"start", "nnp"} /\ phase' = "failed"
  /\ UNCHANGED <<call, ip, acc, execed>>

\* A call enters the kernel: the interpreter starts at instruction 0.
Enter(c) ==
  /\ phase' = "deciding" /\ call' = c
  /\ ip' = 0 /\ acc' = 0
  /\ UNCHANGED execed

\* syscall.Exec is itself subject to the filter.
CallExecve ==
  phase = "filtered" /\ Enter([arch |-> NativeArch, nr |-> ExecveNr])

\* Any call of the program that was execed.
IssueCall == phase = "running" /\ \E c \in Calls : Enter(c)

(***************************************************************************)
(* The interpreter.                                                        *)
(***************************************************************************)
DoLoad ==
  /\ phase = "deciding" /\ Program[ip].op = "ld"
  /\ acc' = IF Program[ip].k = "arch" THEN call.arch ELSE call.nr
  /\ ip' = ip + 1
  /\ UNCHANGED <<phase, call, execed>>

DoJump ==
  /\ phase = "deciding" /\ Program[ip].op = "jeq"
  /\ ip' = ip + 1 + (IF acc = Program[ip].k THEN Program[ip].jt ELSE 0)
  /\ UNCHANGED <<phase, call, acc, execed>>

DoReturn ==
  /\ phase = "deciding" /\ Program[ip].op = "ret"
  /\ phase' = IF Program[ip].k = "allow" THEN "running" ELSE "killed"
  /\ execed' = (execed \/ Program[ip].k = "allow")
  /\ UNCHANGED <<call, ip, acc>>

Interpret == DoLoad \/ DoJump \/ DoReturn

\* A process that was killed or never started makes no more calls.
Ended == phase \in {"killed", "failed"} /\ UNCHANGED vars

Next ==
  \/ SetNoNewPrivs \/ Install \/ ApplyFails \/ CallExecve \/ IssueCall
  \/ Interpret \/ Ended

Spec == Init /\ [][Next]_vars

(***************************************************************************)
(* Properties.                                                             *)
(***************************************************************************)
TypeOK ==
  /\ phase \in {"start", "nnp", "filtered", "running", "deciding", "killed",
                "failed"}
  /\ call \in Calls
  /\ ip \in 0..(Size + 5)
  /\ acc \in Archs \cup Nrs \cup {0}
  /\ execed \in BOOLEAN

Permitted == {AllowList[i] : i \in 1..Size}

\* Between the installation and the first instruction of the program the
\* policy sees a running process.
PolicyPhase ==
  CASE phase \in {"start", "nnp"} -> "unfiltered"
    [] phase = "filtered" -> "running"
    [] OTHER -> phase

Policy == INSTANCE SyscallPolicy WITH phase <- PolicyPhase

\* The emitted program decides every call as the policy does: every allowed
\* number reaches the ALLOW at the end, nothing else does, and a call through
\* another entry point is killed before its number is looked at.
ImplementsPolicy == Policy!Spec

\* The filter does not kill the child in the execve that follows Apply.
ExecveSurvives == phase = "killed" => execed
=============================================================================
