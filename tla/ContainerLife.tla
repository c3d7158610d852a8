---------------------------- MODULE ContainerLife ----------------------------
(***************************************************************************)
(* What one `myrun run` promises the user who started it: a container is   *)
(* held back until its set-up is complete, runs once, and the command      *)
(* returns only when it is over, with an error of the set-up only if not   *)
(* an instruction of the container ran.  If the command itself is killed   *)
(* the container is on its own, and may start without a complete set-up.   *)
(*                                                                         *)
(* ContainerRun implements this for every run.                             *)
(***************************************************************************)
CONSTANT Runs

VARIABLES
  life,    \* the container of each run
  ready,   \* its set-up is complete
  report   \* what `myrun run` has told its user so far

vars == <<life, ready, report>>

Lives   == {"absent", "held", "started", "stopped"}
Reports == {"pending", "setup error", "exit status", "killed"}

TypeOK ==
  /\ life \in [Runs -> Lives]
  /\ ready \in [Runs -> BOOLEAN]
  /\ report \in [Runs -> Reports]

Init ==
  /\ life = [r \in Runs |-> "absent"]
  /\ ready = [r \in Runs |-> FALSE]
  /\ report = [r \in Runs |-> "pending"]

Moves(r, a, b) == life[r] = a /\ life' = [life EXCEPT ![r] = b]
Says(r, a) == report[r] = "pending" /\ report' = [report EXCEPT ![r] = a]

Create(r) ==
  Moves(r, "absent", "held") /\ report[r] = "pending" /\ UNCHANGED <<ready, report>>

\* A container that was killed while it was held may be completed all the same.
Complete(r) ==
  /\ life[r] \in {"held", "stopped"} /\ report[r] = "pending"
  /\ ~ready[r] /\ ready' = [ready EXCEPT ![r] = TRUE]
  /\ UNCHANGED <<life, report>>

Start(r) ==
  /\ ready[r] \/ report[r] = "killed"
  /\ Moves(r, "held", "started")
  /\ UNCHANGED <<ready, report>>

Stop(r) ==
  /\ Moves(r, "held", "stopped") \/ Moves(r, "started", "stopped")
  /\ UNCHANGED <<ready, report>>

ReportError(r) ==
  /\ ~ready[r] /\ life[r] \in {"absent", "stopped"}
  /\ Says(r, "setup error")
  /\ UNCHANGED <<life, ready>>

ReportExit(r) ==
  /\ ready[r] /\ life[r] = "stopped"
  /\ Says(r, "exit status")
  /\ UNCHANGED <<life, ready>>

Die(r) == Says(r, "killed") /\ UNCHANGED <<life, ready>>

Next ==
  \E r \in Runs :
    \/ Create(r) \/ Complete(r) \/ Start(r) \/ Stop(r)
    \/ ReportError(r) \/ ReportExit(r) \/ Die(r)

Spec == Init /\ [][Next]_vars
=============================================================================
