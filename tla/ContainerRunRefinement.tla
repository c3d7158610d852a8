----------------------- MODULE ContainerRunRefinement -----------------------
(***************************************************************************)
(* ContainerRun implements ContainerLife: every run has the life cycle that*)
(* module promises, for any number of runs, pids and configurations.       *)
(*                                                                         *)
(* A step of one run changes the abstract state of that run only (Others). *)
(* What the abstract state is before and after each step follows from where*)
(* the parent is (Flow); the lemmas below say which abstract step that is. *)
(***************************************************************************)
EXTENDS ContainerRunProofs

\* The step leaves alone what the refinement mapping reads of other runs.
Others(r) ==
  \A q \in Runs \ {r} :
    /\ child'[q] = child[q] /\ pipe'[q] = pipe[q]
    /\ pc'[q] = pc[q] /\ failed'[q] = failed[q]

Ready(r) == pipe[r] = "released"

LEMMA OthersKeep ==
  ASSUME NEW r \in Runs, Others(r), NEW q \in Runs \ {r}
  PROVE  LifeOf(q)' = LifeOf(q) /\ Ready(q)' = Ready(q) /\ ReportOf(q)' = ReportOf(q)
BY DEF Others, LifeOf, Ready, ReportOf

\* The abstract variables change as functions when they change at r only.
LEMMA LifeSame ==
  ASSUME NEW r \in Runs, Others(r), LifeOf(r)' = LifeOf(r)
  PROVE  [q \in Runs |-> LifeOf(q)]' = [q \in Runs |-> LifeOf(q)]
BY OthersKeep

LEMMA ReadySame ==
  ASSUME NEW r \in Runs, Others(r), Ready(r)' = Ready(r)
  PROVE  [q \in Runs |-> pipe[q] = "released"]' = [q \in Runs |-> pipe[q] = "released"]
<1>1. \A q \in Runs : (pipe'[q] = "released") = (pipe[q] = "released")
  BY OthersKeep DEF Ready
<1> QED
  BY <1>1

LEMMA ReportSame ==
  ASSUME NEW r \in Runs, Others(r), ReportOf(r)' = ReportOf(r)
  PROVE  [q \in Runs |-> ReportOf(q)]' = [q \in Runs |-> ReportOf(q)]
BY OthersKeep

\* A step that changes nothing the mapping shows is a stutter.
LEMMA Stutters ==
  ASSUME NEW r \in Runs, Others(r), LifeOf(r)' = LifeOf(r),
         Ready(r)' = Ready(r), ReportOf(r)' = ReportOf(r)
  PROVE  UNCHANGED Life!vars
BY LifeSame, ReadySame, ReportSame DEF Life!vars

\* The container moves, the rest stands still.
LEMMA MovesLife ==
  ASSUME NEW r \in Runs, Others(r), NEW a, NEW b,
         LifeOf(r) = a, LifeOf(r)' = b,
         Ready(r)' = Ready(r), ReportOf(r)' = ReportOf(r)
  PROVE  /\ Life!Moves(r, a, b)
         /\ UNCHANGED <<[q \in Runs |-> pipe[q] = "released"],
                        [q \in Runs |-> ReportOf(q)]>>
<1>1. [q \in Runs |-> LifeOf(q)]' =
        [[q \in Runs |-> LifeOf(q)] EXCEPT ![r] = b]
  BY OthersKeep
<1> QED
  BY <1>1, ReadySame, ReportSame DEF Life!Moves

\* The command answers, the rest stands still.
LEMMA SaysReport ==
  ASSUME NEW r \in Runs, Others(r), NEW a,
         ReportOf(r) = "pending", ReportOf(r)' = a,
         LifeOf(r)' = LifeOf(r), Ready(r)' = Ready(r)
  PROVE  /\ Life!Says(r, a)
         /\ UNCHANGED <<[q \in Runs |-> LifeOf(q)],
                        [q \in Runs |-> pipe[q] = "released"]>>
<1>1. [q \in Runs |-> ReportOf(q)]' =
        [[q \in Runs |-> ReportOf(q)] EXCEPT ![r] = a]
  BY OthersKeep
<1> QED
  BY <1>1, LifeSame, ReadySame DEF Life!Says

Answered == {"returned", "crashed"}

\* Work of the parent that neither touches the child nor ends the command.
Silent(r) ==
  /\ Others(r) /\ child'[r] = child[r] /\ pipe'[r] = pipe[r]
  /\ pc[r] \notin Answered /\ pc'[r] \notin Answered

LEMMA SilentStutters ==
  ASSUME NEW r \in Runs, Silent(r)
  PROVE  UNCHANGED Life!vars
BY Stutters DEF Silent, Answered, LifeOf, Ready, ReportOf

\* Most of Run is silent: cgroups, network, slirp and what fails in them.
LEMMA SilentWork ==
  ASSUME TypeOK, NEW r \in Runs, Parent(r),
         ~(ResolveFails(r) \/ MountFails(r) \/ StartChild(r)
           \/ ReleaseChild(r) \/ WaitChild(r) \/ KillChild(r) \/ ReapKilled(r)
           \/ CloseAndUnmount(r) \/ RemoveScratch(r))
  PROVE  Silent(r)
<1> USE DEF TypeOK, Others, Silent, Answered, Goto, procVars, vars
<1>1. CASE ResolveRootfs(r)
  BY <1>1 DEF ResolveRootfs
<1>2. CASE MountOverlay(r)
  BY <1>2 DEF MountOverlay
<1>3. CASE StartFails(r)
  BY <1>3 DEF StartFails, Abort
<1>4. CASE MakeCgroup(r)
  BY <1>4 DEF MakeCgroup
<1>5. CASE MakeCgroupFails(r)
  BY <1>5 DEF MakeCgroupFails, Abort
<1>6. CASE WriteLimit(r)
  BY <1>6 DEF WriteLimit
<1>7. CASE WriteLimitFails(r)
  BY <1>7 DEF WriteLimitFails, Abort
<1>8. CASE AddPID(r)
  BY <1>8 DEF AddPID
<1>9. CASE AddPIDFails(r)
  BY <1>9 DEF AddPIDFails, Abort
<1>10. CASE EnsureBridge(r)
  BY <1>10 DEF EnsureBridge
<1>11. CASE EnsureBridgeFails(r)
  BY <1>11 DEF EnsureBridgeFails, Abort
<1>12. CASE AddVeth(r)
  BY <1>12 DEF AddVeth
<1>13. CASE AddVethFails(r)
  BY <1>13 DEF AddVethFails, Abort
<1>14. CASE ConfigureNetns(r)
  BY <1>14 DEF ConfigureNetns
<1>15. CASE ConfigureNetnsFails(r)
  BY <1>15 DEF ConfigureNetnsFails, Abort
<1>16. CASE InstallRule(r)
  BY <1>16 DEF InstallRule
<1>17. CASE InstallRuleFails(r)
  BY <1>17 DEF InstallRuleFails, Abort
<1>18. CASE SpawnSlirp(r)
  BY <1>18 DEF SpawnSlirp
<1>19. CASE SpawnSlirpFails(r)
  BY <1>19 DEF SpawnSlirpFails
<1>20. CASE SlirpReady(r)
  BY <1>20 DEF SlirpReady
<1>21. CASE SlirpGivesUp(r)
  BY <1>21 DEF SlirpGivesUp
<1>22. CASE CloseAfterWait(r)
  BY <1>22 DEF CloseAfterWait, AfterCgroup
<1>23. CASE TeardownNetwork(r)
  BY <1>23 DEF TeardownNetwork
<1>24. CASE TeardownSlirp(r)
  BY <1>24 DEF TeardownSlirp
<1>25. CASE KillSlirp(r)
  BY <1>25 DEF KillSlirp
<1>26. CASE ReapSlirp(r)
  BY <1>26 DEF ReapSlirp
<1>27. CASE CloseAfterKill(r)
  BY <1>27 DEF CloseAfterKill
<1> QED
  BY <1>1, <1>2, <1>3, <1>4, <1>5, <1>6, <1>7, <1>8, <1>9, <1>10, <1>11,
    <1>12, <1>13, <1>14, <1>15, <1>16, <1>17, <1>18, <1>19, <1>20, <1>21,
    <1>22, <1>23, <1>24, <1>25, <1>26, <1>27
  DEF Parent, Setup, Finish

(***************************************************************************)
(* The steps the user can tell.                                            *)
(***************************************************************************)

\* The clone is created, held on its pipe.
LEMMA CreateStep ==
  ASSUME TypeOK, Local, NEW r \in Runs, StartChild(r)
  PROVE  Life!Create(r)
<1>1. Others(r)
  BY DEF StartChild, Goto, Others, TypeOK
<1>2. /\ child[r] = "none" /\ child'[r] = "blocked"
      /\ Ready(r)' = Ready(r)
      /\ ReportOf(r) = "pending" /\ ReportOf(r)' = "pending"
  BY DEF StartChild, Goto, Local, Flow, BeforeStart, TypeOK, Ready, ReportOf
<1>3. LifeOf(r) = "absent" /\ LifeOf(r)' = "held"
  BY <1>2 DEF LifeOf
<1> QED
  BY <1>1, <1>2, <1>3, MovesLife DEF Life!Create

\* The release completes the set-up of a child that is held or was killed.
LEMMA CompleteStep ==
  ASSUME TypeOK, Local, NEW r \in Runs, ReleaseChild(r)
  PROVE  Life!Complete(r)
<1>1. Others(r)
  BY DEF ReleaseChild, Goto, Others, TypeOK
<1>2. /\ child[r] \in {"blocked", "zombie"} /\ child'[r] = child[r]
      /\ pipe[r] = "open" /\ pipe'[r] = "released"
      /\ ReportOf(r) = "pending" /\ ReportOf(r)' = "pending"
  BY DEF ReleaseChild, Goto, Local, Flow, Preparing, TypeOK, ReportOf
<1>3. LifeOf(r) \in {"held", "stopped"} /\ LifeOf(r)' = LifeOf(r)
  BY <1>2 DEF LifeOf
<1>4. \A q \in Runs \ {r} : (pipe'[q] = "released") = (pipe[q] = "released")
  BY <1>1 DEF Others
<1>5. [q \in Runs |-> pipe[q] = "released"]' =
        [[q \in Runs |-> pipe[q] = "released"] EXCEPT ![r] = TRUE]
  BY <1>2, <1>4
<1> QED
  BY <1>1, <1>2, <1>3, <1>5, LifeSame, ReportSame DEF Life!Complete

\* A child whose read returned starts: it was released, or its parent died.
LEMMA StartStep ==
  ASSUME TypeOK, Local, NEW r \in Runs, Unblock(r)
  PROVE  Life!Start(r)
<1>1. Others(r)
  BY DEF Unblock, Others, TypeOK
<1>2. /\ child[r] = "blocked" /\ child'[r] = "setup"
      /\ pipe'[r] = pipe[r] /\ pc'[r] = pc[r] /\ failed'[r] = failed[r]
  BY DEF Unblock, TypeOK
<1>3. pipe[r] = "released" \/ pc[r] = "crashed"
  BY <1>2 DEF Unblock, Local, Flow, TypeOK, PC, BeforeStart, Preparing
<1>4. LifeOf(r) = "held" /\ LifeOf(r)' = "started"
  BY <1>2 DEF LifeOf
<1>5. Ready(r)' = Ready(r) /\ ReportOf(r)' = ReportOf(r)
  BY <1>2 DEF Ready, ReportOf
<1>6. pipe[r] = "released" \/ ReportOf(r) = "killed"
  BY <1>3 DEF ReportOf
<1> QED
  BY <1>1, <1>4, <1>5, <1>6, MovesLife DEF Life!Start

\* A child that ends, by itself or killed by its parent, stops.
LEMMA StopStep ==
  ASSUME TypeOK, Local, NEW r \in Runs, ChildExits(r) \/ KillChild(r)
  PROVE  Life!Stop(r) \/ UNCHANGED Life!vars
<1>1. Others(r)
  BY DEF ChildExits, KillChild, Goto, Others, TypeOK
<1>2. child[r] \in Held /\ child'[r] = "zombie" /\ pipe'[r] = pipe[r]
  <2>1. CASE ChildExits(r)
    BY <2>1 DEF ChildExits, TypeOK, Held, Alive
  <2>2. CASE KillChild(r)
    <3>1. pc[r] = "kill"
      BY <2>2 DEF KillChild, Goto
    <3>2. child[r] \in Held
      BY <3>1 DEF Local, Flow, Preparing, TypeOK, Held, Alive
    <3> QED
      BY <2>2, <3>2 DEF KillChild, TypeOK
  <2> QED
    BY <2>1, <2>2
<1>3. ReportOf(r)' = ReportOf(r)
  <2>1. \/ pc'[r] = pc[r] /\ failed'[r] = failed[r]
        \/ pc[r] = "kill" /\ pc'[r] = "reap"
    BY DEF ChildExits, KillChild, Goto, TypeOK
  <2> QED
    BY <2>1 DEF ReportOf
<1>4. /\ LifeOf(r) \in {"held", "started", "stopped"} /\ LifeOf(r)' = "stopped"
      /\ Ready(r)' = Ready(r)
  BY <1>2 DEF LifeOf, Ready, Held, Alive
<1>5. CASE LifeOf(r) = "stopped"
  BY <1>1, <1>4, <1>5, <1>3, Stutters
<1>6. CASE LifeOf(r) \in {"held", "started"}
  BY <1>1, <1>4, <1>6, <1>3, MovesLife DEF Life!Stop
<1> QED
  BY <1>4, <1>5, <1>6

\* A wait, an exec and the work of slirp4netns show nothing.
LEMMA QuietChild ==
  ASSUME TypeOK, NEW r \in Runs,
         WaitChild(r) \/ ReapKilled(r) \/ InitReaps(r) \/ Exec(r) \/ Slirp(r)
  PROVE  UNCHANGED Life!vars
<1>1. Others(r)
  BY DEF WaitChild, ReapKilled, InitReaps, Exec, Slirp, SlirpComesUp,
         SlirpDies, Goto, Others, TypeOK, procVars
<1>2. /\ \/ child[r] = "zombie" /\ child'[r] = "reaped"
         \/ child[r] = "setup" /\ child'[r] = "running"
         \/ child'[r] = child[r]
      /\ pipe'[r] = pipe[r]
  BY DEF WaitChild, ReapKilled, InitReaps, Exec, Slirp, SlirpComesUp,
         SlirpDies, TypeOK, procVars
<1>3. ReportOf(r)' = ReportOf(r)
  BY DEF WaitChild, ReapKilled, InitReaps, Exec, Slirp, SlirpComesUp,
         SlirpDies, Goto, AfterCgroup, TypeOK, ReportOf
<1> QED
  BY <1>1, <1>2, <1>3, Stutters DEF LifeOf, Ready

\* A run that returns says what its container went through.
LEMMA ReturnStep ==
  ASSUME TypeOK, Local, NEW r \in Runs,
         ResolveFails(r) \/ MountFails(r) \/ CloseAndUnmount(r)
           \/ RemoveScratch(r)
  PROVE  Life!ReportError(r) \/ Life!ReportExit(r) \/ UNCHANGED Life!vars
<1>1. Others(r)
  <2>1. CASE ResolveFails(r) \/ MountFails(r)
    BY <2>1 DEF ResolveFails, MountFails, Abort, Goto, Others, TypeOK, procVars
  <2>2. CASE CloseAndUnmount(r) \/ RemoveScratch(r)
    BY <2>2 DEF CloseAndUnmount, RemoveScratch, Goto, Others, TypeOK, procVars
  <2> QED
    BY <2>1, <2>2
<1>2. /\ child'[r] = child[r] /\ Ready(r)' = Ready(r)
      /\ pc[r] \in {"resolve", "mount", "unmount", "rmscratch"}
      /\ pc'[r] \in {"rmscratch", "returned"}
  <2>1. CASE ResolveFails(r) \/ MountFails(r)
    BY <2>1 DEF ResolveFails, MountFails, Abort, Goto, Ready, TypeOK, procVars
  <2>2. CASE CloseAndUnmount(r) \/ RemoveScratch(r)
    BY <2>2 DEF CloseAndUnmount, RemoveScratch, Goto, Ready, TypeOK, procVars
  <2> QED
    BY <2>1, <2>2
<1>3. /\ failed'[r] => child[r] \in {"none", "reaped"} /\ ~Ready(r)
      /\ ~failed'[r] => child[r] = "reaped" /\ Ready(r)
  <2>1. CASE ResolveFails(r) \/ MountFails(r)
    BY <2>1 DEF ResolveFails, MountFails, Abort, Goto, Ready, TypeOK, Local,
                Flow, BeforeStart
  <2>2. CASE CloseAndUnmount(r) \/ RemoveScratch(r)
    BY <2>2 DEF CloseAndUnmount, RemoveScratch, Goto, Ready, TypeOK, Local, Flow
  <2> QED
    BY <2>1, <2>2
<1>4. LifeOf(r)' = LifeOf(r) /\ ReportOf(r) = "pending"
  BY <1>2 DEF LifeOf, ReportOf
<1>5. CASE pc'[r] = "rmscratch"
  BY <1>1, <1>2, <1>4, <1>5, Stutters DEF ReportOf
<1>6. CASE pc'[r] = "returned" /\ failed'[r]
  <2>1. ReportOf(r)' = "setup error"
    BY <1>6 DEF ReportOf
  <2>2. LifeOf(r) \in {"absent", "stopped"} /\ pipe[r] # "released"
    BY <1>3, <1>6 DEF LifeOf, Ready
  <2> QED
    BY <1>1, <1>2, <1>4, <2>1, <2>2, SaysReport DEF Life!ReportError
<1>7. CASE pc'[r] = "returned" /\ ~failed'[r]
  <2>1. ReportOf(r)' = "exit status"
    BY <1>7 DEF ReportOf
  <2>2. LifeOf(r) = "stopped" /\ pipe[r] = "released"
    BY <1>3, <1>7 DEF LifeOf, Ready
  <2> QED
    BY <1>1, <1>2, <1>4, <2>1, <2>2, SaysReport DEF Life!ReportExit
<1> QED
  BY <1>2, <1>5, <1>6, <1>7

\* The parent is killed before it answered.
LEMMA DieStep ==
  ASSUME TypeOK, NEW r \in Runs, Crash(r)
  PROVE  Life!Die(r)
<1>1. Others(r)
  BY DEF Crash, Others, TypeOK
<1>2. /\ child'[r] = child[r] /\ Ready(r)' = Ready(r)
      /\ pc[r] \notin Answered /\ pc'[r] = "crashed"
  BY DEF Crash, TypeOK, Ready, Answered
<1>3. /\ LifeOf(r)' = LifeOf(r)
      /\ ReportOf(r) = "pending" /\ ReportOf(r)' = "killed"
  BY <1>2 DEF LifeOf, ReportOf, Answered
<1> QED
  BY <1>1, <1>2, <1>3, SaysReport DEF Life!Die

LEMMA InitLife == Init => Life!Init
BY DEF Init, Life!Init, LifeOf, ReportOf

LEMMA StepLife ==
  ASSUME IInv, [Next]_vars
  PROVE  [Life!Next]_(Life!vars)
<1>1. TypeOK /\ Local
  BY DEF IInv
<1>2. ASSUME NEW r \in Runs, Parent(r) PROVE [Life!Next]_(Life!vars)
  <2>1. CASE ResolveFails(r) \/ MountFails(r) \/ CloseAndUnmount(r)
               \/ RemoveScratch(r)
    BY <1>1, <2>1, ReturnStep DEF Life!Next
  <2>2. CASE StartChild(r)
    BY <1>1, <2>2, CreateStep DEF Life!Next
  <2>3. CASE ReleaseChild(r)
    BY <1>1, <2>3, CompleteStep DEF Life!Next
  <2>4. CASE KillChild(r)
    BY <1>1, <2>4, StopStep DEF Life!Next
  <2>5. CASE WaitChild(r) \/ ReapKilled(r)
    BY <1>1, <2>5, QuietChild
  <2>6. CASE ~(ResolveFails(r) \/ MountFails(r) \/ StartChild(r)
               \/ ReleaseChild(r) \/ WaitChild(r) \/ KillChild(r)
               \/ ReapKilled(r) \/ CloseAndUnmount(r) \/ RemoveScratch(r))
    BY <1>1, <1>2, <2>6, SilentWork, SilentStutters
  <2> QED
    BY <2>1, <2>2, <2>3, <2>4, <2>5, <2>6
<1>3. ASSUME NEW r \in Runs, Child(r) \/ Slirp(r)
      PROVE  [Life!Next]_(Life!vars)
  <2>1. CASE Unblock(r)
    BY <1>1, <2>1, StartStep DEF Life!Next
  <2>2. CASE ChildExits(r)
    BY <1>1, <2>2, StopStep DEF Life!Next
  <2>3. CASE Exec(r) \/ InitReaps(r) \/ Slirp(r)
    BY <1>1, <2>3, QuietChild
  <2> QED
    BY <1>3, <2>1, <2>2, <2>3 DEF Child
<1>4. ASSUME NEW r \in Runs, Crash(r) PROVE [Life!Next]_(Life!vars)
  BY <1>1, <1>4, DieStep DEF Life!Next
<1>5. CASE UNCHANGED vars
  BY <1>5 DEF vars, procVars, Life!vars, LifeOf, ReportOf
<1> QED
  BY <1>2, <1>3, <1>4, <1>5 DEF Next, Quiescent

\* Every run goes through the life cycle of ContainerLife.
THEOREM Refinement == Spec => ImplementsLife
<1>1. IInv /\ [Next]_vars => [Life!Next]_(Life!vars)
  BY StepLife
<1> QED
  BY <1>1, InitLife, Invariance, PTL DEF Spec, ImplementsLife, Life!Spec
=============================================================================
