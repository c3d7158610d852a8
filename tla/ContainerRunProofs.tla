------------------------- MODULE ContainerRunProofs -------------------------
(***************************************************************************)
(* Safety of ContainerRun, for any number of runs, pids and configurations.*)
(*                                                                         *)
(* The argument: a parent holds its child's pid until it has waited for it *)
(* (Flow, PidsDistinct), so nobody else writes to myrun-<pid> meanwhile    *)
(* (Written); a group with a living process cannot be removed, so a late   *)
(* Close of an earlier run does no harm, and whoever is inside removes the *)
(* group later (EveryGroupHasCloser).                                      *)
(***************************************************************************)
EXTENDS ContainerRun, TLAPS

(***************************************************************************)
(* The inductive invariant.                                                *)
(***************************************************************************)

BeforeStart == {"resolve", "mount", "start"}

\* The parent has a child it has neither released nor killed.
Preparing == {"mkdir", "limits", "addpid", "bridge", "link", "netns",
              "publish", "slirp", "slirpwait", "release"}

\* Where the parent is, what its child can be doing and what the pipe is.
Flow(r) ==
  /\ pc[r] \in BeforeStart =>
       child[r] = "none" /\ pipe[r] = "none" /\ pid[r] = NoPid
  /\ pc[r] \in Preparing \cup {"kill"} =>
       child[r] \in {"blocked", "zombie"} /\ pipe[r] = "open"
  /\ pc[r] = "reap" => child[r] = "zombie" /\ pipe[r] = "open"
  /\ pc[r] = "wait" => child[r] \in Held /\ pipe[r] = "released"
  /\ pc[r] \in {"cgclose", "netdown", "slirpdown", "slirpreap"} =>
       child[r] = "reaped" /\ pipe[r] = "released"
  /\ pc[r] = "undo" => child[r] = "reaped" /\ pipe[r] = "open"
  /\ pc[r] \in {"unmount", "rmscratch", "returned"} =>
       /\ child[r] \in {"none", "reaped"}
       /\ failed[r] \/ pipe[r] = "released"
  /\ failed[r] => pipe[r] # "released"
  /\ pc[r] \in {"kill", "reap", "undo"} => failed[r]
  /\ slirp[r] = "starting" =>
       pc[r] = "slirpwait" \/ (pc[r] = "crashed" /\ pipe[r] = "broken")
  /\ child[r] = "none" => pipe[r] = "none"
  /\ child[r] # "none" => pid[r] \in Pids
  /\ pc[r] = "mount" => cfg[r].image
  /\ pc[r] \in {"slirp", "slirpwait"} => cfg[r].rootless
  /\ failed[r] => pc[r] \in {"kill", "reap", "undo", "unmount", "rmscratch",
                             "returned", "crashed"}

\* How far the parent's work on its own cgroup has got.
GroupFlow(r) ==
  /\ pc[r] \in {"mkdir", "limits", "addpid"} => UsesCgroup(r)
  /\ pc[r] \in BeforeStart \cup {"mkdir", "limits", "slirp", "slirpwait"} =>
       ~cg[r]
  /\ pc[r] \in BeforeStart \cup {"mkdir", "limits", "addpid"} => ~inCg[r]
  /\ pc[r] = "limits" => todo[r] # {} /\ todo[r] \subseteq cfg[r].limits
  /\ pc[r] = "addpid" => todo[r] = {} /\ cg[r]
  /\ inCg[r] => cg[r]
  /\ UsesCgroup(r) /\ pc[r] \in {"bridge", "link", "netns", "publish",
                                 "release", "wait"} => inCg[r]
  /\ UsesCgroup(r) /\ pc[r] = "crashed" /\ pipe[r] = "released"
       /\ child[r] \in Alive => inCg[r]

\* The root file system and the network of a child that lives.
Resources(r) ==
  /\ cfg[r].image /\ (pc[r] = "start" \/ child[r] \in Held) => mounted[r]
  /\ pc[r] \in BeforeStart => rules[r] = 0
  /\ pc[r] \in {"mkdir", "limits", "addpid", "bridge", "link"} =>
       rules[r] = 0 /\ ~cfg[r].rootless
  /\ pc[r] = "netns" => veth[r] /\ rules[r] = 0 /\ ~cfg[r].rootless
  /\ pc[r] = "publish" => veth[r] /\ ~cfg[r].rootless
  /\ ~cfg[r].rootless /\ (pc[r] \in {"release", "wait"} \/
        (pc[r] = "crashed" /\ pipe[r] = "released" /\ child[r] \in Alive))
       => veth[r] /\ rules[r] = AllRules(r)

Local == \A r \in Runs : Flow(r) /\ GroupFlow(r) /\ Resources(r)

\* The kernel reuses a pid only after the wait of the parent that owns it.
PidsDistinct ==
  \A r, s \in Runs :
    r # s /\ child[r] \in Held /\ child[s] \in Held => pid[r] # pid[s]

\* What r has written so far is in its group, if the group is still there;
\* once the child is inside, the kernel keeps the group.
Written(r) ==
  /\ pc[r] \in {"limits", "addpid"} /\ pid[r] \in cgDir =>
       \A l \in cfg[r].limits \ todo[r] : cgLim[pid[r]][l] = r
  /\ inCg[r] /\ child[r] \in Alive => Confined(r)

\* r will still call Close on its group, or was killed.
MustClose(r) ==
  \/ pc[r] \in {"limits", "addpid", "crashed"}
  \/ /\ cg[r]
     /\ pc[r] \in {"bridge", "link", "netns", "publish", "release", "wait",
                   "kill", "reap", "undo", "cgclose"}

EveryGroupHasCloser ==
  \A p \in cgDir : \E r \in Runs : pid[r] = p /\ MustClose(r)

\* A limit file was written by a run that asked for it and had that pid.
Writers ==
  \A p \in Pids, l \in Limits, w \in Runs :
    cgLim[p][l] = w => pid[w] = p /\ l \in cfg[w].limits

Groups == (\A r \in Runs : Written(r)) /\ EveryGroupHasCloser /\ Writers

\* What of a run's is on the host before, during and after its clean-up.
Clean(r) ==
  /\ ~cfg[r].image => ~scratch[r] /\ ~mounted[r]
  /\ pc[r] = "resolve" => ~scratch[r]
  /\ pc[r] \in {"resolve", "mount"} => ~mounted[r]
  /\ pc[r] \in BeforeStart \cup {"mkdir", "limits", "addpid", "bridge", "link"}
       => ~veth[r]
  /\ cfg[r].rootless => ~veth[r] /\ rules[r] = 0 /\ ~cg[r]
  /\ veth[r] /\ pc[r] \in {"kill", "reap", "undo", "unmount", "rmscratch",
                           "returned"} => dirty[r]
  /\ rules[r] # 0 /\ ~failed[r]
       /\ pc[r] \in {"unmount", "rmscratch", "returned"} => dirty[r]
  /\ mounted[r] /\ pc[r] \in {"rmscratch", "returned"} => dirty[r]
  /\ scratch[r] /\ pc[r] = "returned" => dirty[r]
  /\ slirp[r] # "none" =>
       /\ cfg[r].rootless
       /\ pc[r] \in {"slirpwait", "release", "wait", "slirpdown", "slirpreap",
                     "crashed"}
  /\ pc[r] \in {"slirpdown", "slirpreap"} => cfg[r].rootless
  /\ pc[r] = "netdown" => ~cfg[r].rootless
  /\ pc[r] = "rmscratch" => cfg[r].image

Cleanup == \A r \in Runs : Clean(r)

IInv == TypeOK /\ Local /\ PidsDistinct /\ Groups /\ Cleanup

\* What a Close can change: the group goes with its limits, or nothing does.
LEMMA CloseEffect ==
  ASSUME TypeOK, NEW p \in Pids, CloseCgroup(p)
  PROVE  /\ cgDir' \subseteq cgDir
         /\ cgLim' \in [Pids -> [Limits -> Runs \cup {NoRun}]]
         /\ \A q \in Pids, l \in Limits :
              cgLim'[q][l] \in {cgLim[q][l], NoRun}
<1>1. CASE p \in cgDir /\ ~Occupied(p)
  <2>1. /\ cgDir' = cgDir \ {p}
        /\ cgLim' = [cgLim EXCEPT ![p] = [l \in Limits |-> NoRun]]
    BY <1>1 DEF CloseCgroup
  <2> QED BY <2>1 DEF TypeOK
<1>2. CASE ~(p \in cgDir /\ ~Occupied(p))
  BY <1>2 DEF CloseCgroup, TypeOK
<1> QED BY <1>1, <1>2

\* Every step preserves the types: the pid a parent works with is a real one
\* from the clone on.
LEMMA TypeStep ==
  ASSUME TypeOK, Local, [Next]_vars
  PROVE  TypeOK'
<1>a. \A r \in Runs :
        pc[r] \in Preparing \cup {"cgclose", "undo"} => pid[r] \in Pids
  BY DEF TypeOK, Local, Flow, Preparing
<1> USE ConstantsAssumption, <1>a DEF TypeOK, PC, Held, Alive, Helpers, RunConfig,
      cgVars, fsVars, netVars, procVars
<1>1. ASSUME NEW r \in Runs, ResolveRootfs(r) \/ ResolveFails(r) PROVE TypeOK'
  BY <1>1 DEF ResolveRootfs, Goto, ResolveFails, Abort
<1>2. ASSUME NEW r \in Runs, MountOverlay(r) PROVE TypeOK'
  BY <1>2 DEF MountOverlay, Goto
<1>3. ASSUME NEW r \in Runs, MountFails(r) PROVE TypeOK'
  BY <1>3 DEF MountFails, Abort, Goto
<1>4. ASSUME NEW r \in Runs, StartChild(r) PROVE TypeOK'
  BY <1>4 DEF StartChild, Goto, FreePids
<1>5. ASSUME NEW r \in Runs, StartFails(r) PROVE TypeOK'
  BY <1>5 DEF StartFails, Abort, Goto
<1>6. ASSUME NEW r \in Runs, MakeCgroup(r) PROVE TypeOK'
  BY <1>6 DEF MakeCgroup, Goto, Preparing
<1>7. ASSUME NEW r \in Runs, MakeCgroupFails(r) PROVE TypeOK'
  BY <1>7 DEF MakeCgroupFails, Abort, Goto
<1>8. ASSUME NEW r \in Runs, WriteLimit(r) PROVE TypeOK'
  BY <1>8 DEF WriteLimit, Goto, Preparing
<1>9. ASSUME NEW r \in Runs, WriteLimitFails(r) PROVE TypeOK'
  <2>1. CloseCgroup(pid[r]) /\ pid[r] \in Pids
    BY <1>9 DEF WriteLimitFails, Preparing, Goto, Abort
  <2>2. /\ cgDir' \subseteq Pids
        /\ cgLim' \in [Pids -> [Limits -> Runs \cup {NoRun}]]
    BY <2>1, CloseEffect
  <2> QED
    BY <1>9, <2>2 DEF WriteLimitFails, Abort, Goto
<1>10. ASSUME NEW r \in Runs, AddPID(r) \/ AddPIDFails(r) PROVE TypeOK'
  BY <1>10 DEF AddPID, Goto, AddPIDFails, Abort
<1>11. ASSUME NEW r \in Runs,
             EnsureBridge(r) \/ EnsureBridgeFails(r) \/ AddVeth(r) \/
             AddVethFails(r)
      PROVE  TypeOK'
  BY <1>11 DEF EnsureBridge, Goto, EnsureBridgeFails, Abort, AddVeth,
    AddVethFails
<1>12. ASSUME NEW r \in Runs, ConfigureNetns(r) PROVE TypeOK'
  BY <1>12 DEF ConfigureNetns, Goto
<1>13. ASSUME NEW r \in Runs, ConfigureNetnsFails(r) PROVE TypeOK'
  <2>1. veth' \in [Runs -> BOOLEAN] /\ dirty' \in [Runs -> BOOLEAN]
    BY <1>13 DEF ConfigureNetnsFails, DropVeth
  <2> QED
    BY <1>13, <2>1 DEF ConfigureNetnsFails, Abort, Goto
<1>14. ASSUME NEW r \in Runs, InstallRule(r) PROVE TypeOK'
  BY <1>14 DEF InstallRule, Goto
<1>15. ASSUME NEW r \in Runs, InstallRuleFails(r) PROVE TypeOK'
  <2>1. veth' \in [Runs -> BOOLEAN] /\ dirty' \in [Runs -> BOOLEAN]
    BY <1>15 DEF InstallRuleFails, DropVeth
  <2> QED
    BY <1>15, <2>1 DEF InstallRuleFails, Abort, Goto
<1>16. ASSUME NEW r \in Runs, SpawnSlirp(r) \/ SpawnSlirpFails(r)
      PROVE  TypeOK'
  BY <1>16 DEF SpawnSlirp, Goto, SpawnSlirpFails
<1>17. ASSUME NEW r \in Runs, SlirpReady(r) \/ SlirpGivesUp(r) PROVE TypeOK'
  BY <1>17 DEF SlirpReady, SlirpGivesUp, Goto
<1>18. ASSUME NEW r \in Runs, ReleaseChild(r) PROVE TypeOK'
  BY <1>18 DEF ReleaseChild, Goto
<1>19. ASSUME NEW r \in Runs, WaitChild(r) PROVE TypeOK'
  BY <1>19 DEF WaitChild, Goto, AfterCgroup
<1>20. ASSUME NEW r \in Runs, CloseAfterWait(r) PROVE TypeOK'
  <2>1. CloseCgroup(pid[r]) /\ pid[r] \in Pids
    BY <1>20 DEF CloseAfterWait, Preparing, Goto, Abort
  <2>2. /\ cgDir' \subseteq Pids
        /\ cgLim' \in [Pids -> [Limits -> Runs \cup {NoRun}]]
    BY <2>1, CloseEffect
  <2> QED
    BY <1>20, <2>2 DEF CloseAfterWait, Goto, AfterCgroup
<1>21. ASSUME NEW r \in Runs, TeardownNetwork(r) PROVE TypeOK'
  <2>1. PICK left \in 0..rules[r], link \in BOOLEAN :
          /\ rules' = [rules EXCEPT ![r] = left]
          /\ veth' = [veth EXCEPT ![r] = link]
          /\ dirty' = [dirty EXCEPT ![r] = @ \/ left > 0 \/ link]
    BY <1>21 DEF TeardownNetwork
  <2>2. rules' \in [Runs -> Nat] /\ veth' \in [Runs -> BOOLEAN]
    BY <2>1
  <2>3. dirty' \in [Runs -> BOOLEAN]
    BY <2>1
  <2>4. Goto(r, "netdown", "unmount")
        /\ UNCHANGED <<cfg, failed, procVars, cgVars, fsVars, slirp>>
    BY <1>21 DEF TeardownNetwork
  <2> QED
    BY <2>2, <2>3, <2>4 DEF Goto
<1>22. ASSUME NEW r \in Runs, TeardownSlirp(r) \/ KillSlirp(r) \/ ReapSlirp(r)
      PROVE  TypeOK'
  BY <1>22 DEF TeardownSlirp, KillSlirp, ReapSlirp, Goto
<1>23. ASSUME NEW r \in Runs, KillChild(r) PROVE TypeOK'
  BY <1>23 DEF KillChild, Goto
<1>24. ASSUME NEW r \in Runs, ReapKilled(r) PROVE TypeOK'
  BY <1>24 DEF ReapKilled, Goto
<1>25. ASSUME NEW r \in Runs, CloseAfterKill(r) PROVE TypeOK'
  <2>1. CloseCgroup(pid[r]) /\ pid[r] \in Pids
    BY <1>25 DEF CloseAfterKill, Preparing, Goto, Abort
  <2>2. /\ cgDir' \subseteq Pids
        /\ cgLim' \in [Pids -> [Limits -> Runs \cup {NoRun}]]
    BY <2>1, CloseEffect
  <2> QED
    BY <1>25, <2>2 DEF CloseAfterKill, Goto
<1>26. ASSUME NEW r \in Runs, CloseAndUnmount(r) PROVE TypeOK'
  <2>a. PICK left \in {FALSE, mounted[r]} :
          /\ mounted' = [mounted EXCEPT ![r] = left]
          /\ dirty' = [dirty EXCEPT ![r] = @ \/ left]
    BY <1>26 DEF CloseAndUnmount
  <2>b. left \in BOOLEAN
    OBVIOUS
  <2>1. mounted' \in [Runs -> BOOLEAN] /\ dirty' \in [Runs -> BOOLEAN]
    BY <2>a, <2>b
  <2>2. pipe' \in [Runs -> {"none", "open", "released", "broken"}]
    BY <1>26 DEF CloseAndUnmount
  <2>3. pc' \in [Runs -> PC]
        /\ UNCHANGED <<cfg, failed, pid, child, cgVars, scratch, netVars>>
    BY <1>26 DEF CloseAndUnmount, Goto
  <2> QED
    BY <2>1, <2>2, <2>3
<1>27. ASSUME NEW r \in Runs, RemoveScratch(r) PROVE TypeOK'
  <2>a. PICK left \in {TRUE, mounted[r]} :
          /\ scratch' = [scratch EXCEPT ![r] = left]
          /\ dirty' = [dirty EXCEPT ![r] = @ \/ left]
    BY <1>27 DEF RemoveScratch
  <2>b. left \in BOOLEAN
    OBVIOUS
  <2>1. scratch' \in [Runs -> BOOLEAN] /\ dirty' \in [Runs -> BOOLEAN]
    BY <2>a, <2>b
  <2>2. Goto(r, "rmscratch", "returned")
        /\ UNCHANGED <<cfg, failed, procVars, cgVars, mounted, netVars>>
    BY <1>27 DEF RemoveScratch
  <2> QED
    BY <2>1, <2>2 DEF Goto
<1>28. ASSUME NEW r \in Runs, Crash(r) PROVE TypeOK'
  BY <1>28 DEF Crash
<1>29. ASSUME NEW r \in Runs,
             Unblock(r) \/ Exec(r) \/ ChildExits(r) \/ InitReaps(r) \/ Slirp(r)
      PROVE  TypeOK'
  <2>1. CASE Slirp(r)
    BY <2>1 DEF Slirp, SlirpComesUp, SlirpDies
  <2>2. CASE ~Slirp(r)
    BY <1>29, <2>2 DEF Unblock, Exec, ChildExits, InitReaps
  <2> QED
    BY <2>1, <2>2
<1>30. CASE UNCHANGED vars
  BY <1>30 DEF vars
<1> QED
  BY <1>1, <1>2, <1>3, <1>4, <1>5, <1>6, <1>7, <1>8, <1>9, <1>10,
    <1>11, <1>12, <1>13, <1>14, <1>15, <1>16, <1>17, <1>18, <1>19, <1>20,
    <1>21, <1>22, <1>23, <1>24, <1>25, <1>26, <1>27, <1>28, <1>29, <1>30
  DEF Next, Parent, Setup, Finish, Child, Quiescent

\* Control: the child moves only when the pipe says so, the parent's return
\* paths have reaped it.
LEMMA FlowStep ==
  ASSUME TypeOK, Local, [Next]_vars
  PROVE  \A q \in Runs : Flow(q)'
<1> USE ConstantsAssumption DEF TypeOK, Held, Alive, RunConfig,
      Local, Flow, GroupFlow, Preparing, BeforeStart, UsesCgroup,
      cgVars, fsVars, netVars, procVars
<1>1. ASSUME NEW r \in Runs, ResolveRootfs(r) \/ ResolveFails(r)
      PROVE  \A q \in Runs : Flow(q)'
  BY <1>1 DEF ResolveRootfs, Goto, ResolveFails, Abort
<1>2. ASSUME NEW r \in Runs, MountOverlay(r) PROVE \A q \in Runs : Flow(q)'
  BY <1>2 DEF MountOverlay, Goto
<1>3. ASSUME NEW r \in Runs, MountFails(r) PROVE \A q \in Runs : Flow(q)'
  BY <1>3 DEF MountFails, Abort, Goto
<1>4. ASSUME NEW r \in Runs, StartChild(r) PROVE \A q \in Runs : Flow(q)'
  BY <1>4 DEF StartChild, Goto, FreePids
<1>5. ASSUME NEW r \in Runs, StartFails(r) PROVE \A q \in Runs : Flow(q)'
  BY <1>5 DEF StartFails, Abort, Goto
<1>6. ASSUME NEW r \in Runs, MakeCgroup(r) PROVE \A q \in Runs : Flow(q)'
  BY <1>6 DEF MakeCgroup, Goto
<1>7. ASSUME NEW r \in Runs, MakeCgroupFails(r) PROVE \A q \in Runs : Flow(q)'
  BY <1>7 DEF MakeCgroupFails, Abort, Goto
<1>8. ASSUME NEW r \in Runs, WriteLimit(r) PROVE \A q \in Runs : Flow(q)'
  BY <1>8 DEF WriteLimit, Goto
<1>9. ASSUME NEW r \in Runs, WriteLimitFails(r) PROVE \A q \in Runs : Flow(q)'
  BY <1>9 DEF WriteLimitFails, Abort, Goto, CloseCgroup
<1>10. ASSUME NEW r \in Runs, AddPID(r) \/ AddPIDFails(r)
      PROVE  \A q \in Runs : Flow(q)'
  BY <1>10 DEF AddPID, Goto, AddPIDFails, Abort
<1>11. ASSUME NEW r \in Runs,
             EnsureBridge(r) \/ EnsureBridgeFails(r) \/ AddVeth(r) \/
             AddVethFails(r)
      PROVE  \A q \in Runs : Flow(q)'
  BY <1>11 DEF EnsureBridge, Goto, EnsureBridgeFails, Abort, AddVeth,
    AddVethFails
<1>12. ASSUME NEW r \in Runs, ConfigureNetns(r) PROVE \A q \in Runs : Flow(q)'
  BY <1>12 DEF ConfigureNetns, Goto
<1>13. ASSUME NEW r \in Runs, ConfigureNetnsFails(r)
      PROVE  \A q \in Runs : Flow(q)'
  BY <1>13 DEF ConfigureNetnsFails, Abort, Goto, DropVeth
<1>14. ASSUME NEW r \in Runs, InstallRule(r) PROVE \A q \in Runs : Flow(q)'
  BY <1>14 DEF InstallRule, Goto
<1>15. ASSUME NEW r \in Runs, InstallRuleFails(r)
      PROVE  \A q \in Runs : Flow(q)'
  BY <1>15 DEF InstallRuleFails, Abort, Goto, DropVeth
<1>16. ASSUME NEW r \in Runs, SpawnSlirp(r) \/ SpawnSlirpFails(r)
      PROVE  \A q \in Runs : Flow(q)'
  <2>1. CASE SpawnSlirp(r)
    BY <2>1 DEF SpawnSlirp, Goto
  <2>2. CASE SpawnSlirpFails(r)
    BY <2>2 DEF SpawnSlirpFails, Goto
  <2> QED
    BY <1>16, <2>1, <2>2
<1>17. ASSUME NEW r \in Runs, SlirpReady(r) \/ SlirpGivesUp(r)
      PROVE  \A q \in Runs : Flow(q)'
  BY <1>17 DEF SlirpReady, SlirpGivesUp, Goto
<1>18. ASSUME NEW r \in Runs, ReleaseChild(r) PROVE \A q \in Runs : Flow(q)'
  BY <1>18 DEF ReleaseChild, Goto
<1>19. ASSUME NEW r \in Runs, WaitChild(r) PROVE \A q \in Runs : Flow(q)'
  BY <1>19 DEF WaitChild, Goto, AfterCgroup
<1>20. ASSUME NEW r \in Runs, CloseAfterWait(r) PROVE \A q \in Runs : Flow(q)'
  BY <1>20 DEF CloseAfterWait, Goto, CloseCgroup, AfterCgroup
<1>21. ASSUME NEW r \in Runs, TeardownNetwork(r)
      PROVE  \A q \in Runs : Flow(q)'
  <2>1. Goto(r, "netdown", "unmount")
        /\ UNCHANGED <<cfg, failed, procVars, cgVars, fsVars, slirp>>
    BY <1>21 DEF TeardownNetwork
  <2> QED
    BY <2>1 DEF Goto
<1>22. ASSUME NEW r \in Runs, TeardownSlirp(r) \/ KillSlirp(r) \/ ReapSlirp(r)
      PROVE  \A q \in Runs : Flow(q)'
  BY <1>22 DEF TeardownSlirp, KillSlirp, ReapSlirp, Goto
<1>23. ASSUME NEW r \in Runs, KillChild(r) PROVE \A q \in Runs : Flow(q)'
  BY <1>23 DEF KillChild, Goto
<1>24. ASSUME NEW r \in Runs, ReapKilled(r) PROVE \A q \in Runs : Flow(q)'
  BY <1>24 DEF ReapKilled, Goto
<1>25. ASSUME NEW r \in Runs, CloseAfterKill(r) PROVE \A q \in Runs : Flow(q)'
  BY <1>25 DEF CloseAfterKill, Goto, CloseCgroup
<1>26. ASSUME NEW r \in Runs, CloseAndUnmount(r)
      PROVE  \A q \in Runs : Flow(q)'
  BY <1>26 DEF CloseAndUnmount, Goto
<1>27. ASSUME NEW r \in Runs, RemoveScratch(r) PROVE \A q \in Runs : Flow(q)'
  BY <1>27 DEF RemoveScratch, Goto
<1>28. ASSUME NEW r \in Runs, Crash(r) PROVE \A q \in Runs : Flow(q)'
  BY <1>28 DEF Crash
<1>29. ASSUME NEW r \in Runs,
             Unblock(r) \/ Exec(r) \/ ChildExits(r) \/ InitReaps(r) \/ Slirp(r)
      PROVE  \A q \in Runs : Flow(q)'
  BY <1>29 DEF Unblock, Exec, ChildExits, InitReaps, Slirp, SlirpComesUp,
    SlirpDies
<1>30. CASE UNCHANGED vars
  BY <1>30 DEF vars
<1> QED
  BY <1>1, <1>2, <1>3, <1>4, <1>5, <1>6, <1>7, <1>8, <1>9, <1>10,
    <1>11, <1>12, <1>13, <1>14, <1>15, <1>16, <1>17, <1>18, <1>19, <1>20,
    <1>21, <1>22, <1>23, <1>24, <1>25, <1>26, <1>27, <1>28, <1>29, <1>30
  DEF Next, Parent, Setup, Finish, Child, Quiescent

\* Control of the cgroup calls of one run.
LEMMA GroupFlowStep ==
  ASSUME TypeOK, Local, [Next]_vars
  PROVE  \A q \in Runs : GroupFlow(q)'
<1> USE ConstantsAssumption DEF TypeOK, Held, Alive, RunConfig,
      Local, Flow, GroupFlow, Preparing, BeforeStart, UsesCgroup,
      cgVars, fsVars, netVars, procVars
<1>1. ASSUME NEW r \in Runs, ResolveRootfs(r) \/ ResolveFails(r)
      PROVE  \A q \in Runs : GroupFlow(q)'
  BY <1>1 DEF ResolveRootfs, Goto, ResolveFails, Abort
<1>2. ASSUME NEW r \in Runs, MountOverlay(r)
      PROVE  \A q \in Runs : GroupFlow(q)'
  BY <1>2 DEF MountOverlay, Goto
<1>3. ASSUME NEW r \in Runs, MountFails(r) PROVE \A q \in Runs : GroupFlow(q)'
  BY <1>3 DEF MountFails, Abort, Goto
<1>4. ASSUME NEW r \in Runs, StartChild(r) PROVE \A q \in Runs : GroupFlow(q)'
  BY <1>4 DEF StartChild, Goto, FreePids
<1>5. ASSUME NEW r \in Runs, StartFails(r) PROVE \A q \in Runs : GroupFlow(q)'
  BY <1>5 DEF StartFails, Abort, Goto
<1>6. ASSUME NEW r \in Runs, MakeCgroup(r) PROVE \A q \in Runs : GroupFlow(q)'
  BY <1>6 DEF MakeCgroup, Goto
<1>7. ASSUME NEW r \in Runs, MakeCgroupFails(r)
      PROVE  \A q \in Runs : GroupFlow(q)'
  BY <1>7 DEF MakeCgroupFails, Abort, Goto
<1>8. ASSUME NEW r \in Runs, WriteLimit(r) PROVE \A q \in Runs : GroupFlow(q)'
  <2>1. PICK l \in todo[r] :
          /\ Goto(r, "limits", IF todo[r] = {l} THEN "addpid" ELSE "limits")
          /\ todo' = [todo EXCEPT ![r] = @ \ {l}]
          /\ cg' = [cg EXCEPT ![r] = (todo[r] = {l})]
          /\ UNCHANGED <<cfg, procVars, inCg>>
    BY <1>8 DEF WriteLimit
  <2>2. ASSUME NEW q \in Runs, q # r PROVE GroupFlow(q)'
    BY <2>1, <2>2 DEF Goto
  <2>3. CASE todo[r] = {l}
    <3>a. cg'[r] = TRUE
      BY <2>1, <2>3
    <3>b. pc'[r] = "addpid" /\ ~inCg'[r]
      BY <2>1, <2>3 DEF Goto
    <3>c. todo'[r] = {}
      BY <2>1, <2>3
    <3>1. pc'[r] = "addpid" /\ todo'[r] = {} /\ cg'[r] /\ ~inCg'[r]
      BY <3>a, <3>b, <3>c
    <3>2. UsesCgroup(r)'
      BY <2>1 DEF Goto
    <3>3. GroupFlow(r)'
      BY <3>1, <3>2
    <3> QED
      BY <2>2, <3>3
  <2>4. CASE todo[r] # {l}
    BY <2>1, <2>2, <2>4 DEF Goto
  <2> QED
    BY <2>3, <2>4
<1>9. ASSUME NEW r \in Runs, WriteLimitFails(r)
      PROVE  \A q \in Runs : GroupFlow(q)'
  BY <1>9 DEF WriteLimitFails, Abort, Goto, CloseCgroup
<1>10. ASSUME NEW r \in Runs, AddPID(r) \/ AddPIDFails(r)
      PROVE  \A q \in Runs : GroupFlow(q)'
  BY <1>10 DEF AddPID, Goto, AddPIDFails, Abort
<1>11. ASSUME NEW r \in Runs,
             EnsureBridge(r) \/ EnsureBridgeFails(r) \/ AddVeth(r) \/
             AddVethFails(r)
      PROVE  \A q \in Runs : GroupFlow(q)'
  BY <1>11 DEF EnsureBridge, Goto, EnsureBridgeFails, Abort, AddVeth,
    AddVethFails
<1>12. ASSUME NEW r \in Runs, ConfigureNetns(r)
      PROVE  \A q \in Runs : GroupFlow(q)'
  BY <1>12 DEF ConfigureNetns, Goto
<1>13. ASSUME NEW r \in Runs, ConfigureNetnsFails(r)
      PROVE  \A q \in Runs : GroupFlow(q)'
  BY <1>13 DEF ConfigureNetnsFails, Abort, Goto, DropVeth
<1>14. ASSUME NEW r \in Runs, InstallRule(r)
      PROVE  \A q \in Runs : GroupFlow(q)'
  BY <1>14 DEF InstallRule, Goto
<1>15. ASSUME NEW r \in Runs, InstallRuleFails(r)
      PROVE  \A q \in Runs : GroupFlow(q)'
  BY <1>15 DEF InstallRuleFails, Abort, Goto, DropVeth
<1>16. ASSUME NEW r \in Runs, SpawnSlirp(r) \/ SpawnSlirpFails(r)
      PROVE  \A q \in Runs : GroupFlow(q)'
  BY <1>16 DEF SpawnSlirp, Goto, SpawnSlirpFails
<1>17. ASSUME NEW r \in Runs, SlirpReady(r) \/ SlirpGivesUp(r)
      PROVE  \A q \in Runs : GroupFlow(q)'
  <2>1. CASE SlirpReady(r)
    BY <2>1 DEF SlirpReady, Goto
  <2>2. CASE SlirpGivesUp(r)
    BY <2>2 DEF SlirpGivesUp, Goto
  <2> QED
    BY <1>17, <2>1, <2>2
<1>18. ASSUME NEW r \in Runs, ReleaseChild(r)
      PROVE  \A q \in Runs : GroupFlow(q)'
  BY <1>18 DEF ReleaseChild, Goto
<1>19. ASSUME NEW r \in Runs, WaitChild(r) PROVE \A q \in Runs : GroupFlow(q)'
  BY <1>19 DEF WaitChild, Goto, AfterCgroup
<1>20. ASSUME NEW r \in Runs, CloseAfterWait(r)
      PROVE  \A q \in Runs : GroupFlow(q)'
  BY <1>20 DEF CloseAfterWait, Goto, CloseCgroup, AfterCgroup
<1>21. ASSUME NEW r \in Runs, TeardownNetwork(r)
      PROVE  \A q \in Runs : GroupFlow(q)'
  <2>1. Goto(r, "netdown", "unmount")
        /\ UNCHANGED <<cfg, failed, procVars, cgVars, fsVars>>
    BY <1>21 DEF TeardownNetwork
  <2> QED
    BY <2>1 DEF Goto
<1>22. ASSUME NEW r \in Runs, TeardownSlirp(r) \/ KillSlirp(r) \/ ReapSlirp(r)
      PROVE  \A q \in Runs : GroupFlow(q)'
  BY <1>22 DEF TeardownSlirp, KillSlirp, ReapSlirp, Goto
<1>23. ASSUME NEW r \in Runs, KillChild(r) PROVE \A q \in Runs : GroupFlow(q)'
  BY <1>23 DEF KillChild, Goto
<1>24. ASSUME NEW r \in Runs, ReapKilled(r)
      PROVE  \A q \in Runs : GroupFlow(q)'
  BY <1>24 DEF ReapKilled, Goto
<1>25. ASSUME NEW r \in Runs, CloseAfterKill(r)
      PROVE  \A q \in Runs : GroupFlow(q)'
  BY <1>25 DEF CloseAfterKill, Goto, CloseCgroup
<1>26. ASSUME NEW r \in Runs, CloseAndUnmount(r)
      PROVE  \A q \in Runs : GroupFlow(q)'
  BY <1>26 DEF CloseAndUnmount, Goto
<1>27. ASSUME NEW r \in Runs, RemoveScratch(r)
      PROVE  \A q \in Runs : GroupFlow(q)'
  BY <1>27 DEF RemoveScratch, Goto
<1>28. ASSUME NEW r \in Runs, Crash(r) PROVE \A q \in Runs : GroupFlow(q)'
  <2>1. ASSUME NEW q \in Runs, q # r PROVE GroupFlow(q)'
    BY <1>28, <2>1 DEF Crash
  <2>2. /\ pc'[r] = "crashed" /\ pc[r] # "crashed"
        /\ pipe'[r] = "released" => pipe[r] = "released"
        /\ UNCHANGED <<cfg, child, cg, inCg>>
    BY <1>28 DEF Crash
  <2>3. pipe[r] = "released" /\ child[r] \in Alive => pc[r] = "wait"
    BY <2>2 DEF PC
  <2>4. GroupFlow(r)'
    BY <2>2, <2>3
  <2> QED
    BY <2>1, <2>4
<1>29. ASSUME NEW r \in Runs,
             Unblock(r) \/ Exec(r) \/ ChildExits(r) \/ InitReaps(r) \/ Slirp(r)
      PROVE  \A q \in Runs : GroupFlow(q)'
  BY <1>29 DEF Unblock, Exec, ChildExits, InitReaps, Slirp, SlirpComesUp,
    SlirpDies
<1>30. CASE UNCHANGED vars
  BY <1>30 DEF vars
<1> QED
  BY <1>1, <1>2, <1>3, <1>4, <1>5, <1>6, <1>7, <1>8, <1>9, <1>10,
    <1>11, <1>12, <1>13, <1>14, <1>15, <1>16, <1>17, <1>18, <1>19, <1>20,
    <1>21, <1>22, <1>23, <1>24, <1>25, <1>26, <1>27, <1>28, <1>29, <1>30
  DEF Next, Parent, Setup, Finish, Child, Quiescent

\* The resources of a living child: mounted before the clone, unmounted
\* after the wait; linked and published before the release.
LEMMA ResourcesStep ==
  ASSUME TypeOK, Local, [Next]_vars
  PROVE  \A q \in Runs : Resources(q)'
<1> USE ConstantsAssumption DEF TypeOK, Held, Alive, RunConfig,
      Local, Flow, Resources, Preparing, BeforeStart, AllRules, UsesCgroup,
      cgVars, fsVars, netVars, procVars
<1>1. ASSUME NEW r \in Runs, ResolveRootfs(r) \/ ResolveFails(r)
      PROVE  \A q \in Runs : Resources(q)'
  BY <1>1 DEF ResolveRootfs, Goto, ResolveFails, Abort
<1>2. ASSUME NEW r \in Runs, MountOverlay(r)
      PROVE  \A q \in Runs : Resources(q)'
  BY <1>2 DEF MountOverlay, Goto
<1>3. ASSUME NEW r \in Runs, MountFails(r) PROVE \A q \in Runs : Resources(q)'
  BY <1>3 DEF MountFails, Abort, Goto
<1>4. ASSUME NEW r \in Runs, StartChild(r) PROVE \A q \in Runs : Resources(q)'
  <2>1. ASSUME NEW q \in Runs, q # r PROVE Resources(q)'
    BY <1>4, <2>1 DEF StartChild, Goto
  <2>2. /\ pc[r] = "start" /\ child[r] = "none" /\ pipe'[r] = "open"
        /\ pc'[r] \in {"slirp", "mkdir", "bridge"}
        /\ pc'[r] # "slirp" => ~cfg[r].rootless
        /\ cfg[r].image => mounted[r]
        /\ UNCHANGED <<cfg, mounted, veth, rules>>
    BY <1>4 DEF StartChild, Goto
  <2>3. Resources(r)'
    BY <2>2
  <2> QED
    BY <2>1, <2>3
<1>5. ASSUME NEW r \in Runs, StartFails(r) PROVE \A q \in Runs : Resources(q)'
  BY <1>5 DEF StartFails, Abort, Goto
<1>6. ASSUME NEW r \in Runs, MakeCgroup(r) PROVE \A q \in Runs : Resources(q)'
  BY <1>6 DEF MakeCgroup, Goto
<1>7. ASSUME NEW r \in Runs, MakeCgroupFails(r)
      PROVE  \A q \in Runs : Resources(q)'
  BY <1>7 DEF MakeCgroupFails, Abort, Goto
<1>8. ASSUME NEW r \in Runs, WriteLimit(r) PROVE \A q \in Runs : Resources(q)'
  BY <1>8 DEF WriteLimit, Goto
<1>9. ASSUME NEW r \in Runs, WriteLimitFails(r)
      PROVE  \A q \in Runs : Resources(q)'
  BY <1>9 DEF WriteLimitFails, Abort, Goto, CloseCgroup
<1>10. ASSUME NEW r \in Runs, AddPID(r) \/ AddPIDFails(r)
      PROVE  \A q \in Runs : Resources(q)'
  BY <1>10 DEF AddPID, Goto, AddPIDFails, Abort
<1>11. ASSUME NEW r \in Runs,
             EnsureBridge(r) \/ EnsureBridgeFails(r) \/ AddVeth(r) \/
             AddVethFails(r)
      PROVE  \A q \in Runs : Resources(q)'
  BY <1>11 DEF EnsureBridge, Goto, EnsureBridgeFails, Abort, AddVeth,
    AddVethFails
<1>12. ASSUME NEW r \in Runs, ConfigureNetns(r)
      PROVE  \A q \in Runs : Resources(q)'
  BY <1>12 DEF ConfigureNetns, Goto
<1>13. ASSUME NEW r \in Runs, ConfigureNetnsFails(r)
      PROVE  \A q \in Runs : Resources(q)'
  BY <1>13 DEF ConfigureNetnsFails, Abort, Goto, DropVeth
<1>14. ASSUME NEW r \in Runs, InstallRule(r)
      PROVE  \A q \in Runs : Resources(q)'
  BY <1>14 DEF InstallRule, Goto
<1>15. ASSUME NEW r \in Runs, InstallRuleFails(r)
      PROVE  \A q \in Runs : Resources(q)'
  BY <1>15 DEF InstallRuleFails, Abort, Goto, DropVeth
<1>16. ASSUME NEW r \in Runs, SpawnSlirp(r) \/ SpawnSlirpFails(r)
      PROVE  \A q \in Runs : Resources(q)'
  BY <1>16 DEF SpawnSlirp, Goto, SpawnSlirpFails
<1>17. ASSUME NEW r \in Runs, SlirpReady(r) \/ SlirpGivesUp(r)
      PROVE  \A q \in Runs : Resources(q)'
  BY <1>17 DEF SlirpReady, SlirpGivesUp, Goto
<1>18. ASSUME NEW r \in Runs, ReleaseChild(r)
      PROVE  \A q \in Runs : Resources(q)'
  BY <1>18 DEF ReleaseChild, Goto
<1>19. ASSUME NEW r \in Runs, WaitChild(r) PROVE \A q \in Runs : Resources(q)'
  BY <1>19 DEF WaitChild, Goto, AfterCgroup
<1>20. ASSUME NEW r \in Runs, CloseAfterWait(r)
      PROVE  \A q \in Runs : Resources(q)'
  BY <1>20 DEF CloseAfterWait, Goto, CloseCgroup, AfterCgroup
<1>21. ASSUME NEW r \in Runs, TeardownNetwork(r)
      PROVE  \A q \in Runs : Resources(q)'
  BY <1>21 DEF TeardownNetwork, Goto
<1>22. ASSUME NEW r \in Runs, TeardownSlirp(r) \/ KillSlirp(r) \/ ReapSlirp(r)
      PROVE  \A q \in Runs : Resources(q)'
  BY <1>22 DEF TeardownSlirp, KillSlirp, ReapSlirp, Goto
<1>23. ASSUME NEW r \in Runs, KillChild(r) PROVE \A q \in Runs : Resources(q)'
  BY <1>23 DEF KillChild, Goto
<1>24. ASSUME NEW r \in Runs, ReapKilled(r)
      PROVE  \A q \in Runs : Resources(q)'
  BY <1>24 DEF ReapKilled, Goto
<1>25. ASSUME NEW r \in Runs, CloseAfterKill(r)
      PROVE  \A q \in Runs : Resources(q)'
  BY <1>25 DEF CloseAfterKill, Goto, CloseCgroup
<1>26. ASSUME NEW r \in Runs, CloseAndUnmount(r)
      PROVE  \A q \in Runs : Resources(q)'
  <2>1. /\ Goto(r, "unmount", IF cfg[r].image THEN "rmscratch" ELSE "returned")
        /\ \A q \in Runs \ {r} : mounted'[q] = mounted[q] /\ pipe'[q] = pipe[q]
        /\ UNCHANGED <<cfg, child, veth, rules>>
    BY <1>26 DEF CloseAndUnmount
  <2>2. ASSUME NEW q \in Runs, q # r PROVE Resources(q)'
    BY <2>1, <2>2 DEF Goto
  <2>3. Resources(r)'
    BY <2>1 DEF Goto
  <2> QED
    BY <2>2, <2>3
<1>27. ASSUME NEW r \in Runs, RemoveScratch(r)
      PROVE  \A q \in Runs : Resources(q)'
  BY <1>27 DEF RemoveScratch, Goto
<1>28. ASSUME NEW r \in Runs, Crash(r) PROVE \A q \in Runs : Resources(q)'
  <2>1. ASSUME NEW q \in Runs, q # r PROVE Resources(q)'
    BY <1>28, <2>1 DEF Crash
  <2>2. /\ pc'[r] = "crashed"
        /\ pipe'[r] = "released" => pipe[r] = "released"
        /\ UNCHANGED <<cfg, child, veth, rules, mounted>>
    BY <1>28 DEF Crash
  <2>3. /\ pipe[r] = "released" /\ child[r] \in Alive => pc[r] = "wait"
        /\ pc[r] # "crashed"
    BY <1>28 DEF Crash, PC
  <2>4. Resources(r)'
    BY <2>2, <2>3
  <2> QED
    BY <2>1, <2>4
<1>29. ASSUME NEW r \in Runs,
             Unblock(r) \/ Exec(r) \/ ChildExits(r) \/ InitReaps(r) \/ Slirp(r)
      PROVE  \A q \in Runs : Resources(q)'
  BY <1>29 DEF Unblock, Exec, ChildExits, InitReaps, Slirp, SlirpComesUp,
    SlirpDies
<1>30. CASE UNCHANGED vars
  BY <1>30 DEF vars
<1> QED
  BY <1>1, <1>2, <1>3, <1>4, <1>5, <1>6, <1>7, <1>8, <1>9, <1>10,
    <1>11, <1>12, <1>13, <1>14, <1>15, <1>16, <1>17, <1>18, <1>19, <1>20,
    <1>21, <1>22, <1>23, <1>24, <1>25, <1>26, <1>27, <1>28, <1>29, <1>30
  DEF Next, Parent, Setup, Finish, Child, Quiescent

\* The kernel gives out free pids, and a pid is held until the wait.
LEMMA PidsDistinctStep ==
  ASSUME TypeOK, Local, PidsDistinct, [Next]_vars
  PROVE  PidsDistinct'
<1> USE ConstantsAssumption DEF TypeOK, Held, Alive,
      Local, Flow, PidsDistinct, Preparing, BeforeStart,
      cgVars, fsVars, netVars, procVars
<1>1. ASSUME NEW r \in Runs, ResolveRootfs(r) \/ ResolveFails(r)
      PROVE  PidsDistinct'
  BY <1>1 DEF ResolveRootfs, Goto, ResolveFails, Abort
<1>2. ASSUME NEW r \in Runs, MountOverlay(r) PROVE PidsDistinct'
  BY <1>2 DEF MountOverlay, Goto
<1>3. ASSUME NEW r \in Runs, MountFails(r) PROVE PidsDistinct'
  BY <1>3 DEF MountFails, Abort, Goto
<1>4. ASSUME NEW r \in Runs, StartChild(r) PROVE PidsDistinct'
  BY <1>4 DEF StartChild, Goto, FreePids
<1>5. ASSUME NEW r \in Runs, StartFails(r) PROVE PidsDistinct'
  BY <1>5 DEF StartFails, Abort, Goto
<1>6. ASSUME NEW r \in Runs, MakeCgroup(r) PROVE PidsDistinct'
  BY <1>6 DEF MakeCgroup, Goto
<1>7. ASSUME NEW r \in Runs, MakeCgroupFails(r) PROVE PidsDistinct'
  BY <1>7 DEF MakeCgroupFails, Abort, Goto
<1>8. ASSUME NEW r \in Runs, WriteLimit(r) PROVE PidsDistinct'
  BY <1>8 DEF WriteLimit, Goto
<1>9. ASSUME NEW r \in Runs, WriteLimitFails(r) PROVE PidsDistinct'
  BY <1>9 DEF WriteLimitFails, Abort, Goto, CloseCgroup
<1>10. ASSUME NEW r \in Runs, AddPID(r) \/ AddPIDFails(r) PROVE PidsDistinct'
  BY <1>10 DEF AddPID, Goto, AddPIDFails, Abort
<1>11. ASSUME NEW r \in Runs,
             EnsureBridge(r) \/ EnsureBridgeFails(r) \/ AddVeth(r) \/
             AddVethFails(r)
      PROVE  PidsDistinct'
  BY <1>11 DEF EnsureBridge, Goto, EnsureBridgeFails, Abort, AddVeth,
    AddVethFails
<1>12. ASSUME NEW r \in Runs, ConfigureNetns(r) PROVE PidsDistinct'
  BY <1>12 DEF ConfigureNetns, Goto
<1>13. ASSUME NEW r \in Runs, ConfigureNetnsFails(r) PROVE PidsDistinct'
  BY <1>13 DEF ConfigureNetnsFails, Abort, Goto, DropVeth
<1>14. ASSUME NEW r \in Runs, InstallRule(r) PROVE PidsDistinct'
  BY <1>14 DEF InstallRule, Goto
<1>15. ASSUME NEW r \in Runs, InstallRuleFails(r) PROVE PidsDistinct'
  BY <1>15 DEF InstallRuleFails, Abort, Goto, DropVeth
<1>16. ASSUME NEW r \in Runs, SpawnSlirp(r) \/ SpawnSlirpFails(r)
      PROVE  PidsDistinct'
  BY <1>16 DEF SpawnSlirp, Goto, SpawnSlirpFails
<1>17. ASSUME NEW r \in Runs, SlirpReady(r) \/ SlirpGivesUp(r)
      PROVE  PidsDistinct'
  BY <1>17 DEF SlirpReady, SlirpGivesUp, Goto
<1>18. ASSUME NEW r \in Runs, ReleaseChild(r) PROVE PidsDistinct'
  BY <1>18 DEF ReleaseChild, Goto
<1>19. ASSUME NEW r \in Runs, WaitChild(r) PROVE PidsDistinct'
  BY <1>19 DEF WaitChild, Goto, AfterCgroup
<1>20. ASSUME NEW r \in Runs, CloseAfterWait(r) PROVE PidsDistinct'
  BY <1>20 DEF CloseAfterWait, Goto, CloseCgroup, AfterCgroup
<1>21. ASSUME NEW r \in Runs, TeardownNetwork(r) PROVE PidsDistinct'
  BY <1>21 DEF TeardownNetwork, Goto
<1>22. ASSUME NEW r \in Runs, TeardownSlirp(r) \/ KillSlirp(r) \/ ReapSlirp(r)
      PROVE  PidsDistinct'
  BY <1>22 DEF TeardownSlirp, KillSlirp, ReapSlirp, Goto
<1>23. ASSUME NEW r \in Runs, KillChild(r) PROVE PidsDistinct'
  BY <1>23 DEF KillChild, Goto
<1>24. ASSUME NEW r \in Runs, ReapKilled(r) PROVE PidsDistinct'
  BY <1>24 DEF ReapKilled, Goto
<1>25. ASSUME NEW r \in Runs, CloseAfterKill(r) PROVE PidsDistinct'
  BY <1>25 DEF CloseAfterKill, Goto, CloseCgroup
<1>26. ASSUME NEW r \in Runs, CloseAndUnmount(r) PROVE PidsDistinct'
  BY <1>26 DEF CloseAndUnmount, Goto
<1>27. ASSUME NEW r \in Runs, RemoveScratch(r) PROVE PidsDistinct'
  BY <1>27 DEF RemoveScratch, Goto
<1>28. ASSUME NEW r \in Runs, Crash(r) PROVE PidsDistinct'
  BY <1>28 DEF Crash
<1>29. ASSUME NEW r \in Runs,
             Unblock(r) \/ Exec(r) \/ ChildExits(r) \/ InitReaps(r) \/ Slirp(r)
      PROVE  PidsDistinct'
  BY <1>29 DEF Unblock, Exec, ChildExits, InitReaps, Slirp, SlirpComesUp,
    SlirpDies
<1>30. CASE UNCHANGED vars
  BY <1>30 DEF vars
<1> QED
  BY <1>1, <1>2, <1>3, <1>4, <1>5, <1>6, <1>7, <1>8, <1>9, <1>10,
    <1>11, <1>12, <1>13, <1>14, <1>15, <1>16, <1>17, <1>18, <1>19, <1>20,
    <1>21, <1>22, <1>23, <1>24, <1>25, <1>26, <1>27, <1>28, <1>29, <1>30
  DEF Next, Parent, Setup, Finish, Child, Quiescent

\* A limit file never names a run that did not ask for it.
LEMMA WritersStep ==
  ASSUME TypeOK, Local, Writers, [Next]_vars
  PROVE  Writers'
<1>a. Writers
  OBVIOUS
<1>b. \A r \in Runs : pc[r] = "start" => pid[r] = NoPid
  BY DEF TypeOK, Local, Flow, BeforeStart
<1>c. \A r \in Runs : pc[r] = "limits" =>
        pid[r] \in Pids /\ todo[r] \subseteq cfg[r].limits
  BY DEF TypeOK, Local, Flow, GroupFlow, Preparing
<1>d. \A r \in Runs : pc[r] \in {"limits", "cgclose", "undo"} => pid[r] \in Pids
  BY DEF TypeOK, Local, Flow, Preparing
<1> USE DEF TypeOK, cgVars, fsVars, netVars, procVars
<1>1. ASSUME NEW r \in Runs, ResolveRootfs(r) \/ ResolveFails(r)
      PROVE  Writers'
  BY <1>1, <1>a DEF ResolveRootfs, ResolveFails, Writers
<1>2. ASSUME NEW r \in Runs, MountOverlay(r) PROVE Writers'
  BY <1>2, <1>a DEF MountOverlay, Writers
<1>3. ASSUME NEW r \in Runs, MountFails(r) PROVE Writers'
  BY <1>3, <1>a DEF MountFails, Writers
<1>4. ASSUME NEW r \in Runs, StartChild(r) PROVE Writers'
  <2>1. PICK p \in Pids : pid' = [pid EXCEPT ![r] = p]
    BY <1>4 DEF StartChild, FreePids
  <2>2. pid[r] = NoPid /\ UNCHANGED <<cfg, cgLim>>
    BY <1>4, <1>b DEF StartChild, Goto
  <2>3. ASSUME NEW p2 \in Pids, NEW l \in Limits, NEW w \in Runs,
               cgLim'[p2][l] = w
        PROVE  pid'[w] = p2 /\ l \in cfg'[w].limits
    <3>1. pid[w] = p2 /\ l \in cfg[w].limits
      BY <2>2, <2>3, <1>a DEF Writers
    <3>2. w # r
      BY <3>1, <2>2, ConstantsAssumption
    <3> QED
      BY <2>1, <2>2, <3>1, <3>2
  <2> QED
    BY <2>3 DEF Writers
<1>5. ASSUME NEW r \in Runs, StartFails(r) PROVE Writers'
  BY <1>5, <1>a DEF StartFails, Writers
<1>6. ASSUME NEW r \in Runs, MakeCgroup(r) PROVE Writers'
  BY <1>6, <1>a DEF MakeCgroup, Writers
<1>7. ASSUME NEW r \in Runs, MakeCgroupFails(r) PROVE Writers'
  BY <1>7, <1>a DEF MakeCgroupFails, Writers
<1>8. ASSUME NEW r \in Runs, WriteLimit(r) PROVE Writers'
  <2>1. PICK l \in todo[r] :
          cgLim' = [cgLim EXCEPT ![pid[r]][l] = r] /\ UNCHANGED <<cfg, pid>>
    BY <1>8 DEF WriteLimit
  <2>2. pid[r] \in Pids /\ l \in cfg[r].limits
    BY <1>8, <1>c DEF WriteLimit, Goto
  <2>3. ASSUME NEW p \in Pids, NEW k \in Limits, NEW w \in Runs,
               cgLim'[p][k] = w
        PROVE  pid'[w] = p /\ k \in cfg'[w].limits
    <3>1. CASE p = pid[r] /\ k = l
      BY <2>1, <2>2, <2>3, <3>1
    <3>2. CASE ~(p = pid[r] /\ k = l)
      <4>1. cgLim'[p][k] = cgLim[p][k]
        BY <2>1, <3>2
      <4> QED
        BY <2>1, <2>3, <4>1, <1>a DEF Writers
    <3> QED
      BY <3>1, <3>2
  <2> QED
    BY <2>3 DEF Writers
<1>9. ASSUME NEW r \in Runs, WriteLimitFails(r) PROVE Writers'
  <2>1. CloseCgroup(pid[r]) /\ pid[r] \in Pids /\ UNCHANGED <<cfg, pid>>
    BY <1>9, <1>d DEF WriteLimitFails, Abort, Goto
  <2>2. \A p \in Pids, l \in Limits : cgLim'[p][l] \in {cgLim[p][l], NoRun}
    BY <2>1, CloseEffect
  <2> QED
    BY <2>1, <2>2, <1>a, ConstantsAssumption DEF Writers
<1>10. ASSUME NEW r \in Runs, AddPID(r) \/ AddPIDFails(r) PROVE Writers'
  BY <1>10, <1>a DEF AddPID, AddPIDFails, Writers
<1>11. ASSUME NEW r \in Runs,
             EnsureBridge(r) \/ EnsureBridgeFails(r) \/ AddVeth(r) \/
             AddVethFails(r)
      PROVE  Writers'
  BY <1>11, <1>a DEF EnsureBridge, EnsureBridgeFails, AddVeth, AddVethFails, Writers
<1>12. ASSUME NEW r \in Runs, ConfigureNetns(r) PROVE Writers'
  BY <1>12, <1>a DEF ConfigureNetns, Writers
<1>13. ASSUME NEW r \in Runs, ConfigureNetnsFails(r) PROVE Writers'
  BY <1>13, <1>a DEF ConfigureNetnsFails, Writers
<1>14. ASSUME NEW r \in Runs, InstallRule(r) PROVE Writers'
  BY <1>14, <1>a DEF InstallRule, Writers
<1>15. ASSUME NEW r \in Runs, InstallRuleFails(r) PROVE Writers'
  BY <1>15, <1>a DEF InstallRuleFails, Writers
<1>16. ASSUME NEW r \in Runs, SpawnSlirp(r) \/ SpawnSlirpFails(r)
      PROVE  Writers'
  BY <1>16, <1>a DEF SpawnSlirp, SpawnSlirpFails, Writers
<1>17. ASSUME NEW r \in Runs, SlirpReady(r) \/ SlirpGivesUp(r) PROVE Writers'
  BY <1>17, <1>a DEF SlirpReady, SlirpGivesUp, Writers
<1>18. ASSUME NEW r \in Runs, ReleaseChild(r) PROVE Writers'
  BY <1>18, <1>a DEF ReleaseChild, Writers
<1>19. ASSUME NEW r \in Runs, WaitChild(r) PROVE Writers'
  BY <1>19, <1>a DEF WaitChild, Writers
<1>20. ASSUME NEW r \in Runs, CloseAfterWait(r) PROVE Writers'
  <2>1. CloseCgroup(pid[r]) /\ pid[r] \in Pids /\ UNCHANGED <<cfg, pid>>
    BY <1>20, <1>d DEF CloseAfterWait, Abort, Goto
  <2>2. \A p \in Pids, l \in Limits : cgLim'[p][l] \in {cgLim[p][l], NoRun}
    BY <2>1, CloseEffect
  <2> QED
    BY <2>1, <2>2, <1>a, ConstantsAssumption DEF Writers
<1>21. ASSUME NEW r \in Runs, TeardownNetwork(r) PROVE Writers'
  BY <1>21, <1>a DEF TeardownNetwork, Writers
<1>22. ASSUME NEW r \in Runs, TeardownSlirp(r) \/ KillSlirp(r) \/ ReapSlirp(r)
      PROVE  Writers'
  BY <1>22, <1>a DEF TeardownSlirp, KillSlirp, ReapSlirp, Writers
<1>23. ASSUME NEW r \in Runs, KillChild(r) PROVE Writers'
  BY <1>23, <1>a DEF KillChild, Writers
<1>24. ASSUME NEW r \in Runs, ReapKilled(r) PROVE Writers'
  BY <1>24, <1>a DEF ReapKilled, Writers
<1>25. ASSUME NEW r \in Runs, CloseAfterKill(r) PROVE Writers'
  <2>1. CloseCgroup(pid[r]) /\ pid[r] \in Pids /\ UNCHANGED <<cfg, pid>>
    BY <1>25, <1>d DEF CloseAfterKill, Abort, Goto
  <2>2. \A p \in Pids, l \in Limits : cgLim'[p][l] \in {cgLim[p][l], NoRun}
    BY <2>1, CloseEffect
  <2> QED
    BY <2>1, <2>2, <1>a, ConstantsAssumption DEF Writers
<1>26. ASSUME NEW r \in Runs, CloseAndUnmount(r) PROVE Writers'
  BY <1>26, <1>a DEF CloseAndUnmount, Writers
<1>27. ASSUME NEW r \in Runs, RemoveScratch(r) PROVE Writers'
  BY <1>27, <1>a DEF RemoveScratch, Writers
<1>28. ASSUME NEW r \in Runs, Crash(r) PROVE Writers'
  BY <1>28, <1>a DEF Crash, Writers
<1>29. ASSUME NEW r \in Runs,
             Unblock(r) \/ Exec(r) \/ ChildExits(r) \/ InitReaps(r) \/ Slirp(r)
      PROVE  Writers'
  BY <1>29, <1>a DEF Unblock, Exec, ChildExits, InitReaps, Slirp, SlirpComesUp,
    SlirpDies, Writers
<1>30. CASE UNCHANGED vars
  BY <1>30 DEF vars, Writers
<1> QED
  BY <1>1, <1>2, <1>3, <1>4, <1>5, <1>6, <1>7, <1>8, <1>9, <1>10,
    <1>11, <1>12, <1>13, <1>14, <1>15, <1>16, <1>17, <1>18, <1>19, <1>20,
    <1>21, <1>22, <1>23, <1>24, <1>25, <1>26, <1>27, <1>28, <1>29, <1>30
  DEF Next, Parent, Setup, Finish, Child, Quiescent

\* Nobody else touches the group of a run whose child holds the pid, and
\* the kernel keeps it once the child is inside.
LEMMA WrittenStep ==
  ASSUME TypeOK, Local, PidsDistinct, Groups, [Next]_vars
  PROVE  \A q \in Runs : Written(q)'
<1> USE ConstantsAssumption DEF TypeOK, Held, Alive, RunConfig,
      Local, Flow, GroupFlow, PidsDistinct, Groups, Written, Confined,
      Occupied, Preparing, BeforeStart,
      cgVars, fsVars, netVars, procVars
<1>1. ASSUME NEW r \in Runs, ResolveRootfs(r) \/ ResolveFails(r)
      PROVE  \A q \in Runs : Written(q)'
  BY <1>1 DEF ResolveRootfs, Goto, ResolveFails, Abort
<1>2. ASSUME NEW r \in Runs, MountOverlay(r) PROVE \A q \in Runs : Written(q)'
  BY <1>2 DEF MountOverlay, Goto
<1>3. ASSUME NEW r \in Runs, MountFails(r) PROVE \A q \in Runs : Written(q)'
  BY <1>3 DEF MountFails, Abort, Goto
<1>4. ASSUME NEW r \in Runs, StartChild(r) PROVE \A q \in Runs : Written(q)'
  BY <1>4 DEF StartChild, Goto, FreePids
<1>5. ASSUME NEW r \in Runs, StartFails(r) PROVE \A q \in Runs : Written(q)'
  BY <1>5 DEF StartFails, Abort, Goto
<1>6. ASSUME NEW r \in Runs, MakeCgroup(r) PROVE \A q \in Runs : Written(q)'
  BY <1>6 DEF MakeCgroup, Goto
<1>7. ASSUME NEW r \in Runs, MakeCgroupFails(r)
      PROVE  \A q \in Runs : Written(q)'
  BY <1>7 DEF MakeCgroupFails, Abort, Goto
<1>8. ASSUME NEW r \in Runs, WriteLimit(r) PROVE \A q \in Runs : Written(q)'
  BY <1>8 DEF WriteLimit, Goto
<1>9. ASSUME NEW r \in Runs, WriteLimitFails(r)
      PROVE  \A q \in Runs : Written(q)'
  BY <1>9 DEF WriteLimitFails, Abort, Goto, CloseCgroup
<1>10. ASSUME NEW r \in Runs, AddPID(r) \/ AddPIDFails(r)
      PROVE  \A q \in Runs : Written(q)'
  BY <1>10 DEF AddPID, Goto, AddPIDFails, Abort
<1>11. ASSUME NEW r \in Runs,
             EnsureBridge(r) \/ EnsureBridgeFails(r) \/ AddVeth(r) \/
             AddVethFails(r)
      PROVE  \A q \in Runs : Written(q)'
  BY <1>11 DEF EnsureBridge, Goto, EnsureBridgeFails, Abort, AddVeth,
    AddVethFails
<1>12. ASSUME NEW r \in Runs, ConfigureNetns(r)
      PROVE  \A q \in Runs : Written(q)'
  BY <1>12 DEF ConfigureNetns, Goto
<1>13. ASSUME NEW r \in Runs, ConfigureNetnsFails(r)
      PROVE  \A q \in Runs : Written(q)'
  BY <1>13 DEF ConfigureNetnsFails, Abort, Goto, DropVeth
<1>14. ASSUME NEW r \in Runs, InstallRule(r) PROVE \A q \in Runs : Written(q)'
  BY <1>14 DEF InstallRule, Goto
<1>15. ASSUME NEW r \in Runs, InstallRuleFails(r)
      PROVE  \A q \in Runs : Written(q)'
  BY <1>15 DEF InstallRuleFails, Abort, Goto, DropVeth
<1>16. ASSUME NEW r \in Runs, SpawnSlirp(r) \/ SpawnSlirpFails(r)
      PROVE  \A q \in Runs : Written(q)'
  BY <1>16 DEF SpawnSlirp, Goto, SpawnSlirpFails
<1>17. ASSUME NEW r \in Runs, SlirpReady(r) \/ SlirpGivesUp(r)
      PROVE  \A q \in Runs : Written(q)'
  BY <1>17 DEF SlirpReady, SlirpGivesUp, Goto
<1>18. ASSUME NEW r \in Runs, ReleaseChild(r)
      PROVE  \A q \in Runs : Written(q)'
  BY <1>18 DEF ReleaseChild, Goto
<1>19. ASSUME NEW r \in Runs, WaitChild(r) PROVE \A q \in Runs : Written(q)'
  BY <1>19 DEF WaitChild, Goto, AfterCgroup
<1>20. ASSUME NEW r \in Runs, CloseAfterWait(r)
      PROVE  \A q \in Runs : Written(q)'
  BY <1>20 DEF CloseAfterWait, Goto, CloseCgroup, AfterCgroup
<1>21. ASSUME NEW r \in Runs, TeardownNetwork(r)
      PROVE  \A q \in Runs : Written(q)'
  BY <1>21 DEF TeardownNetwork, Goto
<1>22. ASSUME NEW r \in Runs, TeardownSlirp(r) \/ KillSlirp(r) \/ ReapSlirp(r)
      PROVE  \A q \in Runs : Written(q)'
  BY <1>22 DEF TeardownSlirp, KillSlirp, ReapSlirp, Goto
<1>23. ASSUME NEW r \in Runs, KillChild(r) PROVE \A q \in Runs : Written(q)'
  BY <1>23 DEF KillChild, Goto
<1>24. ASSUME NEW r \in Runs, ReapKilled(r) PROVE \A q \in Runs : Written(q)'
  BY <1>24 DEF ReapKilled, Goto
<1>25. ASSUME NEW r \in Runs, CloseAfterKill(r)
      PROVE  \A q \in Runs : Written(q)'
  BY <1>25 DEF CloseAfterKill, Goto, CloseCgroup
<1>26. ASSUME NEW r \in Runs, CloseAndUnmount(r)
      PROVE  \A q \in Runs : Written(q)'
  BY <1>26 DEF CloseAndUnmount, Goto
<1>27. ASSUME NEW r \in Runs, RemoveScratch(r)
      PROVE  \A q \in Runs : Written(q)'
  BY <1>27 DEF RemoveScratch, Goto
<1>28. ASSUME NEW r \in Runs, Crash(r) PROVE \A q \in Runs : Written(q)'
  BY <1>28 DEF Crash
<1>29. ASSUME NEW r \in Runs,
             Unblock(r) \/ Exec(r) \/ ChildExits(r) \/ InitReaps(r) \/ Slirp(r)
      PROVE  \A q \in Runs : Written(q)'
  BY <1>29 DEF Unblock, Exec, ChildExits, InitReaps, Slirp, SlirpComesUp,
    SlirpDies
<1>30. CASE UNCHANGED vars
  BY <1>30 DEF vars
<1> QED
  BY <1>1, <1>2, <1>3, <1>4, <1>5, <1>6, <1>7, <1>8, <1>9, <1>10,
    <1>11, <1>12, <1>13, <1>14, <1>15, <1>16, <1>17, <1>18, <1>19, <1>20,
    <1>21, <1>22, <1>23, <1>24, <1>25, <1>26, <1>27, <1>28, <1>29, <1>30
  DEF Next, Parent, Setup, Finish, Child, Quiescent

\* An rmdir by a run that is not in the group itself: either the group goes,
\* or somebody else is inside and will remove it later.
LEMMA CloseKeepsClosers ==
  ASSUME TypeOK, Local, EveryGroupHasCloser, NEW r \in Runs,
         CloseCgroup(pid[r]), UNCHANGED <<pid, cg>>,
         \A q \in Runs \ {r} : pc'[q] = pc[q],
         ~inCg[r] \/ child[r] \notin Alive
  PROVE  EveryGroupHasCloser'
<1>1. \A q \in Runs \ {r} : MustClose(q) => MustClose(q)' /\ pid'[q] = pid[q]
  BY DEF MustClose
<1>2. \A q \in Runs : inCg[q] /\ child[q] \in Alive => MustClose(q)
  BY DEF TypeOK, PC, Local, Flow, GroupFlow, MustClose, Alive, Held, BeforeStart, Preparing
<1>3. CASE pid[r] \in cgDir /\ ~Occupied(pid[r])
  <2>1. cgDir' = cgDir \ {pid[r]}
    BY <1>3 DEF CloseCgroup
  <2>2. ASSUME NEW p \in cgDir'
        PROVE  \E q \in Runs : pid'[q] = p /\ MustClose(q)'
    <3>1. PICK q \in Runs : pid[q] = p /\ MustClose(q)
      BY <2>1 DEF EveryGroupHasCloser
    <3> QED
      BY <1>1, <2>1, <3>1
  <2> QED
    BY <2>2 DEF EveryGroupHasCloser
<1>4. CASE pid[r] \notin cgDir
  BY <1>1, <1>4 DEF CloseCgroup, EveryGroupHasCloser
<1>5. CASE Occupied(pid[r])
  <2>1. PICK s \in Runs : pid[s] = pid[r] /\ inCg[s] /\ child[s] \in Alive
    BY <1>5 DEF Occupied
  <2>2. pid'[s] = pid[r] /\ MustClose(s)'
    BY <1>1, <1>2, <2>1
  <2>3. ASSUME NEW p \in cgDir', p # pid[r]
        PROVE  \E q \in Runs : pid'[q] = p /\ MustClose(q)'
    <3>1. PICK q \in Runs : pid[q] = p /\ MustClose(q)
      BY <1>5 DEF CloseCgroup, EveryGroupHasCloser
    <3> QED
      BY <1>1, <2>3, <3>1
  <2> QED
    BY <2>2, <2>3 DEF EveryGroupHasCloser
<1> QED
  BY <1>3, <1>4, <1>5

\* Every group keeps somebody who will remove it.
LEMMA MustCloseStep ==
  ASSUME TypeOK, Local, EveryGroupHasCloser, [Next]_vars
  PROVE  EveryGroupHasCloser'
<1> USE DEF TypeOK, PC, Held, Alive, Local, Flow, GroupFlow, MustClose,
      Preparing, BeforeStart, UsesCgroup,
      cgVars, fsVars, netVars, procVars
<1>1. ASSUME NEW r \in Runs, ResolveRootfs(r) \/ ResolveFails(r)
      PROVE  EveryGroupHasCloser'
  <2>1. \A q \in Runs : MustClose(q) => MustClose(q)' /\ pid'[q] = pid[q]
    BY <1>1 DEF ResolveRootfs, Goto, ResolveFails, Abort
  <2> QED
    BY <1>1, <2>1 DEF EveryGroupHasCloser, ResolveRootfs, ResolveFails
<1>2. ASSUME NEW r \in Runs, MountOverlay(r) PROVE EveryGroupHasCloser'
  <2>1. \A q \in Runs : MustClose(q) => MustClose(q)' /\ pid'[q] = pid[q]
    BY <1>2 DEF MountOverlay, Goto
  <2> QED
    BY <1>2, <2>1 DEF EveryGroupHasCloser, MountOverlay
<1>3. ASSUME NEW r \in Runs, MountFails(r) PROVE EveryGroupHasCloser'
  <2>1. \A q \in Runs : MustClose(q) => MustClose(q)' /\ pid'[q] = pid[q]
    BY <1>3 DEF MountFails, Abort, Goto
  <2> QED
    BY <1>3, <2>1 DEF EveryGroupHasCloser, MountFails
<1>4. ASSUME NEW r \in Runs, StartChild(r) PROVE EveryGroupHasCloser'
  <2>1. \A q \in Runs : MustClose(q) => MustClose(q)' /\ pid'[q] = pid[q]
    BY <1>4 DEF StartChild, Goto
  <2> QED
    BY <1>4, <2>1 DEF EveryGroupHasCloser, StartChild
<1>5. ASSUME NEW r \in Runs, StartFails(r) PROVE EveryGroupHasCloser'
  <2>1. \A q \in Runs : MustClose(q) => MustClose(q)' /\ pid'[q] = pid[q]
    BY <1>5 DEF StartFails, Abort, Goto
  <2> QED
    BY <1>5, <2>1 DEF EveryGroupHasCloser, StartFails
<1>6. ASSUME NEW r \in Runs, MakeCgroup(r) PROVE EveryGroupHasCloser'
  <2>1. \A q \in Runs : MustClose(q) => MustClose(q)' /\ pid'[q] = pid[q]
    BY <1>6 DEF MakeCgroup, Goto
  <2>2. MustClose(r)' /\ pid'[r] = pid[r] /\ cgDir' = cgDir \cup {pid[r]}
    BY <1>6 DEF MakeCgroup, Goto
  <2> QED
    BY <2>1, <2>2 DEF EveryGroupHasCloser
<1>7. ASSUME NEW r \in Runs, MakeCgroupFails(r) PROVE EveryGroupHasCloser'
  <2>1. \A q \in Runs : MustClose(q) => MustClose(q)' /\ pid'[q] = pid[q]
    BY <1>7 DEF MakeCgroupFails, Abort, Goto
  <2> QED
    BY <1>7, <2>1 DEF EveryGroupHasCloser, MakeCgroupFails
<1>8. ASSUME NEW r \in Runs, WriteLimit(r) PROVE EveryGroupHasCloser'
  <2>1. \A q \in Runs : MustClose(q) => MustClose(q)' /\ pid'[q] = pid[q]
    BY <1>8 DEF WriteLimit, Goto
  <2> QED
    BY <1>8, <2>1 DEF EveryGroupHasCloser, WriteLimit
<1>9. ASSUME NEW r \in Runs, WriteLimitFails(r) PROVE EveryGroupHasCloser'
  <2>1. /\ CloseCgroup(pid[r]) /\ UNCHANGED <<pid, cg>>
        /\ \A q \in Runs \ {r} : pc'[q] = pc[q]
    BY <1>9 DEF WriteLimitFails, Abort, Goto
  <2>2. ~inCg[r] \/ child[r] \notin Alive
    BY <1>9 DEF WriteLimitFails, Abort, Goto, BeforeStart
  <2> QED
    BY <2>1, <2>2, CloseKeepsClosers
<1>10. ASSUME NEW r \in Runs, AddPID(r) \/ AddPIDFails(r)
      PROVE  EveryGroupHasCloser'
  <2>1. \A q \in Runs : MustClose(q) => MustClose(q)' /\ pid'[q] = pid[q]
    BY <1>10 DEF AddPID, Goto, AddPIDFails, Abort
  <2> QED
    BY <1>10, <2>1 DEF EveryGroupHasCloser, AddPID, AddPIDFails
<1>11. ASSUME NEW r \in Runs,
             EnsureBridge(r) \/ EnsureBridgeFails(r) \/ AddVeth(r) \/
             AddVethFails(r)
      PROVE  EveryGroupHasCloser'
  <2>1. \A q \in Runs : MustClose(q) => MustClose(q)' /\ pid'[q] = pid[q]
    BY <1>11 DEF EnsureBridge, Goto, EnsureBridgeFails, Abort, AddVeth,
      AddVethFails
  <2> QED
    BY <1>11, <2>1 DEF EveryGroupHasCloser, EnsureBridge, EnsureBridgeFails, AddVeth, AddVethFails
<1>12. ASSUME NEW r \in Runs, ConfigureNetns(r) PROVE EveryGroupHasCloser'
  <2>1. \A q \in Runs : MustClose(q) => MustClose(q)' /\ pid'[q] = pid[q]
    BY <1>12 DEF ConfigureNetns, Goto
  <2> QED
    BY <1>12, <2>1 DEF EveryGroupHasCloser, ConfigureNetns
<1>13. ASSUME NEW r \in Runs, ConfigureNetnsFails(r)
      PROVE  EveryGroupHasCloser'
  <2>1. \A q \in Runs : MustClose(q) => MustClose(q)' /\ pid'[q] = pid[q]
    BY <1>13 DEF ConfigureNetnsFails, Abort, Goto
  <2> QED
    BY <1>13, <2>1 DEF EveryGroupHasCloser, ConfigureNetnsFails
<1>14. ASSUME NEW r \in Runs, InstallRule(r) PROVE EveryGroupHasCloser'
  <2>1. \A q \in Runs : MustClose(q) => MustClose(q)' /\ pid'[q] = pid[q]
    BY <1>14 DEF InstallRule, Goto
  <2> QED
    BY <1>14, <2>1 DEF EveryGroupHasCloser, InstallRule
<1>15. ASSUME NEW r \in Runs, InstallRuleFails(r) PROVE EveryGroupHasCloser'
  <2>1. \A q \in Runs : MustClose(q) => MustClose(q)' /\ pid'[q] = pid[q]
    BY <1>15 DEF InstallRuleFails, Abort, Goto
  <2> QED
    BY <1>15, <2>1 DEF EveryGroupHasCloser, InstallRuleFails
<1>16. ASSUME NEW r \in Runs, SpawnSlirp(r) \/ SpawnSlirpFails(r)
      PROVE  EveryGroupHasCloser'
  <2>1. \A q \in Runs : MustClose(q) => MustClose(q)' /\ pid'[q] = pid[q]
    BY <1>16 DEF SpawnSlirp, Goto, SpawnSlirpFails
  <2> QED
    BY <1>16, <2>1 DEF EveryGroupHasCloser, SpawnSlirp, SpawnSlirpFails
<1>17. ASSUME NEW r \in Runs, SlirpReady(r) \/ SlirpGivesUp(r)
      PROVE  EveryGroupHasCloser'
  <2>1. \A q \in Runs : MustClose(q) => MustClose(q)' /\ pid'[q] = pid[q]
    BY <1>17 DEF SlirpReady, SlirpGivesUp, Goto
  <2> QED
    BY <1>17, <2>1 DEF EveryGroupHasCloser, SlirpReady, SlirpGivesUp
<1>18. ASSUME NEW r \in Runs, ReleaseChild(r) PROVE EveryGroupHasCloser'
  <2>1. \A q \in Runs : MustClose(q) => MustClose(q)' /\ pid'[q] = pid[q]
    BY <1>18 DEF ReleaseChild, Goto
  <2> QED
    BY <1>18, <2>1 DEF EveryGroupHasCloser, ReleaseChild
<1>19. ASSUME NEW r \in Runs, WaitChild(r) PROVE EveryGroupHasCloser'
  <2>1. \A q \in Runs : MustClose(q) => MustClose(q)' /\ pid'[q] = pid[q]
    BY <1>19 DEF WaitChild, Goto, AfterCgroup
  <2> QED
    BY <1>19, <2>1 DEF EveryGroupHasCloser, WaitChild
<1>20. ASSUME NEW r \in Runs, CloseAfterWait(r) PROVE EveryGroupHasCloser'
  <2>1. /\ CloseCgroup(pid[r]) /\ UNCHANGED <<pid, cg>>
        /\ \A q \in Runs \ {r} : pc'[q] = pc[q]
    BY <1>20 DEF CloseAfterWait, Abort, Goto
  <2>2. ~inCg[r] \/ child[r] \notin Alive
    BY <1>20 DEF CloseAfterWait, Abort, Goto, BeforeStart
  <2> QED
    BY <2>1, <2>2, CloseKeepsClosers
<1>21. ASSUME NEW r \in Runs, TeardownNetwork(r) PROVE EveryGroupHasCloser'
  <2>1. \A q \in Runs : MustClose(q) => MustClose(q)' /\ pid'[q] = pid[q]
    BY <1>21 DEF TeardownNetwork, Goto
  <2> QED
    BY <1>21, <2>1 DEF EveryGroupHasCloser, TeardownNetwork
<1>22. ASSUME NEW r \in Runs, TeardownSlirp(r) \/ KillSlirp(r) \/ ReapSlirp(r)
      PROVE  EveryGroupHasCloser'
  <2>1. \A q \in Runs : MustClose(q) => MustClose(q)' /\ pid'[q] = pid[q]
    BY <1>22 DEF TeardownSlirp, KillSlirp, ReapSlirp, Goto
  <2> QED
    BY <1>22, <2>1 DEF EveryGroupHasCloser, TeardownSlirp, KillSlirp, ReapSlirp
<1>23. ASSUME NEW r \in Runs, KillChild(r) PROVE EveryGroupHasCloser'
  <2>1. \A q \in Runs : MustClose(q) => MustClose(q)' /\ pid'[q] = pid[q]
    BY <1>23 DEF KillChild, Goto
  <2> QED
    BY <1>23, <2>1 DEF EveryGroupHasCloser, KillChild
<1>24. ASSUME NEW r \in Runs, ReapKilled(r) PROVE EveryGroupHasCloser'
  <2>1. \A q \in Runs : MustClose(q) => MustClose(q)' /\ pid'[q] = pid[q]
    BY <1>24 DEF ReapKilled, Goto
  <2> QED
    BY <1>24, <2>1 DEF EveryGroupHasCloser, ReapKilled
<1>25. ASSUME NEW r \in Runs, CloseAfterKill(r) PROVE EveryGroupHasCloser'
  <2>1. /\ CloseCgroup(pid[r]) /\ UNCHANGED <<pid, cg>>
        /\ \A q \in Runs \ {r} : pc'[q] = pc[q]
    BY <1>25 DEF CloseAfterKill, Abort, Goto
  <2>2. ~inCg[r] \/ child[r] \notin Alive
    BY <1>25 DEF CloseAfterKill, Abort, Goto, BeforeStart
  <2> QED
    BY <2>1, <2>2, CloseKeepsClosers
<1>26. ASSUME NEW r \in Runs, CloseAndUnmount(r) PROVE EveryGroupHasCloser'
  <2>1. \A q \in Runs : MustClose(q) => MustClose(q)' /\ pid'[q] = pid[q]
    BY <1>26 DEF CloseAndUnmount, Goto
  <2> QED
    BY <1>26, <2>1 DEF EveryGroupHasCloser, CloseAndUnmount
<1>27. ASSUME NEW r \in Runs, RemoveScratch(r) PROVE EveryGroupHasCloser'
  <2>1. \A q \in Runs : MustClose(q) => MustClose(q)' /\ pid'[q] = pid[q]
    BY <1>27 DEF RemoveScratch, Goto
  <2> QED
    BY <1>27, <2>1 DEF EveryGroupHasCloser, RemoveScratch
<1>28. ASSUME NEW r \in Runs, Crash(r) PROVE EveryGroupHasCloser'
  <2>1. \A q \in Runs : MustClose(q) => MustClose(q)' /\ pid'[q] = pid[q]
    BY <1>28 DEF Crash
  <2> QED
    BY <1>28, <2>1 DEF EveryGroupHasCloser, Crash
<1>29. ASSUME NEW r \in Runs,
             Unblock(r) \/ Exec(r) \/ ChildExits(r) \/ InitReaps(r) \/ Slirp(r)
      PROVE  EveryGroupHasCloser'
  <2>1. \A q \in Runs : MustClose(q) => MustClose(q)' /\ pid'[q] = pid[q]
    BY <1>29 DEF Unblock, Exec, ChildExits, InitReaps, Slirp, SlirpComesUp,
    SlirpDies
  <2> QED
    BY <1>29, <2>1 DEF EveryGroupHasCloser, Unblock, Exec, ChildExits, InitReaps, Slirp, SlirpComesUp,
    SlirpDies
<1>30. CASE UNCHANGED vars
  BY <1>30 DEF vars, EveryGroupHasCloser
<1> QED
  BY <1>1, <1>2, <1>3, <1>4, <1>5, <1>6, <1>7, <1>8, <1>9, <1>10,
    <1>11, <1>12, <1>13, <1>14, <1>15, <1>16, <1>17, <1>18, <1>19, <1>20,
    <1>21, <1>22, <1>23, <1>24, <1>25, <1>26, <1>27, <1>28, <1>29, <1>30
  DEF Next, Parent, Setup, Finish, Child, Quiescent

\* q keeps its pid, its place in its group, and the group its limits.
GroupKept(q) ==
  pid'[q] = pid[q] /\ inCg'[q] /\ cgLim'[pid[q]] = cgLim[pid[q]]

\* No step touches the limit files of a group with a living process in it,
\* nor takes the process out of it.
LEMMA StepKeepsGroup ==
  ASSUME TypeOK, Local, PidsDistinct, NEW q \in Runs, pid[q] \in Pids,
         inCg[q], child[q] \in Alive, Occupied(pid[q]), [Next]_vars
  PROVE  GroupKept(q)
<1> USE DEF TypeOK, Local, Flow, GroupFlow, PidsDistinct, Preparing, BeforeStart,
      Held, Alive, GroupKept,
      cgVars, fsVars, netVars, procVars
<1>1. ASSUME NEW r \in Runs, ResolveRootfs(r) \/ ResolveFails(r)
      PROVE  GroupKept(q)
  BY <1>1 DEF ResolveRootfs, ResolveFails
<1>2. ASSUME NEW r \in Runs, MountOverlay(r) PROVE GroupKept(q)
  BY <1>2 DEF MountOverlay
<1>3. ASSUME NEW r \in Runs, MountFails(r) PROVE GroupKept(q)
  BY <1>3 DEF MountFails
<1>4. ASSUME NEW r \in Runs, StartChild(r) PROVE GroupKept(q)
  BY <1>4 DEF StartChild, Goto
<1>5. ASSUME NEW r \in Runs, StartFails(r) PROVE GroupKept(q)
  BY <1>5 DEF StartFails
<1>6. ASSUME NEW r \in Runs, MakeCgroup(r) PROVE GroupKept(q)
  BY <1>6 DEF MakeCgroup
<1>7. ASSUME NEW r \in Runs, MakeCgroupFails(r) PROVE GroupKept(q)
  BY <1>7 DEF MakeCgroupFails
<1>8. ASSUME NEW r \in Runs, WriteLimit(r) PROVE GroupKept(q)
  <2>1. r # q /\ child[r] \in Held /\ pid[r] \in Pids
    BY <1>8 DEF WriteLimit, Goto
  <2>2. pid[r] # pid[q]
    BY <2>1
  <2>3. PICK l \in todo[r] : cgLim' = [cgLim EXCEPT ![pid[r]][l] = r]
    BY <1>8 DEF WriteLimit
  <2> QED
    BY <1>8, <2>1, <2>2, <2>3 DEF WriteLimit
<1>9. ASSUME NEW r \in Runs, WriteLimitFails(r) PROVE GroupKept(q)
  BY <1>9 DEF WriteLimitFails, CloseCgroup
<1>10. ASSUME NEW r \in Runs, AddPID(r) \/ AddPIDFails(r) PROVE GroupKept(q)
  BY <1>10 DEF AddPID, AddPIDFails
<1>11. ASSUME NEW r \in Runs,
             EnsureBridge(r) \/ EnsureBridgeFails(r) \/ AddVeth(r) \/
             AddVethFails(r)
      PROVE  GroupKept(q)
  BY <1>11 DEF EnsureBridge, EnsureBridgeFails, AddVeth, AddVethFails
<1>12. ASSUME NEW r \in Runs, ConfigureNetns(r) PROVE GroupKept(q)
  BY <1>12 DEF ConfigureNetns
<1>13. ASSUME NEW r \in Runs, ConfigureNetnsFails(r) PROVE GroupKept(q)
  BY <1>13 DEF ConfigureNetnsFails
<1>14. ASSUME NEW r \in Runs, InstallRule(r) PROVE GroupKept(q)
  BY <1>14 DEF InstallRule
<1>15. ASSUME NEW r \in Runs, InstallRuleFails(r) PROVE GroupKept(q)
  BY <1>15 DEF InstallRuleFails
<1>16. ASSUME NEW r \in Runs, SpawnSlirp(r) \/ SpawnSlirpFails(r)
      PROVE  GroupKept(q)
  BY <1>16 DEF SpawnSlirp, SpawnSlirpFails
<1>17. ASSUME NEW r \in Runs, SlirpReady(r) \/ SlirpGivesUp(r)
      PROVE  GroupKept(q)
  BY <1>17 DEF SlirpReady, SlirpGivesUp
<1>18. ASSUME NEW r \in Runs, ReleaseChild(r) PROVE GroupKept(q)
  BY <1>18 DEF ReleaseChild
<1>19. ASSUME NEW r \in Runs, WaitChild(r) PROVE GroupKept(q)
  BY <1>19 DEF WaitChild
<1>20. ASSUME NEW r \in Runs, CloseAfterWait(r) PROVE GroupKept(q)
  BY <1>20 DEF CloseAfterWait, CloseCgroup
<1>21. ASSUME NEW r \in Runs, TeardownNetwork(r) PROVE GroupKept(q)
  BY <1>21 DEF TeardownNetwork
<1>22. ASSUME NEW r \in Runs, TeardownSlirp(r) \/ KillSlirp(r) \/ ReapSlirp(r)
      PROVE  GroupKept(q)
  BY <1>22 DEF TeardownSlirp, KillSlirp, ReapSlirp
<1>23. ASSUME NEW r \in Runs, KillChild(r) PROVE GroupKept(q)
  BY <1>23 DEF KillChild
<1>24. ASSUME NEW r \in Runs, ReapKilled(r) PROVE GroupKept(q)
  BY <1>24 DEF ReapKilled
<1>25. ASSUME NEW r \in Runs, CloseAfterKill(r) PROVE GroupKept(q)
  BY <1>25 DEF CloseAfterKill, CloseCgroup
<1>26. ASSUME NEW r \in Runs, CloseAndUnmount(r) PROVE GroupKept(q)
  BY <1>26 DEF CloseAndUnmount
<1>27. ASSUME NEW r \in Runs, RemoveScratch(r) PROVE GroupKept(q)
  BY <1>27 DEF RemoveScratch
<1>28. ASSUME NEW r \in Runs, Crash(r) PROVE GroupKept(q)
  BY <1>28 DEF Crash
<1>29. ASSUME NEW r \in Runs,
             Unblock(r) \/ Exec(r) \/ ChildExits(r) \/ InitReaps(r) \/ Slirp(r)
      PROVE  GroupKept(q)
  BY <1>29 DEF Unblock, Exec, ChildExits, InitReaps, Slirp, SlirpComesUp,
    SlirpDies
<1>30. CASE UNCHANGED vars
  BY <1>30 DEF vars
<1> QED
  BY <1>1, <1>2, <1>3, <1>4, <1>5, <1>6, <1>7, <1>8, <1>9, <1>10,
    <1>11, <1>12, <1>13, <1>14, <1>15, <1>16, <1>17, <1>18, <1>19, <1>20,
    <1>21, <1>22, <1>23, <1>24, <1>25, <1>26, <1>27, <1>28, <1>29, <1>30
  DEF Next, Parent, Setup, Finish, Child, Quiescent

\* Clean-up: what a run put on the host it takes away again on every path out
\* of Run, or marks the failure.
LEMMA CleanStep ==
  ASSUME TypeOK, Local, Cleanup, [Next]_vars
  PROVE  Cleanup'
<1> USE ConstantsAssumption DEF TypeOK, Helpers, RunConfig, Local, Flow, GroupFlow,
      Resources, Cleanup, Clean, Preparing, BeforeStart, UsesCgroup,
      cgVars, fsVars, netVars, procVars
<1>1. ASSUME NEW r \in Runs, ResolveRootfs(r) \/ ResolveFails(r)
      PROVE  Cleanup'
  <2>1. CASE ResolveRootfs(r)
    BY <2>1 DEF ResolveRootfs, Goto, Abort
  <2>2. CASE ResolveFails(r)
    BY <2>2 DEF ResolveFails, Goto, Abort
  <2> QED
    BY <1>1, <2>1, <2>2
<1>2. ASSUME NEW r \in Runs, MountOverlay(r)
      PROVE  Cleanup'
  BY <1>2 DEF MountOverlay, Goto
<1>3. ASSUME NEW r \in Runs, MountFails(r)
      PROVE  Cleanup'
  BY <1>3 DEF MountFails, Goto, Abort
<1>4. ASSUME NEW r \in Runs, StartChild(r)
      PROVE  Cleanup'
  BY <1>4 DEF StartChild, Goto
<1>5. ASSUME NEW r \in Runs, StartFails(r)
      PROVE  Cleanup'
  BY <1>5 DEF StartFails, Goto, Abort
<1>6. ASSUME NEW r \in Runs, MakeCgroup(r)
      PROVE  Cleanup'
  BY <1>6 DEF MakeCgroup, Goto
<1>7. ASSUME NEW r \in Runs, MakeCgroupFails(r)
      PROVE  Cleanup'
  BY <1>7 DEF MakeCgroupFails, Goto, Abort
<1>8. ASSUME NEW r \in Runs, WriteLimit(r)
      PROVE  Cleanup'
  BY <1>8 DEF WriteLimit, Goto
<1>9. ASSUME NEW r \in Runs, WriteLimitFails(r)
      PROVE  Cleanup'
  BY <1>9 DEF WriteLimitFails, Goto, Abort, CloseCgroup
<1>10. ASSUME NEW r \in Runs, AddPID(r) \/ AddPIDFails(r)
      PROVE  Cleanup'
  <2>1. CASE AddPID(r)
    BY <2>1 DEF AddPID, Goto, Abort
  <2>2. CASE AddPIDFails(r)
    BY <2>2 DEF AddPIDFails, Goto, Abort
  <2> QED
    BY <1>10, <2>1, <2>2
<1>11. ASSUME NEW r \in Runs,
             EnsureBridge(r) \/ EnsureBridgeFails(r) \/ AddVeth(r) \/ AddVethFails(r)
      PROVE  Cleanup'
  <2>1. CASE EnsureBridge(r)
    BY <2>1 DEF EnsureBridge, Goto, Abort
  <2>2. CASE EnsureBridgeFails(r)
    BY <2>2 DEF EnsureBridgeFails, Goto, Abort
  <2>3. CASE AddVeth(r)
    BY <2>3 DEF AddVeth, Goto, Abort
  <2>4. CASE AddVethFails(r)
    BY <2>4 DEF AddVethFails, Goto, Abort
  <2> QED
    BY <1>11, <2>1, <2>2, <2>3, <2>4
<1>12. ASSUME NEW r \in Runs, ConfigureNetns(r)
      PROVE  Cleanup'
  BY <1>12 DEF ConfigureNetns, Goto
<1>13. ASSUME NEW r \in Runs, ConfigureNetnsFails(r)
      PROVE  Cleanup'
  BY <1>13 DEF ConfigureNetnsFails, Goto, Abort, DropVeth
<1>14. ASSUME NEW r \in Runs, InstallRule(r)
      PROVE  Cleanup'
  BY <1>14 DEF InstallRule, Goto
<1>15. ASSUME NEW r \in Runs, InstallRuleFails(r)
      PROVE  Cleanup'
  BY <1>15 DEF InstallRuleFails, Goto, Abort, DropVeth
<1>16. ASSUME NEW r \in Runs, SpawnSlirp(r) \/ SpawnSlirpFails(r)
      PROVE  Cleanup'
  <2>1. CASE SpawnSlirp(r)
    BY <2>1 DEF SpawnSlirp, Goto
  <2>2. CASE SpawnSlirpFails(r)
    BY <2>2 DEF SpawnSlirpFails, Goto
  <2> QED
    BY <1>16, <2>1, <2>2
<1>17. ASSUME NEW r \in Runs, SlirpReady(r) \/ SlirpGivesUp(r)
      PROVE  Cleanup'
  <2>1. CASE SlirpReady(r)
    BY <2>1 DEF SlirpReady, Goto
  <2>2. CASE SlirpGivesUp(r)
    BY <2>2 DEF SlirpGivesUp, Goto
  <2> QED
    BY <1>17, <2>1, <2>2
<1>18. ASSUME NEW r \in Runs, ReleaseChild(r)
      PROVE  Cleanup'
  BY <1>18 DEF ReleaseChild, Goto
<1>19. ASSUME NEW r \in Runs, WaitChild(r)
      PROVE  Cleanup'
  BY <1>19 DEF WaitChild, Goto, AfterCgroup
<1>20. ASSUME NEW r \in Runs, CloseAfterWait(r)
      PROVE  Cleanup'
  BY <1>20 DEF CloseAfterWait, Goto, AfterCgroup, CloseCgroup
<1>21. ASSUME NEW r \in Runs, TeardownNetwork(r)
      PROVE  Cleanup'
  <2>1. PICK left \in 0..rules[r], link \in BOOLEAN :
          /\ rules' = [rules EXCEPT ![r] = left]
          /\ veth' = [veth EXCEPT ![r] = link]
          /\ dirty' = [dirty EXCEPT ![r] = @ \/ left > 0 \/ link]
          /\ Goto(r, "netdown", "unmount")
          /\ UNCHANGED <<cfg, failed, procVars, cgVars, fsVars, slirp>>
    BY <1>21 DEF TeardownNetwork
  <2>2. ASSUME NEW q \in Runs, q # r PROVE Clean(q)'
    BY <2>1, <2>2 DEF Goto
  <2>3. /\ pc'[r] = "unmount" /\ pc[r] = "netdown"
        /\ UNCHANGED <<cfg, cg, scratch, mounted, slirp>>
    BY <2>1 DEF Goto
  <2>4. (veth'[r] => dirty'[r]) /\ (rules'[r] # 0 => dirty'[r])
    <3>1. left > 0 \/ link => dirty'[r]
      BY <2>1
    <3>2. left \in Nat /\ rules'[r] = left /\ veth'[r] = link
      BY <2>1
    <3> QED
      BY <3>1, <3>2
  <2>5. Clean(r)'
    BY <2>3, <2>4
  <2> QED
    BY <2>2, <2>5
<1>22. ASSUME NEW r \in Runs, TeardownSlirp(r) \/ KillSlirp(r) \/ ReapSlirp(r)
      PROVE  Cleanup'
  <2>1. CASE TeardownSlirp(r)
    BY <2>1 DEF TeardownSlirp, Goto
  <2>2. CASE KillSlirp(r)
    BY <2>2 DEF KillSlirp, Goto
  <2>3. CASE ReapSlirp(r)
    BY <2>3 DEF ReapSlirp, Goto
  <2> QED
    BY <1>22, <2>1, <2>2, <2>3
<1>23. ASSUME NEW r \in Runs, KillChild(r)
      PROVE  Cleanup'
  BY <1>23 DEF KillChild, Goto
<1>24. ASSUME NEW r \in Runs, ReapKilled(r)
      PROVE  Cleanup'
  BY <1>24 DEF ReapKilled, Goto
<1>25. ASSUME NEW r \in Runs, CloseAfterKill(r)
      PROVE  Cleanup'
  BY <1>25 DEF CloseAfterKill, Goto, CloseCgroup
<1>26. ASSUME NEW r \in Runs, CloseAndUnmount(r)
      PROVE  Cleanup'
  <2>1. PICK left \in {FALSE, mounted[r]} :
          /\ Goto(r, "unmount", IF cfg[r].image THEN "rmscratch" ELSE "returned")
          /\ mounted' = [mounted EXCEPT ![r] = left]
          /\ dirty' = [dirty EXCEPT ![r] = @ \/ left]
          /\ UNCHANGED <<cfg, failed, cgVars, scratch, netVars>>
    BY <1>26 DEF CloseAndUnmount
  <2>2. ASSUME NEW q \in Runs, q # r PROVE Clean(q)'
    BY <2>1, <2>2 DEF Goto
  <2>3. /\ pc[r] = "unmount"
        /\ pc'[r] = IF cfg[r].image THEN "rmscratch" ELSE "returned"
        /\ UNCHANGED <<cfg, failed, cg, scratch, veth, rules, slirp>>
    BY <2>1 DEF Goto
  <2>4. /\ mounted'[r] => mounted[r] /\ dirty'[r]
        /\ dirty[r] => dirty'[r]
    BY <2>1
  <2>5. Clean(r)'
    BY <2>3, <2>4
  <2> QED
    BY <2>2, <2>5
<1>27. ASSUME NEW r \in Runs, RemoveScratch(r)
      PROVE  Cleanup'
  <2>1. PICK left \in {TRUE, mounted[r]} :
          /\ Goto(r, "rmscratch", "returned")
          /\ scratch' = [scratch EXCEPT ![r] = left]
          /\ dirty' = [dirty EXCEPT ![r] = @ \/ left]
          /\ UNCHANGED <<cfg, failed, procVars, cgVars, mounted, netVars>>
    BY <1>27 DEF RemoveScratch
  <2>2. ASSUME NEW q \in Runs, q # r PROVE Clean(q)'
    BY <2>1, <2>2 DEF Goto
  <2>3. /\ pc[r] = "rmscratch" /\ pc'[r] = "returned"
        /\ scratch'[r] = left /\ dirty'[r] = (dirty[r] \/ left)
    BY <2>1 DEF Goto
  <2>4. cfg[r].image
    BY <2>3
  <2>5. Clean(r)'
    BY <2>1, <2>3, <2>4
  <2> QED
    BY <2>2, <2>5
<1>28. ASSUME NEW r \in Runs, Crash(r)
      PROVE  Cleanup'
  BY <1>28 DEF Crash, Goto
<1>29. ASSUME NEW r \in Runs,
             Unblock(r) \/ Exec(r) \/ ChildExits(r) \/ InitReaps(r) \/ Slirp(r)
      PROVE  Cleanup'
  <2>1. CASE Unblock(r)
    BY <2>1 DEF Unblock, Goto, SlirpComesUp, SlirpDies
  <2>2. CASE Exec(r)
    BY <2>2 DEF Exec, Goto, SlirpComesUp, SlirpDies
  <2>3. CASE ChildExits(r)
    BY <2>3 DEF ChildExits, Goto, SlirpComesUp, SlirpDies
  <2>4. CASE InitReaps(r)
    BY <2>4 DEF InitReaps, Goto, SlirpComesUp, SlirpDies
  <2>5. CASE Slirp(r)
    BY <2>5 DEF Slirp, Goto, SlirpComesUp, SlirpDies
  <2> QED
    BY <1>29, <2>1, <2>2, <2>3, <2>4, <2>5
<1>30. CASE UNCHANGED vars
  BY <1>30 DEF vars
<1> QED
  BY <1>1, <1>2, <1>3, <1>4, <1>5, <1>6, <1>7, <1>8, <1>9, <1>10,
    <1>11, <1>12, <1>13, <1>14, <1>15, <1>16, <1>17, <1>18, <1>19, <1>20,
    <1>21, <1>22, <1>23, <1>24, <1>25, <1>26, <1>27, <1>28, <1>29, <1>30
  DEF Next, Parent, Setup, Finish, Child, Quiescent

(***************************************************************************)
(* The invariant holds initially and is inductive.                         *)
(***************************************************************************)
LEMMA InitIInv == Init => IInv
<1> SUFFICES ASSUME Init PROVE IInv
  OBVIOUS
<1> USE ConstantsAssumption DEF Init
<1>1. TypeOK
  BY DEF TypeOK, PC, Held, Alive, Helpers
<1>2. Local
  BY DEF Local, Flow, GroupFlow, Resources, BeforeStart, Preparing, Held,
         Alive
<1>3. PidsDistinct
  BY DEF PidsDistinct, Held, Alive
<1>4. Groups
  BY DEF Groups, Written, EveryGroupHasCloser, Writers
<1>5. Cleanup
  BY DEF Cleanup, Clean, BeforeStart
<1> QED
  BY <1>1, <1>2, <1>3, <1>4, <1>5 DEF IInv

LEMMA StepIInv == IInv /\ [Next]_vars => IInv'
<1> SUFFICES ASSUME IInv, [Next]_vars PROVE IInv'
  OBVIOUS
<1>0. /\ TypeOK /\ Local /\ PidsDistinct /\ Groups /\ Cleanup
      /\ Writers /\ EveryGroupHasCloser
  BY DEF IInv, Groups
<1>1. TypeOK'
  BY <1>0, TypeStep
<1>2. Local'
  BY <1>0, FlowStep, GroupFlowStep, ResourcesStep DEF Local
<1>3. PidsDistinct'
  BY <1>0, PidsDistinctStep
<1>4. Groups'
  BY <1>0, WrittenStep, MustCloseStep, WritersStep DEF Groups
<1>5. Cleanup'
  BY <1>0, CleanStep
<1> QED
  BY <1>1, <1>2, <1>3, <1>4, <1>5 DEF IInv

\* The invariant holds of every behaviour of Run and Child.
THEOREM Invariance == Spec => []IInv
<1> QED
  BY InitIInv, StepIInv, PTL DEF Spec

(***************************************************************************)
(* What follows from it.                                                   *)
(***************************************************************************)

\* Type correctness of the state of Run, Child and the host.
THEOREM TypeCorrect == Spec => []TypeOK
<1>1. IInv => TypeOK
  BY DEF IInv
<1> QED
  BY <1>1, Invariance, PTL

\* A released container runs inside a group with every limit asked for.
THEOREM Confinement == Spec => []ConfinedWhileRunning
<1>1. IInv => ConfinedWhileRunning
  <2> SUFFICES ASSUME IInv, NEW r \in Runs, UsesCgroup(r), Executing(r),
                      pipe[r] = "released"
               PROVE  Confined(r)
    BY DEF ConfinedWhileRunning
  <2>1. pc[r] \in {"wait", "crashed"} /\ child[r] \in Alive
    BY DEF IInv, TypeOK, PC, Local, Flow, Executing, BeforeStart, Preparing,
           Alive
  <2>2. inCg[r]
    BY <2>1 DEF IInv, Local, GroupFlow
  <2> QED
    BY <2>1, <2>2 DEF IInv, Groups, Written
<1> QED
  BY <1>1, Invariance, PTL

\* A limit that was not asked for is enforced only after a reuse of the pid.
THEOREM UnsetLimits == Spec => []UnsetLimitsDefault
<1>1. IInv => UnsetLimitsDefault
  <2> SUFFICES ASSUME IInv, NEW r \in Runs, NEW l \in Limits \ cfg[r].limits,
                      Executing(r),
                      \A s \in Runs \ {r} : pid[s] # pid[r]
               PROVE  cgLim[pid[r]][l] = NoRun
    BY DEF UnsetLimitsDefault
  <2>1. pid[r] \in Pids
    BY DEF IInv, Local, Flow, Executing
  <2>2. cgLim[pid[r]][l] \in Runs \cup {NoRun}
    BY <2>1 DEF IInv, TypeOK
  <2>3. \A w \in Runs : cgLim[pid[r]][l] # w
    BY <2>1 DEF IInv, Groups, Writers
  <2> QED
    BY <2>2, <2>3
<1> QED
  BY <1>1, Invariance, PTL

\* A released container that is not rootless has its link and its ports.
THEOREM NetworkUp == Spec => []NetworkUpWhileRunning
<1>1. IInv => NetworkUpWhileRunning
  <2> SUFFICES ASSUME IInv, NEW r \in Runs, ~cfg[r].rootless, Executing(r),
                      pipe[r] = "released"
               PROVE  veth[r] /\ rules[r] = AllRules(r)
    BY DEF NetworkUpWhileRunning
  <2>1. pc[r] \in {"wait", "crashed"} /\ child[r] \in Alive
    BY DEF IInv, TypeOK, PC, Local, Flow, Executing, BeforeStart, Preparing,
           Alive
  <2> QED
    BY <2>1 DEF IInv, Local, Resources
<1> QED
  BY <1>1, Invariance, PTL

\* The root file system is mounted as long as a child may use it.
THEOREM RootfsMounted == Spec => []RootfsWhileRunning
<1>1. IInv => RootfsWhileRunning
  BY DEF IInv, Local, Resources, RootfsWhileRunning, Executing, Held, Alive
<1> QED
  BY <1>1, Invariance, PTL

\* Run reports a set-up error only for a container that never ran.
THEOREM FailureIsFinal == Spec => []FailedRunNeverExecs
<1>1. IInv => FailedRunNeverExecs
  BY DEF IInv, Local, Flow, FailedRunNeverExecs, Executing
<1> QED
  BY <1>1, Invariance, PTL

\* A released rootless container never meets a TAP that is half configured.
THEOREM TapReady == Spec => []TapBeforeExec
<1>1. IInv => TapBeforeExec
  BY DEF IInv, Local, Flow, TapBeforeExec, Executing, Preparing
<1> QED
  BY <1>1, Invariance, PTL

\* No group outlives the runs that used it, unless one of them was killed.
THEOREM NoTrail == Spec => []NoCgroupTrail
<1>1. IInv => NoCgroupTrail
  BY DEF IInv, Groups, EveryGroupHasCloser, MustClose, NoCgroupTrail
<1> QED
  BY <1>1, Invariance, PTL

\* A run that returned has left no process, helper, mount, scratch directory or
\* link unless a clean-up command of its own failed, nor rules if it got as far
\* as the release; and no group is there that only runs which returned have used.
THEOREM CleanReturn == Spec => [](NothingLeft /\ NoCgroupTrail)
<1>1. IInv => NothingLeft
  <2> SUFFICES ASSUME IInv, NEW r \in Runs, pc[r] = "returned", ~dirty[r]
               PROVE  /\ child[r] \notin Held
                      /\ ~scratch[r] /\ ~mounted[r] /\ ~veth[r]
                      /\ slirp[r] = "none"
                      /\ failed[r] \/ rules[r] = 0
    BY DEF NothingLeft
  <2>1. Flow(r) /\ Clean(r)
    BY DEF IInv, Local, Cleanup
  <2> QED
    BY <2>1 DEF Flow, Clean, Held, Alive
<1> QED
  BY <1>1, Invariance, NoTrail, PTL

\* No step of any run changes the limits of a container that lives.
THEOREM Stability == Spec => LimitsStable
<1>1. ASSUME IInv, IInv', [Next]_vars, NEW r \in Runs,
             Confined(r), child[r] \in Alive, child'[r] \in Alive
      PROVE  Confined(r)' /\ cgLim'[pid[r]] = cgLim[pid[r]]
  <2>1. /\ TypeOK /\ Local /\ PidsDistinct
        /\ pid[r] \in Pids /\ inCg[r]
        /\ Occupied(pid[r])
    BY <1>1 DEF IInv, Local, Flow, Confined, Alive, Held, Occupied
  <2>2. GroupKept(r)
    BY <1>1, <2>1, StepKeepsGroup
  <2>3. Confined(r)'
    BY <1>1, <2>2 DEF IInv, Groups, Written, GroupKept
  <2> QED
    BY <2>2, <2>3 DEF GroupKept
<1>2. IInv /\ IInv' /\ [Next]_vars =>
        [\A r \in Runs :
           Confined(r) /\ child[r] \in Alive /\ child'[r] \in Alive
             => Confined(r)' /\ cgLim'[pid[r]] = cgLim[pid[r]]]_vars
  BY <1>1
<1> QED
  BY <1>2, Invariance, PTL DEF Spec, LimitsStable
=============================================================================
