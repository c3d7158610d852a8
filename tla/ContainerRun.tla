---------------------------- MODULE ContainerRun ----------------------------
(***************************************************************************)
(* Concurrent invocations of `myrun run` on one host: runtime.Run in the   *)
(* parent, runtime.Child in the cloned process, and the host state both of *)
(* them and every other invocation share: the pid space, the cgroup tree,  *)
(* the overlay mounts, the veth pairs and the iptables rules.              *)
(*                                                                         *)
(* The parent of run r is a program counter pc[r] that walks through Run   *)
(* in the order of the code; every call that touches the host is a step of *)
(* its own and, where the code checks an error, has a failing twin.  The   *)
(* child is child[r].  A crash of the parent (SIGKILL, panic) may happen   *)
(* between any two of its steps.                                           *)
(*                                                                         *)
(* Simplifications: a limit file holds the run that wrote it last, which   *)
(* stands for the value; iptables rules tagged with a run's id are         *)
(* counted, not listed; container ids are the runs themselves (unique); the*)
(* shared bridge is the subject of another module, here EnsureBridge only  *)
(* succeeds or fails.                                                      *)
(***************************************************************************)
EXTENDS Naturals, FiniteSets

CONSTANTS
  Runs,        \* the invocations of `myrun run`
  Pids,        \* host pids the kernel may give to a container's first process
  Configs,     \* the configurations a run may be started with
  Crashable,   \* the runs whose parent may be killed half-way
  NoRun,       \* "no run wrote this limit file": the kernel default, "max"
  NoPid        \* pid of a run that has not cloned its child yet

Limits == {"memory", "cpu", "pids"}

RunConfig == [image : BOOLEAN, rootless : BOOLEAN,
              limits : SUBSET Limits, ports : Nat]

ASSUME ConstantsAssumption ==
  /\ NoRun \notin Runs
  /\ NoPid \notin Pids
  /\ Configs \subseteq RunConfig
  /\ Crashable \subseteq Runs

VARIABLES
  cfg,      \* runtime.Config of each run, fixed when it starts
  pc,       \* where the parent is in Run
  failed,   \* Run is returning an error from before the release of the child
  pid,      \* c.Process.Pid, kept by the parent until it returns
  child,    \* state of the cloned process
  pipe,     \* write end of the sync pipe, as the child's read sees it
  todo,     \* limits cgroups.Create has still to write
  cg,       \* the parent holds a *Cgroup
  inCg,     \* the child's pid was written to its cgroup.procs
  cgDir,    \* pids p for which /sys/fs/cgroup/myrun-<p> exists
  cgLim,    \* who last wrote each limit file of myrun-<p>
  scratch,  \* containers/<id> exists
  mounted,  \* the overlay is mounted on containers/<id>/merged
  veth,     \* host side of the veth pair exists
  rules,    \* number of iptables rules tagged myrun:<id> on the host
  slirp,    \* the slirp4netns process of the run, see Helpers
  dirty     \* a clean-up command of the run failed and was only logged

cgVars   == <<todo, cg, inCg, cgDir, cgLim>>
fsVars   == <<scratch, mounted>>
netVars  == <<veth, rules, slirp>>
procVars == <<pid, child, pipe>>
vars == <<cfg, pc, failed, procVars, cgVars, fsVars, netVars, dirty>>

PC == {"resolve", "mount", "start", "mkdir", "limits", "addpid", "bridge",
       "link", "netns", "publish", "slirp", "slirpwait", "release", "wait",
       "cgclose", "netdown", "slirpdown", "slirpreap", "kill", "reap", "undo", "unmount",
       "rmscratch", "returned", "crashed"}

Alive == {"blocked", "setup", "running"}    \* executing in its namespaces
Held  == Alive \cup {"zombie"}              \* its pid is not free

\* No slirp4netns, or none the parent has not reaped; one that is setting up
\* the TAP; one that wrote its byte; one that died before or after that byte.
Helpers == {"none", "starting", "ready", "dead", "gone"}

TypeOK ==
  /\ cfg \in [Runs -> Configs]
  /\ pc \in [Runs -> PC]
  /\ failed \in [Runs -> BOOLEAN]
  /\ pid \in [Runs -> Pids \cup {NoPid}]
  /\ child \in [Runs -> Held \cup {"none", "reaped"}]
  /\ pipe \in [Runs -> {"none", "open", "released", "broken"}]
  /\ todo \in [Runs -> SUBSET Limits]
  /\ cg \in [Runs -> BOOLEAN]
  /\ inCg \in [Runs -> BOOLEAN]
  /\ cgDir \subseteq Pids
  /\ cgLim \in [Pids -> [Limits -> Runs \cup {NoRun}]]
  /\ scratch \in [Runs -> BOOLEAN]
  /\ mounted \in [Runs -> BOOLEAN]
  /\ veth \in [Runs -> BOOLEAN]
  /\ rules \in [Runs -> Nat]
  /\ slirp \in [Runs -> Helpers]
  /\ dirty \in [Runs -> BOOLEAN]

Init ==
  /\ cfg \in [Runs -> Configs]
  /\ pc = [r \in Runs |-> "resolve"]
  /\ failed = [r \in Runs |-> FALSE]
  /\ pid = [r \in Runs |-> NoPid]
  /\ child = [r \in Runs |-> "none"]
  /\ pipe = [r \in Runs |-> "none"]
  /\ todo = [r \in Runs |-> {}]
  /\ cg = [r \in Runs |-> FALSE]
  /\ inCg = [r \in Runs |-> FALSE]
  /\ cgDir = {}
  /\ cgLim = [p \in Pids |-> [l \in Limits |-> NoRun]]
  /\ scratch = [r \in Runs |-> FALSE]
  /\ mounted = [r \in Runs |-> FALSE]
  /\ veth = [r \in Runs |-> FALSE]
  /\ rules = [r \in Runs |-> 0]
  /\ slirp = [r \in Runs |-> "none"]
  /\ dirty = [r \in Runs |-> FALSE]

(***************************************************************************)
(* Helpers.                                                                *)
(***************************************************************************)

\* The parent's program counter moves from a to b.
Goto(r, a, b) == pc[r] = a /\ pc' = [pc EXCEPT ![r] = b]

\* Run gives up before the release: the error is remembered, b comes next.
Abort(r, a, b) == Goto(r, a, b) /\ failed' = [failed EXCEPT ![r] = TRUE]

\* cgroups are used only by a run that is not rootless and asks for a limit.
UsesCgroup(r) == ~cfg[r].rootless /\ cfg[r].limits # {}

\* addPublishRules appends three rules for each published port.
AllRules(r) == 3 * cfg[r].ports

FreePids == Pids \ {pid[s] : s \in {s \in Runs : child[s] \in Held}}

\* Some process lives in myrun-<p>: the kernel refuses to remove it.
Occupied(p) ==
  \E s \in Runs : pid[s] = p /\ inCg[s] /\ child[s] \in Alive

\* Mutant: Close empties the group first, as `rm -r` or cgroup.kill would.
CloseCgroupForced(p) ==
  /\ cgDir' = cgDir \ {p}
  /\ cgLim' = [cgLim EXCEPT ![p] = [l \in Limits |-> NoRun]]

\* Cgroup.Close: rmdir.  A missing directory is no error; a busy one is,
\* and every caller only logs it or drops it.
CloseCgroup(p) ==
  IF p \in cgDir /\ ~Occupied(p)
    THEN /\ cgDir' = cgDir \ {p}
         /\ cgLim' = [cgLim EXCEPT ![p] = [l \in Limits |-> NoRun]]
    ELSE UNCHANGED <<cgDir, cgLim>>

(***************************************************************************)
(* Run, up to the clone: the root file system and the child.               *)
(***************************************************************************)

\* applySpec, Preflight and resolveRootfs up to the scratch directory.
ResolveRootfs(r) ==
  /\ \/ ~cfg[r].image /\ Goto(r, "resolve", "start") /\ UNCHANGED scratch
     \/ /\ cfg[r].image /\ Goto(r, "resolve", "mount")
        /\ scratch' = [scratch EXCEPT ![r] = TRUE]
  /\ UNCHANGED <<cfg, failed, procVars, cgVars, mounted, netVars, dirty>>

\* Preflight fails, or the image is not in the store: nothing to undo.
ResolveFails(r) ==
  /\ Abort(r, "resolve", "returned")
  /\ UNCHANGED <<cfg, procVars, cgVars, fsVars, netVars, dirty>>

MountOverlay(r) ==
  /\ Goto(r, "mount", "start")
  /\ mounted' = [mounted EXCEPT ![r] = TRUE]
  /\ UNCHANGED <<cfg, failed, procVars, cgVars, scratch, netVars, dirty>>

\* Mutant: a failed mount is only logged.
MountFailsLogged(r) ==
  /\ Goto(r, "mount", "start")
  /\ UNCHANGED <<cfg, failed, procVars, cgVars, fsVars, netVars, dirty>>

\* The mount fails: resolveRootfs removes the scratch directory itself, or
\* fails to (the result of RemoveAll is dropped).
MountFails(r) ==
  /\ Abort(r, "mount", "returned")
  /\ \E left \in BOOLEAN :
       /\ scratch' = [scratch EXCEPT ![r] = left]
       /\ dirty' = [dirty EXCEPT ![r] = left]
  /\ UNCHANGED <<cfg, procVars, cgVars, mounted, netVars>>

\* os.Pipe and c.Start: the clone gets a free pid and blocks on fd 3.
StartChild(r) ==
  /\ Goto(r, "start", IF cfg[r].rootless THEN "slirp"
                      ELSE IF UsesCgroup(r) THEN "mkdir" ELSE "bridge")
  /\ \E p \in FreePids : pid' = [pid EXCEPT ![r] = p]
  /\ child' = [child EXCEPT ![r] = "blocked"]
  /\ pipe' = [pipe EXCEPT ![r] = "open"]
  /\ UNCHANGED <<cfg, failed, cgVars, fsVars, netVars, dirty>>

StartFails(r) ==
  /\ Abort(r, "start", "unmount")
  /\ UNCHANGED <<cfg, procVars, cgVars, fsVars, netVars, dirty>>

(***************************************************************************)
(* Run: the cgroup.  cgroups.Create makes the directory, tolerating one    *)
(* that is already there, and writes the requested limits in a fixed order.*)
(***************************************************************************)

\* Mutant: Create writes every limit, the unset ones as zero.
MakeCgroupAllLimits(r) ==
  /\ Goto(r, "mkdir", "limits")
  /\ todo' = [todo EXCEPT ![r] = Limits]
  /\ cgDir' = cgDir \cup {pid[r]}
  /\ UNCHANGED <<cfg, failed, procVars, cg, inCg, cgLim, fsVars, netVars, dirty>>

MakeCgroup(r) ==
  /\ Goto(r, "mkdir", "limits")
  /\ todo' = [todo EXCEPT ![r] = cfg[r].limits]
  /\ cgDir' = cgDir \cup {pid[r]}
  /\ UNCHANGED <<cfg, failed, procVars, cg, inCg, cgLim, fsVars, netVars, dirty>>

MakeCgroupFails(r) ==
  /\ Abort(r, "mkdir", "kill")
  /\ UNCHANGED <<cfg, procVars, cgVars, fsVars, netVars, dirty>>

WriteOrder == [memory |-> 1, cpu |-> 2, pids |-> 3]

\* One limit file; the file is there only while the directory is.  After
\* the last one Create returns the handle.
WriteLimit(r) ==
  \E l \in todo[r] :
    /\ \A k \in todo[r] : WriteOrder[l] <= WriteOrder[k]
    /\ pid[r] \in cgDir
    /\ Goto(r, "limits", IF todo[r] = {l} THEN "addpid" ELSE "limits")
    /\ cgLim' = [cgLim EXCEPT ![pid[r]][l] = r]
    /\ todo' = [todo EXCEPT ![r] = @ \ {l}]
    /\ cg' = [cg EXCEPT ![r] = (todo[r] = {l})]
    /\ UNCHANGED <<cfg, failed, procVars, inCg, cgDir, fsVars, netVars, dirty>>

\* Mutant: Create returns the error without closing the group it made.
WriteLimitFailsKeeping(r) ==
  /\ Abort(r, "limits", "kill")
  /\ UNCHANGED <<cfg, procVars, cgVars, fsVars, netVars, dirty>>

\* A write fails: Create closes the group it made and returns no handle.
WriteLimitFails(r) ==
  /\ Abort(r, "limits", "kill")
  /\ CloseCgroup(pid[r])
  /\ UNCHANGED <<cfg, procVars, todo, cg, inCg, fsVars, netVars, dirty>>

\* AddPID: the group must still be there.  The kernel accepts the pid of a
\* zombie too, which does not keep the group busy.
AddPID(r) ==
  /\ pid[r] \in cgDir
  /\ Goto(r, "addpid", "bridge")
  /\ inCg' = [inCg EXCEPT ![r] = TRUE]
  /\ UNCHANGED <<cfg, failed, procVars, todo, cg, cgDir, cgLim, fsVars,
                 netVars, dirty>>

\* Mutant: the error of AddPID is only logged.
AddPIDFailsLogged(r) ==
  /\ Goto(r, "addpid", "bridge")
  /\ UNCHANGED <<cfg, failed, procVars, cgVars, fsVars, netVars, dirty>>

AddPIDFails(r) ==
  /\ Abort(r, "addpid", "kill")
  /\ UNCHANGED <<cfg, procVars, cgVars, fsVars, netVars, dirty>>

(***************************************************************************)
(* Run: network.Setup, or slirp.Setup when the run is rootless.            *)
(***************************************************************************)

EnsureBridge(r) ==
  /\ Goto(r, "bridge", "link")
  /\ UNCHANGED <<cfg, failed, procVars, cgVars, fsVars, netVars, dirty>>

\* Mutant: a container without network is started all the same.
EnsureBridgeFailsLogged(r) ==
  /\ Goto(r, "bridge", "release")
  /\ UNCHANGED <<cfg, failed, procVars, cgVars, fsVars, netVars, dirty>>

EnsureBridgeFails(r) ==
  /\ Abort(r, "bridge", "kill")
  /\ UNCHANGED <<cfg, procVars, cgVars, fsVars, netVars, dirty>>

\* `ip link del` of a stale pair, then `ip link add`.
AddVeth(r) ==
  /\ Goto(r, "link", "netns")
  /\ veth' = [veth EXCEPT ![r] = TRUE]
  /\ UNCHANGED <<cfg, failed, procVars, cgVars, fsVars, rules, slirp, dirty>>

AddVethFails(r) ==
  /\ Abort(r, "link", "kill")
  /\ UNCHANGED <<cfg, procVars, cgVars, fsVars, netVars, dirty>>

\* Bridge port, peer into the child's netns, address and route: these need
\* the netns, so the child must not have died meanwhile.
ConfigureNetns(r) ==
  /\ child[r] \in Alive
  /\ Goto(r, "netns", IF cfg[r].ports = 0 THEN "release" ELSE "publish")
  /\ UNCHANGED <<cfg, failed, procVars, cgVars, fsVars, netVars, dirty>>

\* Every error path of Setup after `ip link add` deletes the host side of
\* the pair again, ignoring the outcome.
DropVeth(r) ==
  \E left \in BOOLEAN :
    /\ veth' = [veth EXCEPT ![r] = left]
    /\ dirty' = [dirty EXCEPT ![r] = @ \/ left]

\* Mutant: Run returns the error of network.Setup without killing the child.
ConfigureNetnsFailsNoKill(r) ==
  /\ Abort(r, "netns", "unmount")
  /\ DropVeth(r)
  /\ UNCHANGED <<cfg, procVars, cgVars, fsVars, rules, slirp>>

ConfigureNetnsFails(r) ==
  /\ Abort(r, "netns", "kill")
  /\ DropVeth(r)
  /\ UNCHANGED <<cfg, procVars, cgVars, fsVars, rules, slirp>>

\* One `iptables -A` of addPublishRules.
InstallRule(r) ==
  /\ Goto(r, "publish", IF rules[r] + 1 = AllRules(r) THEN "release"
                        ELSE "publish")
  /\ rules' = [rules EXCEPT ![r] = @ + 1]
  /\ UNCHANGED <<cfg, failed, procVars, cgVars, fsVars, veth, slirp, dirty>>

\* Mutant: Setup forgets the veth when the rules fail.
InstallRuleFailsKeepingVeth(r) ==
  /\ Abort(r, "publish", "kill")
  /\ UNCHANGED <<cfg, procVars, cgVars, fsVars, netVars, dirty>>

\* Mutant: Setup deletes the rule that was refused as well.
InstallRuleFailsRollback(r) ==
  /\ Abort(r, "publish", "kill")
  /\ DropVeth(r)
  /\ rules' = [rules EXCEPT ![r] = @ - 1]
  /\ UNCHANGED <<cfg, procVars, cgVars, fsVars, slirp>>

\* A rule is refused: Setup deletes the veth and returns; the rules that
\* were appended before stay.
InstallRuleFails(r) ==
  /\ Abort(r, "publish", "kill")
  /\ DropVeth(r)
  /\ UNCHANGED <<cfg, procVars, cgVars, fsVars, rules, slirp>>

\* Mutant: Setup does not wait for the ready byte.
SpawnSlirpNoWait(r) ==
  /\ Goto(r, "slirp", "release")
  /\ slirp' = [slirp EXCEPT ![r] = "starting"]
  /\ UNCHANGED <<cfg, failed, procVars, cgVars, fsVars, veth, rules, dirty>>

SpawnSlirp(r) ==
  /\ Goto(r, "slirp", "slirpwait")
  /\ slirp' = [slirp EXCEPT ![r] = "starting"]
  /\ UNCHANGED <<cfg, failed, procVars, cgVars, fsVars, veth, rules, dirty>>

\* Not installed or not startable: only logged, the run goes on.
SpawnSlirpFails(r) ==
  /\ Goto(r, "slirp", "release")
  /\ UNCHANGED <<cfg, failed, procVars, cgVars, fsVars, netVars, dirty>>

\* waitReady reads the byte; the helper may have died since it wrote it.
SlirpReady(r) ==
  /\ slirp[r] \in {"ready", "gone"}
  /\ Goto(r, "slirpwait", "release")
  /\ UNCHANGED <<cfg, failed, procVars, cgVars, fsVars, netVars, dirty>>

\* The pipe closes without a byte, or the timer fires, be it together with
\* the byte: Setup kills and reaps the helper, and Run goes on without.
SlirpGivesUp(r) ==
  /\ Goto(r, "slirpwait", "release")
  /\ slirp' = [slirp EXCEPT ![r] = "none"]
  /\ UNCHANGED <<cfg, failed, procVars, cgVars, fsVars, veth, rules, dirty>>

(***************************************************************************)
(* Run: release, wait and clean up.                                        *)
(***************************************************************************)

\* Mutant: w.Close is left to the deferred call.
ReleaseChildDeferred(r) ==
  /\ Goto(r, "release", "wait")
  /\ UNCHANGED <<cfg, failed, procVars, cgVars, fsVars, netVars, dirty>>

ReleaseChild(r) ==
  /\ Goto(r, "release", "wait")
  /\ pipe' = [pipe EXCEPT ![r] = "released"]
  /\ UNCHANGED <<cfg, failed, pid, child, cgVars, fsVars, netVars, dirty>>

\* What follows c.Wait: the handles that are not nil are closed in turn.
AfterCgroup(r) ==
  IF ~cfg[r].rootless THEN "netdown"
  ELSE IF slirp[r] # "none" THEN "slirpdown" ELSE "unmount"

WaitChild(r) ==
  /\ child[r] = "zombie"
  /\ Goto(r, "wait", IF cg[r] THEN "cgclose" ELSE AfterCgroup(r))
  /\ child' = [child EXCEPT ![r] = "reaped"]
  /\ UNCHANGED <<cfg, failed, pid, pipe, cgVars, fsVars, netVars, dirty>>

CloseAfterWait(r) ==
  /\ Goto(r, "cgclose", AfterCgroup(r))
  /\ CloseCgroup(pid[r])
  /\ UNCHANGED <<cfg, failed, procVars, todo, cg, inCg, fsVars, netVars, dirty>>

\* Network.Teardown: `iptables -D` for every rule and `ip link del`, each
\* of which may fail unnoticed.
TeardownNetwork(r) ==
  /\ Goto(r, "netdown", "unmount")
  /\ \E left \in 0..rules[r], link \in BOOLEAN :
       /\ rules' = [rules EXCEPT ![r] = left]
       /\ veth' = [veth EXCEPT ![r] = link]
       /\ dirty' = [dirty EXCEPT ![r] = @ \/ left > 0 \/ link]
  /\ UNCHANGED <<cfg, failed, procVars, cgVars, fsVars, slirp>>

\* Handle.Teardown sends SIGTERM, which a wedged helper does not heed, ...
TeardownSlirp(r) ==
  /\ Goto(r, "slirpdown", "slirpreap")
  /\ UNCHANGED <<cfg, failed, procVars, cgVars, fsVars, netVars, dirty>>

\* ... after two seconds SIGKILL, ...
KillSlirp(r) ==
  /\ pc[r] = "slirpreap" /\ slirp[r] = "ready"
  /\ slirp' = [slirp EXCEPT ![r] = "gone"]
  /\ UNCHANGED <<cfg, pc, failed, procVars, cgVars, fsVars, veth, rules, dirty>>

\* ... and returns when the helper is reaped.
ReapSlirp(r) ==
  /\ slirp[r] = "gone"
  /\ Goto(r, "slirpreap", "unmount")
  /\ slirp' = [slirp EXCEPT ![r] = "none"]
  /\ UNCHANGED <<cfg, failed, procVars, cgVars, fsVars, veth, rules, dirty>>

\* Mutant: the error path waits for a child it has not killed.
KillChildMissing(r) ==
  /\ Goto(r, "kill", "reap")
  /\ UNCHANGED <<cfg, failed, procVars, cgVars, fsVars, netVars, dirty>>

\* The error paths: c.Process.Kill (no-op on a dead child), Wait, and the
\* cgroup when Create had returned it.
KillChild(r) ==
  /\ Goto(r, "kill", "reap")
  /\ child' = [child EXCEPT ![r] = "zombie"]
  /\ UNCHANGED <<cfg, failed, pid, pipe, cgVars, fsVars, netVars, dirty>>

ReapKilled(r) ==
  /\ child[r] = "zombie"
  /\ Goto(r, "reap", IF cg[r] THEN "undo" ELSE "unmount")
  /\ child' = [child EXCEPT ![r] = "reaped"]
  /\ UNCHANGED <<cfg, failed, pid, pipe, cgVars, fsVars, netVars, dirty>>

CloseAfterKill(r) ==
  /\ Goto(r, "undo", "unmount")
  /\ CloseCgroup(pid[r])
  /\ UNCHANGED <<cfg, failed, procVars, todo, cg, inCg, fsVars, netVars, dirty>>

\* The deferred calls, last registered first: w.Close, then the clean-up of
\* the root file system, whose errors are only logged.
CloseAndUnmount(r) ==
  /\ Goto(r, "unmount", IF cfg[r].image THEN "rmscratch" ELSE "returned")
  /\ pipe' = [pipe EXCEPT ![r] = IF @ = "open" THEN "broken" ELSE @]
  /\ \E left \in {FALSE, mounted[r]} :
       /\ mounted' = [mounted EXCEPT ![r] = left]
       /\ dirty' = [dirty EXCEPT ![r] = @ \/ left]
  /\ UNCHANGED <<cfg, failed, pid, child, cgVars, scratch, netVars>>

\* RemoveAll cannot remove a directory that is still a mount point.
RemoveScratch(r) ==
  /\ Goto(r, "rmscratch", "returned")
  /\ \E left \in {TRUE, mounted[r]} :
       /\ scratch' = [scratch EXCEPT ![r] = left]
       /\ dirty' = [dirty EXCEPT ![r] = @ \/ left]
  /\ UNCHANGED <<cfg, failed, procVars, cgVars, mounted, netVars>>

(***************************************************************************)
(* The parent is killed; the kernel closes its end of the pipe.            *)
(***************************************************************************)
Crash(r) ==
  /\ r \in Crashable
  /\ pc[r] \notin {"resolve", "returned", "crashed"}
  /\ pc' = [pc EXCEPT ![r] = "crashed"]
  /\ pipe' = [pipe EXCEPT ![r] = IF @ = "open" THEN "broken" ELSE @]
  /\ UNCHANGED <<cfg, failed, pid, child, cgVars, fsVars, netVars, dirty>>

(***************************************************************************)
(* The child.                                                              *)
(***************************************************************************)

\* Mutant: a child that finds no fd 3 goes on (`if sync != nil`).
UnblockAnyway(r) ==
  /\ child[r] = "blocked"
  /\ child' = [child EXCEPT ![r] = "setup"]
  /\ UNCHANGED <<cfg, pc, failed, pid, pipe, cgVars, fsVars, netVars, dirty>>

\* The read on fd 3 returns, whatever made it return.
Unblock(r) ==
  /\ child[r] = "blocked" /\ pipe[r] \in {"released", "broken"}
  /\ child' = [child EXCEPT ![r] = "setup"]
  /\ UNCHANGED <<cfg, pc, failed, pid, pipe, cgVars, fsVars, netVars, dirty>>

\* Sethostname, pivot.Do, LookPath, seccomp.Apply and Exec all succeed;
\* without its root file system pivot.Do does not.
Exec(r) ==
  /\ child[r] = "setup" /\ (cfg[r].image => mounted[r])
  /\ child' = [child EXCEPT ![r] = "running"]
  /\ UNCHANGED <<cfg, pc, failed, pid, pipe, cgVars, fsVars, netVars, dirty>>

\* The child returns an error from its set-up, its program ends, or a signal
\* kills it.
ChildExits(r) ==
  /\ child[r] \in Alive
  /\ child' = [child EXCEPT ![r] = "zombie"]
  /\ UNCHANGED <<cfg, pc, failed, pid, pipe, cgVars, fsVars, netVars, dirty>>

\* init reaps the orphan of a crashed parent.
InitReaps(r) ==
  /\ pc[r] = "crashed" /\ child[r] = "zombie"
  /\ child' = [child EXCEPT ![r] = "reaped"]
  /\ UNCHANGED <<cfg, pc, failed, pid, pipe, cgVars, fsVars, netVars, dirty>>

(***************************************************************************)
(* slirp4netns.                                                            *)
(***************************************************************************)

\* The TAP is configured in the child's netns and the byte is written.
SlirpComesUp(r) ==
  /\ slirp[r] = "starting"
  /\ slirp' = [slirp EXCEPT ![r] = "ready"]
  /\ UNCHANGED <<cfg, pc, failed, procVars, cgVars, fsVars, veth, rules, dirty>>

\* A bad kernel, a netns that vanished, a SIGTERM.
SlirpDies(r) ==
  /\ slirp[r] \in {"starting", "ready"}
  /\ slirp' = [slirp EXCEPT ![r] = IF @ = "ready" THEN "gone" ELSE "dead"]
  /\ UNCHANGED <<cfg, pc, failed, procVars, cgVars, fsVars, veth, rules, dirty>>

(***************************************************************************)
(* The system.                                                             *)
(***************************************************************************)
Setup(r) ==
  \/ ResolveRootfs(r) \/ ResolveFails(r) \/ MountOverlay(r) \/ MountFails(r)
  \/ StartChild(r) \/ StartFails(r)
  \/ MakeCgroup(r) \/ MakeCgroupFails(r) \/ WriteLimit(r)
  \/ WriteLimitFails(r) \/ AddPID(r) \/ AddPIDFails(r)
  \/ EnsureBridge(r) \/ EnsureBridgeFails(r) \/ AddVeth(r) \/ AddVethFails(r)
  \/ ConfigureNetns(r) \/ ConfigureNetnsFails(r) \/ InstallRule(r)
  \/ InstallRuleFails(r)
  \/ SpawnSlirp(r) \/ SpawnSlirpFails(r) \/ SlirpReady(r)
  \/ SlirpGivesUp(r)

Finish(r) ==
  \/ ReleaseChild(r) \/ WaitChild(r) \/ CloseAfterWait(r)
  \/ TeardownNetwork(r) \/ TeardownSlirp(r) \/ KillSlirp(r) \/ ReapSlirp(r)
  \/ KillChild(r) \/ ReapKilled(r) \/ CloseAfterKill(r)
  \/ CloseAndUnmount(r) \/ RemoveScratch(r)

Parent(r) == Setup(r) \/ Finish(r)

Child(r) == Unblock(r) \/ Exec(r) \/ ChildExits(r) \/ InitReaps(r)

Slirp(r) == SlirpComesUp(r) \/ SlirpDies(r)

\* Every run has ended and every child is gone.
Quiescent ==
  /\ \A r \in Runs : pc[r] \in {"returned", "crashed"} /\ child[r] \notin Held
  /\ UNCHANGED vars

Next ==
  \/ \E r \in Runs : Parent(r) \/ Crash(r) \/ Child(r) \/ Slirp(r)
  \/ Quiescent

\* A parent that is neither dead nor waiting keeps going, a child whose read
\* has returned keeps going; a container need not end, nor a parent crash, nor
\* slirp4netns come up or heed a signal other than SIGKILL.
Fairness == \A r \in Runs : WF_vars(Parent(r)) /\ WF_vars(Unblock(r))

Spec == Init /\ [][Next]_vars
FairSpec == Spec /\ Fairness

(***************************************************************************)
(* Safety.                                                                 *)
(***************************************************************************)

\* The process r owns is inside a group that carries every limit r asked for.
Confined(r) ==
  /\ pid[r] \in cgDir /\ inCg[r]
  /\ \A l \in cfg[r].limits : cgLim[pid[r]][l] = r

Executing(r) == child[r] \in {"setup", "running"}

\* No container whose parent released it runs a single instruction outside
\* the limits asked for, whatever failed on the way and whatever other
\* invocations do to the cgroup tree meanwhile (Run: the order Create,
\* AddPID, release; the error paths kill the child).
ConfinedWhileRunning ==
  \A r \in Runs :
    UsesCgroup(r) /\ Executing(r) /\ pipe[r] = "released" => Confined(r)

\* A limit nobody asked for is not enforced on a container, as long as its
\* pid, which names the group, was not used by another run before
\* (cgroups.Create writes the non-zero limits only).
UnsetLimitsDefault ==
  \A r \in Runs :
    /\ UsesCgroup(r) /\ Executing(r) /\ pipe[r] = "released"
    /\ \A s \in Runs \ {r} : pid[s] # pid[r]
    => \A l \in Limits \ cfg[r].limits : cgLim[pid[r]][l] = NoRun

\* A released container that is not rootless starts with its link up and
\* every published port forwarded (network.Setup returns before the release
\* and its failure is fatal).
NetworkUpWhileRunning ==
  \A r \in Runs :
    ~cfg[r].rootless /\ Executing(r) /\ pipe[r] = "released"
      => veth[r] /\ rules[r] = AllRules(r)

\* A released rootless container never runs beside a slirp4netns that is
\* still configuring its netns: it sees the TAP from its first instruction, or
\* it has lo only for good (Setup: "blocks until the TAP device is
\* configured"; what does not come up in time is killed).
TapBeforeExec ==
  \A r \in Runs :
    Executing(r) /\ pipe[r] = "released" => slirp[r] # "starting"

\* No child is ever past its read while its overlay is not mounted: neither
\* a failed mount nor an early clean-up takes the root away under it.
RootfsWhileRunning ==
  \A r \in Runs : cfg[r].image /\ Executing(r) => mounted[r]

\* Run never reports a set-up error for a container that has run: the child
\* is killed while it is blocked, before the deferred w.Close can release it.
FailedRunNeverExecs ==
  \A r \in Runs : failed[r] /\ pc[r] # "crashed" => ~Executing(r)

\* When Run returns it has left no process, helper, mount, scratch directory
\* or link, nor, if it got as far as the release, iptables rules; unless a
\* clean-up command itself failed.
NothingLeft ==
  \A r \in Runs :
    pc[r] = "returned" /\ ~dirty[r] =>
      /\ child[r] \notin Held
      /\ ~scratch[r] /\ ~mounted[r] /\ ~veth[r] /\ slirp[r] = "none"
      /\ failed[r] \/ rules[r] = 0

\* "repeated runs don't leave a trail of myrun-<pid> dirs": every group on
\* the host belongs to a run that has not returned (or was killed), in spite
\* of rmdirs that fail because a later run with the same pid moved in.
NoCgroupTrail ==
  \A p \in cgDir : \E r \in Runs : pid[r] = p /\ pc[r] # "returned"

\* While a confined container lives nothing, in particular no clean-up of an
\* earlier run whose pid it inherited, changes or removes its limits.
LimitsStable ==
  [][\A r \in Runs :
       Confined(r) /\ child[r] \in Alive /\ child'[r] \in Alive
         => Confined(r)' /\ cgLim'[pid[r]] = cgLim[pid[r]]]_vars

(***************************************************************************)
(* The life cycle the user sees.                                           *)
(***************************************************************************)

LifeOf(r) ==
  CASE child[r] = "none" -> "absent"
    [] child[r] = "blocked" -> "held"
    [] child[r] \in {"setup", "running"} -> "started"
    [] child[r] \in {"zombie", "reaped"} -> "stopped"

ReportOf(r) ==
  CASE pc[r] = "crashed" -> "killed"
    [] pc[r] = "returned" -> IF failed[r] THEN "setup error" ELSE "exit status"
    [] OTHER -> "pending"

Life == INSTANCE ContainerLife WITH
          life <- [r \in Runs |-> LifeOf(r)],
          ready <- [r \in Runs |-> pipe[r] = "released"],
          report <- [r \in Runs |-> ReportOf(r)]

\* Whatever fails, dies or is killed in whatever order, the parent, the child
\* and the pipe between them give every run the life cycle of ContainerLife:
\* the container starts only when it is complete (or its parent was killed),
\* Run reports a set-up error only for one that never started, and an exit
\* only when it is over.
ImplementsLife == Life!Spec

(***************************************************************************)
(* Liveness, under Fairness.                                               *)
(***************************************************************************)

\* No child waits on the sync pipe forever: its parent releases it, kills it
\* or dies.
ChildNotStuck == \A r \in Runs : child[r] = "blocked" ~> child[r] # "blocked"

\* A run that failed, or whose container ended, returns (or is killed): the
\* waits in Run always have somebody to wait for.
RunReturns ==
  \A r \in Runs :
    failed[r] \/ child[r] = "zombie" ~> pc[r] \in {"returned", "crashed"}

(***************************************************************************)
(* What the comments promise and the code does not keep.                   *)
(***************************************************************************)

\* Run: "child blocks on a read until the parent closes the pipe - that
\* happens only after the cgroup is fully set up with the child already
\* inside it".  The kernel closes the pipe of a killed parent as well.
PipeClosedOnlyWhenConfined ==
  \A r \in Runs : UsesCgroup(r) /\ Executing(r) => Confined(r)

\* Limits: "Zero / empty values mean "do not set" - the kernel default
\* applies".  A group left behind by another run keeps what it had.
UnsetLimitsAlwaysDefault ==
  \A r \in Runs :
    UsesCgroup(r) /\ Executing(r) /\ pipe[r] = "released"
      => \A l \in Limits \ cfg[r].limits : cgLim[pid[r]][l] = NoRun
=============================================================================
