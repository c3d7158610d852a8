# A TLA+ verification of myrun

`myrun` (`src/mvp`) is a small OCI container runtime for Linux, written in Go.
`myrun run` clones a child into new namespaces, confines it and lets it exec the
user's program; `myrun pull` fills an image store that `run` mounts from. There
is no daemon and no lock: every invocation is a process of its own, and all of
them share the host (pids, cgroups, mounts, links, iptables) and the store.

## 1. The system

| Part | Source (`src/mvp/internal/...`) | State | Operations | What makes it correct |
|---|---|---|---|---|
| runtime, parent | `runtime/runtime_linux.go` `Run`, `resolveRootfs` | locals of `Run`: child pid, pipe end, cgroup, network and slirp handles | resolve, start, confine, connect, release, wait, clean up | the child executes nothing before everything asked for is in force; an error kills it first; nothing is left behind |
| runtime, child | same, `Child` | where it is before exec | wait on fd 3, hostname, pivot, seccomp, exec | goes on only when released; always goes on eventually |
| cgroups | `cgroups/cgroups_linux.go` | `/sys/fs/cgroup/myrun-<pid>` | `Create`, `AddPID`, `Close` | limits of a live container are its own and stay; no trail of groups |
| overlay | `overlay/overlay_linux.go` | mounts, scratch directories | `MountOverlay`, `Unmount`, `Cleanup` | the root outlives the child |
| network | `network/bridge_linux.go` | bridge, veth pairs, iptables rules | `EnsureBridge`, `Setup`, `Teardown` | complete before the release; gone after the run |
| slirp | `slirp/slirp_linux.go` | a helper process per rootless run | `Setup`, `waitReady`, `Teardown` | never blocks `Run`, never survives it |
| pivot | `pivot/pivot_linux.go` | mount namespace of the child | `Do` | the host tree is out of reach when it returns |
| seccomp | `seccomp/*.go` | the filter of the process | `buildFilter`, `Apply` | decides every call as the allow list says |
| image client | `image/pull.go` | blob cache, `.part` files | `Pull`, `pullBlob`, `extractLayer` | cached means verified; pulled means complete |
| image store | `image/store.go` | `manifest.json`, `rootfs/<hex>` | `LoadManifest`, `OverlayLowerDirs` | what `run` loads is whole, upper layers first |
| userns | `userns/userns_linux.go` | none | `Detect`, `Preflight`, `ApplyToSysProcAttr` | rootless exactly when it must be |
| ocispec, CLI | `ocispec/spec.go`, `cmd/myrun/main.go` | none | `Load`, `applySpec`, `parseMemory`, `parsePublish` | precedence of flags over the spec, no overflow |
| criu | `criu/criu_linux.go` | an images directory | `Dump`, `Restore` | what a dump refers to is there at restore |

How they interact: `runCmd` builds a `Config` and calls `Run`. `Run` calls
`applySpec`, `resolveRootfs` (store, overlay), starts `Child` in a cloned
process, then `cgroups.Create`/`AddPID`, `network.Setup` or `slirp.Setup`, and
closes the sync pipe. `Child` blocks in a read of that pipe, then calls
`pivot.Do`, `seccomp.Apply` and `execve`. After `Wait`, `Run` undoes what it did;
the deferred calls (`w.Close`, then the overlay) run last. The pipe is the only
channel between parent and child; invocations meet only through the kernel's
name spaces and the store's files.

The hard behaviour is in three places. A set-up step may fail, or the parent be
killed, when the child already exists and waits. Names are reused: the cgroup of
a run is named after a pid that is free again before the group is closed. And
the store is shared by processes that use the same temporary file names. The
hazards are listed with their lines in `PROJECT.json`.

## 2. The modules

| Module | Models |
|---|---|
| `ContainerLife` | abstract: what one `myrun run` promises its user |
| `ContainerRun` | concurrent `Run`s and their children on one host; implements `ContainerLife` |
| `MCContainerRun` | its configurations for TLC |
| `ContainerRunProofs` | its inductive invariant and theorems |
| `ContainerRunRefinement` | the proof that it implements `ContainerLife` |
| `RunConfiguration`, `MCRunConfiguration` | from command line, spec and host to clone, limits and the child's argv |
| `RunConfigurationProofs` | who decides what, for all inputs and word sizes |
| `Bridge`, `MCBridge` | the bridge and the iptables chains all runs share, command by command |
| `BridgeProofs` | its properties for any containers, ports and addresses |
| `Pivot`, `MCPivot` | `pivot.Do` in concurrent children, system call by system call |
| `PivotProofs` | its properties for any children and directories |
| `SyscallPolicy` | abstract: what the default profile promises |
| `SeccompFilter` | `buildFilter`'s program, `Apply`, and its interpretation; refines `SyscallPolicy` |
| `AllowLists` | the two allow lists of the source, as data |
| `MCSeccompFilter` | the instance for TLC |
| `SeccompFilterProofs` | the refinement for every allow list that fits |
| `ImageStore` | abstract: what the store promises while pulls that share a layer take turns |
| `ImagePull` | concurrent `Pull`s on one store; implements `ImageStore` when they take turns |
| `MCImagePull` | its instances for TLC |
| `ImagePullProofs` | its properties for any pulls, images and blobs, and the refinement |
| `LayerStack`, `MCLayerStack` | the entries of layers, and the stack a container sees |
| `LayerStackProofs` | that extraction repairs, for any archives and any number of stops |

### ContainerRun

`pc[r]` is where the parent of run `r` is in `Run`. The steps follow the code:

| `pc` | Action(s) | Code |
|---|---|---|
| resolve, mount | `ResolveRootfs`, `MountOverlay` and their failures | `resolveRootfs`, `MountOverlay` |
| start | `StartChild`, `StartFails` | pipe, `c.Start` |
| mkdir, limits, addpid | `MakeCgroup`, `WriteLimit`, `AddPID` and failures | `cgroups.Create`, `AddPID` |
| bridge, link, netns, publish | `EnsureBridge`, `AddVeth`, `ConfigureNetns`, `InstallRule` and failures | `network.Setup` |
| slirp, slirpwait | `SpawnSlirp`, `SpawnSlirpFails`, `SlirpReady`, `SlirpGivesUp` | `slirp.Setup`, `waitReady` |
| release, wait | `ReleaseChild`, `WaitChild` | `w.Close`, `c.Wait` |
| cgclose, netdown | `CloseAfterWait`, `TeardownNetwork` | after `Wait` |
| slirpdown, slirpreap | `TeardownSlirp`, `KillSlirp`, `ReapSlirp` | `slirp.Handle.Teardown` |
| kill, reap, undo | `KillChild`, `ReapKilled`, `CloseAfterKill` | the error paths |
| unmount, rmscratch | `CloseAndUnmount`, `RemoveScratch` | the deferred calls |

`slirp[r]` is the helper of a rootless run: starting, ready, dead, gone. It is a
process of its own (`SlirpComesUp`, `SlirpDies`), so its ready byte races the
timer of `waitReady` and its death races `Teardown`: `SlirpGivesUp` covers the
timeout and the closed pipe (kill, reap, go on without), `KillSlirp` the two
seconds after which SIGTERM is followed by SIGKILL.

`child[r]` is the cloned process: none, blocked (in its read), setup, running,
zombie, reaped. `Crash` kills a parent between any two steps and, as the kernel
does, closes its end of the pipe. A limit file holds the run that wrote it last,
which is what lets a property say *whose* limits a container has. `dirty[r]`
records that a clean-up command failed and the code only logged or ignored it.
Commands that the code checks have a failing action; commands whose result it
drops have an outcome chosen by `\E`.

What the kernel contributes is modelled as the code relies on it: a pid is free
again only after its parent's wait; `rmdir` of a group with a living process
fails, but a zombie does not count; the netns of a dead process is gone; a
mount point cannot be removed. A container's network link often disappears with
its netns before `Teardown` deletes it; the model leaves that to `Teardown`.

`ContainerLife` knows nothing of this: a container is absent, held, started,
stopped; its set-up is complete or not; the user has been told nothing, a set-up
error, an exit, or (by a killed parent) nothing any more. `LifeOf`, `ReportOf`
and the pipe's state `"released"` are the refinement mapping.

### RunConfiguration

One `myrun run` from `main` to `Clone` and to `main` again in the child. The
inputs (flags and positionals, the spec file, user and sysctls) are chosen in
`Init`; every step is a stage of the code with its early return. `applySpec` is
one operator per field (`MergeCmd` ... `MergeSeccomp`), applied in its order.
`ParsedMemory` wraps as an int64 does (`Half` stands for 2^63). `cli.set` has the
flags the user gave: no operator that models code reads it, since the code sees
only values and takes 0 and `false` for "not given". The comments disagree on who
wins when flag and spec both set a limit (`README.md:268`: the flag;
`runtime_linux.go:60-62`: the spec), so `LimitsAsAsked` leaves that open and
says that the limit is one of the two, and none if nobody asked; what the former
promises is `ExplicitFlagsWin`, which does not hold.

### Bridge

Every `ip` and `iptables` command of `EnsureBridge` is a step, so other runs come
between a look and what is done about it; `-C` failing reads as "not there", as
in the code. The chains are sequences of rules, since `-A` appends, the first
match gets the traffic and `-D` removes the first equal rule. The history
variables `halfMade` and `doubled` record the two accidents the code is open to,
so that the properties can say that nothing else goes wrong.

### Pivot

Children have private mounts, but `.pivot_old` is a directory in the root file
system, which runs on one plain directory share. The kernel's part: `rmdir` of
another namespace's mount point succeeds and detaches that mount; of one's own it
fails; a namespace's mounts go with its last process. Every call may fail, also
the removal of the stub after a failed `pivot_root`, whose error the code drops
(`PivotRootFailsStubStays`).

### LayerStack

The inside of `OpenBlob` ... `FinishLayer` of `ImagePull`: an archive is a sequence
of entries, unveiled as it is read, and every entry is applied to the layer's
directory as `extractLayer` does. A pull may be stopped between two entries or in
the middle of a file, and every pull starts over on what is there.

Of a mode it counts whether the owner may write. Whoever is not `root` is held to
the modes that an earlier extraction, or an earlier entry, has given: `locked` are
the names that `OpenFile` does not open again (a file) or create anything in (a
directory), so `Extract` has three outcomes. `WriteOut` is what the code means,
`Refuse` an error that ends the pull, `LeaveOut` a hard link or whiteout whose
error is dropped.

`Tidy` is what archives are like: a name is added once, nothing is below a file, a
hard link comes after its file, and a whiteout, which is meant for lower layers,
does not follow an entry of its own archive that it would remove. Whiteouts and
opaque markers may come anywhere else, after their directory too, which is the
usual order.

`View` is what overlayfs shows of the directories in `OverlayLowerDirs`' order;
`Contents` and `Image` are the references: what an archive holds, and the image
obtained by applying layers as change sets, `Unpacked` being the recursive function
that does so layer by layer.

### SeccompFilter

A state of the module is a state of the kernel's cBPF interpreter: a call, an
instruction pointer, an accumulator. `Program` is the array `buildFilter`
appends, with its jump distances cut to 8 bits as `uint8(skip)` does. `Apply`
is the path from no filter to the filter, and `CallExecve` the `syscall.Exec`
that follows it and that the filter decides first. `SyscallPolicy` has no
program: a call is allowed or kills. `ImplementsPolicy` is the refinement, under
the mapping `PolicyPhase` of the phases.

### ImagePull

A file is an inode and names are pointers to inodes: `part[d]` and `blob[d]` are
the files named `<digest>.part` and `<digest>`, and `fd[p]` the inode a pull has
open. This is what overlapping pulls need: `os.Create` truncates a file somebody
else writes, `os.Rename` and `os.Remove` act on whatever has the name. A blob is
`Chunks` reads long; a chunk on disk is a hole, good or bad. `manifest.json`
holds the pull that wrote it, or is empty between `WriteFile`'s truncation and
its write. `fault[p]` records that network or disk let a pull down, which
separates honest failures from failures the code brings on itself. `use` says
whether pulls that share a layer take turns or overlap; the code does nothing to
make them take turns, so the properties say which of the two they are about.

`ImageStore` knows neither pulls nor files: a digest is in the cache, whole, or is
not; an image has some layers unpacked and is ready or is not. The mapping:
`Cached` calls a blob broken that has its final name and not the content, which
the abstract store never is; `Ready` has the images whose manifest is that of a
pull that returned; `Unpacked` has the layers that are extracted in full.
`ImplementsStore` is what `myrun run` needs: the layers of an image that is
ready are all there and nobody touches them until a pull of that image has put
its manifest out of the way. A run that holds the image mounted when that happens
is not protected; nor does `run` see whether an image is ready, only that its
manifest decodes (`Loadable`), which is less: see the disagreements in section 3.

Of a layer's entries the module knows `Refusal`, whether their modes keep a user
who is not root from extracting it, never, over an earlier extraction, or always;
`LayerStack` has the detail. `ExtractRefused` is such a failure, and it is no
`fault` of network or disk: `FailureExplained` has to account for it by what the
layer is and by which pull has extracted it before.

## 3. The runs

| Run | Instance | Checks |
|---|---|---|
| `RunHost` | 2 runs, 2 pids, 2 configurations each, one run may be killed | the properties of `ContainerRun`, liveness under fairness included |
| `RunOrphan` | 1 run, killed | violation: `PipeClosedOnlyWhenConfined` |
| `RunStale` | 2 runs, 1 pid | violation: `UnsetLimitsAlwaysDefault` |
| `Seccomp` | the amd64 list, numbers 0..450, 3 entry points | `ExecveSurvives`, `ImplementsPolicy` |
| `PullStore` | 3 pulls: 3 images, 2 of which share a layer, in turns; 1 image overlapping | the safety properties of `ImagePull`, `ImplementsStore` |
| `PullShared` | 3 overlapping pulls of 1 image | violation: `CachedBlobVerified` |
| `BridgeHost` | 2 containers with one address, ports published twice and by both | the properties of `Bridge` |
| `RunSettings` | 8-bit integers for int64, boundary values of every field | the properties of `RunConfiguration` |
| `RunFlags` | with `--no-seccomp` and without, spec with a seccomp block and without | violation: `ExplicitFlagsWin` |
| `PivotShared` | 2 children on one directory, 1 on its own | the properties of `Pivot` |
| `StackedLayers` | 2 layers, 4 entries, 2 pulls, root or not | the properties of `LayerStack` |
| `StackWhiteouts` | the same | violation: `WhiteoutsHonored` |

**Bounds.** Two runs are enough for every pairwise conflict: the pid of one freed
and taken by the other while the first still cleans up, in either order, with
two pids so that both can also live at once. The two configurations are an image
with two limits and a published port (three rules, so that a rule may fail after
others were installed, and a limit after another), and a rootless run with a helper
on a plain directory that asks for another limit; all 4 pairs are initial states.
All safety properties `RunHost` checks are proved for any number (below).
For pulls, three invocations give "killed, failed, then successful" in sequence
and a rename of one pull's file by another while a third writes; two chunks give
a file that is started but not complete; two layers give a manifest that is half
served; what overlaps is limited to one image (`CrowdImages`). Pulls that take
turns still overlap where they share nothing, which the third image is for. `Seccomp`
enumerates every number of the kernel's table. On the bridge the interesting case
is the worst one: both containers hash to one address and publish one port, one
of them twice. `RunSettings` varies together the fields that some line reads
together; an int64 has 8 bits, so that 2^63 is 128 and overflow, the last value
that fits and the first that does not all occur. `PivotShared` has each of the
two relations two children can be in, and a third child to see it. Two layers with
four entries in any distribution give a name that a layer makes and the other
replaces, hides or hides and makes again; two pulls (`MaxPulls`) give one that is
stopped anywhere, refused or whole, and one over what that left. The proofs are for
any number of each.

**Deadlock** is checked everywhere. Systems that may stop have an explicit last
step (`Quiescent`, `AllOver`, `Ended`) whose guard says what "over" means, so a
child that waits for a parent that waits for it is an error of every run.

**Fairness** (`FairSpec` of `ContainerRun`, in `RunHost`). `WF` of a parent's steps:
a process that is not blocked is scheduled, and a timer that was set fires. `WF` of
`Unblock`: a read whose pipe is at its end returns.
Nothing is assumed of the container, which may run for ever, nor of crashes.

**Violations.** The five are statements of comments or of `src/README.md` that the
code does not keep; `PROJECT.json` quotes them. `RunOrphan`: the parent dies between
`Start` and `AddPID`, the read returns EOF, the program runs unconfined.
`RunStale`: run 1 was waited for, run 2's child gets its pid, `Create` finds the
group of run 1 not yet closed, and run 2 is held to run 1's limits.
`PullShared`: a second pull truncates the `.part` file between the first one's
digest check and its rename. `RunFlags`: `--no-seccomp` with a spec that has a
seccomp block installs the profile; the same formula is broken by flags given as
0 or `false` and by a `--memory` that wraps. `StackWhiteouts`: a layer deletes a
name of the layer below, and the container still sees it.

A comment in `seccomp_linux.go` (lines 16-19) reckons with lists of up to 512
numbers; the 8-bit jump field allows 255. Both real lists are shorter
(`AllowListsShort`, evaluated by TLC), which is what the theorems assume.

Disagreements between a comment and the code that have no run of their own:
- `pull.go:7-8` writes the manifest after the blobs and `Pull` before them
  (252): `LoadManifest` accepts an image whose pull has failed or was killed before
  its layers were there. `pull.go:11-17` draws another layout of the store.
- `runtime_linux.go:60-62`: the spec "overrides Cmd/Args/Rootfs/Limits"; it fills
  what the flags left at zero, as `README.md:268` and `runtime_linux.go:191-192` say.
- `main.go:232-235`: "unless the user explicitly sets `--rootless=false`";
  `userns.Detect` does not know whether the flag was given (part of
  `ExplicitFlagsWin`; `UserNamespaceOfCaller` leaves such a caller out).
- `spec.go:72-73`: `root.path` is resolved relative to the bundle; nothing does.
- `pull.go:323-328`: a whiteout removes its name "mimicking how overlay's upperdir
  would mark a deletion", but leaves no mark (`StackWhiteouts`). Opaque markers are
  skipped, which the comment does say. The strongest statement that holds is
  `StackShowsImage`: nothing is lost, only deletions are.
- `pivot_linux.go:117-120`: an `rmdir` called non-fatal makes `Do` fail; 53: the
  absolute path of the precondition is not established by `Run`, and with a
  relative one the clean-up of a failed pivot misses (`NoLitter`). Two runs on one
  plain directory can make each other's `Do` fail (`OwnRootUndisturbed` is about
  everybody else).
- `parseMemory` accepts sizes whose product does not fit (left out of
  `LimitsAsAsked`, part of `ExplicitFlagsWin`).

## 4. The properties

Each is stated in words above its definition. The ones that carry the design:

- `ConfinedWhileRunning`, `LimitsStable`, `NoCgroupTrail`: the ownership of
  groups named by reused pids. The late `Close` of a finished run can hit the
  group of its successor; it is harmless because the kernel refuses to remove a
  group with a living process and because whoever is inside closes it later.
- `FailedRunNeverExecs`: kill before the deferred `w.Close`.
- `ImplementsLife`: the whole of `Run` and `Child`, seen by the user.
- `TapBeforeExec`, `RunReturns`: the helper is ready, or given up and reaped,
  before the container starts, and cannot keep `Run` from returning.
- `NothingLeft`: what every path through `Run` owes the host. It exempts what a
  failed clean-up command leaves (`dirty`) and the publish rules of a run whose
  set-up failed, which `network.Setup` does leave behind.
- `GatewayUp`, `HostRulesOnce`: how far `EnsureBridge` is idempotent. A creator
  that is killed or fails between `link add` and `addr add` leaves a bridge that
  no later run repairs; everything else they find, they complete.
- `PortHolderKeeps`, `RulesOwn`, `NoRuleLeft`: ports are not checked for
  conflicts, addresses not for collisions, and yet no container loses its traffic
  to another one's set-up or teardown, nor is one copy of its rules added or
  removed by a step that is not its own.
- `LimitsAsAsked`, `UserNamespaceOfCaller`, `PreflightCoversClone`,
  `SeccompAsDecided`, `OneCommand`: who decides when several may, and nobody else.
  Where `ExplicitFlagsWin` fails, the comment above the property says which case it
  leaves open. `OneCommand`
  allows for a spec file whose first argument is the empty string: `ocispec.Load`
  only asks for an argument, so such a command reaches the child.
- `HostUnreachable`, `HostMountsKept`, `NoLitter`: `pivot.Do` succeeds only when
  the host is out of reach, however it fails the host's mounts are as before, and a
  stub stays only where one of the listed things went wrong.
- `ImplementsPolicy`: the filter is the policy.
- `ImplementsStore`: all of `Pull` as seen by later pulls and by `run`. What makes
  it hard is that a repeated pull takes full layers apart again: the image must be
  out of the ready ones before, and it is, since `manifest.json` is truncated first.
- `PullComplete`, `FailureExplained`, `RepullRepairs`: whatever a killed pull
  leaves, the next one repairs it. It is stopped by it in one case, a user who is
  not root and a layer with a file its owner may not write to; the properties say
  exactly when that is, and that nothing else is ever in a pull's way.
- `OverlapHeals`: overlapping pulls damage the cache only for as long as one of
  them is writing, unless one of them fails.
- `StackShowsImage`: the stack against an unpacker that applies change sets.

Every property of a passing run has a mutant in the module it is about (operators
whose comment starts with "Mutant"): a plausible bug in one action that makes TLC
find that property violated.

## 5. The proofs

`tlapm` checks every step; nothing is assumed but the modules' ASSUMEs
(distinct sentinels, well-typed constants).

**ContainerRunProofs**, for any sets of runs, pids and configurations. The
properties are not inductive: they speak of a group, and other runs write to and
remove groups. The invariant `IInv` adds
1. `Flow`, `GroupFlow`, `Resources`: what the parent's position says of its own
   child, pipe, group and network;
2. `PidsDistinct`: two parents that have not waited for their children hold
   different pids, hence (with 1) nobody else writes to this run's group while
   it is being prepared or lived in;
3. `Written`: the limits written so far are in the group as long as it exists,
   and it exists once a living process is inside;
4. that every group has a run that will still close it.

`CloseEffect` says what a `Close` by another run can do to a group; the step
lemmas treat one part of the invariant each, action by action. For `NothingLeft`
a second part, `Clean`, says what the run still has on the host at each stage of
its way out. Theorems: `TypeCorrect`, `Confinement`, `UnsetLimits`, `NetworkUp`,
`TapReady`, `RootfsMounted`, `FailureIsFinal`, `CleanReturn`, `NoTrail`,
`Stability`.

**ContainerRunRefinement**: `Refinement`, every behaviour of `ContainerRun` is one
of `ContainerLife` under the mapping. The step of the proof that is not a matter
of unfolding definitions is that a run may report an error only if its child
never got past its read, and an exit only after it: both are `Flow`.

**SeccompFilterProofs**, for any allow list of at most 255 numbers. `Progress`
is what the interpreter knows at each instruction: past instruction 3 the call is
native, at comparison *i* its number differs from the *i* numbers before. From
it follow that it never leaves the program (`TypeCorrect`), that each step is a
step or a stutter of the policy (`Refinement`), and, for a list with execve, that
the child survives its own filter (`ChildSurvives`). With `AllowListsShort` this
covers the arm64 list, which no run enumerates.

**PivotProofs**, for any children on any directories. A child's `.pivot_old` may
be removed under it by another child on the same directory, which detaches its
old root. So the invariant does not say that the stub is there; `Progress` says
what a child may rely on after each call, more if nobody else was given its
directory, and `Owned` that every stub has a child that answers for it: one
between its `mkdir` and its `rmdir`, or one that ended in between. Theorems:
`TypeCorrect`, `Isolation`, `NothingLeaks`, `Undisturbed`, `LitterExplained`.

**ImagePullProofs**, for any pulls, images, layers and chunks. The two uses of
the store need different arguments. Of pulls that take turns, two active ones
have no digest in common (`Apart`), hence nobody else writes to what a pull works
on: `Work` says what is in the files of its layer at each stage, `Kept` that what
it has unpacked stays. Of overlapping pulls nothing of this holds; `Healing` says
that a file which has a name is whole, or is being written from its beginning by
a pull that has not missed a chunk. `Traced` says whose extraction a layer's
directory is, which is what a refusal has to be explained by. Theorems:
`TypeCorrect`, `Verified`, `Completeness`, `NoFalseFailure`, `Immutability`,
`CrowdHeals`.
`StepsImplementStore` and `TurnsImplementStore` are the refinement of `ImageStore`:
each step of pulls that take turns, and every behaviour of a store that is only
used so (`PullStore` has both uses, so of TLC only the former can be asked). Four
actions show in the abstract store, one lemma each: `Announced` (`OpenManifest`),
`Named` (`RenamePart`), `Reopened` (`OpenBlob`), `Finished` (`FinishLayer`); all
others stutter (`Unseen`). `Work` gives that the blob being
unpacked is whole, `Kept` that the image being unpacked is not ready.

**BridgeProofs**, for any containers, addresses and ports. `Configured` ties what
is set on the host to how far each invocation has come, with the two accidents
`halfMade` and `doubled` as the only ways out; `Single` adds that whoever is about
to append a host rule is alone with it and it is absent. For the chains a set of
rules is not enough, since a port may be published twice: `Balanced` counts. A
chain has as many copies of a rule as its container has steps that installed it
and have not been undone (`Due`), so every `-D` finds its rule and the last one
leaves none. `RemoveFirstIs` and the lemmas behind it say what `-D` does to a
sequence and to the counts. Theorems: `TypeCorrect`, `Gateway`, `NotStacked`,
`NothingLeft`, `OwnRules`, `HolderKeeps`.

**RunConfigurationProofs**, for any command lines, spec files, hosts, word size and
period. The invariant says what each stage has made of the inputs; the work is in
the lemmas: `MergedIs`, the outcome of all of `applySpec` field by field,
`OneOfAsked` and `ShareAsked`, that a limit has a source, `NoWrap`, `QuotaIsShare`,
that `cpu.max` is the share to the microsecond or its floor, and `PassedIs`, that
the child reads from its argv what the parent wrote. The floor, a hundredth of the
period, is positive for a period of at least 100 only; the code's is 100000.
Theorems: `TypeCorrect`, `Limited`, `OwnIds`, `Preflighted`, `SeccompDecided`,
`OneProcess`. The attempt to prove the last one showed that its property was too
strong for a spec file whose command is empty; the property and the run's inputs
now have that case.

**LayerStackProofs**, for any names, entries, archives (`Tidy`) and numbers of
layers, pulls and stops. `Partial`: a directory is always a part of what its archive
says, some files torn; so the kind of what is there is never in the way of an entry.
`Extracted`: behind the entry reached nothing is missing or torn. For the modes,
`LockedBy` says that a name is locked because the archive says so, and `Only` that
the first pull meets nothing but what it has made itself: so a file refused for
itself is of an earlier pull, and anything else refused is below a directory its own
archive has closed. A hard link that is left out for such a directory is the one
thing that may be missing; `Linkable` archives have none. `ContentsGrow` covers the
archive that is unveiled as it is read, `PutLaws`, `PutAdds` and `LinkPut` what an
entry does. Theorem: `Repaired`.

For the stack, `Made` says without recursion what the image of the first *n*
layers is: everything that no layer above hides, from the topmost layer that has
it; `ImageIs` proves it for all layers, and `ShowingIs` and `ViewIs` find that same
layer as the first one in mount order. The library's induction theorems have an
operator as a parameter, so the induction is over a set: `AllNaturals`, a set of
naturals with 0 and every successor is `Nat`, follows from the least set among the
intervals `0..x` whose bound `x` it lacks. `UnpackedIs`, that the recursive
function exists, and `ImageIs` are its two uses. Theorem: `StackIsImage`.

Assumptions. Besides types, the modules assume that sentinels are not members
(`"empty"` and `None` are not pulls, `NoCont` is not a container), that an image
has a layer, a blob a chunk, and that no parent of a name is missing. TLC
evaluates all of them.

Only model-checked: the liveness properties `ChildNotStuck` and `RunReturns`, out
of the prover's reach. Every invariant and action property of a passing run is a
theorem.

## 6. Not modelled

Logging and messages; what the user's program does beyond its system calls;
environment, host name and the contents of `resolv.conf`; of the modes in layers
all but whether the owner may write (a directory that its owner may not search; root
and somebody else pulling one image in turns); device nodes and link targets of
layers; the HTTP protocol, tokens, index selection and
JSON (stateless, folded into the step that may fail); `ParseReference`;
the rounding of float64 in `--cpu` (a share is an exact fraction).

`criu`: `Dump` and `Restore` pass arguments to the `criu` command line tool. What
an image directory refers to and needs at restore is known to `criu` alone, so
there is nothing in the source to translate; the part that concerns `Run`, the
container killed by a dump, is `ChildExits` of `ContainerRun`.

The `darwin` files return errors; the script downloads a test root file system;
`spec_test.go` tests a parser.

## 7. Plan

What is left: the composition of `ImageStore` with runs that mount from the store,
and of `Pivot` with `ContainerRun`'s `Exec`.
