-------------------------- MODULE RunConfiguration --------------------------
(***************************************************************************)
(* How one `myrun run` becomes the configuration of a container: the flags *)
(* and positionals of runCmd, the OCI config.json of --spec, the user that *)
(* invoked it and two sysctls go in; the clone, the limits and the argv the*)
(* re-executed child parses come out.  Several of them may decide the same *)
(* thing, and the code lets them speak one after the other.                *)
(*                                                                         *)
(* The inputs are chosen at the start and every step is one stage of the   *)
(* code.  A name stands for a path or a string; "" is the empty string and *)
(* Go's zero value.  An id mapping is named by whose it is.  A CPU share is*)
(* an exact fraction; the rounding of float64 is left out.                 *)
(***************************************************************************)
EXTENDS Integers, Sequences

CONSTANTS
  CommandLines,  \* command lines tried, a subset of CommandLine
  SpecFiles,     \* what --spec may point at, a subset of SpecFile
  Hosts,         \* hosts and users, a subset of Host
  Half,          \* 2^63: half the values of an int64
  Mult,          \* multiplier of each unit of --memory
  MaxPort,       \* 65535
  Period         \* default CPU period, 100000 us

Units == {"B", "K", "M", "G"}
Names == {"", "dir", "bundle", "sh", "-c", "init", "-v"}
Argvs == Seq(Names)
Limits == {"memory", "cpu", "pids"}

Mapping == [host : Int, cont : Int, proto : {"tcp", "udp", "sctp"}]

\* set: the flags that were given; nothing but the user knows, since the code
\* sees values only.  --cpu is in thousandths of a core.
CommandLine ==
  [memory : [given : BOOLEAN, numeric : BOOLEAN, n : Int, unit : Units],
   set : SUBSET {"cpu", "pids", "rootless"},
   cpu : Int, pids : Int, publish : SUBSET Mapping,
   rootless : BOOLEAN, noSeccomp : BOOLEAN, positional : Argvs]

\* A flag that was not given has its default.
Defaults(c) ==
  /\ "cpu" \notin c.set => c.cpu = 0
  /\ "pids" \notin c.set => c.pids = 0
  /\ "rootless" \notin c.set => ~c.rootless

\* given: --spec is there; readable: so is the file, and it parses.  The
\* optional blocks of the file are in `has`.
SpecFile ==
  [given : BOOLEAN, readable : BOOLEAN, version : BOOLEAN, root : Names,
   args : Argvs,
   has : SUBSET (Limits \cup {"seccomp", "user", "uidMap", "gidMap"}),
   memory : Int, quota : Int, period : Nat, pids : Int]

Sysctl == {"missing", "0", "1"}

Host == [root : BOOLEAN, cloneSysctl : Sysctl, maxUserns : Sysctl]

ASSUME ConfigAssumption ==
  /\ CommandLines \subseteq CommandLine /\ \A c \in CommandLines : Defaults(c)
  /\ SpecFiles \subseteq SpecFile
  /\ Hosts \subseteq Host
  /\ Half \in Nat \ {0} /\ MaxPort \in Nat
  /\ Period \in Nat /\ Period >= 100   \* the floor of Quota is not 0
  /\ Mult \in [Units -> Nat \ {0}]

VARIABLES
  pc,     \* the stage the invocation is at
  cli,    \* its command line
  spec,   \* its spec file
  host,   \* where it runs and as whom
  cfg,    \* runtime.Config
  sys,    \* the user namespace asked of clone(2), and whose ids it maps
  group,  \* the limits written to the cgroup, 0 where none is
  argv,   \* arguments of the re-executed binary
  inner   \* what the child made of them

inputs == <<cli, spec, host>>
vars == <<pc, inputs, cfg, sys, group, argv, inner>>

Stages == {"parse", "load", "memory", "merge", "preflight", "clone", "child",
           "ready", "failed"}

Share == [q : Int, p : Nat \ {0}]   \* q/p cores

Config ==
  [rootfs : Names, cmd : Names, args : Argvs, memory : Int, cpu : Share,
   pids : Int, ports : SUBSET Mapping, rootless : BOOLEAN,
   ids : {"caller", "spec"}, seccomp : BOOLEAN]

Inner == [seccomp : BOOLEAN, rootfs : Names, cmd : Names, args : Argvs]

\* A PortMapping that iptables can use.
Valid(m) ==
  /\ m.proto \in {"tcp", "udp"}
  /\ m.host \in 1..MaxPort /\ m.cont \in 1..MaxPort

TypeOK ==
  /\ pc \in Stages
  /\ cli \in CommandLines /\ spec \in SpecFiles /\ host \in Hosts
  /\ cfg \in Config /\ \A m \in cfg.ports : Valid(m)
  /\ sys \in [user : BOOLEAN, ids : {"caller", "spec"}]
  /\ group \in [Limits -> Nat]
  /\ argv \in Seq(Names \cup {"child", "seccomp=0", "seccomp=1"})
  /\ inner \in Inner

NoConfig ==
  [rootfs |-> "", cmd |-> "", args |-> <<>>, memory |-> 0,
   cpu |-> [q |-> 0, p |-> 1], pids |-> 0, ports |-> {}, rootless |-> FALSE,
   ids |-> "caller", seccomp |-> FALSE]

Init ==
  /\ pc = "parse"
  /\ cli \in CommandLines /\ spec \in SpecFiles /\ host \in Hosts
  /\ cfg = NoConfig
  /\ sys = [user |-> FALSE, ids |-> "caller"]
  /\ group = [l \in Limits |-> 0]
  /\ argv = <<>>
  /\ inner = [seccomp |-> FALSE, rootfs |-> "", cmd |-> "", args |-> <<>>]

Goto(a, b) == pc = a /\ pc' = b /\ UNCHANGED inputs

\* The command ends with an error: nothing is started.
Fail(a) == Goto(a, "failed") /\ UNCHANGED <<cfg, sys, group, argv, inner>>

(***************************************************************************)
(* runCmd.                                                                 *)
(***************************************************************************)

\* Mutant: 65535 + 1 passes.
ParsedLoosely(m) ==
  /\ m.proto \in {"tcp", "udp"}
  /\ m.host \in 1..(MaxPort + 1) /\ m.cont \in 1..(MaxPort + 1)

\* parsePublish accepts what Set hands it.
Parsed(m) ==
  /\ m.proto \in {"tcp", "udp"}
  /\ ~(m.host <= 0 \/ m.host > MaxPort \/ m.cont <= 0 \/ m.cont > MaxPort)

ParseFlags ==
  /\ \A m \in cli.publish : Parsed(m)
  /\ Goto("parse", "load")
  /\ cfg' = [cfg EXCEPT !.ports = cli.publish]
  /\ UNCHANGED <<sys, group, argv, inner>>

ParseFlagsFails == (\E m \in cli.publish : ~Parsed(m)) /\ Fail("parse")

\* ocispec.Load returns the file.
Loads ==
  /\ spec.readable /\ spec.version
  /\ spec.root # "" /\ spec.args # <<>>

\* A spec that loads, or enough positionals to do without.
LoadSpec ==
  /\ IF spec.given THEN Loads ELSE Len(cli.positional) >= 2
  /\ Goto("load", "memory")
  /\ UNCHANGED <<cfg, sys, group, argv, inner>>

LoadSpecFails ==
  /\ IF spec.given THEN ~Loads ELSE Len(cli.positional) < 2
  /\ Fail("load")

\* An int64 product.
Wrap(x) == ((x + Half) % (2 * Half)) - Half

\* parseMemory: the empty string is 0; the product is not checked.
ParsedMemory ==
  IF cli.memory.given THEN Wrap(cli.memory.n * Mult[cli.memory.unit]) ELSE 0

MemoryOK == cli.memory.given => cli.memory.numeric /\ cli.memory.n \in 0..(Half - 1)

\* userns.Detect: an explicit --rootless=false is like no flag at all.
Detect == cli.rootless \/ ~host.root

Nth(s, i) == IF Len(s) >= i THEN s[i] ELSE ""

\* The runtime.Config of the command line alone.
BuildConfig ==
  /\ MemoryOK
  /\ Goto("memory", "merge")
  /\ cfg' = [cfg EXCEPT
               !.rootfs = Nth(cli.positional, 1),
               !.cmd = Nth(cli.positional, 2),
               !.args = SubSeq(cli.positional, 3, Len(cli.positional)),
               !.memory = ParsedMemory,
               !.cpu = [q |-> cli.cpu, p |-> 1000],
               !.pids = cli.pids,
               !.rootless = Detect,
               !.seccomp = ~cli.noSeccomp]
  /\ UNCHANGED <<sys, group, argv, inner>>

ParseMemoryFails == ~MemoryOK /\ Fail("memory")

(***************************************************************************)
(* applySpec: one operator per field it may fill.                          *)
(***************************************************************************)

\* Mutant: the arguments of the spec replace those of any command.
MergeCmdAlways(c) ==
  [c EXCEPT !.cmd = IF @ = "" THEN Head(spec.args) ELSE @,
            !.args = IF Len(spec.args) > 1 THEN Tail(spec.args) ELSE @]

MergeCmd(c) ==
  IF c.cmd # "" \/ spec.args = <<>> THEN c
  ELSE [c EXCEPT !.cmd = Head(spec.args),
                 !.args = IF Len(spec.args) > 1 THEN Tail(spec.args) ELSE @]

MergeRootfs(c) == IF c.rootfs = "" THEN [c EXCEPT !.rootfs = spec.root] ELSE c

MergeMemory(c) ==
  IF "memory" \in spec.has /\ c.memory = 0
    THEN [c EXCEPT !.memory = spec.memory] ELSE c

MergeCPU(c) ==
  IF "cpu" \in spec.has /\ c.cpu.q = 0 /\ spec.quota > 0
    THEN [c EXCEPT !.cpu = [q |-> spec.quota,
                            p |-> IF spec.period = 0 THEN Period
                                  ELSE spec.period]]
    ELSE c

MergePids(c) ==
  IF "pids" \in spec.has /\ c.pids = 0 THEN [c EXCEPT !.pids = spec.pids] ELSE c

\* Mutant: the mappings of the spec replace the caller's.
MergeUserAlways(c) ==
  IF {"user", "uidMap", "gidMap"} \subseteq spec.has
    THEN [c EXCEPT !.rootless = TRUE, !.ids = "spec"] ELSE c

MergeUser(c) ==
  IF ~c.rootless /\ {"user", "uidMap", "gidMap"} \subseteq spec.has
    THEN [c EXCEPT !.rootless = TRUE, !.ids = "spec"] ELSE c

\* Mutant: a spec without the block turns the profile off.
MergeSeccompBoth(c) == [c EXCEPT !.seccomp = "seccomp" \in spec.has]

MergeSeccomp(c) ==
  IF "seccomp" \in spec.has THEN [c EXCEPT !.seccomp = TRUE] ELSE c

ApplySpec ==
  /\ Goto("merge", "preflight")
  /\ cfg' = IF spec.given
              THEN MergeSeccomp(MergeUser(MergePids(MergeCPU(MergeMemory(
                     MergeRootfs(MergeCmd(cfg)))))))
              ELSE cfg
  /\ UNCHANGED <<sys, group, argv, inner>>

(***************************************************************************)
(* Run: Preflight, the clone and the limits, and what the child is told.   *)
(***************************************************************************)

\* Mutant: the preflight looks at the flag, before the spec had its say.
PreflightOKFlag == Detect => host.cloneSysctl # "0" /\ host.maxUserns # "0"

\* A sysctl that cannot be read is no obstacle.
PreflightOK == cfg.rootless => host.cloneSysctl # "0" /\ host.maxUserns # "0"

Preflight ==
  PreflightOK /\ Goto("preflight", "clone") /\ UNCHANGED <<cfg, sys, group, argv, inner>>

PreflightFails == ~PreflightOK /\ Fail("preflight")

Positive(n) == IF n > 0 THEN n ELSE 0

\* Mutant: a small share is rounded to 0, which means no limit.
QuotaNoFloor(share) == (share.q * Period) \div share.p

\* Microseconds of each period that Create writes to cpu.max, at least 1 %.
Quota(share) ==
  LET us == (share.q * Period) \div share.p  floor == Period \div 100
  IN  IF us < floor THEN floor ELSE us

\* Limits.Any and Create, for a run that is not rootless: what is positive is
\* written.
Written ==
  [memory |-> Positive(cfg.memory),
   cpu |-> IF cfg.cpu.q > 0 THEN Quota(cfg.cpu) ELSE 0,
   pids |-> Positive(cfg.pids)]

\* An empty rootfs is neither a directory nor a reference.
Clone ==
  /\ cfg.rootfs # ""
  /\ Goto("clone", "child")
  /\ sys' = [user |-> cfg.rootless, ids |-> cfg.ids]
  /\ group' = IF cfg.rootless THEN group ELSE Written
  /\ argv' = <<"child", IF cfg.seccomp THEN "seccomp=1" ELSE "seccomp=0",
               cfg.rootfs, cfg.cmd>> \o cfg.args
  /\ UNCHANGED <<cfg, inner>>

ResolveFails == cfg.rootfs = "" /\ Fail("clone")

\* main, in the child: os.Args is the binary and argv.
ParseChild ==
  /\ Len(argv) + 1 >= 5
  /\ Goto("child", "ready")
  /\ inner' = [seccomp |-> argv[2] = "seccomp=1", rootfs |-> argv[3],
               cmd |-> argv[4], args |-> SubSeq(argv, 5, Len(argv))]
  /\ UNCHANGED <<cfg, sys, group, argv>>

Ended == pc \in {"ready", "failed"} /\ UNCHANGED vars

Next ==
  \/ ParseFlags \/ ParseFlagsFails \/ LoadSpec \/ LoadSpecFails
  \/ BuildConfig \/ ParseMemoryFails \/ ApplySpec
  \/ Preflight \/ PreflightFails \/ Clone \/ ResolveFails \/ ParseChild
  \/ Ended

Spec == Init /\ [][Next]_vars

(***************************************************************************)
(* Properties.                                                             *)
(***************************************************************************)

Started == pc \in {"child", "ready"}

\* What the user asked of --memory, as a number.
MemoryAsked ==
  IF cli.memory.given THEN cli.memory.n * Mult[cli.memory.unit] ELSE 0

\* The values asked for, none, one or two: by the flag and by the spec.
Asked(byFlag, flag, block, value) ==
  (IF byFlag THEN {flag} ELSE {})
    \cup (IF spec.given /\ block \in spec.has THEN {value} ELSE {})

MemoryLimits == Asked(cli.memory.given, MemoryAsked, "memory", spec.memory)
PidsLimits   == Asked("pids" \in cli.set, cli.pids, "pids", spec.pids)
CpuShares ==
  Asked("cpu" \in cli.set, [q |-> cli.cpu, p |-> 1000], "cpu",
        [q |-> spec.quota, p |-> IF spec.period = 0 THEN Period ELSE spec.period])

\* us microseconds are the share, to the microsecond, or 1 % of a core where
\* the share is smaller, and never 0, which is no limit; none are written for a
\* share that is not positive.
IsShare(us, share) ==
  IF share.q <= 0 THEN us = 0
  ELSE /\ us > 0
       /\ \/ share.q * Period - share.p < us * share.p
             /\ us * share.p <= share.q * Period
          \/ us = Period \div 100 /\ us * share.p > share.q * Period

\* A container that is not rootless gets the limit somebody asked for, and no
\* other: the one of the only source that speaks of it, one of the two if both
\* do, none if neither does.  Which of the two wins is left open, because the
\* comments disagree: "CLI flags that were explicitly set win" (README.md:268),
\* the spec "overrides ... Limits" (runtime_linux.go:60-62); in the code a flag
\* wins unless it is 0.  A small share of a core, a period of 0 or a negative
\* number never turn into another limit, or none.  Sizes of --memory beyond an
\* int64 are left out: they wrap (parseMemory).
LimitsAsAsked ==
  Started /\ ~sys.user /\ MemoryAsked < Half =>
    /\ \/ MemoryLimits = {} /\ group["memory"] = 0
       \/ \E n \in MemoryLimits : group["memory"] = Positive(n)
    /\ \/ PidsLimits = {} /\ group["pids"] = 0
       \/ \E n \in PidsLimits : group["pids"] = Positive(n)
    /\ \/ CpuShares = {} /\ group["cpu"] = 0
       \/ \E share \in CpuShares : IsShare(group["cpu"], share)

\* A caller without privileges, and one that asks for it, gets a user
\* namespace that maps its own ids, whatever the spec maps; anybody else gets
\* one only from a spec that has the mappings.  A caller without privileges
\* that gives --rootless=false is left out: what main.go:232-235 says of it is
\* not what happens (ExplicitFlagsWin).
UserNamespaceOfCaller ==
  LET wants == cli.rootless \/ ~host.root
  IN  Started =>
        /\ wants /\ ("rootless" \in cli.set => cli.rootless)
             => sys.user /\ sys.ids = "caller"
        /\ ~wants /\ sys.user
             => /\ spec.given /\ {"user", "uidMap", "gidMap"} \subseteq spec.has
                /\ sys.ids = "spec"

\* No clone asks for a user namespace the kernel was seen to refuse, be it
\* the flag, the user or the spec that wants it (Preflight runs on the merged
\* configuration).
PreflightCoversClone ==
  Started /\ sys.user => host.cloneSysctl # "0" /\ host.maxUserns # "0"

\* The child installs the profile unless --no-seccomp was given: no spec turns
\* it off, and the decision of the parent crosses the re-exec.  --no-seccomp
\* beside a spec with a seccomp block is left out: who wins is not what
\* README.md:268 says (ExplicitFlagsWin).
SeccompAsDecided ==
  pc = "ready" /\ ~(cli.noSeccomp /\ spec.given /\ "seccomp" \in spec.has)
    => inner.seccomp = ~cli.noSeccomp

\* The child runs the command of the command line with its arguments or the
\* process of the spec with its own, never one with the other's; with a spec
\* the command is empty only if the spec's own is.  (An empty command with
\* arguments is the exception: applySpec keeps them when the spec's process
\* has none.)
OneCommand ==
  LET given == SubSeq(cli.positional, 2, Len(cli.positional))
      argvIn == <<inner.cmd>> \o inner.args
  IN  pc = "ready" =>
        /\ spec.given /\ inner.cmd = "" => spec.args # <<>> /\ spec.args[1] = ""
        /\ \/ argvIn = given
           \/ spec.given /\ argvIn = spec.args
           \/ spec.given /\ Nth(given, 1) = "" /\ Len(given) > 1
                /\ argvIn = <<spec.args[1]>> \o Tail(given)

(***************************************************************************)
(* What the documentation promises and the code does not keep.             *)
(***************************************************************************)

\* "CLI flags that were explicitly set win over spec values" (README.md:268),
\* "Fields the caller already set win ties" (runtime_linux.go:191-192), and a
\* non-root caller is rootless "unless the user explicitly sets
\* --rootless=false" (main.go:232-235).  But a spec with a seccomp block undoes
\* --no-seccomp, and a flag with the value 0 or false is taken for none.
ExplicitFlagsWin ==
  pc = "ready" =>
    /\ cli.noSeccomp => ~inner.seccomp
    /\ "rootless" \in cli.set => sys.user = cli.rootless
    /\ ~sys.user =>
         /\ cli.memory.given => group["memory"] = MemoryAsked
         /\ "pids" \in cli.set => group["pids"] = Positive(cli.pids)
         /\ "cpu" \in cli.set => (group["cpu"] > 0) = (cli.cpu > 0)
=============================================================================
