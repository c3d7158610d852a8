----------------------- MODULE RunConfigurationProofs -----------------------
(***************************************************************************)
(* What RunConfiguration promises for every command line, spec file, host  *)
(* and user: who decides what, when several may.  The inductive invariant  *)
(* says what each stage has made of the inputs; everything else is a fact  *)
(* about the configuration that comes out, Merged.                         *)
(***************************************************************************)
EXTENDS RunConfiguration, SequenceTheorems, TLAPS

\* What runCmd makes of the command line.
Built ==
  [rootfs |-> Nth(cli.positional, 1),
   cmd |-> Nth(cli.positional, 2),
   args |-> SubSeq(cli.positional, 3, Len(cli.positional)),
   memory |-> ParsedMemory,
   cpu |-> [q |-> cli.cpu, p |-> 1000],
   pids |-> cli.pids,
   ports |-> cli.publish,
   rootless |-> Detect,
   ids |-> "caller",
   seccomp |-> ~cli.noSeccomp]

\* What applySpec makes of that.
Merged ==
  IF spec.given
    THEN MergeSeccomp(MergeUser(MergePids(MergeCPU(MergeMemory(
           MergeRootfs(MergeCmd(Built)))))))
    ELSE Built

\* The share of the spec, which has a period of its own or the default one.
SpecShare ==
  [q |-> spec.quota, p |-> IF spec.period = 0 THEN Period ELSE spec.period]

(***************************************************************************)
(* The inductive invariant.                                                *)
(***************************************************************************)

\* The stages behind the clone, and so on backwards: Loaded is everything behind
\* the spec file.
Cloned == {"child", "ready"}
Decided == {"preflight", "clone"} \cup Cloned
Sized == {"merge"} \cup Decided
Loaded == {"memory"} \cup Sized

\* What the stages passed have accepted.
Accepted ==
  /\ pc \in {"load"} \cup Loaded => \A m \in cli.publish : Valid(m)
  /\ pc \in Loaded => IF spec.given THEN Loads ELSE Len(cli.positional) >= 2
  /\ pc \in Sized => MemoryOK
  /\ pc \in {"clone"} \cup Cloned => PreflightOK

\* The configuration, stage by stage.
Composed ==
  /\ pc = "parse" => cfg = NoConfig
  /\ pc \in {"load", "memory"} => cfg = [NoConfig EXCEPT !.ports = cli.publish]
  /\ pc = "merge" => cfg = Built
  /\ pc \in Decided => cfg = Merged

\* What has been made of it: the clone, the limits, and the argv.
Applied ==
  /\ pc \notin Cloned => group = [l \in Limits |-> 0]
  /\ pc \in Cloned =>
       /\ sys = [user |-> cfg.rootless, ids |-> cfg.ids]
       /\ group = IF cfg.rootless THEN [l \in Limits |-> 0] ELSE Written
       /\ argv = <<"child", IF cfg.seccomp THEN "seccomp=1" ELSE "seccomp=0",
                   cfg.rootfs, cfg.cmd>> \o cfg.args

\* The child reads back what the parent decided.
Crossed ==
  pc = "ready" =>
    inner = [seccomp |-> cfg.seccomp, rootfs |-> cfg.rootfs, cmd |-> cfg.cmd,
             args |-> cfg.args]

\* The inductive invariant.  It says of every stage what the inputs and the stages
\* before it make of the configuration, so that a merge that takes the wrong side,
\* or a flag lost on the way to the child, breaks it at the stage that does it.
IInv == TypeOK /\ Accepted /\ Composed /\ Applied /\ Crossed
(***************************************************************************)
(* Lemmas: sequences and numbers.                                          *)
(***************************************************************************)

\* The rest of a sequence behind its first two elements.
LEMMA Rest ==
  ASSUME NEW S, NEW s \in Seq(S), NEW k \in 2..3
  PROVE  /\ SubSeq(s, k, Len(s)) \in Seq(S)
         /\ Len(s) < k => SubSeq(s, k, Len(s)) = <<>>
         /\ Len(s) >= k => /\ Len(SubSeq(s, k, Len(s))) = Len(s) - k + 1
                           /\ \A i \in 1..Len(s) - k + 1 :
                                SubSeq(s, k, Len(s))[i] = s[k + i - 1]
<1>1. Len(s) \in Nat /\ \A i \in k..Len(s) : s[i] \in S
  BY LenProperties, ElementOfSeq
<1>2. QED
  BY <1>1, SubSeqProperties, SubSeqEmpty

\* An element put in front of a sequence: a name the provers look through on
\* demand only.
Front(e, s) == <<e>> \o s
IsFront(v, e, s) ==
  /\ Len(v) = Len(s) + 1 /\ v[1] = e
  /\ \A i \in 1..Len(s) : v[i + 1] = s[i]

\* What a sequence reads as, with an element put in front of it.
LEMMA FrontIs ==
  ASSUME NEW S, NEW e \in S, NEW s \in Seq(S)
  PROVE  Front(e, s) \in Seq(S) /\ IsFront(Front(e, s), e, s)
<1>1. <<e>> \in Seq(S) /\ Len(<<e>>) = 1 /\ <<e>>[1] = e
  OBVIOUS
<1>2. Len(s) \in Nat
  BY LenProperties
<1>3. /\ <<e>> \o s \in Seq(S)
      /\ Len(<<e>> \o s) = Len(<<e>>) + Len(s)
      /\ \A i \in 1..Len(<<e>>) + Len(s) :
           (<<e>> \o s)[i] =
             IF i <= Len(<<e>>) THEN <<e>>[i] ELSE s[i - Len(<<e>>)]
  BY <1>1, ConcatProperties, Zenon
<1> DEFINE t == <<e>> \o s
<1> HIDE DEF t
<1>4. /\ t \in Seq(S) /\ Len(t) = 1 + Len(s)
      /\ \A i \in 1..1 + Len(s) : t[i] = IF i <= 1 THEN e ELSE s[i - 1]
  BY <1>1, <1>3 DEF t
<1>5. t[1] = e
  BY <1>2, <1>4
<1>6. ASSUME NEW i \in 1..Len(s) PROVE t[i + 1] = s[i]
  <2>1. i + 1 \in 1..1 + Len(s) /\ ~(i + 1 <= 1) /\ (i + 1) - 1 = i
    BY <1>2
  <2>2. QED
    BY <1>4, <2>1
<1>7. QED
  BY <1>2, <1>4, <1>5, <1>6 DEF t, Front, IsFront

\* The second element in front of what follows it, and what follows it.
LEMMA SecondAndRest ==
  ASSUME NEW S, NEW s \in Seq(S), Len(s) >= 2
  PROVE  /\ <<s[2]>> \o SubSeq(s, 3, Len(s)) = SubSeq(s, 2, Len(s))
         /\ Tail(SubSeq(s, 2, Len(s))) = SubSeq(s, 3, Len(s))
<1> DEFINE t == SubSeq(s, 2, Len(s))
           u == SubSeq(s, 3, Len(s))
<1>1. Len(s) \in Nat /\ s[2] \in S
  BY LenProperties, ElementOfSeq
<1>2. /\ t \in Seq(S) /\ Len(t) = Len(s) - 1
      /\ \A i \in 1..Len(s) - 1 : t[i] = s[i + 1]
  <2>1. 2 \in 2..3
    OBVIOUS
  <2>2. QED
    BY <1>1, <2>1, Rest
<1>3. /\ u \in Seq(S) /\ Len(u) = Len(s) - 2
      /\ \A i \in 1..Len(s) - 2 : u[i] = s[i + 2]
  <2>1. 3 \in 2..3
    OBVIOUS
  <2>2. CASE Len(s) >= 3
    BY <1>1, <2>1, <2>2, Rest
  <2>3. CASE Len(s) < 3
    <3>1. Len(s) = 2 /\ u = <<>>
      <4>1. \A n \in Nat : n >= 2 /\ n < 3 => n = 2
        OBVIOUS
      <4>2. Len(s) = 2
        BY <1>1, <2>3, <4>1
      <4>3. QED
        BY <4>2, SubSeqEmpty
    <3> HIDE DEF u
    <3>2. QED
      BY <3>1, EmptySeq
  <2>4. QED
    BY <1>1, <2>2, <2>3
<1> HIDE DEF t, u
<1>4. <<s[2]>> \o u = t
  <2> DEFINE v == Front(s[2], u)
  <2>0. v \in Seq(S) /\ IsFront(v, s[2], u)
    <3>1. s[2] \in S /\ u \in Seq(S)
      BY <1>1, <1>3
    <3>2. QED
      BY <3>1, FrontIs
  <2> HIDE DEF v
  <2>1. /\ v \in Seq(S) /\ Len(v) = Len(u) + 1 /\ v[1] = s[2]
        /\ \A i \in 1..Len(u) : v[i + 1] = u[i]
    BY <2>0 DEF IsFront
  <2>2. ASSUME NEW i \in 1..Len(v) PROVE v[i] = t[i]
    <3>1. CASE i = 1
      BY <1>1, <1>2, <1>3, <2>1, <3>1
    <3>2. CASE i # 1
      <4>1. i - 1 \in 1..Len(u) /\ (i - 1) + 1 = i /\ i \in 1..Len(s) - 1
        BY <1>1, <1>3, <2>1, <3>2
      <4>2. v[i] = u[i - 1]
        BY <2>1, <4>1
      <4>3. u[i - 1] = s[(i - 1) + 2] /\ t[i] = s[i + 1] /\ (i - 1) + 2 = i + 1
        BY <1>2, <1>3, <4>1
      <4>4. QED
        BY <4>2, <4>3
    <3>3. QED
      BY <3>1, <3>2
  <2>3. v = t
    BY <1>1, <1>2, <1>3, <2>1, <2>2, SeqEqual
  <2>4. QED
    BY <2>3 DEF v, Front
<1>5. Tail(t) = u
  <2>1. t # <<>>
    BY <1>1, <1>2, EmptySeq
  <2>2. /\ Tail(t) \in Seq(S) /\ Len(Tail(t)) = Len(t) - 1
        /\ \A i \in 1..Len(Tail(t)) : Tail(t)[i] = t[i + 1]
    BY <1>2, <2>1, HeadTailProperties
  <2>3. ASSUME NEW i \in 1..Len(Tail(t)) PROVE Tail(t)[i] = u[i]
    <3>1. i \in 1..Len(s) - 2 /\ i + 1 \in 1..Len(s) - 1 /\ (i + 1) + 1 = i + 2
      BY <1>1, <1>2, <2>2
    <3>2. QED
      BY <1>2, <1>3, <2>2, <3>1
  <2>4. QED
    BY <1>1, <1>2, <1>3, <2>2, <2>3, SeqEqual
<1>6. QED
  BY <1>4, <1>5 DEF t, u

\* The head in front of the tail.
LEMMA HeadAndTail ==
  ASSUME NEW S, NEW s \in Seq(S), s # <<>>
  PROVE  /\ Head(s) = s[1] /\ <<Head(s)>> \o Tail(s) = s
         /\ Len(s) = 1 => Tail(s) = <<>>
<1>1. /\ Len(s) \in Nat \ {0} /\ Head(s) \in S /\ Head(s) = s[1]
      /\ Tail(s) \in Seq(S) /\ Len(Tail(s)) = Len(s) - 1
      /\ \A i \in 1..Len(Tail(s)) : Tail(s)[i] = s[i + 1]
  BY HeadTailProperties, EmptySeq, LenProperties
<1> DEFINE v == Front(Head(s), Tail(s))
<1>0. v \in Seq(S) /\ IsFront(v, Head(s), Tail(s))
  <2>1. Head(s) \in S /\ Tail(s) \in Seq(S)
    BY <1>1
  <2>2. QED
    BY <2>1, FrontIs
<1> HIDE DEF v
<1>2. /\ v \in Seq(S) /\ Len(v) = Len(Tail(s)) + 1 /\ v[1] = Head(s)
      /\ \A i \in 1..Len(Tail(s)) : v[i + 1] = Tail(s)[i]
  BY <1>0 DEF IsFront
<1>3. ASSUME NEW i \in 1..Len(v) PROVE v[i] = s[i]
  <2>1. CASE i = 1
    BY <1>1, <1>2, <2>1
  <2>2. CASE i # 1
    <3>1. i - 1 \in 1..Len(Tail(s)) /\ (i - 1) + 1 = i
      BY <1>1, <1>2, <2>2
    <3>2. QED
      BY <1>1, <1>2, <3>1
  <2>3. QED
    BY <2>1, <2>2
<1>4. v = s
  BY <1>1, <1>2, <1>3, SeqEqual
<1>5. ASSUME Len(s) = 1 PROVE Tail(s) = <<>>
  <2>1. Len(Tail(s)) = 0
    BY <1>1, <1>5
  <2>2. QED
    BY <1>1, <2>1, EmptySeq
<1>6. QED
  BY <1>1, <1>4, <1>5 DEF v, Front

\* The argv of the re-executed binary as the parent writes it, and as the child
\* reads it.
Argv(a, b, c, d, s) == <<a, b, c, d>> \o s
ReadsAs(v, S, b, c, d, s) ==
  /\ v \in Seq(S) /\ Len(v) = Len(s) + 4
  /\ v[2] = b /\ v[3] = c /\ v[4] = d
  /\ SubSeq(v, 5, Len(v)) = s

\* What a sequence has behind four elements put in front of it.
LEMMA BehindFour ==
  ASSUME NEW S, NEW a \in S, NEW b \in S, NEW c \in S, NEW d \in S,
         NEW s \in Seq(S)
  PROVE  ReadsAs(Argv(a, b, c, d, s), S, b, c, d, s)
<1> DEFINE f == <<a, b, c, d>>
           v == f \o s
<1>1. /\ f \in Seq(S) /\ Len(f) = 4
      /\ f[1] = a /\ f[2] = b /\ f[3] = c /\ f[4] = d
  OBVIOUS
<1>2. Len(s) \in Nat
  BY LenProperties
<1> HIDE DEF f
<1>3. /\ v \in Seq(S) /\ Len(v) = Len(f) + Len(s)
      /\ \A i \in 1..Len(f) + Len(s) :
           v[i] = IF i <= Len(f) THEN f[i] ELSE s[i - Len(f)]
  BY <1>1, ConcatProperties, Zenon
<1> HIDE DEF v
<1>4. /\ Len(v) = 4 + Len(s) /\ v[2] = b /\ v[3] = c /\ v[4] = d
  BY <1>1, <1>2, <1>3
<1>5. ASSUME NEW i \in 1..Len(s) PROVE v[i + 4] = s[i]
  <2>1. i + 4 \in 1..4 + Len(s) /\ ~(i + 4 <= 4) /\ (i + 4) - 4 = i
    BY <1>2
  <2>2. QED
    BY <1>1, <1>3, <2>1
<1>6. SubSeq(v, 5, Len(v)) = s
  <2> DEFINE w == SubSeq(v, 5, Len(v))
  <2>1. CASE Len(s) = 0
    <3>1. w = <<>>
      BY <1>4, <2>1, SubSeqEmpty
    <3>2. QED
      BY <2>1, <3>1, EmptySeq
  <2>2. CASE Len(s) > 0
    <3>1. \A i \in 5..Len(v) : v[i] \in S
      BY <1>3, <1>4, <1>2, ElementOfSeq
    <3>2. /\ w \in Seq(S) /\ Len(w) = Len(s)
          /\ \A i \in 1..Len(s) : w[i] = v[i + 4]
      <4>1. /\ w \in Seq(S) /\ Len(w) = Len(v) - 5 + 1
            /\ \A i \in 1..Len(v) - 5 + 1 : w[i] = v[5 + i - 1]
        BY <1>2, <1>4, <2>2, <3>1, SubSeqProperties
      <4> HIDE DEF w
      <4>2. Len(v) - 5 + 1 = Len(s) /\ \A i \in 1..Len(s) : 5 + i - 1 = i + 4
        BY <1>2, <1>4
      <4>3. QED
        BY <4>1, <4>2
    <3> HIDE DEF w
    <3>3. w = s
      BY <1>5, <3>2, SeqEqual
    <3>4. QED
      BY <3>3 DEF w
  <2>3. QED
    BY <1>2, <2>1, <2>2
<1>7. QED
  BY <1>1, <1>3, <1>4, <1>6 DEF v, f, Argv, ReadsAs

\* A size that fits an int64 does not wrap.
LEMMA NoWrap ==
  ASSUME NEW x \in Nat, x < Half
  PROVE  Wrap(x) = x
<1>1. Half \in Nat /\ Half > 0
  BY ConfigAssumption
<1>2. (x + Half) % (2 * Half) = x + Half
  BY <1>1
<1>3. QED
  BY <1>1, <1>2 DEF Wrap

\* What wraps is still a number.
LEMMA WrapInt == ASSUME NEW x \in Int PROVE Wrap(x) \in Int
<1>1. 2 * Half \in Nat /\ 2 * Half > 0 /\ Half \in Nat
  BY ConfigAssumption
<1>2. (x + Half) % (2 * Half) \in Int
  BY <1>1
<1>3. QED
  BY <1>1, <1>2 DEF Wrap

\* The floor: a positive share is a positive quota.
LEMMA QuotaPositive ==
  ASSUME NEW share \in Share
  PROVE  Quota(share) \in Nat /\ Quota(share) > 0
<1>1. /\ Period \in Nat /\ Period >= 100
      /\ Period \div 100 \in Nat /\ Period \div 100 > 0
  BY ConfigAssumption
<1>2. share.q * Period \in Int /\ share.p \in Nat /\ share.p > 0
  BY <1>1 DEF Share
<1>3. (share.q * Period) \div share.p \in Int
  BY <1>2
<1>4. QED
  BY <1>1, <1>3 DEF Quota

\* The quota of a positive share is the share, to the microsecond, or the floor.
LEMMA QuotaIsShare ==
  ASSUME NEW share \in Share, share.q > 0
  PROVE  IsShare(Quota(share), share)
<1> DEFINE x == share.q * Period
           p == share.p
           us == x \div p
           floor == Period \div 100
<1>1. x \in Int /\ p \in Nat /\ p > 0 /\ floor \in Int
  BY ConfigAssumption DEF Share
<1>2. /\ Quota(share) = IF us < floor THEN floor ELSE us
      /\ IsShare(Quota(share), share) <=>
           \/ x - p < Quota(share) * p /\ Quota(share) * p <= x
           \/ Quota(share) = floor /\ Quota(share) * p > x
  <2>1. Quota(share) = IF us < floor THEN floor ELSE us
    BY DEF Quota
  <2>2. ~(share.q <= 0) /\ Quota(share) > 0
    BY QuotaPositive DEF Share
  <2>3. QED
    BY <2>1, <2>2 DEF IsShare
<1> HIDE DEF x, p, floor
<1>3. us \in Int /\ us * p <= x /\ x < us * p + p
  <2>1. us \in Int /\ us * p <= x
    BY <1>1
  <2>2. x < p * us + p
    BY <1>1
  <2> HIDE DEF us
  <2>3. p * us = us * p
    BY <1>1, <2>1
  <2>4. QED
    BY <2>1, <2>2, <2>3
<1> HIDE DEF us
<1>4. CASE us < floor
  <2>1. us + 1 <= floor
    BY <1>1, <1>3, <1>4
  <2>2. (us + 1) * p <= floor * p
    BY <1>1, <1>3, <2>1
  <2>3. (us + 1) * p = us * p + p /\ us * p \in Int /\ floor * p \in Int
    BY <1>1, <1>3
  <2>4. floor * p > x
    BY <1>1, <1>3, <2>2, <2>3
  <2>5. QED
    BY <1>2, <1>4, <2>4
<1>5. CASE ~(us < floor)
  <2>1. us * p \in Int
    BY <1>1, <1>3
  <2>2. x - p < us * p
    BY <1>1, <1>3, <2>1
  <2>3. QED
    BY <1>2, <1>3, <1>5, <2>2
<1>6. QED
  BY <1>4, <1>5
(***************************************************************************)
(* The configuration that comes out.                                       *)
(***************************************************************************)

\* The command line, the spec file and the host are inputs of the kind assumed.
LEMMA InputTypes ==
  ASSUME TypeOK
  PROVE  /\ cli \in CommandLine /\ Defaults(cli)
         /\ spec \in SpecFile /\ host \in Host
  BY ConfigAssumption DEF TypeOK

\* The command line alone.
LEMMA BuiltType ==
  ASSUME cli \in CommandLine
  PROVE  Built \in Config
<1>1. cli.positional \in Seq(Names) /\ "" \in Names
  BY DEF CommandLine, Argvs, Names
<1>2. \A p \in Seq(Names), i \in 1..2 : Nth(p, i) \in Names
  <2>1. ASSUME NEW p \in Seq(Names), NEW i \in 1..2, Len(p) >= i
        PROVE  p[i] \in Names
    <3>1. i \in 1..Len(p)
      BY <2>1, LenProperties
    <3>2. QED
      BY <3>1, ElementOfSeq
  <2>2. QED
    BY <1>1, <2>1 DEF Nth
<1>3. \A p \in Seq(Names) : SubSeq(p, 3, Len(p)) \in Seq(Names)
  <2>1. 3 \in 2..3
    OBVIOUS
  <2>2. QED
    BY <2>1, Rest
<1>4. ParsedMemory \in Int
  <2>1. cli.memory.n \in Int /\ Mult[cli.memory.unit] \in Int
    BY ConfigAssumption DEF CommandLine
  <2>2. cli.memory.n * Mult[cli.memory.unit] \in Int
    BY <2>1
  <2>3. QED
    BY <2>2, WrapInt DEF ParsedMemory
<1>5. /\ cli.cpu \in Int /\ cli.pids \in Int /\ cli.publish \in SUBSET Mapping
      /\ cli.noSeccomp \in BOOLEAN
  BY DEF CommandLine
<1>6. [q |-> cli.cpu, p |-> 1000] \in Share
  BY <1>5 DEF Share
<1>7. Detect \in BOOLEAN /\ (~cli.noSeccomp) \in BOOLEAN
  BY DEF Detect
<1>8. /\ Nth(cli.positional, 1) \in Names /\ Nth(cli.positional, 2) \in Names
      /\ SubSeq(cli.positional, 3, Len(cli.positional)) \in Argvs
  <2>1. SubSeq(cli.positional, 3, Len(cli.positional)) \in Seq(Names)
    BY <1>1, <1>3, Zenon
  <2>2. 1 \in 1..2 /\ 2 \in 1..2
    OBVIOUS
  <2>3. Nth(cli.positional, 1) \in Names /\ Nth(cli.positional, 2) \in Names
    BY <1>1, <1>2, <2>2, Zenon
  <2>4. QED
    BY <2>1, <2>3 DEF Argvs
<1>9. QED
  BY <1>4, <1>5, <1>6, <1>7, <1>8 DEF Built, Config

\* Each merge fills its own fields and leaves the others alone.
LEMMA Merges ==
  ASSUME NEW c \in Config, spec \in SpecFile
  PROVE  /\ /\ MergeCmd(c) \in Config
            /\ c.cmd # "" \/ spec.args = <<>> => MergeCmd(c) = c
            /\ ~(c.cmd # "" \/ spec.args = <<>>) =>
                 MergeCmd(c) = [c EXCEPT !.cmd = Head(spec.args),
                                         !.args = IF Len(spec.args) > 1
                                                    THEN Tail(spec.args) ELSE @]
         /\ MergeRootfs(c) \in Config
         /\ MergeMemory(c) \in Config
         /\ MergeCPU(c) \in Config
         /\ MergePids(c) \in Config
         /\ MergeUser(c) \in Config
         /\ MergeSeccomp(c) \in Config
<1>1. /\ spec.args \in Seq(Names) /\ spec.root \in Names /\ spec.memory \in Int
      /\ spec.quota \in Int /\ spec.period \in Nat /\ spec.pids \in Int
  BY DEF SpecFile, Argvs
<1>2. MergeCmd(c) \in Config
  <2>1. CASE c.cmd # "" \/ spec.args = <<>>
    BY <2>1 DEF MergeCmd
  <2>2. CASE c.cmd = "" /\ spec.args # <<>>
    <3>1. Head(spec.args) \in Names /\ Tail(spec.args) \in Argvs
      BY <1>1, <2>2, HeadTailProperties DEF Argvs
    <3>2. QED
      BY <2>2, <3>1 DEF MergeCmd, Config
  <2>3. QED
    BY <2>1, <2>2
<1>3. MergeRootfs(c) \in Config
  BY <1>1 DEF MergeRootfs, Config
<1>4. MergeMemory(c) \in Config /\ MergePids(c) \in Config
  BY <1>1 DEF MergeMemory, MergePids, Config
<1>5. MergeCPU(c) \in Config
  <2>1. [q |-> spec.quota, p |-> IF spec.period = 0 THEN Period ELSE spec.period]
          \in Share
    BY <1>1, ConfigAssumption DEF Share
  <2>2. QED
    BY <2>1 DEF MergeCPU, Config
<1>6. MergeUser(c) \in Config /\ MergeSeccomp(c) \in Config
  BY DEF MergeUser, MergeSeccomp, Config
<1>7. QED
  BY <1>2, <1>3, <1>4, <1>5, <1>6 DEF MergeCmd

\* The parts of a spec file that together ask for a user namespace with the spec's
\* own mappings.
SpecUser == {"user", "uidMap", "gidMap"}

\* Who decides what: the whole of applySpec, field by field.
LEMMA MergedIs ==
  ASSUME Built \in Config, spec \in SpecFile
  PROVE  /\ Merged \in Config
         /\ Merged.ports = Built.ports
         /\ spec.given /\ Built.cmd = "" /\ spec.args # <<>> =>
              /\ Merged.cmd = Head(spec.args)
              /\ Merged.args = IF Len(spec.args) > 1 THEN Tail(spec.args)
                               ELSE Built.args
         /\ ~(spec.given /\ Built.cmd = "" /\ spec.args # <<>>) =>
              Merged.cmd = Built.cmd /\ Merged.args = Built.args
         /\ Merged.memory =
              IF spec.given /\ "memory" \in spec.has /\ Built.memory = 0
                THEN spec.memory ELSE Built.memory
         /\ Merged.cpu =
              IF spec.given /\ "cpu" \in spec.has /\ Built.cpu.q = 0 /\ spec.quota > 0
                THEN SpecShare ELSE Built.cpu
         /\ Merged.pids =
              IF spec.given /\ "pids" \in spec.has /\ Built.pids = 0
                THEN spec.pids ELSE Built.pids
         /\ Merged.rootless = 
               (Built.rootless \/ (spec.given /\ SpecUser \subseteq spec.has))
         /\ Merged.ids = IF ~Built.rootless /\ spec.given /\ SpecUser \subseteq spec.has
                           THEN "spec" ELSE Built.ids
         /\ Merged.seccomp = (Built.seccomp \/ (spec.given /\ "seccomp" \in spec.has))
<1>1. CASE ~spec.given
  <2>1. Merged = Built
    BY <1>1 DEF Merged
  <2>2. Built.rootless \in BOOLEAN /\ Built.seccomp \in BOOLEAN
    BY DEF Config
  <2>3. QED
    BY <1>1, <2>1, <2>2
<1>2. CASE spec.given
  <2> DEFINE c0 == Built
             c1 == MergeCmd(c0)
             c2 == MergeRootfs(c1)
             c3 == MergeMemory(c2)
             c4 == MergeCPU(c3)
             c5 == MergePids(c4)
             c6 == MergeUser(c5)
             c7 == MergeSeccomp(c6)
  <2>0. Merged = c7
    BY <1>2 DEF Merged
  <2> HIDE DEF c0
  <2>1. c0 \in Config
    BY DEF c0
  <2>2. /\ c1 \in Config
        /\ c1.rootfs = c0.rootfs /\ c1.memory = c0.memory /\ c1.cpu = c0.cpu
        /\ c1.pids = c0.pids /\ c1.ports = c0.ports
        /\ c1.rootless = c0.rootless /\ c1.ids = c0.ids
        /\ c1.seccomp = c0.seccomp
        /\ c0.cmd = "" /\ spec.args # <<>> =>
             /\ c1.cmd = Head(spec.args)
             /\ c1.args = IF Len(spec.args) > 1 THEN Tail(spec.args) ELSE c0.args
        /\ ~(c0.cmd = "" /\ spec.args # <<>>) =>
             c1.cmd = c0.cmd /\ c1.args = c0.args
    <3>1. c1 \in Config
      BY <2>1, Merges
    <3>2. QED
      BY <2>1, <3>1 DEF MergeCmd, Config
  <2> HIDE DEF c1
  <2>3. /\ c2 \in Config
        /\ c2.memory = c1.memory /\ c2.cpu = c1.cpu
        /\ c2.pids = c1.pids /\ c2.ports = c1.ports
        /\ c2.rootless = c1.rootless /\ c2.ids = c1.ids
        /\ c2.seccomp = c1.seccomp /\ c2.cmd = c1.cmd /\ c2.args = c1.args
    BY <2>2, Merges DEF MergeRootfs, Config
  <2> HIDE DEF c2
  <2>4. /\ c3 \in Config /\ c3.cpu = c2.cpu
        /\ c3.pids = c2.pids /\ c3.ports = c2.ports
        /\ c3.rootless = c2.rootless /\ c3.ids = c2.ids
        /\ c3.seccomp = c2.seccomp /\ c3.cmd = c2.cmd /\ c3.args = c2.args
        /\ c3.memory = IF "memory" \in spec.has /\ c2.memory = 0
                         THEN spec.memory ELSE c2.memory
    BY <2>3, Merges DEF MergeMemory, Config
  <2> HIDE DEF c3
  <2>5. /\ c4 \in Config /\ c4.memory = c3.memory
        /\ c4.pids = c3.pids /\ c4.ports = c3.ports
        /\ c4.rootless = c3.rootless /\ c4.ids = c3.ids
        /\ c4.seccomp = c3.seccomp /\ c4.cmd = c3.cmd /\ c4.args = c3.args
        /\ c4.cpu = IF "cpu" \in spec.has /\ c3.cpu.q = 0 /\ spec.quota > 0
                      THEN SpecShare ELSE c3.cpu
    BY <2>4, Merges DEF MergeCPU, Config, SpecShare
  <2> HIDE DEF c4
  <2>6. /\ c5 \in Config /\ c5.memory = c4.memory
        /\ c5.cpu = c4.cpu /\ c5.ports = c4.ports
        /\ c5.rootless = c4.rootless /\ c5.ids = c4.ids
        /\ c5.seccomp = c4.seccomp /\ c5.cmd = c4.cmd /\ c5.args = c4.args
        /\ c5.pids = IF "pids" \in spec.has /\ c4.pids = 0
                       THEN spec.pids ELSE c4.pids
    BY <2>5, Merges DEF MergePids, Config
  <2> HIDE DEF c5
  <2>7. /\ c6 \in Config /\ c6.memory = c5.memory
        /\ c6.cpu = c5.cpu /\ c6.ports = c5.ports /\ c6.pids = c5.pids
        /\ c6.seccomp = c5.seccomp /\ c6.cmd = c5.cmd /\ c6.args = c5.args
        /\ c6.rootless = (c5.rootless \/ SpecUser \subseteq spec.has)
        /\ c6.ids = IF ~c5.rootless /\ SpecUser \subseteq spec.has
                      THEN "spec" ELSE c5.ids
    <3>1. c6 \in Config
      BY <2>6, Merges
    <3>2. CASE ~c5.rootless /\ SpecUser \subseteq spec.has
      BY <2>6, <3>2 DEF MergeUser, Config, SpecUser
    <3>3. CASE ~(~c5.rootless /\ SpecUser \subseteq spec.has)
      BY <2>6, <3>3 DEF MergeUser, Config, SpecUser
    <3>4. QED
      BY <3>1, <3>2, <3>3
  <2> HIDE DEF c6
  <2>8. /\ c7 \in Config /\ c7.memory = c6.memory
        /\ c7.cpu = c6.cpu /\ c7.ports = c6.ports /\ c7.pids = c6.pids
        /\ c7.rootless = c6.rootless /\ c7.ids = c6.ids
        /\ c7.cmd = c6.cmd /\ c7.args = c6.args
        /\ c7.seccomp = (c6.seccomp \/ "seccomp" \in spec.has)
    <3>1. c7 \in Config
      BY <2>7, Merges
    <3>2. CASE "seccomp" \in spec.has
      BY <2>7, <3>1, <3>2 DEF MergeSeccomp, Config
    <3>3. CASE "seccomp" \notin spec.has
      BY <2>7, <3>1, <3>3 DEF MergeSeccomp, Config
    <3>4. QED
      BY <3>2, <3>3, <3>1
  <2> HIDE DEF c7
  <2>9. /\ c7.ports = c0.ports /\ c7.cmd = c1.cmd /\ c7.args = c1.args
        /\ c7.memory = c3.memory /\ c7.cpu = c4.cpu /\ c7.pids = c5.pids
        /\ c7.rootless = c6.rootless /\ c7.ids = c6.ids
        /\ c5.rootless = c0.rootless /\ c5.ids = c0.ids
        /\ c6.seccomp = c0.seccomp /\ c2.memory = c0.memory
        /\ c3.cpu = c0.cpu /\ c4.pids = c0.pids
    <3>1. /\ c2.memory = c0.memory /\ c2.cpu = c0.cpu /\ c2.pids = c0.pids
          /\ c2.ports = c0.ports /\ c2.rootless = c0.rootless
          /\ c2.ids = c0.ids /\ c2.seccomp = c0.seccomp
          /\ c2.cmd = c1.cmd /\ c2.args = c1.args
      BY <2>2, <2>3
    <3>2. /\ c4.memory = c3.memory /\ c3.cpu = c0.cpu /\ c4.pids = c0.pids
          /\ c4.ports = c0.ports /\ c4.rootless = c0.rootless
          /\ c4.ids = c0.ids /\ c4.seccomp = c0.seccomp
          /\ c4.cmd = c1.cmd /\ c4.args = c1.args
      BY <3>1, <2>4, <2>5
    <3>3. /\ c6.memory = c3.memory /\ c6.cpu = c4.cpu /\ c6.pids = c5.pids
          /\ c6.ports = c0.ports /\ c5.rootless = c0.rootless
          /\ c5.ids = c0.ids /\ c6.seccomp = c0.seccomp
          /\ c6.cmd = c1.cmd /\ c6.args = c1.args
      BY <3>2, <2>6, <2>7
    <3>4. QED
      BY <3>1, <3>2, <3>3, <2>8
  <2>10. /\ Merged \in Config /\ Merged.ports = Built.ports
         /\ Merged.cmd = c1.cmd /\ Merged.args = c1.args
         /\ Merged.memory = c3.memory /\ Merged.cpu = c4.cpu
         /\ Merged.pids = c5.pids /\ Merged.rootless = c6.rootless
         /\ Merged.ids = c6.ids /\ Merged.seccomp = c7.seccomp
    BY <2>0, <2>8, <2>9 DEF c0
  <2>11. QED
    <3>1. /\ c1.cmd = Merged.cmd /\ c1.args = Merged.args
          /\ Built.cmd = "" /\ spec.args # <<>> =>
               /\ c1.cmd = Head(spec.args)
               /\ c1.args = IF Len(spec.args) > 1 THEN Tail(spec.args)
                            ELSE Built.args
          /\ ~(Built.cmd = "" /\ spec.args # <<>>) =>
               c1.cmd = Built.cmd /\ c1.args = Built.args
      BY <2>2, <2>10 DEF c0
    <3>2. /\ Merged.memory = IF "memory" \in spec.has /\ Built.memory = 0
                               THEN spec.memory ELSE Built.memory
          /\ Merged.cpu =
               IF "cpu" \in spec.has /\ Built.cpu.q = 0 /\ spec.quota > 0
                 THEN SpecShare ELSE Built.cpu
          /\ Merged.pids = IF "pids" \in spec.has /\ Built.pids = 0
                             THEN spec.pids ELSE Built.pids
      BY <2>4, <2>5, <2>6, <2>9, <2>10 DEF c0
    <3>3. /\ Merged.rootless = (Built.rootless \/ SpecUser \subseteq spec.has)
          /\ Merged.ids = IF ~Built.rootless /\ SpecUser \subseteq spec.has
                            THEN "spec" ELSE Built.ids
          /\ Merged.seccomp = (Built.seccomp \/ "seccomp" \in spec.has)
      BY <2>7, <2>8, <2>9, <2>10 DEF c0
    <3>4. QED
      BY <1>2, <2>10, <3>1, <3>2, <3>3
<1>3. QED
  BY <1>1, <1>2
(***************************************************************************)
(* Every stage preserves the invariant.                                    *)
(***************************************************************************)

\* The inputs stay, and so does what is made of them.
LEMMA InputsStay ==
  ASSUME UNCHANGED inputs
  PROVE  /\ Built' = Built /\ Merged' = Merged
         /\ Loads' = Loads /\ MemoryOK' = MemoryOK
<1>1. cli' = cli /\ spec' = spec /\ host' = host
  BY DEF inputs
<1>2. Built' = Built
  BY <1>1 DEF Built, ParsedMemory, Detect
<1>3. Merged' = Merged
  BY <1>1, <1>2 DEF Merged, MergeSeccomp, MergeUser, MergePids, MergeCPU,
                    MergeMemory, MergeRootfs, MergeCmd
<1>4. QED
  BY <1>1, <1>2, <1>3 DEF Loads, MemoryOK

\* The arguments of the re-executed binary.
Passed(c) ==
  <<"child", IF c.seccomp THEN "seccomp=1" ELSE "seccomp=0", c.rootfs, c.cmd>>
    \o c.args

\* What may stand in that argv.
ArgvNames == Names \cup {"child", "seccomp=0", "seccomp=1"}

\* They are read back as they were written.
LEMMA PassedIs ==
  ASSUME NEW c \in Config
  PROVE  /\ Passed(c) \in Seq(ArgvNames)
         /\ Len(Passed(c)) >= 4
         /\ (Passed(c)[2] = "seccomp=1") = c.seccomp
         /\ Passed(c)[3] = c.rootfs /\ Passed(c)[4] = c.cmd
         /\ SubSeq(Passed(c), 5, Len(Passed(c))) = c.args
<1> DEFINE a == "child"
           b == IF c.seccomp THEN "seccomp=1" ELSE "seccomp=0"
           d == c.rootfs
           e == c.cmd
           z == c.args
<1>1. /\ a \in ArgvNames /\ b \in ArgvNames /\ d \in ArgvNames /\ e \in ArgvNames
      /\ c.seccomp \in BOOLEAN
  BY DEF ArgvNames, Config
<1>2. z \in Seq(ArgvNames)
  <2>1. z \in Seq(Names) /\ Names \subseteq ArgvNames
    BY DEF Config, Argvs, ArgvNames
  <2> HIDE DEF z
  <2>2. QED
    BY <2>1, SeqMonotonic
<1>3. (b = "seccomp=1") = c.seccomp
  BY <1>1
<1>4. Len(z) \in Nat
  BY <1>2, LenProperties
<1> DEFINE v == Argv(a, b, d, e, z)
<1>5. Passed(c) = v
  BY DEF Passed, Argv
<1> HIDE DEF a, b, d, e, z
<1>0. ReadsAs(v, ArgvNames, b, d, e, z)
  BY <1>1, <1>2, BehindFour
<1> HIDE DEF v
<1>6. /\ v \in Seq(ArgvNames) /\ Len(v) = Len(z) + 4
      /\ v[2] = b /\ v[3] = d /\ v[4] = e
      /\ SubSeq(v, 5, Len(v)) = z
  BY <1>0 DEF ReadsAs
<1>7. Passed(c) \in Seq(ArgvNames) /\ Len(Passed(c)) >= 4
  BY <1>4, <1>5, <1>6
<1>8. (Passed(c)[2] = "seccomp=1") = c.seccomp
  <2>1. Passed(c)[2] = b
    BY <1>5, <1>6
  <2>2. QED
    BY <1>3, <2>1
<1>9. Passed(c)[3] = c.rootfs /\ Passed(c)[4] = c.cmd
  BY <1>5, <1>6 DEF d, e
<1>10. SubSeq(Passed(c), 5, Len(Passed(c))) = c.args
  BY <1>5, <1>6 DEF z
<1>11. QED
  BY <1>7, <1>8, <1>9, <1>10

\* The limits written are numbers.
LEMMA WrittenType ==
  ASSUME cfg \in Config
  PROVE  Written \in [Limits -> Nat]
<1>1. Positive(cfg.memory) \in Nat /\ Positive(cfg.pids) \in Nat
  BY DEF Config, Positive
<1>2. Quota(cfg.cpu) \in Nat
  BY QuotaPositive DEF Config
<1>3. QED
  BY <1>1, <1>2 DEF Written, Limits

\* The empty configuration is one.
LEMMA NoConfigType == NoConfig \in Config
<1>1. <<>> \in Argvs
  BY EmptySeq DEF Argvs
<1>2. [q |-> 0, p |-> 1] \in Share
  BY DEF Share
<1>3. QED
  BY <1>1, <1>2 DEF NoConfig, Config, Names

\* Every stage of runCmd, of Run and of the child, and every way one of them gives
\* up, preserves the inductive invariant.
LEMMA StageNext ==
  ASSUME IInv, Next
  PROVE  IInv'
<1>0. /\ TypeOK /\ Accepted /\ Composed /\ Applied /\ Crossed
      /\ cli \in CommandLine /\ spec \in SpecFile /\ host \in Host
      /\ Built \in Config
  BY InputTypes, BuiltType DEF IInv
<1> DEFINE Kept == /\ cli' = cli /\ spec' = spec /\ host' = host
                   /\ Built' = Built /\ Merged' = Merged
                   /\ Loads' = Loads /\ MemoryOK' = MemoryOK
<1>K. ASSUME UNCHANGED inputs PROVE Kept
  BY <1>K, InputsStay DEF inputs
<1>1. CASE ParseFlags
  <2>1. /\ pc = "parse" /\ pc' = "load" /\ Kept
        /\ cfg' = [NoConfig EXCEPT !.ports = cli.publish]
        /\ sys' = sys /\ group' = group /\ argv' = argv /\ inner' = inner
    BY <1>0, <1>1, <1>K DEF ParseFlags, Goto, Composed
  <2>2. \A m \in cli.publish : Valid(m)
    <3>1. ASSUME NEW m \in cli.publish PROVE Valid(m)
      <4>1. m.host \in Int /\ m.cont \in Int /\ MaxPort \in Nat /\ Parsed(m)
        BY <1>0, <1>1, <3>1, ConfigAssumption DEF ParseFlags, CommandLine, Mapping
      <4>2. QED
        BY <4>1 DEF Parsed, Valid
    <3>2. QED
      BY <3>1
  <2>3. cfg' \in Config /\ cfg'.ports = cli.publish
    BY <1>0, <2>1, NoConfigType DEF Config, CommandLine, NoConfig
  <2>4. TypeOK'
    BY <1>0, <2>1, <2>2, <2>3 DEF TypeOK, Stages, Valid
  <2>5. Accepted'
    BY <2>1, <2>2 DEF Accepted, Loaded, Sized, Decided, Cloned, Valid
  <2>6. Composed'
    BY <2>1 DEF Composed, Decided, Cloned
  <2>7. Applied' /\ Crossed'
    BY <1>0, <2>1 DEF Applied, Crossed, Cloned
  <2>8. QED
    BY <2>4, <2>5, <2>6, <2>7 DEF IInv
<1>2. CASE LoadSpec
  <2>1. /\ pc = "load" /\ pc' = "memory" /\ Kept
        /\ cfg' = cfg /\ sys' = sys /\ group' = group
        /\ argv' = argv /\ inner' = inner
        /\ IF spec.given THEN Loads ELSE Len(cli.positional) >= 2
    BY <1>2, <1>K DEF LoadSpec, Goto
  <2>2. TypeOK'
    BY <1>0, <2>1 DEF TypeOK, Stages, Valid
  <2>3. Accepted'
    BY <1>0, <2>1 DEF Accepted, Loaded, Sized, Decided, Cloned, Valid
  <2>4. Composed' /\ Applied' /\ Crossed'
    BY <1>0, <2>1 DEF Composed, Applied, Crossed, Decided, Cloned
  <2>5. QED
    BY <2>2, <2>3, <2>4 DEF IInv
<1>3. CASE BuildConfig
  <2>1. /\ pc = "memory" /\ pc' = "merge" /\ Kept /\ MemoryOK
        /\ sys' = sys /\ group' = group /\ argv' = argv /\ inner' = inner
        /\ cfg = [NoConfig EXCEPT !.ports = cli.publish]
    BY <1>0, <1>3, <1>K DEF BuildConfig, Goto, Composed
  <2>2. cfg' = Built
    <3>1. /\ cfg \in Config /\ cfg.ports = cli.publish /\ cfg.ids = "caller"
      BY <1>0, <2>1, NoConfigType DEF TypeOK, NoConfig, Config
    <3> DEFINE r == Nth(cli.positional, 1)
               e == Nth(cli.positional, 2)
               z == SubSeq(cli.positional, 3, Len(cli.positional))
               m == ParsedMemory
               u == [q |-> cli.cpu, p |-> 1000]
               l == cli.pids
               d == Detect
               k == ~cli.noSeccomp
    <3>2. cfg' = [cfg EXCEPT
                    !.rootfs = r, !.cmd = e, !.args = z, !.memory = m,
                    !.cpu = u, !.pids = l, !.rootless = d, !.seccomp = k]
      BY <1>3 DEF BuildConfig
    <3>3. Built = [rootfs |-> r, cmd |-> e, args |-> z, memory |-> m, cpu |-> u,
                   pids |-> l, ports |-> cli.publish, rootless |-> d,
                   ids |-> "caller", seccomp |-> k]
      BY DEF Built
    <3> HIDE DEF r, e, z, m, u, l, d, k
    <3>4. /\ r \in Names /\ e \in Names /\ z \in Argvs /\ m \in Int /\ u \in Share
          /\ l \in Int /\ d \in BOOLEAN /\ k \in BOOLEAN
      BY <1>0, <3>3 DEF Config
    <3>5. /\ cfg' \in Config
          /\ cfg'.rootfs = r /\ cfg'.cmd = e /\ cfg'.args = z /\ cfg'.memory = m
          /\ cfg'.cpu = u /\ cfg'.pids = l /\ cfg'.rootless = d
          /\ cfg'.seccomp = k /\ cfg'.ports = cli.publish /\ cfg'.ids = "caller"
      BY <3>1, <3>2, <3>4 DEF Config
    <3>6. QED
      BY <1>0, <3>3, <3>5 DEF Config
  <2>3. \A m \in cli.publish : Valid(m)
    BY <1>0, <2>1 DEF Accepted, Loaded
  <2>4. TypeOK'
    <3>1. Built.ports = cli.publish
      BY DEF Built
    <3>2. QED
      BY <1>0, <2>1, <2>2, <2>3, <3>1 DEF TypeOK, Stages, Valid
  <2>5. Accepted'
    BY <1>0, <2>1, <2>3 DEF Accepted, Loaded, Sized, Decided, Cloned, Valid
  <2>6. Composed' /\ Applied' /\ Crossed'
    BY <1>0, <2>1, <2>2 DEF Composed, Applied, Crossed, Decided, Cloned
  <2>7. QED
    BY <2>4, <2>5, <2>6 DEF IInv
<1>4. CASE ApplySpec
  <2>1. /\ pc = "merge" /\ pc' = "preflight" /\ Kept
        /\ sys' = sys /\ group' = group /\ argv' = argv /\ inner' = inner
        /\ cfg = Built
    BY <1>0, <1>4, <1>K DEF ApplySpec, Goto, Composed
  <2>2. cfg' = Merged
    BY <1>4, <2>1 DEF ApplySpec, Merged
  <2>3. /\ Merged \in Config /\ Merged.ports = cli.publish
        /\ \A m \in cli.publish : Valid(m)
    <3>1. Built.ports = cli.publish
      BY DEF Built
    <3>2. QED
      BY <1>0, <2>1, <3>1, MergedIs DEF Accepted, Loaded, Sized
  <2>4. TypeOK'
    BY <1>0, <2>1, <2>2, <2>3 DEF TypeOK, Stages, Valid
  <2>5. Accepted'
    BY <1>0, <2>1 DEF Accepted, Loaded, Sized, Decided, Cloned, Valid
  <2>6. Composed' /\ Applied' /\ Crossed'
    BY <1>0, <2>1, <2>2 DEF Composed, Applied, Crossed, Decided, Cloned
  <2>7. QED
    BY <2>4, <2>5, <2>6 DEF IInv
<1>5. CASE Preflight
  <2>1. /\ pc = "preflight" /\ pc' = "clone" /\ Kept /\ PreflightOK
        /\ cfg' = cfg /\ sys' = sys /\ group' = group
        /\ argv' = argv /\ inner' = inner
    BY <1>5, <1>K DEF Preflight, Goto
  <2>2. TypeOK'
    BY <1>0, <2>1 DEF TypeOK, Stages, Valid
  <2>3. Accepted'
    BY <1>0, <2>1 DEF Accepted, Loaded, Sized, Decided, Cloned, Valid, PreflightOK
  <2>4. Composed' /\ Applied' /\ Crossed'
    BY <1>0, <2>1 DEF Composed, Applied, Crossed, Decided, Cloned
  <2>5. QED
    BY <2>2, <2>3, <2>4 DEF IInv
<1>6. CASE Clone
  <2>1. /\ pc = "clone" /\ pc' = "child" /\ Kept
        /\ cfg' = cfg /\ inner' = inner /\ cfg \in Config
        /\ sys' = [user |-> cfg.rootless, ids |-> cfg.ids]
        /\ argv' = Passed(cfg)
        /\ group' = IF cfg.rootless THEN [l \in Limits |-> 0] ELSE Written
    BY <1>0, <1>6, <1>K DEF Clone, Goto, Applied, Cloned, TypeOK, Passed
  <2>2. TypeOK'
    <3>1. argv' \in Seq(ArgvNames)
      BY <2>1, PassedIs
    <3>2. group' \in [Limits -> Nat]
      BY <2>1, WrittenType
    <3>3. sys' \in [user : BOOLEAN, ids : {"caller", "spec"}]
      BY <2>1 DEF Config
    <3>4. QED
      BY <1>0, <2>1, <3>1, <3>2, <3>3 DEF TypeOK, Stages, Valid, ArgvNames
  <2>3. Accepted'
    BY <1>0, <2>1 DEF Accepted, Loaded, Sized, Decided, Cloned, Valid, PreflightOK
  <2>4. Composed' /\ Crossed'
    BY <1>0, <2>1 DEF Composed, Crossed, Decided, Cloned
  <2>5. Applied'
    BY <2>1 DEF Applied, Cloned, Passed, Written
  <2>6. QED
    BY <2>2, <2>3, <2>4, <2>5 DEF IInv
<1>7. CASE ParseChild
  <2>1. /\ pc = "child" /\ pc' = "ready" /\ Kept /\ cfg \in Config
        /\ cfg' = cfg /\ sys' = sys /\ group' = group /\ argv' = argv
        /\ argv = Passed(cfg)
        /\ inner' = [seccomp |-> argv[2] = "seccomp=1", rootfs |-> argv[3],
                     cmd |-> argv[4], args |-> SubSeq(argv, 5, Len(argv))]
    BY <1>0, <1>7, <1>K DEF ParseChild, Goto, Applied, Cloned, TypeOK, Passed
  <2>2. inner' = [seccomp |-> cfg.seccomp, rootfs |-> cfg.rootfs, cmd |-> cfg.cmd,
                  args |-> cfg.args]
    BY <2>1, PassedIs
  <2>3. TypeOK'
    <3>1. inner' \in Inner
      <4>1. /\ cfg.seccomp \in BOOLEAN /\ cfg.rootfs \in Names
            /\ cfg.cmd \in Names /\ cfg.args \in Argvs
        BY <2>1 DEF Config
      <4>2. QED
        BY <2>2, <4>1 DEF Inner
    <3>2. QED
      BY <1>0, <2>1, <3>1 DEF TypeOK, Stages, Valid
  <2>4. Accepted'
    BY <1>0, <2>1 DEF Accepted, Loaded, Sized, Decided, Cloned, Valid, PreflightOK
  <2>5. Composed' /\ Crossed'
    BY <1>0, <2>1, <2>2 DEF Composed, Crossed, Decided, Cloned
  <2>6. Applied'
    BY <1>0, <2>1 DEF Applied, Cloned, Written
  <2>7. QED
    BY <2>3, <2>4, <2>5, <2>6 DEF IInv
<1>8. CASE \/ ParseFlagsFails \/ LoadSpecFails \/ ParseMemoryFails
           \/ PreflightFails \/ ResolveFails
  <2>1. /\ pc' = "failed" /\ pc \notin Cloned /\ Kept
        /\ cfg' = cfg /\ sys' = sys /\ group' = group
        /\ argv' = argv /\ inner' = inner
    BY <1>8, <1>K DEF ParseFlagsFails, LoadSpecFails, ParseMemoryFails, PreflightFails,
                      ResolveFails, Fail, Goto, Cloned
  <2>2. TypeOK'
    BY <1>0, <2>1 DEF TypeOK, Stages, Valid
  <2>3. Accepted' /\ Composed' /\ Applied' /\ Crossed'
    BY <1>0, <2>1 DEF Accepted, Composed, Applied, Crossed, Loaded, Sized,
                   Decided, Cloned
  <2>4. QED
    BY <2>2, <2>3 DEF IInv
<1>9. CASE Ended
  <2>1. UNCHANGED vars
    BY <1>9 DEF Ended
  <2>2. /\ pc' = pc /\ Kept
        /\ cfg' = cfg /\ sys' = sys /\ group' = group
        /\ argv' = argv /\ inner' = inner
    BY <2>1, <1>K DEF vars
  <2>3. TypeOK'
    BY <1>0, <2>2 DEF TypeOK, Stages, Valid
  <2>4. Accepted'
    BY <1>0, <2>2 DEF Accepted, Loaded, Sized, Decided, Cloned, Valid, PreflightOK
  <2>5. Composed' /\ Applied' /\ Crossed'
    BY <1>0, <2>2 DEF Composed, Applied, Crossed, Decided, Cloned, Written
  <2>6. QED
    BY <2>3, <2>4, <2>5 DEF IInv
<1>10. QED
  BY <1>1, <1>2, <1>3, <1>4, <1>5, <1>6, <1>7, <1>8, <1>9 DEF Next

\* The inductive invariant holds: at every stage the configuration is what the
\* inputs and the merges passed so far make of it (runCmd, applySpec, Run, Child).
THEOREM Invariance == Spec => []IInv
<1>1. Init => IInv
  <2>1. SUFFICES ASSUME Init PROVE IInv
    OBVIOUS
  <2>2. cfg \in Config /\ cfg = NoConfig /\ cfg.ports = {}
    BY <2>1, NoConfigType DEF Init, NoConfig
  <2>3. <<>> \in Argvs /\ <<>> \in Seq(ArgvNames)
    BY EmptySeq DEF Argvs
  <2>4. inner \in Inner /\ argv \in Seq(ArgvNames)
    BY <2>1, <2>3 DEF Init, Inner, Names
  <2>5. TypeOK
    BY <2>1, <2>2, <2>4 DEF Init, TypeOK, Stages, ArgvNames, Limits
  <2>6. Accepted /\ Composed /\ Applied /\ Crossed
    BY <2>1 DEF Init, Accepted, Composed, Applied, Crossed, Loaded, Sized,
                Decided, Cloned
  <2>7. QED
    BY <2>5, <2>6 DEF IInv
<1>2. IInv /\ [Next]_vars => IInv'
  <2>1. ASSUME IInv, UNCHANGED vars PROVE IInv'
    <3>1. pc' = pc /\ UNCHANGED inputs /\ cfg' = cfg /\ sys' = sys /\ group' = group
          /\ argv' = argv /\ inner' = inner
      BY <2>1 DEF vars
    <3>2. Built' = Built /\ Merged' = Merged
          /\ Loads' = Loads /\ MemoryOK' = MemoryOK
      BY <3>1, InputsStay
    <3>3. QED
      BY <2>1, <3>1, <3>2 DEF inputs, IInv, TypeOK, Valid, Accepted, Composed, Applied,
                              Crossed, PreflightOK, Written
  <2>2. QED
    BY <2>1, StageNext
<1>3. QED
  BY <1>1, <1>2, PTL DEF Spec
(***************************************************************************)
(* What comes out of it.                                                   *)
(***************************************************************************)

\* Every variable of the configuration pipeline keeps its type.
THEOREM TypeCorrect == Spec => []TypeOK
<1>1. IInv => TypeOK
  BY DEF IInv
<1>2. QED
  BY Invariance, <1>1, PTL

\* A container that was started has the merged configuration.
LEMMA StartedIs ==
  ASSUME IInv, Started
  PROVE  /\ cli \in CommandLine /\ spec \in SpecFile /\ host \in Host
         /\ Defaults(cli)
         /\ Built \in Config /\ Merged \in Config
         /\ MemoryOK /\ PreflightOK
         /\ cfg = Merged
         /\ sys = [user |-> Merged.rootless, ids |-> Merged.ids]
         /\ ~Merged.rootless => group = Written
         /\ IF spec.given THEN Loads ELSE Len(cli.positional) >= 2
<1>1. cli \in CommandLine /\ spec \in SpecFile /\ host \in Host /\ Defaults(cli)
  BY InputTypes DEF IInv
<1>2. Built \in Config /\ Merged \in Config
  BY <1>1, BuiltType, MergedIs
<1>3. pc \in Cloned
  BY DEF Started, Cloned
<1>4. cfg = Merged
  BY <1>3 DEF IInv, Composed, Decided
<1>5. /\ MemoryOK /\ PreflightOK
      /\ IF spec.given THEN Loads ELSE Len(cli.positional) >= 2
  BY <1>3 DEF IInv, Accepted, Loaded, Sized, Decided
<1>6. /\ sys = [user |-> Merged.rootless, ids |-> Merged.ids]
      /\ ~Merged.rootless => group = Written
  BY <1>3, <1>4 DEF IInv, Applied
<1>7. QED
  BY <1>1, <1>2, <1>4, <1>5, <1>6

\* The size asked for is the size built, if it fits.
LEMMA MemoryBuilt ==
  ASSUME cli \in CommandLine, MemoryOK, MemoryAsked < Half
  PROVE  Built.memory = MemoryAsked /\ MemoryAsked \in Nat
<1>1. Built.memory = ParsedMemory
  BY DEF Built
<1>2. CASE ~cli.memory.given
  BY <1>1, <1>2 DEF ParsedMemory, MemoryAsked
<1>3. CASE cli.memory.given
  <2> DEFINE n == cli.memory.n
             m == Mult[cli.memory.unit]
  <2>1. n \in Nat /\ m \in Nat
    BY <1>3, ConfigAssumption DEF CommandLine, MemoryOK
  <2>2. n * m \in Nat
    BY <2>1
  <2>3. MemoryAsked = n * m /\ ParsedMemory = Wrap(n * m)
    BY <1>3 DEF MemoryAsked, ParsedMemory
  <2> HIDE DEF n, m
  <2>4. n * m < Half
    BY <2>3
  <2>5. Wrap(n * m) = n * m
    BY <2>2, <2>4, NoWrap
  <2>6. QED
    BY <1>1, <2>2, <2>3, <2>5
<1>4. QED
  BY <1>2, <1>3

\* What is written is what the only source asks for, or what one of the two asks
\* for, or nothing.
LEMMA OneOfAsked ==
  ASSUME NEW given \in BOOLEAN, NEW flag \in Int, ~given => flag = 0,
         NEW block, NEW value \in Int,
         NEW merged, merged = IF spec.given /\ block \in spec.has /\ flag = 0
                                THEN value ELSE flag
  PROVE  \/ Asked(given, flag, block, value) = {} /\ Positive(merged) = 0
         \/ \E n \in Asked(given, flag, block, value) :
              Positive(merged) = Positive(n)
<1>1. CASE given
  <2>1. flag \in Asked(given, flag, block, value)
    BY <1>1 DEF Asked
  <2>2. CASE merged = flag
    BY <2>1, <2>2
  <2>3. CASE merged # flag
    <3>1. merged = value /\ spec.given /\ block \in spec.has
      BY <2>3
    <3>2. value \in Asked(given, flag, block, value)
      BY <3>1 DEF Asked
    <3>3. QED
      BY <3>1, <3>2
  <2>4. QED
    BY <2>2, <2>3
<1>2. CASE ~given /\ spec.given /\ block \in spec.has
  <2>1. value \in Asked(given, flag, block, value) /\ merged = value
    BY <1>2 DEF Asked
  <2>2. QED
    BY <2>1
<1>3. CASE ~given /\ ~(spec.given /\ block \in spec.has)
  BY <1>3 DEF Asked, Positive
<1>4. QED
  BY <1>1, <1>2, <1>3

\* The same of the share of a CPU.
LEMMA ShareAsked ==
  ASSUME cli \in CommandLine, spec \in SpecFile, Defaults(cli),
         NEW share \in Share,
         share = IF spec.given /\ "cpu" \in spec.has /\ cli.cpu = 0 /\ spec.quota > 0
                   THEN SpecShare ELSE [q |-> cli.cpu, p |-> 1000],
         NEW us, us = IF share.q > 0 THEN Quota(share) ELSE 0
  PROVE  \/ CpuShares = {} /\ us = 0
         \/ \E s \in CpuShares : IsShare(us, s)
<1> DEFINE flag == [q |-> cli.cpu, p |-> 1000]
           bySpec == spec.given /\ "cpu" \in spec.has
<1>1. /\ CpuShares = Asked("cpu" \in cli.set, flag, "cpu", SpecShare)
      /\ cli.cpu \in Int /\ spec.quota \in Int /\ share.q \in Int
      /\ SpecShare.q = spec.quota /\ flag.q = cli.cpu
  BY DEF CpuShares, SpecShare, CommandLine, SpecFile, Share
<1>2. IsShare(us, share)
  <2>1. CASE share.q > 0
    BY <2>1, QuotaIsShare
  <2>2. CASE ~(share.q > 0)
    BY <1>1, <2>2 DEF IsShare
  <2>3. QED
    BY <2>1, <2>2
<1>3. /\ "cpu" \in cli.set => flag \in CpuShares
      /\ bySpec => SpecShare \in CpuShares
      /\ "cpu" \notin cli.set /\ ~bySpec => CpuShares = {}
  BY <1>1 DEF Asked
<1> HIDE DEF flag
<1>4. CASE bySpec /\ cli.cpu = 0 /\ spec.quota > 0
  BY <1>2, <1>3, <1>4
<1>5. CASE ~(bySpec /\ cli.cpu = 0 /\ spec.quota > 0) /\ "cpu" \in cli.set
  <2>1. share = flag
    BY <1>5 DEF flag
  <2>2. QED
    BY <1>2, <1>3, <1>5, <2>1
<1>6. CASE ~(bySpec /\ cli.cpu = 0 /\ spec.quota > 0) /\ "cpu" \notin cli.set
  <2>1. cli.cpu = 0
    BY <1>6 DEF Defaults
  <2>2. share = flag
    BY <1>6 DEF flag
  <2>3. us = 0
    BY <1>1, <2>1, <2>2
  <2>4. CASE bySpec
    <3>1. SpecShare.q <= 0
      BY <1>1, <1>6, <2>1, <2>4
    <3>2. IsShare(us, SpecShare)
      BY <2>3, <3>1 DEF IsShare
    <3>3. QED
      BY <1>3, <2>4, <3>2
  <2>5. CASE ~bySpec
    BY <1>3, <1>6, <2>3, <2>5
  <2>6. QED
    BY <2>4, <2>5
<1>7. QED
  BY <1>4, <1>5, <1>6

\* A container that is not rootless gets, of each limit, exactly what the flag or
\* the spec file asks for, and no limit nobody asked for, for every --memory below
\* the range of an int64; a share of a CPU is written to the microsecond, or as 1 %
\* of a core if it is smaller, never as no limit (parseMemory, applySpec,
\* cgroups.Create).  It does not say which of the two wins.
THEOREM Limited == Spec => []LimitsAsAsked
<1>1. ASSUME IInv, Started, ~sys.user, MemoryAsked < Half
      PROVE  /\ \/ MemoryLimits = {} /\ group["memory"] = 0
                \/ \E n \in MemoryLimits : group["memory"] = Positive(n)
             /\ \/ PidsLimits = {} /\ group["pids"] = 0
                \/ \E n \in PidsLimits : group["pids"] = Positive(n)
             /\ \/ CpuShares = {} /\ group["cpu"] = 0
                \/ \E share \in CpuShares : IsShare(group["cpu"], share)
  <2>1. /\ cli \in CommandLine /\ spec \in SpecFile /\ Defaults(cli)
        /\ Built \in Config /\ Merged \in Config /\ MemoryOK /\ cfg = Merged
        /\ group = Written
    BY <1>1, StartedIs
  <2>2. /\ cli.memory.given \in BOOLEAN /\ cli.pids \in Int
        /\ spec.memory \in Int /\ spec.pids \in Int
    BY <2>1 DEF CommandLine, SpecFile
  <2>3. /\ group["memory"] = Positive(Merged.memory)
        /\ group["pids"] = Positive(Merged.pids)
        /\ group["cpu"] = IF Merged.cpu.q > 0 THEN Quota(Merged.cpu) ELSE 0
    BY <2>1 DEF Written
  <2>4. /\ Built.memory = MemoryAsked /\ MemoryAsked \in Int
        /\ ~cli.memory.given => MemoryAsked = 0
    BY <1>1, <2>1, MemoryBuilt DEF MemoryAsked
  <2>5. \/ MemoryLimits = {} /\ group["memory"] = 0
        \/ \E n \in MemoryLimits : group["memory"] = Positive(n)
    <3>1. Merged.memory = IF spec.given /\ "memory" \in spec.has /\ MemoryAsked = 0
                            THEN spec.memory ELSE MemoryAsked
      BY <2>1, <2>4, MergedIs
    <3>2. QED
      BY <2>2, <2>3, <2>4, <3>1, OneOfAsked DEF MemoryLimits
  <2>6. \/ PidsLimits = {} /\ group["pids"] = 0
        \/ \E n \in PidsLimits : group["pids"] = Positive(n)
    <3>1. Built.pids = cli.pids
      BY DEF Built
    <3>2. Merged.pids = IF spec.given /\ "pids" \in spec.has /\ cli.pids = 0
                          THEN spec.pids ELSE cli.pids
      BY <2>1, <3>1, MergedIs
    <3>3. ("pids" \in cli.set) \in BOOLEAN /\ ("pids" \notin cli.set => cli.pids = 0)
      BY <2>1 DEF Defaults
    <3> DEFINE byFlag == "pids" \in cli.set
    <3> HIDE DEF byFlag
    <3>4. byFlag \in BOOLEAN /\ (~byFlag => cli.pids = 0)
      BY <3>3 DEF byFlag
    <3>5. PidsLimits = Asked(byFlag, cli.pids, "pids", spec.pids)
      BY DEF PidsLimits, byFlag
    <3>6. \/ /\ Asked(byFlag, cli.pids, "pids", spec.pids) = {}
             /\ Positive(Merged.pids) = 0
          \/ \E n \in Asked(byFlag, cli.pids, "pids", spec.pids) :
               Positive(Merged.pids) = Positive(n)
      BY <2>2, <3>2, <3>4, OneOfAsked
    <3>7. QED
      BY <2>3, <3>5, <3>6
  <2>7. \/ CpuShares = {} /\ group["cpu"] = 0
        \/ \E share \in CpuShares : IsShare(group["cpu"], share)
    <3>1. Built.cpu = [q |-> cli.cpu, p |-> 1000] /\ Built.cpu.q = cli.cpu
      BY DEF Built
    <3>2. Merged.cpu =
            IF spec.given /\ "cpu" \in spec.has /\ cli.cpu = 0 /\ spec.quota > 0
              THEN SpecShare ELSE [q |-> cli.cpu, p |-> 1000]
      <4>1. Merged.cpu =
              IF /\ spec.given /\ "cpu" \in spec.has
                 /\ Built.cpu.q = 0 /\ spec.quota > 0
                THEN SpecShare ELSE Built.cpu
        BY <2>1, MergedIs
      <4> DEFINE flag == [q |-> cli.cpu, p |-> 1000]
      <4>2. Built.cpu = flag /\ Built.cpu.q = cli.cpu
        BY <3>1
      <4> HIDE DEF flag
      <4>3. QED
        BY <4>1, <4>2 DEF flag
    <3>3. Merged.cpu \in Share
      BY <2>1 DEF Config
    <3> DEFINE us == group["cpu"]
               share == Merged.cpu
    <3>4. us = IF share.q > 0 THEN Quota(share) ELSE 0
      BY <2>3
    <3> HIDE DEF us, share
    <3>5. /\ share \in Share
          /\ share =
               IF spec.given /\ "cpu" \in spec.has /\ cli.cpu = 0 /\ spec.quota > 0
                 THEN SpecShare ELSE [q |-> cli.cpu, p |-> 1000]
      BY <3>2, <3>3 DEF share
    <3>6. \/ CpuShares = {} /\ us = 0
          \/ \E s \in CpuShares : IsShare(us, s)
      BY <2>1, <3>4, <3>5, ShareAsked
    <3>7. QED
      BY <3>6 DEF us
  <2>8. QED
    BY <2>5, <2>6, <2>7
<1>2. IInv => LimitsAsAsked
  BY <1>1 DEF LimitsAsAsked
<1>3. QED
  BY Invariance, <1>2, PTL

\* A caller without privileges, and one that asks for --rootless, gets a user
\* namespace that maps its own ids, whatever mappings the spec file brings; a root
\* caller that does not ask for it gets one only from a spec file with mappings, and
\* then of the spec's ids (userns.Detect, applySpec).  The unprivileged caller that
\* gives --rootless=false is left out.
THEOREM OwnIds == Spec => []UserNamespaceOfCaller
<1> DEFINE wants == cli.rootless \/ ~host.root
<1>1. ASSUME IInv, Started
      PROVE  /\ wants => sys.user /\ sys.ids = "caller"
             /\ ~wants /\ sys.user =>
                  /\ spec.given /\ {"user", "uidMap", "gidMap"} \subseteq spec.has
                  /\ sys.ids = "spec"
  <2>1. /\ Built \in Config /\ spec \in SpecFile
        /\ sys = [user |-> Merged.rootless, ids |-> Merged.ids]
    BY <1>1, StartedIs
  <2>2. Built.rootless = wants /\ Built.ids = "caller"
    BY DEF Built, Detect
  <2>3. /\ Merged.rootless =
             (Built.rootless \/ (spec.given /\ SpecUser \subseteq spec.has))
        /\ Merged.ids = IF ~Built.rootless /\ spec.given /\ SpecUser \subseteq spec.has
                          THEN "spec" ELSE Built.ids
    BY <2>1, MergedIs
  <2>4. sys.user = Merged.rootless /\ sys.ids = Merged.ids
    BY <2>1
  <2> HIDE DEF wants
  <2>5. CASE wants
    BY <2>2, <2>3, <2>4, <2>5
  <2>6. CASE ~wants
    BY <2>2, <2>3, <2>4, <2>6 DEF SpecUser
  <2>7. QED
    BY <2>5, <2>6
<1>2. IInv => UserNamespaceOfCaller
  BY <1>1 DEF UserNamespaceOfCaller
<1>3. QED
  BY Invariance, <1>2, PTL

\* No process is cloned into a user namespace on a host whose sysctls forbid it: the
\* preflight looks at the same decision as the clone (userns.PreflightUserns, Run).
THEOREM Preflighted == Spec => []PreflightCoversClone
<1>1. ASSUME IInv, Started, sys.user
      PROVE  host.cloneSysctl # "0" /\ host.maxUserns # "0"
  <2>1. /\ sys = [user |-> Merged.rootless, ids |-> Merged.ids]
        /\ cfg = Merged /\ PreflightOK
    BY <1>1, StartedIs
  <2>2. QED
    BY <1>1, <2>1 DEF PreflightOK
<1>2. IInv => PreflightCoversClone
  BY <1>1 DEF PreflightCoversClone
<1>3. QED
  BY Invariance, <1>2, PTL

\* The child installs the filter unless --no-seccomp was given, whatever the spec
\* file says or leaves out: the parent's decision crosses the argv of the
\* re-executed binary unchanged (Run, Child).  Left out is --no-seccomp beside a spec
\* file with a seccomp block.
THEOREM SeccompDecided == Spec => []SeccompAsDecided
<1>1. ASSUME IInv, pc = "ready",
             ~(cli.noSeccomp /\ spec.given /\ "seccomp" \in spec.has)
      PROVE  inner.seccomp = ~cli.noSeccomp
  <2>1. /\ Built \in Config /\ spec \in SpecFile /\ cfg = Merged
        /\ cli.noSeccomp \in BOOLEAN
    BY <1>1, StartedIs DEF Started, CommandLine
  <2>2. inner.seccomp = cfg.seccomp
    BY <1>1 DEF IInv, Crossed
  <2>3. Built.seccomp = ~cli.noSeccomp
    BY DEF Built
  <2>4. Merged.seccomp = (Built.seccomp \/ (spec.given /\ "seccomp" \in spec.has))
    BY <2>1, MergedIs
  <2>5. QED
    BY <1>1, <2>1, <2>2, <2>3, <2>4
<1>2. IInv => SeccompAsDecided
  BY <1>1 DEF SeccompAsDecided
<1>3. QED
  BY Invariance, <1>2, PTL

\* The command executed is the command line's, or the spec file's, or the spec file's
\* command with the arguments of a command line whose own command is empty; an
\* empty command comes only from a spec file that has one (applySpec, Child).
THEOREM OneProcess == Spec => []OneCommand
<1> DEFINE p == cli.positional
           given == SubSeq(p, 2, Len(p))
<1>1. ASSUME IInv, pc = "ready"
      PROVE  /\ spec.given /\ inner.cmd = "" =>
                  spec.args # <<>> /\ spec.args[1] = ""
             /\ \/ <<inner.cmd>> \o inner.args = given
                \/ spec.given /\ <<inner.cmd>> \o inner.args = spec.args
                \/ spec.given /\ Nth(given, 1) = "" /\ Len(given) > 1
                     /\ <<inner.cmd>> \o inner.args
                          = <<spec.args[1]>> \o Tail(given)
  <2>1. /\ Built \in Config /\ spec \in SpecFile /\ cli \in CommandLine
        /\ cfg = Merged
        /\ IF spec.given THEN Loads ELSE Len(p) >= 2
    BY <1>1, StartedIs DEF Started
  <2>2. inner.cmd = Merged.cmd /\ inner.args = Merged.args
    BY <1>1, <2>1 DEF IInv, Crossed
  <2>3. /\ p \in Seq(Names) /\ Len(p) \in Nat
        /\ spec.args \in Seq(Names) /\ Len(spec.args) \in Nat
    <3>1. p \in Seq(Names) /\ spec.args \in Seq(Names)
      BY <2>1 DEF CommandLine, SpecFile, Argvs
    <3> HIDE DEF p
    <3>2. QED
      BY <3>1, LenProperties
  <2>4. /\ Built.cmd = IF Len(p) >= 2 THEN p[2] ELSE ""
        /\ Built.args = SubSeq(p, 3, Len(p))
    BY DEF Built, Nth
  <2>5. spec.given => spec.args # <<>>
    BY <2>1 DEF Loads
  <2> HIDE DEF p
  <2>6. CASE ~(spec.given /\ Built.cmd = "")
    <3>1. Len(p) >= 2
      BY <2>1, <2>3, <2>4, <2>6
    <3>2. Merged.cmd = Built.cmd /\ Merged.args = Built.args
      BY <2>1, <2>6, MergedIs
    <3>3. inner.cmd = p[2] /\ inner.args = SubSeq(p, 3, Len(p))
      BY <2>2, <2>4, <3>1, <3>2
    <3>4. <<p[2]>> \o SubSeq(p, 3, Len(p)) = given
      BY <2>3, <3>1, SecondAndRest
    <3>5. QED
      BY <2>2, <2>6, <3>2, <3>3, <3>4
  <2>7. CASE spec.given /\ Built.cmd = ""
    <3>1. /\ Merged.cmd = Head(spec.args)
          /\ Merged.args = IF Len(spec.args) > 1 THEN Tail(spec.args) ELSE Built.args
      BY <2>1, <2>5, <2>7, MergedIs
    <3>2. /\ Head(spec.args) = spec.args[1]
          /\ <<Head(spec.args)>> \o Tail(spec.args) = spec.args
          /\ Len(spec.args) = 1 => Tail(spec.args) = <<>>
      <4> DEFINE q == spec.args
      <4>1. q \in Seq(Names) /\ q # <<>>
        BY <2>3, <2>5, <2>7
      <4> HIDE DEF q
      <4>2. /\ Head(q) = q[1] /\ <<Head(q)>> \o Tail(q) = q
            /\ Len(q) = 1 => Tail(q) = <<>>
        BY <4>1, HeadAndTail
      <4>3. QED
        BY <4>2 DEF q
    <3>6. Len(spec.args) # 0
      BY <2>3, <2>5, <2>7, EmptySeq
    <3>3. CASE Len(spec.args) > 1
      BY <2>2, <2>5, <2>7, <3>1, <3>2, <3>3
    <3>4. CASE ~(Len(spec.args) > 1) /\ Len(p) >= 3
      <4>1. /\ Len(given) = Len(p) - 1 /\ given[1] = p[2]
        <5>1. 2 \in 2..3
          OBVIOUS
        <5>2. /\ Len(given) = Len(p) - 2 + 1
              /\ \A i \in 1..Len(p) - 2 + 1 : given[i] = p[2 + i - 1]
          BY <2>3, <3>4, <5>1, Rest
        <5> HIDE DEF given
        <5>3. 1 \in 1..Len(p) - 2 + 1 /\ 2 + 1 - 1 = 2
          BY <2>3, <3>4
        <5>4. QED
          BY <2>3, <5>2, <5>3
      <4>2. Nth(given, 1) = "" /\ Len(given) > 1
        <5> HIDE DEF given
        <5>1. Len(given) > 1 /\ Len(given) >= 1 /\ Len(p) >= 2
          BY <2>3, <3>4, <4>1
        <5>2. given[1] = ""
          BY <2>4, <2>7, <4>1, <5>1
        <5>3. QED
          BY <5>1, <5>2 DEF Nth
      <4>3. Tail(given) = SubSeq(p, 3, Len(p))
        BY <2>3, <3>4, SecondAndRest
      <4>4. inner.cmd = spec.args[1] /\ inner.args = Tail(given)
        BY <2>2, <2>4, <3>1, <3>2, <3>4, <4>3
      <4> HIDE DEF given
      <4>5. QED
        BY <2>5, <2>7, <4>2, <4>4
    <3>5. CASE ~(Len(spec.args) > 1) /\ ~(Len(p) >= 3)
      <4>1. SubSeq(p, 3, Len(p)) = <<>>
        BY <2>3, <3>5, SubSeqEmpty
      <4>2. Tail(spec.args) = <<>>
        <5>1. \A n \in Nat : n # 0 /\ ~(n > 1) => n = 1
          OBVIOUS
        <5>2. Len(spec.args) = 1
          BY <2>3, <3>5, <3>6, <5>1
        <5>3. QED
          BY <3>2, <5>2
      <4>3. inner.cmd = Head(spec.args) /\ inner.args = Tail(spec.args)
        BY <2>2, <2>4, <3>1, <3>5, <4>1, <4>2
      <4>4. QED
        BY <2>5, <2>7, <3>2, <4>3
    <3>7. QED
      BY <3>3, <3>4, <3>5
  <2>8. QED
    BY <2>6, <2>7
<1>2. IInv => OneCommand
  BY <1>1 DEF OneCommand
<1>3. QED
  BY Invariance, <1>2, PTL
=============================================================================
