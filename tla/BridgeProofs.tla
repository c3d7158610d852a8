---------------------------- MODULE BridgeProofs ----------------------------
(***************************************************************************)
(* What Bridge promises for every number of containers, ports and          *)
(* mappings: whatever the interleaving of the `ip` and `iptables` commands *)
(* of concurrent invocations, the bridge is configured when EnsureBridge   *)
(* returns, its rules are not stacked unless a check was overtaken, and    *)
(* Teardown takes away exactly what Setup put into the chains.             *)
(***************************************************************************)
EXTENDS Bridge, SequenceTheorems, FiniteSetTheorems, TLAPS

\* A set of naturals that is not empty has a least element, and it is Min.
LEMMA LeastOf ==
  ASSUME NEW I \in SUBSET Nat, I # {}
  PROVE  Min(I) \in I /\ \A y \in I : Min(I) <= y
<1> DEFINE T == {0..x : x \in I}
<1>1. T \subseteq FiniteSubsetsOf(Nat) /\ T # {}
  <2>1. \A x \in I : 0..x \subseteq Nat /\ IsFiniteSet(0..x)
    BY FS_Interval
  <2>2. QED
    BY <2>1 DEF FiniteSubsetsOf
<1>2. PICK t \in T : \A u \in T : ~(<<u, t>> \in StrictSubsetOrdering(Nat))
  BY <1>1, FS_StrictSubsetOrderingWellFounded, WFMin, Zenon
<1>3. PICK x \in I : t = 0..x
  BY <1>2
<1>4. ASSUME NEW y \in I, y < x PROVE FALSE
  <2>1. 0..y \subseteq 0..x /\ x \in 0..x /\ x \notin 0..y
    BY <1>4
  <2>2. <<0..y, 0..x>> \in StrictSubsetOrdering(Nat)
    BY <2>1 DEF StrictSubsetOrdering
  <2>3. QED
    BY <1>2, <1>3, <2>2
<1>5. \A y \in I : x <= y
  BY <1>4
<1>6. QED
  BY <1>5 DEF Min

\* What -D looks for.
Occurs(s, e) == \E i \in 1..Len(s) : s[i] = e

\* Sequence t is s without the rule at position i, the first equal to e: the
\* rules behind it move up.
WithoutFirst(s, e, i, t) ==
  /\ s[i] = e /\ \A j \in 1..i - 1 : s[j] # e
  /\ Len(t) = Len(s) - 1
  /\ \A j \in 1..Len(s) - 1 : t[j] = IF j < i THEN s[j] ELSE s[j + 1]

\* What -D leaves of a chain that has the rule.
LEMMA RemoveFirstIs ==
  ASSUME NEW S, NEW s \in Seq(S), NEW e, Occurs(s, e)
  PROVE  /\ RemoveFirst(s, e) \in Seq(S)
         /\ \E i \in 1..Len(s) : WithoutFirst(s, e, i, RemoveFirst(s, e))
<1> DEFINE I == {i \in 1..Len(s) : s[i] = e}
<1>1. Min(I) \in I /\ \A y \in I : Min(I) <= y
  <2>1. I \in SUBSET Nat /\ I # {}
    BY LenProperties DEF Occurs
  <2> HIDE DEF I
  <2>2. QED
    BY <2>1, LeastOf
<1>2. RemoveFirst(s, e) =
        SubSeq(s, 1, Min(I) - 1) \o SubSeq(s, Min(I) + 1, Len(s))
  BY DEF Occurs, RemoveFirst, RemoveAt, SelectInSeq
<1> DEFINE m == Min(I)
           before == SubSeq(s, 1, m - 1)
           after == SubSeq(s, m + 1, Len(s))
<1>3. m \in I /\ \A y \in I : m <= y
  BY <1>1
<1>4. RemoveFirst(s, e) = before \o after
  BY <1>2
<1> HIDE DEF m
<1>5. m \in 1..Len(s) /\ s[m] = e /\ \A j \in 1..m - 1 : s[j] # e
  BY <1>3, LenProperties
<1>6. /\ before \in Seq(S) /\ Len(before) = m - 1
      /\ \A j \in 1..m - 1 : before[j] = s[j]
  BY <1>5, SubSeqProperties, LenProperties
<1>7. /\ after \in Seq(S) /\ Len(after) = Len(s) - m
      /\ \A j \in 1..Len(s) - m : after[j] = s[m + j]
  BY <1>5, SubSeqProperties, LenProperties
<1> HIDE DEF before, after
<1>8. /\ before \o after \in Seq(S) /\ Len(before \o after) = Len(s) - 1
      /\ \A j \in 1..Len(s) - 1 :
           (before \o after)[j] = IF j < m THEN s[j] ELSE s[j + 1]
  <2>1. /\ before \o after \in Seq(S)
        /\ Len(before \o after) = (m - 1) + (Len(s) - m)
        /\ \A j \in 1..(m - 1) + (Len(s) - m) :
             (before \o after)[j] =
               IF j <= m - 1 THEN before[j] ELSE after[j - (m - 1)]
    <3>1. /\ before \o after \in Seq(S)
          /\ Len(before \o after) = Len(before) + Len(after)
          /\ \A j \in 1..Len(before) + Len(after) :
               (before \o after)[j] =
                 IF j <= Len(before) THEN before[j] ELSE after[j - Len(before)]
      BY <1>6, <1>7, ConcatProperties, Zenon
    <3>2. QED
      BY <1>6, <1>7, <3>1
  <2>2. Len(s) \in Nat /\ m \in Nat
    BY <1>5, LenProperties
  <2>3. ASSUME NEW j \in 1..Len(s) - 1
        PROVE  (before \o after)[j] = IF j < m THEN s[j] ELSE s[j + 1]
    <3>1. j \in 1..(m - 1) + (Len(s) - m)
      BY <2>2
    <3>2. CASE j < m
      <4>1. j <= m - 1 /\ j \in 1..m - 1
        BY <1>5, <2>2, <3>2
      <4>2. QED
        BY <1>6, <2>1, <3>1, <3>2, <4>1
    <3>3. CASE ~(j < m)
      <4>1. /\ ~(j <= m - 1) /\ j - (m - 1) \in 1..Len(s) - m
            /\ m + (j - (m - 1)) = j + 1
        BY <1>5, <2>2, <3>3
      <4>2. (before \o after)[j] = after[j - (m - 1)]
        BY <2>1, <3>1, <4>1
      <4>3. after[j - (m - 1)] = s[m + (j - (m - 1))]
        BY <1>7, <4>1
      <4>4. QED
        BY <3>3, <4>1, <4>2, <4>3
    <3>4. QED
      BY <3>2, <3>3
  <2>4. (m - 1) + (Len(s) - m) = Len(s) - 1
    BY <2>2
  <2>5. QED
    BY <2>1, <2>3, <2>4
<1>9. QED
  <2>1. WithoutFirst(s, e, m, before \o after)
    BY <1>5, <1>8 DEF WithoutFirst
  <2>2. QED
    BY <1>4, <1>5, <1>8, <2>1

\* A chain stays a chain when -D takes a rule away, or finds none.
LEMMA RemoveType ==
  ASSUME NEW S, NEW s \in Seq(S), NEW e
  PROVE  RemoveFirst(s, e) \in Seq(S)
<1>1. CASE Occurs(s, e)
  BY <1>1, RemoveFirstIs
<1>2. CASE ~Occurs(s, e)
  BY <1>2 DEF Occurs, RemoveFirst
<1>3. QED
  BY <1>1, <1>2

\* Where a rule is in a chain.
Positions(s, r) == {i \in DOMAIN s : s[i] = r}

\* A rule is somewhere in a chain a finite number of times.
LEMMA PositionsFinite ==
  ASSUME NEW S, NEW s \in Seq(S), NEW r
  PROVE  IsFiniteSet(Positions(s, r)) /\ Cardinality(Positions(s, r)) \in Nat
<1>1. DOMAIN s = 1..Len(s) /\ Len(s) \in Nat
  BY LenProperties
<1>2. IsFiniteSet(1..Len(s))
  BY <1>1, FS_Interval
<1>3. Positions(s, r) \subseteq 1..Len(s)
  BY <1>1 DEF Positions
<1>4. QED
  BY <1>2, <1>3, FS_Subset, FS_CardinalityType

\* What -A makes of a chain.
Queued(s, e) == Append(s, e)

\* -A adds one copy of its rule, and none of another.
LEMMA AppendCounts ==
  ASSUME NEW S, NEW s \in Seq(S), NEW e \in S, NEW r
  PROVE  Cardinality(Positions(Queued(s, e), r)) =
           IF r = e THEN Cardinality(Positions(s, r)) + 1
           ELSE Cardinality(Positions(s, r))
<1>1. /\ DOMAIN s = 1..Len(s) /\ Len(s) \in Nat
      /\ DOMAIN Queued(s, e) = 1..Len(s) + 1
      /\ Queued(s, e)[Len(s) + 1] = e
      /\ \A i \in 1..Len(s) : Queued(s, e)[i] = s[i]
  BY AppendProperties, LenProperties DEF Queued
<1>2. Len(s) + 1 \notin Positions(s, r)
  BY <1>1 DEF Positions
<1>3. CASE r = e
  <2>1. Positions(Queued(s, e), r) = Positions(s, r) \cup {Len(s) + 1}
    BY <1>1, <1>3 DEF Positions
  <2>2. QED
    BY <1>2, <1>3, <2>1, PositionsFinite, FS_AddElement
<1>4. CASE r # e
  <2>1. Positions(Queued(s, e), r) = Positions(s, r)
    BY <1>1, <1>4 DEF Positions
  <2>2. QED
    BY <1>4, <2>1
<1>5. QED
  BY <1>3, <1>4

\* -D of a rule that is there takes one copy of it, and none of another.
LEMMA RemoveCounts ==
  ASSUME NEW S, NEW s \in Seq(S), NEW e \in S, NEW r, Occurs(s, e)
  PROVE  Cardinality(Positions(RemoveFirst(s, e), r)) =
           IF r = e THEN Cardinality(Positions(s, r)) - 1
           ELSE Cardinality(Positions(s, r))
<1> DEFINE t == RemoveFirst(s, e)
<1>0. t \in Seq(S) /\ \E i \in 1..Len(s) : WithoutFirst(s, e, i, t)
  BY RemoveFirstIs
<1> HIDE DEF t
<1>1. PICK i \in 1..Len(s) : WithoutFirst(s, e, i, t)
  BY <1>0
<1>2. /\ DOMAIN s = 1..Len(s) /\ DOMAIN t = 1..Len(s) - 1 /\ Len(s) \in Nat
  BY <1>0, <1>1, LenProperties DEF WithoutFirst
<1> DEFINE A == Positions(t, r)
           B == Positions(s, r) \ {i}
           g == [j \in A |-> IF j < i THEN j ELSE j + 1]
<1>3. g \in [A -> B]
  BY <1>1, <1>2 DEF Positions, WithoutFirst
<1>4. \A a, b \in A : a # b => g[a] # g[b]
  BY <1>1, <1>2 DEF Positions, WithoutFirst
<1>5. ASSUME NEW b \in B PROVE \E a \in A : g[a] = b
  <2>1. b \in 1..Len(s) /\ b # i /\ s[b] = r
    BY <1>2 DEF Positions, WithoutFirst
  <2>2. CASE b < i
    <3>1. b \in A
      BY <1>1, <1>2, <2>1, <2>2 DEF Positions, WithoutFirst
    <3>2. QED
      BY <2>2, <3>1
  <2>3. CASE b > i
    <3>1. b - 1 \in A /\ ~(b - 1 < i) /\ (b - 1) + 1 = b
      BY <1>1, <1>2, <2>1, <2>3 DEF Positions, WithoutFirst
    <3>2. QED
      BY <3>1
  <2>4. QED
    BY <1>1, <1>2, <2>1, <2>2, <2>3
<1> HIDE DEF A, B, g
<1>6. g \in Bijection(A, B)
  BY <1>3, <1>4, <1>5 DEF Bijection, Injection, Surjection, IsInjective
<1>7. IsFiniteSet(A)
  BY <1>0, PositionsFinite DEF A
<1>8. Cardinality(B) = Cardinality(A)
  BY <1>6, <1>7, FS_Bijection DEF ExistsBijection
<1>9. Cardinality(B) = IF r = e THEN Cardinality(Positions(s, r)) - 1
                       ELSE Cardinality(Positions(s, r))
  <2>1. CASE r = e
    <3>1. i \in Positions(s, r)
      BY <1>1, <1>2, <2>1 DEF Positions, WithoutFirst
    <3>2. IsFiniteSet(Positions(s, r))
      BY PositionsFinite
    <3>3. Cardinality(B) = Cardinality(Positions(s, r)) - 1
      BY <3>1, <3>2, FS_RemoveElement DEF B
    <3>4. QED
      BY <2>1, <3>3
  <2>2. CASE r # e
    <3>1. B = Positions(s, r)
      BY <1>1, <2>2 DEF B, Positions, WithoutFirst
    <3>2. QED
      BY <2>2, <3>1
  <2>3. QED
    BY <2>1, <2>2
<1>10. QED
  BY <1>8, <1>9 DEF A, t

\* -D finds a rule if and only if there is a copy of it.
LEMMA OccursCounts ==
  ASSUME NEW S, NEW s \in Seq(S), NEW r
  PROVE  Occurs(s, r) <=> Cardinality(Positions(s, r)) > 0
<1>1. DOMAIN s = 1..Len(s)
  BY LenProperties
<1>2. IsFiniteSet(Positions(s, r)) /\ Cardinality(Positions(s, r)) \in Nat
  BY PositionsFinite
<1>3. Occurs(s, r) <=> Positions(s, r) # {}
  BY <1>1 DEF Occurs, Positions
<1>4. QED
  BY <1>2, <1>3, FS_EmptySet

(***************************************************************************)
(* The inductive invariant.                                                *)
(***************************************************************************)

\* What c has seen done, from where it is in EnsureBridge on.
Done == {"wire", "publish", "up", "unpublish"}
Routed == {"check", "append"} \cup Done
Raised == {"forward"} \cup Routed
Made == {"addr", "linkup"} \cup Raised

\* The counter stays within the rules it counts.
Counters ==
  \A c \in Conts :
    /\ pc[c] \in {"show", "add", "addr", "linkup", "forward", "wire", "up"}
         => n[c] = 0
    /\ pc[c] \in {"check", "append"} => n[c] < Len(HostRules)
    /\ pc[c] \in {"publish", "unpublish"} => n[c] < PublishSteps(c)

\* The bridge, as far as the invocations have got with it.
Configured ==
  /\ link => addr \/ halfMade \/ \E d \in Conts : pc[d] = "addr"
  /\ \A c \in Conts :
       /\ pc[c] \in Made => link
       /\ pc[c] \in Raised => up
       /\ pc[c] \in Routed => forward
       /\ pc[c] \in Done \/ (pc[c] \in {"check", "append"} /\ n[c] > 0)
            => host["masquerade"] > 0

\* Nobody overlooked a rule: then whoever is about to add one is alone with
\* it, and it is not there.
Single ==
  ~doubled =>
    /\ \A k \in Range(HostRules) : host[k] <= 1
    /\ \A c \in Conts : pc[c] = "append" => host[Wanted(c)] = 0
    /\ \A c, d \in Conts :
         c # d /\ pc[c] = "append" /\ pc[d] = "append" => Wanted(c) # Wanted(d)

\* The steps of addPublishRules whose rule c must have in its chain.
RuleOf(c, j) ==
  [tag |-> c, port |-> Publish[c][(j \div Len(Chains)) + 1], to |-> Addr[c]]
ChainOf(j) == Chains[(j % Len(Chains)) + 1]
Due(c) == {j \in 0..PublishSteps(c) - 1 :
             \/ pc[c] = "publish" /\ j < n[c]
             \/ pc[c] = "up"
             \/ pc[c] = "unpublish" /\ n[c] <= j}
Installed(c, k, r) == {j \in Due(c) : ChainOf(j) = k /\ RuleOf(c, j) = r}

\* Every chain has as many copies of a rule as the container that the rule is
\* tagged with has steps that installed it and none that deleted it.
Balanced ==
  \A c \in Conts :
    ~dirty[c] /\ pc[c] \notin {"failed", "crashed"} =>
      \A k \in Range(Chains), r \in Rule :
        r.tag = c => Copies(k, r) = Cardinality(Installed(c, k, r))

IInv == TypeOK /\ Counters /\ Configured /\ Single /\ Balanced

(***************************************************************************)
(* Every step preserves it.                                                *)
(***************************************************************************)
\* The names of the host rules and of the chains.
LEMMA Names ==
  /\ Len(HostRules) = 3 /\ Len(Chains) = 3
  /\ HostRules[1] = "masquerade"
  /\ \A i \in 1..3 : HostRules[i] \in Range(HostRules)
  /\ \A i \in 1..3 : Chains[i] \in Range(Chains)
  BY DEF HostRules, Chains, Range

\* The rule and the chain that a publish step deals with.
LEMMA StepRule ==
  ASSUME NEW c \in Conts, NEW j \in Nat, j < PublishSteps(c)
  PROVE  RuleOf(c, j) \in Rule /\ ChainOf(j) \in Range(Chains)
<1>1. Publish[c] \in Seq(HostPorts) /\ Addr[c] \in Addresses
  BY BridgeAssumption
<1>2. Len(Publish[c]) \in Nat /\ j < 3 * Len(Publish[c])
  BY <1>1, LenProperties, Names DEF PublishSteps
<1>3. (j \div 3) + 1 \in 1..Len(Publish[c]) /\ (j % 3) + 1 \in 1..3
  BY <1>2
<1>4. Publish[c][(j \div 3) + 1] \in HostPorts
  BY <1>1, <1>3, ElementOfSeq
<1>5. QED
  BY <1>1, <1>3, <1>4, Names DEF RuleOf, ChainOf, Rule

\* The number of rules of a container.
LEMMA StepsNat ==
  ASSUME NEW c \in Conts PROVE PublishSteps(c) \in Nat
<1>1. Publish[c] \in Seq(HostPorts)
  BY BridgeAssumption
<1>2. QED
  BY <1>1, LenProperties, Names DEF PublishSteps

\* The next of EnsureBridge's rules.
LEMMA NextRuleIs ==
  ASSUME TypeOK, NEW c \in Conts, NEW a, NextRule(c, a)
  PROVE  /\ pc[c] = a /\ n[c] \in Nat
         /\ pc' = [pc EXCEPT ![c] = IF n[c] + 1 < 3 THEN "check" ELSE "wire"]
         /\ n' = [n EXCEPT ![c] = IF n[c] + 1 < 3 THEN n[c] + 1 ELSE 0]
         /\ pc' \in [Conts -> PC] /\ n' \in [Conts -> Nat]
<1>1. pc \in [Conts -> PC] /\ n \in [Conts -> Nat]
  BY DEF TypeOK
<1>2. n[c] + 1 \in Nat
  BY <1>1
<1>3. CASE n[c] + 1 < 3
  BY <1>1, <1>2, <1>3, Names DEF NextRule, Goto, PC
<1>4. CASE ~(n[c] + 1 < 3)
  BY <1>1, <1>2, <1>4, Names DEF NextRule, Goto, PC
<1>5. QED
  BY <1>3, <1>4

\* A rule that is looked after is one of the host's.
LEMMA WantedIs ==
  ASSUME TypeOK, Counters, NEW c \in Conts, pc[c] \in {"check", "append"}
  PROVE  Wanted(c) \in Range(HostRules) /\ host[Wanted(c)] \in Nat
<1>1. n[c] + 1 \in 1..3
  BY Names DEF TypeOK, Counters
<1>2. QED
  BY <1>1, Names DEF TypeOK, Wanted

\* The next rule of a container's mappings.
LEMMA NextStepIs ==
  ASSUME TypeOK, NEW c \in Conts, NEW a \in PC, NEW b \in PC, NextStep(c, a, b)
  PROVE  LET more == n[c] + 1 < PublishSteps(c)
         IN  /\ pc[c] = a /\ n[c] \in Nat
             /\ pc' = [pc EXCEPT ![c] = IF more THEN a ELSE b]
             /\ n' = [n EXCEPT ![c] = IF more THEN n[c] + 1 ELSE 0]
             /\ pc' \in [Conts -> PC] /\ n' \in [Conts -> Nat]
<1>1. pc \in [Conts -> PC] /\ n \in [Conts -> Nat]
  BY DEF TypeOK
<1>2. n[c] + 1 \in Nat
  BY <1>1
<1>3. CASE n[c] + 1 < PublishSteps(c)
  BY <1>1, <1>2, <1>3 DEF NextStep, Goto
<1>4. CASE ~(n[c] + 1 < PublishSteps(c))
  BY <1>1, <1>2, <1>4 DEF NextStep, Goto
<1>5. QED
  BY <1>3, <1>4


\* No step puts anything but rules into a chain, or leaves the program.
LEMMA TypeNext ==
  ASSUME TypeOK, Counters, [Next]_vars
  PROVE  TypeOK'
<1>1. ASSUME NEW c \in Conts, ShowLink(c) PROVE TypeOK'
  BY <1>1 DEF TypeOK, PC, Goto, bridge, vars, ShowLink
<1>2. ASSUME NEW c \in Conts, AddLink(c) PROVE TypeOK'
  BY <1>2 DEF TypeOK, PC, Goto, bridge, vars, AddLink
<1>3. ASSUME NEW c \in Conts, AddLinkFails(c) PROVE TypeOK'
  BY <1>3 DEF TypeOK, PC, Goto, bridge, vars, AddLinkFails
<1>4. ASSUME NEW c \in Conts, AddAddr(c) PROVE TypeOK'
  BY <1>4 DEF TypeOK, PC, Goto, bridge, vars, AddAddr
<1>5. ASSUME NEW c \in Conts, AddAddrFails(c) PROVE TypeOK'
  BY <1>5 DEF TypeOK, PC, Goto, bridge, vars, AddAddrFails
<1>6. ASSUME NEW c \in Conts, LinkUp(c) PROVE TypeOK'
  BY <1>6 DEF TypeOK, PC, Goto, bridge, vars, LinkUp
<1>7. ASSUME NEW c \in Conts, EnableForward(c) PROVE TypeOK'
  BY <1>7 DEF TypeOK, PC, Goto, bridge, vars, EnableForward
<1>8. ASSUME NEW c \in Conts, EnableFails(c) PROVE TypeOK'
  BY <1>8 DEF TypeOK, PC, Goto, bridge, vars, EnableFails
<1>9. ASSUME NEW c \in Conts, RuleFound(c) PROVE TypeOK'
  <2>1. pc' \in [Conts -> PC] /\ n' \in [Conts -> Nat]
    BY <1>9, NextRuleIs DEF RuleFound
  <2>2. QED
    BY <1>9, <2>1 DEF TypeOK, bridge, RuleFound
<1>10. ASSUME NEW c \in Conts, RuleNotFound(c) PROVE TypeOK'
  BY <1>10 DEF TypeOK, PC, Goto, bridge, vars, RuleNotFound
<1>11. ASSUME NEW c \in Conts, AppendRule(c) PROVE TypeOK'
  <2>1. pc' \in [Conts -> PC] /\ n' \in [Conts -> Nat]
    BY <1>11, NextRuleIs DEF AppendRule
  <2>2. host' \in [Range(HostRules) -> Nat]
    <3>1. pc[c] = "append"
      BY <1>11, NextRuleIs DEF AppendRule
    <3>2. host[Wanted(c)] + 1 \in Nat
      BY <3>1, WantedIs
    <3>3. QED
      BY <1>11, <3>2 DEF TypeOK, AppendRule
  <2>3. QED
    BY <1>11, <2>1, <2>2 DEF TypeOK, AppendRule
<1>12. ASSUME NEW c \in Conts, AppendRuleFails(c) PROVE TypeOK'
  <2>1. pc' \in [Conts -> PC] /\ n' \in [Conts -> Nat]
    <3>1. CASE NextRule(c, "append")
      BY <3>1, NextRuleIs
    <3>2. CASE Goto(c, "append", "failed") /\ UNCHANGED n
      BY <3>2 DEF TypeOK, PC, Goto
    <3>3. QED
      BY <1>12, <3>1, <3>2 DEF AppendRuleFails
  <2>2. QED
    BY <1>12, <2>1 DEF TypeOK, bridge, AppendRuleFails
<1>13. ASSUME NEW c \in Conts, Wire(c) PROVE TypeOK'
  BY <1>13 DEF TypeOK, PC, Goto, bridge, vars, Wire
<1>14. ASSUME NEW c \in Conts, AddPublishRule(c) PROVE TypeOK'
  <2>1. /\ pc[c] = "publish" /\ n[c] \in Nat
        /\ pc' \in [Conts -> PC] /\ n' \in [Conts -> Nat]
    BY <1>14, NextStepIs DEF AddPublishRule, PC
  <2>2. RuleAt(c) \in Rule /\ ChainAt(c) \in Range(Chains) /\ n[c] \in Nat
    BY <2>1, StepRule DEF Counters, RuleAt, ChainAt, RuleOf, ChainOf
  <2>3. \A k \in Range(Chains) : chain'[k] \in Seq(Rule)
    BY <1>14, <2>2, AppendProperties DEF TypeOK, AddPublishRule
  <2>4. chain' \in [Range(Chains) -> Seq(Rule)]
    BY <1>14, <2>3 DEF TypeOK, AddPublishRule
  <2>5. QED
    BY <1>14, <2>1, <2>4 DEF TypeOK, bridge, AddPublishRule
<1>15. ASSUME NEW c \in Conts, AddPublishRuleFails(c) PROVE TypeOK'
  BY <1>15 DEF TypeOK, PC, Goto, bridge, vars, AddPublishRuleFails
<1>16. ASSUME NEW c \in Conts, StartTeardown(c) PROVE TypeOK'
  BY <1>16 DEF TypeOK, PC, Goto, bridge, vars, StartTeardown
<1>17. ASSUME NEW c \in Conts, DeletePublishRule(c) PROVE TypeOK'
  <2>1. /\ pc[c] = "unpublish" /\ n[c] \in Nat
        /\ pc' \in [Conts -> PC] /\ n' \in [Conts -> Nat]
    BY <1>17, NextStepIs DEF DeletePublishRule, PC
  <2>2. RuleAt(c) \in Rule /\ ChainAt(c) \in Range(Chains) /\ n[c] \in Nat
    BY <2>1, StepRule DEF Counters, RuleAt, ChainAt, RuleOf, ChainOf
  <2>3. \A k \in Range(Chains) : chain'[k] \in Seq(Rule)
    BY <1>17, <2>2, RemoveType DEF TypeOK, DeletePublishRule
  <2>4. chain' \in [Range(Chains) -> Seq(Rule)]
    BY <1>17, <2>3 DEF TypeOK, DeletePublishRule
  <2>5. QED
    BY <1>17, <2>1, <2>4 DEF TypeOK, bridge, DeletePublishRule
<1>18. ASSUME NEW c \in Conts, DeletePublishRuleFails(c) PROVE TypeOK'
  <2>1. pc' \in [Conts -> PC] /\ n' \in [Conts -> Nat]
    BY <1>18, NextStepIs DEF DeletePublishRuleFails, PC
  <2>2. QED
    BY <1>18, <2>1 DEF TypeOK, bridge, DeletePublishRuleFails
<1>19. ASSUME NEW c \in Conts, Crash(c) PROVE TypeOK'
  BY <1>19 DEF TypeOK, PC, Goto, bridge, vars, Crash
<1>20. CASE UNCHANGED vars
  BY <1>20 DEF TypeOK, PC, Goto, bridge, vars
<1>21. QED
  BY <1>1, <1>2, <1>3, <1>4, <1>5, <1>6, <1>7, <1>8, <1>9, <1>10, <1>11,
     <1>12, <1>13, <1>14, <1>15, <1>16, <1>17, <1>18, <1>19, <1>20 DEF Next,
     EnsureBridge, AllOver

\* No step counts past the last rule.
LEMMA CountersNext ==
  ASSUME TypeOK, Counters, [Next]_vars
  PROVE  Counters'
<1>1. ASSUME NEW c \in Conts, ShowLink(c) PROVE Counters'
  BY <1>1, Names, StepsNat DEF TypeOK, Counters, PublishSteps, Goto, NextRule,
                               NextStep, bridge, vars, ShowLink
<1>2. ASSUME NEW c \in Conts, AddLink(c) PROVE Counters'
  BY <1>2, Names, StepsNat DEF TypeOK, Counters, PublishSteps, Goto, NextRule,
                               NextStep, bridge, vars, AddLink
<1>3. ASSUME NEW c \in Conts, AddLinkFails(c) PROVE Counters'
  BY <1>3, Names, StepsNat DEF TypeOK, Counters, PublishSteps, Goto, NextRule,
                               NextStep, bridge, vars, AddLinkFails
<1>4. ASSUME NEW c \in Conts, AddAddr(c) PROVE Counters'
  BY <1>4, Names, StepsNat DEF TypeOK, Counters, PublishSteps, Goto, NextRule,
                               NextStep, bridge, vars, AddAddr
<1>5. ASSUME NEW c \in Conts, AddAddrFails(c) PROVE Counters'
  BY <1>5, Names, StepsNat DEF TypeOK, Counters, PublishSteps, Goto, NextRule,
                               NextStep, bridge, vars, AddAddrFails
<1>6. ASSUME NEW c \in Conts, LinkUp(c) PROVE Counters'
  BY <1>6, Names, StepsNat DEF TypeOK, Counters, PublishSteps, Goto, NextRule,
                               NextStep, bridge, vars, LinkUp
<1>7. ASSUME NEW c \in Conts, EnableForward(c) PROVE Counters'
  BY <1>7, Names, StepsNat DEF TypeOK, Counters, PublishSteps, Goto, NextRule,
                               NextStep, bridge, vars, EnableForward
<1>8. ASSUME NEW c \in Conts, EnableFails(c) PROVE Counters'
  BY <1>8, Names, StepsNat DEF TypeOK, Counters, PublishSteps, Goto, NextRule,
                               NextStep, bridge, vars, EnableFails
<1>9. ASSUME NEW c \in Conts, RuleFound(c) PROVE Counters'
  BY <1>9, Names, StepsNat DEF TypeOK, Counters, PublishSteps, Goto, NextRule,
                               NextStep, bridge, vars, RuleFound
<1>10. ASSUME NEW c \in Conts, RuleNotFound(c) PROVE Counters'
  BY <1>10, Names, StepsNat DEF TypeOK, Counters, PublishSteps, Goto, NextRule,
                               NextStep, bridge, vars, RuleNotFound
<1>11. ASSUME NEW c \in Conts, AppendRule(c) PROVE Counters'
  BY <1>11, Names, StepsNat DEF TypeOK, Counters, PublishSteps, Goto, NextRule,
                               NextStep, bridge, vars, AppendRule
<1>12. ASSUME NEW c \in Conts, AppendRuleFails(c) PROVE Counters'
  BY <1>12, Names, StepsNat DEF TypeOK, Counters, PublishSteps, Goto, NextRule,
                               NextStep, bridge, vars, AppendRuleFails
<1>13. ASSUME NEW c \in Conts, Wire(c) PROVE Counters'
  BY <1>13, Names, StepsNat DEF TypeOK, Counters, PublishSteps, Goto, NextRule,
                               NextStep, bridge, vars, Wire
<1>14. ASSUME NEW c \in Conts, AddPublishRule(c) PROVE Counters'
  BY <1>14, Names, StepsNat DEF TypeOK, Counters, PublishSteps, Goto, NextRule,
                               NextStep, bridge, vars, AddPublishRule
<1>15. ASSUME NEW c \in Conts, AddPublishRuleFails(c) PROVE Counters'
  BY <1>15, Names, StepsNat DEF TypeOK, Counters, PublishSteps, Goto, NextRule,
                               NextStep, bridge, vars, AddPublishRuleFails
<1>16. ASSUME NEW c \in Conts, StartTeardown(c) PROVE Counters'
  BY <1>16, Names, StepsNat DEF TypeOK, Counters, PublishSteps, Goto, NextRule,
                               NextStep, bridge, vars, StartTeardown
<1>17. ASSUME NEW c \in Conts, DeletePublishRule(c) PROVE Counters'
  BY <1>17, Names, StepsNat DEF TypeOK, Counters, PublishSteps, Goto, NextRule,
                               NextStep, bridge, vars, DeletePublishRule
<1>18. ASSUME NEW c \in Conts, DeletePublishRuleFails(c) PROVE Counters'
  BY <1>18, Names, StepsNat DEF TypeOK, Counters, PublishSteps, Goto, NextRule,
                               NextStep, bridge, vars, DeletePublishRuleFails
<1>19. ASSUME NEW c \in Conts, Crash(c) PROVE Counters'
  BY <1>19, Names, StepsNat DEF TypeOK, Counters, PublishSteps, Goto, NextRule,
                               NextStep, bridge, vars, Crash
<1>20. CASE UNCHANGED vars
  BY <1>20, Names, StepsNat DEF TypeOK, Counters, PublishSteps, Goto, NextRule,
                               NextStep, bridge, vars
<1>21. QED
  BY <1>1, <1>2, <1>3, <1>4, <1>5, <1>6, <1>7, <1>8, <1>9, <1>10, <1>11,
     <1>12, <1>13, <1>14, <1>15, <1>16, <1>17, <1>18, <1>19, <1>20 DEF Next,
     EnsureBridge, AllOver

\* Nobody gets further in EnsureBridge than the bridge itself.
LEMMA ConfiguredNext ==
  ASSUME TypeOK, Counters, Configured, [Next]_vars
  PROVE  Configured'
<1>1. ASSUME NEW c \in Conts, ShowLink(c) PROVE Configured'
  BY <1>1, Names DEF TypeOK, Counters, Configured, Made, Raised, Routed, Done,
     Goto,
                     Wanted, NextRule, NextStep, bridge, vars, ShowLink
<1>2. ASSUME NEW c \in Conts, AddLink(c) PROVE Configured'
  BY <1>2, Names DEF TypeOK, Counters, Configured, Made, Raised, Routed, Done,
     Goto,
                     Wanted, NextRule, NextStep, bridge, vars, AddLink
<1>3. ASSUME NEW c \in Conts, AddLinkFails(c) PROVE Configured'
  BY <1>3, Names DEF TypeOK, Counters, Configured, Made, Raised, Routed, Done,
     Goto,
                     Wanted, NextRule, NextStep, bridge, vars, AddLinkFails
<1>4. ASSUME NEW c \in Conts, AddAddr(c) PROVE Configured'
  BY <1>4, Names DEF TypeOK, Counters, Configured, Made, Raised, Routed, Done,
     Goto,
                     Wanted, NextRule, NextStep, bridge, vars, AddAddr
<1>5. ASSUME NEW c \in Conts, AddAddrFails(c) PROVE Configured'
  BY <1>5, Names DEF TypeOK, Counters, Configured, Made, Raised, Routed, Done,
     Goto,
                     Wanted, NextRule, NextStep, bridge, vars, AddAddrFails
<1>6. ASSUME NEW c \in Conts, LinkUp(c) PROVE Configured'
  BY <1>6, Names DEF TypeOK, Counters, Configured, Made, Raised, Routed, Done,
     Goto,
                     Wanted, NextRule, NextStep, bridge, vars, LinkUp
<1>7. ASSUME NEW c \in Conts, EnableForward(c) PROVE Configured'
  BY <1>7, Names DEF TypeOK, Counters, Configured, Made, Raised, Routed, Done,
     Goto,
                     Wanted, NextRule, NextStep, bridge, vars, EnableForward
<1>8. ASSUME NEW c \in Conts, EnableFails(c) PROVE Configured'
  BY <1>8, Names DEF TypeOK, Counters, Configured, Made, Raised, Routed, Done,
     Goto,
                     Wanted, NextRule, NextStep, bridge, vars, EnableFails
<1>9. ASSUME NEW c \in Conts, RuleFound(c) PROVE Configured'
  BY <1>9, Names DEF TypeOK, Counters, Configured, Made, Raised, Routed, Done,
     Goto,
                     Wanted, NextRule, NextStep, bridge, vars, RuleFound
<1>10. ASSUME NEW c \in Conts, RuleNotFound(c) PROVE Configured'
  BY <1>10, Names DEF TypeOK, Counters, Configured, Made, Raised, Routed,
     Done, Goto,
                     Wanted, NextRule, NextStep, bridge, vars, RuleNotFound
<1>11. ASSUME NEW c \in Conts, AppendRule(c) PROVE Configured'
  BY <1>11, Names DEF TypeOK, Counters, Configured, Made, Raised, Routed,
     Done, Goto,
                     Wanted, NextRule, NextStep, bridge, vars, AppendRule
<1>12. ASSUME NEW c \in Conts, AppendRuleFails(c) PROVE Configured'
  BY <1>12, Names DEF TypeOK, Counters, Configured, Made, Raised, Routed,
     Done, Goto,
                     Wanted, NextRule, NextStep, bridge, vars, AppendRuleFails
<1>13. ASSUME NEW c \in Conts, Wire(c) PROVE Configured'
  BY <1>13, Names DEF TypeOK, Counters, Configured, Made, Raised, Routed,
     Done, Goto,
                     Wanted, NextRule, NextStep, bridge, vars, Wire
<1>14. ASSUME NEW c \in Conts, AddPublishRule(c) PROVE Configured'
  BY <1>14, Names DEF TypeOK, Counters, Configured, Made, Raised, Routed,
     Done, Goto,
                     Wanted, NextRule, NextStep, bridge, vars, AddPublishRule
<1>15. ASSUME NEW c \in Conts, AddPublishRuleFails(c) PROVE Configured'
  BY <1>15, Names DEF TypeOK, Counters, Configured, Made, Raised, Routed,
     Done, Goto,
                     Wanted, NextRule, NextStep, bridge, vars, AddPublishRuleFails
<1>16. ASSUME NEW c \in Conts, StartTeardown(c) PROVE Configured'
  BY <1>16, Names DEF TypeOK, Counters, Configured, Made, Raised, Routed,
     Done, Goto,
                     Wanted, NextRule, NextStep, bridge, vars, StartTeardown
<1>17. ASSUME NEW c \in Conts, DeletePublishRule(c) PROVE Configured'
  BY <1>17, Names DEF TypeOK, Counters, Configured, Made, Raised, Routed,
     Done, Goto,
                     Wanted, NextRule, NextStep, bridge, vars, DeletePublishRule
<1>18. ASSUME NEW c \in Conts, DeletePublishRuleFails(c) PROVE Configured'
  BY <1>18, Names DEF TypeOK, Counters, Configured, Made, Raised, Routed,
     Done, Goto,
                     Wanted, NextRule, NextStep, bridge, vars, DeletePublishRuleFails
<1>19. ASSUME NEW c \in Conts, Crash(c) PROVE Configured'
  BY <1>19, Names DEF TypeOK, Counters, Configured, Made, Raised, Routed,
     Done, Goto,
                     Wanted, NextRule, NextStep, bridge, vars, Crash
<1>20. CASE UNCHANGED vars
  BY <1>20, Names DEF TypeOK, Counters, Configured, Made, Raised, Routed,
     Done, Goto,
                     Wanted, NextRule, NextStep, bridge, vars
<1>21. QED
  BY <1>1, <1>2, <1>3, <1>4, <1>5, <1>6, <1>7, <1>8, <1>9, <1>10, <1>11,
     <1>12, <1>13, <1>14, <1>15, <1>16, <1>17, <1>18, <1>19, <1>20 DEF Next,
     EnsureBridge, AllOver

\* A step that neither adds a rule nor makes up its mind to add one.
LEMMA SingleKept ==
  ASSUME Single, host' = host, doubled' = doubled,
         \A d \in Conts : pc'[d] = "append" => pc[d] = "append" /\ n'[d] = n[d]
  PROVE  Single'
  BY DEF Single, Wanted

\* A rule is added by one invocation only, as long as none overlooks it.
LEMMA SingleNext ==
  ASSUME TypeOK, Counters, Single, [Next]_vars
  PROVE  Single'
<1>1. ASSUME NEW c \in Conts, ShowLink(c) PROVE Single'
  <2>1. /\ host' = host /\ doubled' = doubled
        /\ \A d \in Conts :
             pc'[d] = "append" => pc[d] = "append" /\ n'[d] = n[d]
    BY <1>1 DEF TypeOK, Goto, bridge, vars, ShowLink
  <2>2. QED
    BY <2>1, SingleKept
<1>2. ASSUME NEW c \in Conts, AddLink(c) PROVE Single'
  <2>1. /\ host' = host /\ doubled' = doubled
        /\ \A d \in Conts :
             pc'[d] = "append" => pc[d] = "append" /\ n'[d] = n[d]
    BY <1>2 DEF TypeOK, Goto, bridge, vars, AddLink
  <2>2. QED
    BY <2>1, SingleKept
<1>3. ASSUME NEW c \in Conts, AddLinkFails(c) PROVE Single'
  <2>1. /\ host' = host /\ doubled' = doubled
        /\ \A d \in Conts :
             pc'[d] = "append" => pc[d] = "append" /\ n'[d] = n[d]
    BY <1>3 DEF TypeOK, Goto, bridge, vars, AddLinkFails
  <2>2. QED
    BY <2>1, SingleKept
<1>4. ASSUME NEW c \in Conts, AddAddr(c) PROVE Single'
  <2>1. /\ host' = host /\ doubled' = doubled
        /\ \A d \in Conts :
             pc'[d] = "append" => pc[d] = "append" /\ n'[d] = n[d]
    BY <1>4 DEF TypeOK, Goto, bridge, vars, AddAddr
  <2>2. QED
    BY <2>1, SingleKept
<1>5. ASSUME NEW c \in Conts, AddAddrFails(c) PROVE Single'
  <2>1. /\ host' = host /\ doubled' = doubled
        /\ \A d \in Conts :
             pc'[d] = "append" => pc[d] = "append" /\ n'[d] = n[d]
    BY <1>5 DEF TypeOK, Goto, bridge, vars, AddAddrFails
  <2>2. QED
    BY <2>1, SingleKept
<1>6. ASSUME NEW c \in Conts, LinkUp(c) PROVE Single'
  <2>1. /\ host' = host /\ doubled' = doubled
        /\ \A d \in Conts :
             pc'[d] = "append" => pc[d] = "append" /\ n'[d] = n[d]
    BY <1>6 DEF TypeOK, Goto, bridge, vars, LinkUp
  <2>2. QED
    BY <2>1, SingleKept
<1>7. ASSUME NEW c \in Conts, EnableForward(c) PROVE Single'
  <2>1. /\ host' = host /\ doubled' = doubled
        /\ \A d \in Conts :
             pc'[d] = "append" => pc[d] = "append" /\ n'[d] = n[d]
    BY <1>7 DEF TypeOK, Goto, bridge, vars, EnableForward
  <2>2. QED
    BY <2>1, SingleKept
<1>8. ASSUME NEW c \in Conts, EnableFails(c) PROVE Single'
  <2>1. /\ host' = host /\ doubled' = doubled
        /\ \A d \in Conts :
             pc'[d] = "append" => pc[d] = "append" /\ n'[d] = n[d]
    BY <1>8 DEF TypeOK, Goto, bridge, vars, EnableFails
  <2>2. QED
    BY <2>1, SingleKept
<1>9. ASSUME NEW c \in Conts, RuleFound(c) PROVE Single'
  <2>1. /\ host' = host /\ doubled' = doubled
        /\ \A d \in Conts :
             pc'[d] = "append" => pc[d] = "append" /\ n'[d] = n[d]
    BY <1>9, NextRuleIs DEF TypeOK, bridge, RuleFound
  <2>2. QED
    BY <2>1, SingleKept
<1>10. ASSUME NEW c \in Conts, RuleNotFound(c) PROVE Single'
  <2>1. /\ host' = host /\ n' = n /\ pc' = [pc EXCEPT ![c] = "append"]
        /\ \A d \in Conts : Wanted(d)' = Wanted(d)
    BY <1>10 DEF Goto, bridge, Wanted, RuleNotFound
  <2>2. ASSUME ~doubled' PROVE Single'
    <3>1. /\ ~doubled /\ ~(host[Wanted(c)] > 0)
          /\ \A d \in Conts \ {c} : ~(pc[d] = "append" /\ Wanted(d) = Wanted(c))
      BY <1>10, <2>2 DEF TypeOK, RuleNotFound
    <3>2. host[Wanted(c)] = 0
      BY <1>10, <3>1, Names DEF TypeOK, Counters, Goto, Wanted, RuleNotFound
    <3>3. \A d \in Conts : pc'[d] = "append" => d = c \/ pc[d] = "append"
      BY <2>1 DEF TypeOK
    <3>4. QED
      BY <2>1, <3>1, <3>2, <3>3 DEF Single
  <2>3. QED
    BY <2>2 DEF Single
<1>11. ASSUME NEW c \in Conts, AppendRule(c) PROVE Single'
  <2>1. /\ doubled' = doubled /\ pc[c] = "append"
        /\ pc'[c] # "append" /\ Wanted(c) \in Range(HostRules)
        /\ host' = [host EXCEPT ![Wanted(c)] = host[Wanted(c)] + 1]
        /\ \A d \in Conts \ {c} : pc'[d] = pc[d] /\ n'[d] = n[d]
    <3>1. /\ pc[c] = "append"
          /\ pc' = [pc EXCEPT ![c] = IF n[c] + 1 < 3 THEN "check" ELSE "wire"]
          /\ n' = [n EXCEPT ![c] = IF n[c] + 1 < 3 THEN n[c] + 1 ELSE 0]
      BY <1>11, NextRuleIs DEF AppendRule
    <3>2. QED
      BY <1>11, <3>1, WantedIs DEF TypeOK, AppendRule
  <2>2. ASSUME ~doubled PROVE Single'
    <3>1. \A d \in Conts : pc'[d] = "append" =>
            /\ d # c /\ pc[d] = "append" /\ Wanted(d)' = Wanted(d)
            /\ Wanted(d) # Wanted(c)
      BY <2>1, <2>2 DEF Single, Wanted
    <3>2. /\ host'[Wanted(c)] = 1
          /\ \A k \in Range(HostRules) \ {Wanted(c)} : host'[k] = host[k]
      <4>1. host[Wanted(c)] = 0
        BY <2>1, <2>2 DEF Single
      <4>2. host \in [Range(HostRules) -> Nat]
        BY DEF TypeOK
      <4>3. QED
        BY <2>1, <4>1, <4>2
    <3>3. \A k \in Range(HostRules) : host'[k] <= 1
      BY <2>2, <3>2 DEF Single
    <3>4. \A d \in Conts : pc'[d] = "append" => Wanted(d) \in Range(HostRules)
      BY <3>1, Names DEF TypeOK, Counters, Wanted
    <3>5. \A d \in Conts : pc'[d] = "append" => host'[Wanted(d)'] = 0
      BY <2>2, <3>1, <3>2, <3>4 DEF Single
    <3>6. QED
      BY <2>2, <3>1, <3>3, <3>5 DEF Single
  <2>3. QED
    BY <2>1, <2>2 DEF Single
<1>12. ASSUME NEW c \in Conts, AppendRuleFails(c) PROVE Single'
  <2>1. /\ host' = host /\ doubled' = doubled
        /\ \A d \in Conts :
             pc'[d] = "append" => pc[d] = "append" /\ n'[d] = n[d]
    <3>1. CASE NextRule(c, "append")
      BY <1>12, <3>1, NextRuleIs DEF TypeOK, bridge, AppendRuleFails
    <3>2. CASE Goto(c, "append", "failed") /\ UNCHANGED n
      BY <1>12, <3>2 DEF TypeOK, Goto, bridge, AppendRuleFails
    <3>3. QED
      BY <1>12, <3>1, <3>2 DEF AppendRuleFails
  <2>2. QED
    BY <2>1, SingleKept
<1>13. ASSUME NEW c \in Conts, Wire(c) PROVE Single'
  <2>1. /\ host' = host /\ doubled' = doubled
        /\ \A d \in Conts :
             pc'[d] = "append" => pc[d] = "append" /\ n'[d] = n[d]
    BY <1>13 DEF TypeOK, Goto, bridge, vars, Wire
  <2>2. QED
    BY <2>1, SingleKept
<1>14. ASSUME NEW c \in Conts, AddPublishRule(c) PROVE Single'
  <2>1. /\ host' = host /\ doubled' = doubled
        /\ \A d \in Conts :
             pc'[d] = "append" => pc[d] = "append" /\ n'[d] = n[d]
    BY <1>14, NextStepIs DEF TypeOK, PC, bridge, AddPublishRule
  <2>2. QED
    BY <2>1, SingleKept
<1>15. ASSUME NEW c \in Conts, AddPublishRuleFails(c) PROVE Single'
  <2>1. /\ host' = host /\ doubled' = doubled
        /\ \A d \in Conts :
             pc'[d] = "append" => pc[d] = "append" /\ n'[d] = n[d]
    BY <1>15 DEF TypeOK, Goto, bridge, vars, AddPublishRuleFails
  <2>2. QED
    BY <2>1, SingleKept
<1>16. ASSUME NEW c \in Conts, StartTeardown(c) PROVE Single'
  <2>1. /\ host' = host /\ doubled' = doubled
        /\ \A d \in Conts :
             pc'[d] = "append" => pc[d] = "append" /\ n'[d] = n[d]
    BY <1>16 DEF TypeOK, Goto, bridge, vars, StartTeardown
  <2>2. QED
    BY <2>1, SingleKept
<1>17. ASSUME NEW c \in Conts, DeletePublishRule(c) PROVE Single'
  <2>1. /\ host' = host /\ doubled' = doubled
        /\ \A d \in Conts :
             pc'[d] = "append" => pc[d] = "append" /\ n'[d] = n[d]
    BY <1>17, NextStepIs DEF TypeOK, PC, bridge, DeletePublishRule
  <2>2. QED
    BY <2>1, SingleKept
<1>18. ASSUME NEW c \in Conts, DeletePublishRuleFails(c) PROVE Single'
  <2>1. /\ host' = host /\ doubled' = doubled
        /\ \A d \in Conts :
             pc'[d] = "append" => pc[d] = "append" /\ n'[d] = n[d]
    BY <1>18, NextStepIs DEF TypeOK, PC, bridge, DeletePublishRuleFails
  <2>2. QED
    BY <2>1, SingleKept
<1>19. ASSUME NEW c \in Conts, Crash(c) PROVE Single'
  <2>1. /\ host' = host /\ doubled' = doubled
        /\ \A d \in Conts :
             pc'[d] = "append" => pc[d] = "append" /\ n'[d] = n[d]
    BY <1>19 DEF TypeOK, Goto, bridge, vars, Crash
  <2>2. QED
    BY <2>1, SingleKept
<1>20. CASE UNCHANGED vars
  <2>1. /\ host' = host /\ doubled' = doubled
        /\ \A d \in Conts :
             pc'[d] = "append" => pc[d] = "append" /\ n'[d] = n[d]
    BY <1>20 DEF TypeOK, Goto, bridge, vars
  <2>2. QED
    BY <2>1, SingleKept
<1>21. QED
  BY <1>1, <1>2, <1>3, <1>4, <1>5, <1>6, <1>7, <1>8, <1>9, <1>10, <1>11,
     <1>12, <1>13, <1>14, <1>15, <1>16, <1>17, <1>18, <1>19, <1>20 DEF Next,
     EnsureBridge, AllOver

\* The copies of all rules in all chains, after -A of one.
LEMMA CopiesAppend ==
  ASSUME TypeOK, NEW l \in Range(Chains), NEW e \in Rule,
         chain' = [chain EXCEPT ![l] = Queued(chain[l], e)],
         NEW k \in Range(Chains), NEW r \in Rule
  PROVE  /\ k = l /\ r = e => Copies(k, r)' = Copies(k, r) + 1
         /\ ~(k = l /\ r = e) => Copies(k, r)' = Copies(k, r)
<1>1. chain \in [Range(Chains) -> Seq(Rule)]
  BY DEF TypeOK
<1>2. Copies(k, r) = Cardinality(Positions(chain[k], r))
  BY DEF Copies, Positions
<1>3. Copies(k, r)' = Cardinality(Positions(chain'[k], r))
  BY DEF Copies, Positions
<1>4. CASE k = l
  <2>1. chain'[k] = Queued(chain[k], e) /\ chain[k] \in Seq(Rule)
    BY <1>1, <1>4
  <2>2. QED
    BY <1>2, <1>3, <1>4, <2>1, AppendCounts
<1>5. CASE k # l
  BY <1>1, <1>2, <1>3, <1>5
<1>6. QED
  BY <1>4, <1>5

\* The same after -D.
LEMMA CopiesRemove ==
  ASSUME TypeOK, NEW l \in Range(Chains), NEW e \in Rule,
         chain' = [chain EXCEPT ![l] = RemoveFirst(chain[l], e)],
         NEW k \in Range(Chains), NEW r \in Rule
  PROVE  Copies(k, r)' = IF k = l /\ r = e /\ Copies(k, r) > 0
                           THEN Copies(k, r) - 1 ELSE Copies(k, r)
<1>1. chain \in [Range(Chains) -> Seq(Rule)]
  BY DEF TypeOK
<1>2. Copies(k, r) = Cardinality(Positions(chain[k], r))
  BY DEF Copies, Positions
<1>3. Copies(k, r)' = Cardinality(Positions(chain'[k], r))
  BY DEF Copies, Positions
<1>4. CASE k = l /\ Occurs(chain[k], e)
  <2>1. chain'[k] = RemoveFirst(chain[k], e) /\ chain[k] \in Seq(Rule)
    BY <1>1, <1>4
  <2>2. QED
    BY <1>2, <1>3, <1>4, <2>1, RemoveCounts, OccursCounts
<1>5. CASE k = l /\ ~Occurs(chain[k], e)
  <2>1. chain'[k] = RemoveFirst(chain[k], e) /\ chain[k] \in Seq(Rule)
    BY <1>1, <1>5
  <2>2. RemoveFirst(chain[k], e) = chain[k]
    BY <1>5 DEF Occurs, RemoveFirst
  <2>3. QED
    BY <1>2, <1>3, <1>5, <2>1, <2>2, OccursCounts
<1>6. CASE k # l
  BY <1>1, <1>2, <1>3, <1>6
<1>7. QED
  BY <1>4, <1>5, <1>6

\* The steps that a container is to be credited with are finitely many.
LEMMA InstalledFinite ==
  ASSUME NEW c \in Conts, NEW k, NEW r
  PROVE  IsFiniteSet(Installed(c, k, r))
<1>1. IsFiniteSet(0..PublishSteps(c) - 1)
  BY StepsNat, FS_Interval
<1>2. QED
  BY <1>1, FS_Subset DEF Installed, Due

\* The containers whose rules are accounted for.
Clean(c) == ~dirty[c] /\ pc[c] \notin {"failed", "crashed"}

\* A step that touches no chain and moves nobody within the rules.
LEMMA BalancedKept ==
  ASSUME Balanced, chain' = chain,
         \A d \in Conts : Clean(d)' => Clean(d) /\ Due(d)' = Due(d)
  PROVE  Balanced'
  BY DEF Balanced, Clean, Copies, Installed

\* Every rule that is added or deleted is accounted for.
LEMMA BalancedNext ==
  ASSUME TypeOK, Counters, Balanced, [Next]_vars
  PROVE  Balanced'
<1>1. ASSUME NEW c \in Conts, ShowLink(c) PROVE Balanced'
  <2>1. chain' = chain /\ \A d \in Conts : Clean(d)' => Clean(d)
    BY <1>1 DEF TypeOK, Clean, Goto, bridge, vars, ShowLink
  <2>2. ASSUME NEW d \in Conts, Clean(d)' PROVE Due(d)' = Due(d)
    BY <1>1, <2>2 DEF TypeOK, Counters, Due, PublishSteps, Clean, Goto,
       bridge, vars, ShowLink
  <2>3. QED
    BY <2>1, <2>2, BalancedKept
<1>2. ASSUME NEW c \in Conts, AddLink(c) PROVE Balanced'
  <2>1. chain' = chain /\ \A d \in Conts : Clean(d)' => Clean(d)
    BY <1>2 DEF TypeOK, Clean, Goto, bridge, vars, AddLink
  <2>2. ASSUME NEW d \in Conts, Clean(d)' PROVE Due(d)' = Due(d)
    BY <1>2, <2>2 DEF TypeOK, Counters, Due, PublishSteps, Clean, Goto,
       bridge, vars, AddLink
  <2>3. QED
    BY <2>1, <2>2, BalancedKept
<1>3. ASSUME NEW c \in Conts, AddLinkFails(c) PROVE Balanced'
  <2>1. chain' = chain /\ \A d \in Conts : Clean(d)' => Clean(d)
    BY <1>3 DEF TypeOK, Clean, Goto, bridge, vars, AddLinkFails
  <2>2. ASSUME NEW d \in Conts, Clean(d)' PROVE Due(d)' = Due(d)
    BY <1>3, <2>2 DEF TypeOK, Counters, Due, PublishSteps, Clean, Goto,
       bridge, vars, AddLinkFails
  <2>3. QED
    BY <2>1, <2>2, BalancedKept
<1>4. ASSUME NEW c \in Conts, AddAddr(c) PROVE Balanced'
  <2>1. chain' = chain /\ \A d \in Conts : Clean(d)' => Clean(d)
    BY <1>4 DEF TypeOK, Clean, Goto, bridge, vars, AddAddr
  <2>2. ASSUME NEW d \in Conts, Clean(d)' PROVE Due(d)' = Due(d)
    BY <1>4, <2>2 DEF TypeOK, Counters, Due, PublishSteps, Clean, Goto,
       bridge, vars, AddAddr
  <2>3. QED
    BY <2>1, <2>2, BalancedKept
<1>5. ASSUME NEW c \in Conts, AddAddrFails(c) PROVE Balanced'
  <2>1. chain' = chain /\ \A d \in Conts : Clean(d)' => Clean(d)
    BY <1>5 DEF TypeOK, Clean, Goto, bridge, vars, AddAddrFails
  <2>2. ASSUME NEW d \in Conts, Clean(d)' PROVE Due(d)' = Due(d)
    BY <1>5, <2>2 DEF TypeOK, Counters, Due, PublishSteps, Clean, Goto,
       bridge, vars, AddAddrFails
  <2>3. QED
    BY <2>1, <2>2, BalancedKept
<1>6. ASSUME NEW c \in Conts, LinkUp(c) PROVE Balanced'
  <2>1. chain' = chain /\ \A d \in Conts : Clean(d)' => Clean(d)
    BY <1>6 DEF TypeOK, Clean, Goto, bridge, vars, LinkUp
  <2>2. ASSUME NEW d \in Conts, Clean(d)' PROVE Due(d)' = Due(d)
    BY <1>6, <2>2 DEF TypeOK, Counters, Due, PublishSteps, Clean, Goto,
       bridge, vars, LinkUp
  <2>3. QED
    BY <2>1, <2>2, BalancedKept
<1>7. ASSUME NEW c \in Conts, EnableForward(c) PROVE Balanced'
  <2>1. chain' = chain /\ \A d \in Conts : Clean(d)' => Clean(d)
    BY <1>7 DEF TypeOK, Clean, Goto, bridge, vars, EnableForward
  <2>2. ASSUME NEW d \in Conts, Clean(d)' PROVE Due(d)' = Due(d)
    BY <1>7, <2>2 DEF TypeOK, Counters, Due, PublishSteps, Clean, Goto,
       bridge, vars, EnableForward
  <2>3. QED
    BY <2>1, <2>2, BalancedKept
<1>8. ASSUME NEW c \in Conts, EnableFails(c) PROVE Balanced'
  <2>1. chain' = chain /\ \A d \in Conts : Clean(d)' => Clean(d)
    BY <1>8 DEF TypeOK, Clean, Goto, bridge, vars, EnableFails
  <2>2. ASSUME NEW d \in Conts, Clean(d)' PROVE Due(d)' = Due(d)
    BY <1>8, <2>2 DEF TypeOK, Counters, Due, PublishSteps, Clean, Goto,
       bridge, vars, EnableFails
  <2>3. QED
    BY <2>1, <2>2, BalancedKept
<1>9. ASSUME NEW c \in Conts, RuleFound(c) PROVE Balanced'
  <2>1. chain' = chain /\ \A d \in Conts : Clean(d)' => Clean(d)
    BY <1>9, NextRuleIs DEF TypeOK, Clean, bridge, RuleFound
  <2>2. ASSUME NEW d \in Conts, Clean(d)' PROVE Due(d)' = Due(d)
    BY <1>9, <2>2, NextRuleIs DEF TypeOK, Due, PublishSteps, Clean, RuleFound
  <2>3. QED
    BY <2>1, <2>2, BalancedKept
<1>10. ASSUME NEW c \in Conts, RuleNotFound(c) PROVE Balanced'
  <2>1. chain' = chain /\ \A d \in Conts : Clean(d)' => Clean(d)
    BY <1>10 DEF TypeOK, Clean, Goto, bridge, vars, RuleNotFound
  <2>2. ASSUME NEW d \in Conts, Clean(d)' PROVE Due(d)' = Due(d)
    BY <1>10, <2>2 DEF TypeOK, Counters, Due, PublishSteps, Clean, Goto,
       bridge, vars, RuleNotFound
  <2>3. QED
    BY <2>1, <2>2, BalancedKept
<1>11. ASSUME NEW c \in Conts, AppendRule(c) PROVE Balanced'
  <2>1. chain' = chain /\ \A d \in Conts : Clean(d)' => Clean(d)
    BY <1>11, NextRuleIs DEF TypeOK, Clean, bridge, AppendRule
  <2>2. ASSUME NEW d \in Conts, Clean(d)' PROVE Due(d)' = Due(d)
    BY <1>11, <2>2, NextRuleIs DEF TypeOK, Due, PublishSteps, Clean, AppendRule
  <2>3. QED
    BY <2>1, <2>2, BalancedKept
<1>12. ASSUME NEW c \in Conts, AppendRuleFails(c) PROVE Balanced'
  <2>1. chain' = chain /\ dirty' = dirty
    BY <1>12 DEF bridge, AppendRuleFails
  <2>2. /\ pc[c] = "append"
        /\ pc' \in [Conts -> PC] /\ n' \in [Conts -> Nat]
        /\ pc'[c] \in {"check", "wire", "failed"}
        /\ \A d \in Conts \ {c} : pc'[d] = pc[d] /\ n'[d] = n[d]
    <3>1. CASE NextRule(c, "append")
      BY <3>1, NextRuleIs DEF TypeOK
    <3>2. CASE Goto(c, "append", "failed") /\ UNCHANGED n
      BY <3>2 DEF TypeOK, PC, Goto
    <3>3. QED
      BY <1>12, <3>1, <3>2 DEF AppendRuleFails
  <2>3. ASSUME NEW d \in Conts, Clean(d)' PROVE Clean(d) /\ Due(d)' = Due(d)
    BY <2>1, <2>2, <2>3 DEF Due, PublishSteps, Clean
  <2>4. QED
    BY <2>1, <2>3, BalancedKept
<1>13. ASSUME NEW c \in Conts, Wire(c) PROVE Balanced'
  <2>1. chain' = chain /\ \A d \in Conts : Clean(d)' => Clean(d)
    BY <1>13 DEF TypeOK, Clean, Goto, bridge, vars, Wire
  <2>2. /\ pc[c] = "wire" /\ n[c] = 0 /\ n' = n
        /\ pc'[c] \in {"failed", IF Publish[c] = <<>> THEN "up" ELSE "publish"}
        /\ \A d \in Conts \ {c} : pc'[d] = pc[d]
    BY <1>13 DEF TypeOK, Counters, Goto, Wire
  <2>3. Publish[c] = <<>> => PublishSteps(c) = 0
    BY Names, EmptySeq DEF PublishSteps
  <2>4. ASSUME NEW d \in Conts, Clean(d)' PROVE Due(d)' = Due(d)
    <3>1. CASE d # c
      BY <2>2, <3>1 DEF Due, PublishSteps
    <3>2. CASE d = c /\ Publish[c] = <<>>
      BY <2>2, <2>3, <2>4, <3>2 DEF Due, PublishSteps
    <3>3. CASE d = c /\ Publish[c] # <<>>
      BY <2>2, <2>4, <3>3 DEF Due, PublishSteps, Clean
    <3>4. QED
      BY <3>1, <3>2, <3>3
  <2>5. QED
    BY <2>1, <2>4, BalancedKept
<1>14. ASSUME NEW c \in Conts, AddPublishRule(c) PROVE Balanced'
  <2>1. /\ pc[c] = "publish" /\ n[c] \in Nat /\ dirty' = dirty
        /\ chain' =
             [chain EXCEPT ![ChainAt(c)] = Queued(chain[ChainAt(c)], RuleAt(c))]
        /\ \A d \in Conts \ {c} : pc'[d] = pc[d] /\ n'[d] = n[d]
    BY <1>14, NextStepIs DEF AddPublishRule, Queued, TypeOK, PC
  <2>2. /\ RuleAt(c) \in Rule /\ ChainAt(c) \in Range(Chains)
        /\ RuleAt(c) = RuleOf(c, n[c]) /\ ChainAt(c) = ChainOf(n[c])
        /\ RuleAt(c).tag = c
    BY <2>1, StepRule DEF Counters, RuleAt, ChainAt, RuleOf, ChainOf
  <2>3. Due(c)' = Due(c) \cup {n[c]} /\ n[c] \notin Due(c)
    BY <1>14, <2>1, NextStepIs, StepsNat DEF TypeOK, Counters, PC, Due,
       PublishSteps, AddPublishRule
  <2>4. ASSUME NEW d \in Conts, Clean(d)', NEW k \in Range(Chains),
               NEW r \in Rule, r.tag = d
        PROVE  Copies(k, r)' = Cardinality(Installed(d, k, r)')
    <3>1. Copies(k, r)' = IF k = ChainAt(c) /\ r = RuleAt(c)
                            THEN Copies(k, r) + 1 ELSE Copies(k, r)
      <4> DEFINE l == ChainAt(c)
                 e == RuleAt(c)
      <4>1. /\ l \in Range(Chains) /\ e \in Rule
            /\ chain' = [chain EXCEPT ![l] = Queued(chain[l], e)]
        BY <2>1, <2>2
      <4> HIDE DEF l, e
      <4>2. /\ k = l /\ r = e => Copies(k, r)' = Copies(k, r) + 1
            /\ ~(k = l /\ r = e) => Copies(k, r)' = Copies(k, r)
        BY <4>1, CopiesAppend
      <4>3. QED
        BY <4>2 DEF l, e
    <3>2. Clean(d) /\ Copies(k, r) = Cardinality(Installed(d, k, r))
      <4>1. Clean(d)
        BY <2>1, <2>4 DEF Clean
      <4>2. QED
        BY <2>4, <4>1 DEF Balanced, Clean
    <3>3. CASE d # c
      <4>1. Installed(d, k, r)' = Installed(d, k, r)
        BY <2>1, <3>3 DEF Installed, Due, PublishSteps
      <4>2. QED
        BY <2>2, <2>4, <3>1, <3>2, <3>3, <4>1
    <3>4. CASE d = c /\ ~(k = ChainAt(c) /\ r = RuleAt(c))
      <4>1. Installed(d, k, r)' = Installed(d, k, r)
        BY <2>2, <2>3, <3>4 DEF Installed
      <4>2. QED
        BY <3>1, <3>2, <3>4, <4>1
    <3>5. CASE d = c /\ k = ChainAt(c) /\ r = RuleAt(c)
      <4>1. /\ Installed(d, k, r)' = Installed(d, k, r) \cup {n[c]}
            /\ n[c] \notin Installed(d, k, r)
        BY <2>2, <2>3, <3>5 DEF Installed
      <4>2. IsFiniteSet(Installed(d, k, r))
        BY InstalledFinite
      <4>3. Cardinality(Installed(d, k, r)') =
              Cardinality(Installed(d, k, r)) + 1
        BY <4>1, <4>2, FS_AddElement
      <4>4. QED
        BY <3>1, <3>2, <3>5, <4>1, <4>3
    <3>6. QED
      BY <3>3, <3>4, <3>5
  <2>5. QED
    BY <2>4 DEF Balanced, Clean
<1>15. ASSUME NEW c \in Conts, AddPublishRuleFails(c) PROVE Balanced'
  <2>1. chain' = chain /\ \A d \in Conts : Clean(d)' => Clean(d)
    BY <1>15 DEF TypeOK, Clean, Goto, bridge, vars, AddPublishRuleFails
  <2>2. ASSUME NEW d \in Conts, Clean(d)' PROVE Due(d)' = Due(d)
    BY <1>15, <2>2 DEF TypeOK, Counters, Due, PublishSteps, Clean, Goto,
       bridge, vars, AddPublishRuleFails
  <2>3. QED
    BY <2>1, <2>2, BalancedKept
<1>16. ASSUME NEW c \in Conts, StartTeardown(c) PROVE Balanced'
  <2>1. chain' = chain /\ \A d \in Conts : Clean(d)' => Clean(d)
    BY <1>16 DEF TypeOK, Clean, Goto, bridge, vars, StartTeardown
  <2>2. /\ pc[c] = "up" /\ n[c] = 0 /\ n' = n
        /\ pc'[c] \in {"failed", IF Publish[c] = <<>> THEN "gone" ELSE "unpublish"}
        /\ \A d \in Conts \ {c} : pc'[d] = pc[d]
    BY <1>16 DEF TypeOK, Counters, Goto, StartTeardown
  <2>3. Publish[c] = <<>> => PublishSteps(c) = 0
    BY Names, EmptySeq DEF PublishSteps
  <2>4. ASSUME NEW d \in Conts, Clean(d)' PROVE Due(d)' = Due(d)
    <3>1. CASE d # c
      BY <2>2, <3>1 DEF Due, PublishSteps
    <3>2. CASE d = c /\ Publish[c] = <<>>
      BY <2>2, <2>3, <2>4, <3>2 DEF Due, PublishSteps
    <3>3. CASE d = c /\ Publish[c] # <<>>
      BY <2>2, <2>4, <3>3 DEF Due, PublishSteps, Clean
    <3>4. QED
      BY <3>1, <3>2, <3>3
  <2>5. QED
    BY <2>1, <2>4, BalancedKept
<1>17. ASSUME NEW c \in Conts, DeletePublishRule(c) PROVE Balanced'
  <2>1. /\ pc[c] = "unpublish" /\ n[c] \in Nat /\ dirty' = dirty
        /\ chain' =
             [chain EXCEPT ![ChainAt(c)] = RemoveFirst(chain[ChainAt(c)], RuleAt(c))]
        /\ \A d \in Conts \ {c} : pc'[d] = pc[d] /\ n'[d] = n[d]
    BY <1>17, NextStepIs DEF DeletePublishRule, TypeOK, PC
  <2>2. /\ RuleAt(c) \in Rule /\ ChainAt(c) \in Range(Chains)
        /\ RuleAt(c) = RuleOf(c, n[c]) /\ ChainAt(c) = ChainOf(n[c])
        /\ RuleAt(c).tag = c
    BY <2>1, StepRule DEF Counters, RuleAt, ChainAt, RuleOf, ChainOf
  <2>3. Due(c)' = Due(c) \ {n[c]} /\ n[c] \in Due(c)
    BY <1>17, <2>1, NextStepIs, StepsNat DEF TypeOK, Counters, PC, Due,
       PublishSteps, DeletePublishRule
  <2>4. ASSUME NEW d \in Conts, Clean(d)', NEW k \in Range(Chains),
               NEW r \in Rule, r.tag = d
        PROVE  Copies(k, r)' = Cardinality(Installed(d, k, r)')
    <3>1. Copies(k, r)' = IF k = ChainAt(c) /\ r = RuleAt(c) /\ Copies(k, r) > 0
                            THEN Copies(k, r) - 1 ELSE Copies(k, r)
      <4> DEFINE l == ChainAt(c)
                 e == RuleAt(c)
      <4>1. /\ l \in Range(Chains) /\ e \in Rule
            /\ chain' = [chain EXCEPT ![l] = RemoveFirst(chain[l], e)]
        BY <2>1, <2>2
      <4> HIDE DEF l, e
      <4>2. Copies(k, r)' = IF k = l /\ r = e /\ Copies(k, r) > 0
                              THEN Copies(k, r) - 1 ELSE Copies(k, r)
        BY <4>1, CopiesRemove
      <4>3. QED
        BY <4>2 DEF l, e
    <3>2. Clean(d) /\ Copies(k, r) = Cardinality(Installed(d, k, r))
      <4>1. Clean(d)
        BY <2>1, <2>4 DEF Clean
      <4>2. QED
        BY <2>4, <4>1 DEF Balanced, Clean
    <3>3. CASE d # c
      <4>1. Installed(d, k, r)' = Installed(d, k, r)
        BY <2>1, <3>3 DEF Installed, Due, PublishSteps
      <4>2. QED
        BY <2>2, <2>4, <3>1, <3>2, <3>3, <4>1
    <3>4. CASE d = c /\ ~(k = ChainAt(c) /\ r = RuleAt(c))
      <4>1. Installed(d, k, r)' = Installed(d, k, r)
        BY <2>2, <2>3, <3>4 DEF Installed
      <4>2. QED
        BY <3>1, <3>2, <3>4, <4>1
    <3>5. CASE d = c /\ k = ChainAt(c) /\ r = RuleAt(c)
      <4>1. /\ Installed(d, k, r)' = Installed(d, k, r) \ {n[c]}
            /\ n[c] \in Installed(d, k, r)
        BY <2>2, <2>3, <3>5 DEF Installed
      <4>2. IsFiniteSet(Installed(d, k, r))
        BY InstalledFinite
      <4>3. /\ Cardinality(Installed(d, k, r)') =
                 Cardinality(Installed(d, k, r)) - 1
            /\ Cardinality(Installed(d, k, r)) > 0
        <5>1. Cardinality(Installed(d, k, r)) \in Nat
          BY <4>2, FS_CardinalityType
        <5>2. Cardinality(Installed(d, k, r)) # 0
          BY <4>1, <4>2, FS_EmptySet
        <5>3. QED
          <6>1. Cardinality(Installed(d, k, r) \ {n[c]}) =
                  Cardinality(Installed(d, k, r)) - 1
            BY <4>1, <4>2, FS_RemoveElement
          <6>2. QED
            BY <4>1, <5>1, <5>2, <6>1
      <4>4. QED
        BY <3>1, <3>2, <3>5, <4>1, <4>3
    <3>6. QED
      BY <3>3, <3>4, <3>5
  <2>5. QED
    BY <2>4 DEF Balanced, Clean
<1>18. ASSUME NEW c \in Conts, DeletePublishRuleFails(c) PROVE Balanced'
  <2>1. chain' = chain /\ \A d \in Conts : Clean(d)' => Clean(d)
    BY <1>18, NextStepIs DEF TypeOK, PC, Clean, bridge, DeletePublishRuleFails
  <2>2. ASSUME NEW d \in Conts, Clean(d)' PROVE Due(d)' = Due(d)
    BY <1>18, <2>2, NextStepIs DEF TypeOK, PC, Due, PublishSteps, Clean,
       DeletePublishRuleFails
  <2>3. QED
    BY <2>1, <2>2, BalancedKept
<1>19. ASSUME NEW c \in Conts, Crash(c) PROVE Balanced'
  <2>1. chain' = chain /\ \A d \in Conts : Clean(d)' => Clean(d)
    BY <1>19 DEF TypeOK, Clean, Goto, bridge, vars, Crash
  <2>2. ASSUME NEW d \in Conts, Clean(d)' PROVE Due(d)' = Due(d)
    BY <1>19, <2>2 DEF TypeOK, Counters, Due, PublishSteps, Clean, Goto,
       bridge, vars, Crash
  <2>3. QED
    BY <2>1, <2>2, BalancedKept
<1>20. CASE UNCHANGED vars
  <2>1. chain' = chain /\ \A d \in Conts : Clean(d)' => Clean(d)
    BY <1>20 DEF TypeOK, Clean, Goto, bridge, vars
  <2>2. ASSUME NEW d \in Conts, Clean(d)' PROVE Due(d)' = Due(d)
    BY <1>20, <2>2 DEF TypeOK, Counters, Due, PublishSteps, Clean, Goto,
       bridge, vars
  <2>3. QED
    BY <2>1, <2>2, BalancedKept
<1>21. QED
  BY <1>1, <1>2, <1>3, <1>4, <1>5, <1>6, <1>7, <1>8, <1>9, <1>10, <1>11,
     <1>12, <1>13, <1>14, <1>15, <1>16, <1>17, <1>18, <1>19, <1>20 DEF Next,
     EnsureBridge, AllOver


\* The inductive invariant holds in every behaviour.
THEOREM Invariance == Spec => []IInv
<1>1. Init => IInv
  <2>1. ASSUME Init PROVE TypeOK
    <3>1. \A k \in Range(Chains) : chain[k] = <<>> /\ <<>> \in Seq(Rule)
      BY <2>1, EmptySeq DEF Init
    <3>2. QED
      BY <2>1, <3>1 DEF Init, TypeOK, PC
  <2>2. ASSUME Init PROVE Counters
    BY <2>2 DEF Init, Counters
  <2>3. ASSUME Init PROVE Configured
    BY <2>3 DEF Init, Configured, Made, Raised, Routed, Done
  <2>4. ASSUME Init PROVE Single
    BY <2>4 DEF Init, Single
  <2>5. ASSUME Init PROVE Balanced
    <3>1. ASSUME NEW c \in Conts, NEW k \in Range(Chains), NEW r \in Rule
          PROVE  Copies(k, r) = Cardinality(Installed(c, k, r))
      <4>1. {i \in DOMAIN chain[k] : chain[k][i] = r} = {}
        <5>1. chain[k] = <<>> /\ DOMAIN <<>> = {}
          BY <2>5, EmptySeq DEF Init
        <5>2. QED
          BY <5>1
      <4>2. Installed(c, k, r) = {}
        BY <2>5 DEF Init, Installed, Due
      <4>3. QED
        BY <4>1, <4>2 DEF Copies
    <3>2. QED
      BY <3>1 DEF Balanced
  <2>6. QED
    BY <2>1, <2>2, <2>3, <2>4, <2>5 DEF IInv
<1>2. IInv /\ [Next]_vars => IInv'
  <2>1. SUFFICES ASSUME TypeOK, Counters, Configured, Single, Balanced,
                        [Next]_vars
                 PROVE  IInv'
    BY DEF IInv
  <2>2. TypeOK' /\ Counters'
    BY <2>1, TypeNext, CountersNext
  <2>3. Configured' /\ Single' /\ Balanced'
    BY <2>1, ConfiguredNext, SingleNext, BalancedNext
  <2>4. QED
    BY <2>2, <2>3 DEF IInv
<1>3. QED
  BY <1>1, <1>2, PTL DEF Spec

\* The variables keep their types; in particular no publish rule is built for
\* a mapping that the container does not have.
THEOREM TypeCorrect == Spec => []TypeOK
<1>1. IInv => TypeOK
  BY DEF IInv
<1>2. QED
  BY Invariance, <1>1, PTL

\* EnsureBridge returns nil only with the bridge, its address, ip_forward and
\* MASQUERADE in place, whoever of any number of invocations did the work and
\* whoever died on the way: the address can only lack while its creator is about
\* to assign it, or because a creator did not live to.
THEOREM Gateway == Spec => []GatewayUp
<1>1. IInv => GatewayUp
  BY DEF IInv, Configured, GatewayUp, Ensured, Made, Raised, Routed, Done
<1>2. QED
  BY Invariance, <1>1, PTL

\* The check before the append does keep rules single for any number of
\* invocations, as long as no check is overtaken and none fails.
THEOREM NotStacked == Spec => []HostRulesOnce
<1>1. IInv => HostRulesOnce
  BY DEF IInv, Single, HostRulesOnce
<1>2. QED
  BY Invariance, <1>1, PTL

\* Teardown, run to its end without a failed deletion, leaves no rule of its
\* container in any chain, whatever the other containers publish.
THEOREM NothingLeft == Spec => []NoRuleLeft
<1>1. ASSUME TypeOK, Balanced PROVE NoRuleLeft
  <2>1. SUFFICES ASSUME NEW c \in Conts, NEW k \in Range(Chains),
                        pc[c] = "gone", ~dirty[c], NEW i \in DOMAIN chain[k],
                        chain[k][i].tag = c
                 PROVE  FALSE
    BY DEF NoRuleLeft
  <2>2. chain[k] \in Seq(Rule) /\ DOMAIN chain[k] = 1..Len(chain[k])
    BY <1>1, LenProperties DEF TypeOK
  <2>3. PICK r \in Rule : r = chain[k][i]
    BY <2>2, ElementOfSeq
  <2>4. Copies(k, r) = Cardinality(Installed(c, k, r))
    BY <1>1, <2>1, <2>3 DEF Balanced
  <2>5. Installed(c, k, r) = {}
    BY <2>1 DEF Installed, Due
  <2>6. Cardinality(Positions(chain[k], r)) = 0
    BY <2>4, <2>5, FS_EmptySet DEF Copies, Positions
  <2>7. IsFiniteSet(Positions(chain[k], r))
    BY <2>2, PositionsFinite
  <2>8. Positions(chain[k], r) = {}
    BY <2>6, <2>7, FS_EmptySet
  <2>9. QED
    BY <2>3, <2>8 DEF Positions
<1>2. IInv => NoRuleLeft
  BY <1>1 DEF IInv
<1>3. QED
  BY Invariance, <1>2, PTL

(***************************************************************************)
(* What a step does to the chains.                                         *)
(***************************************************************************)

\* A step leaves the chains alone, or adds or deletes one rule of the container
\* that takes it, which a deletion does in Teardown only.
LEMMA ChainStep ==
  ASSUME TypeOK, Counters, [Next]_vars
  PROVE  \/ chain' = chain
         \/ \E c \in Conts, l \in Range(Chains), e \in Rule :
              /\ e.tag = c /\ (pc'[c] # pc[c] \/ n'[c] # n[c])
              /\ \/ chain' = [chain EXCEPT ![l] = Queued(chain[l], e)]
                 \/ /\ pc[c] = "unpublish"
                    /\ chain' = [chain EXCEPT ![l] = RemoveFirst(chain[l], e)]
<1>1. ASSUME NEW c \in Conts, EnsureBridge(c) \/ Wire(c) PROVE chain' = chain
  BY <1>1 DEF EnsureBridge, ShowLink, AddLink, AddLinkFails, AddAddr,
     AddAddrFails,
              LinkUp, EnableForward, EnableFails, RuleFound, RuleNotFound,
              AppendRule, AppendRuleFails, Wire
<1>2. ASSUME NEW c \in Conts,
             \/ AddPublishRuleFails(c) \/ StartTeardown(c)
             \/ DeletePublishRuleFails(c) \/ Crash(c)
      PROVE  chain' = chain
  BY <1>2 DEF AddPublishRuleFails, StartTeardown, DeletePublishRuleFails, Crash
<1>3. ASSUME NEW c \in Conts, AddPublishRule(c) \/ DeletePublishRule(c)
      PROVE  /\ RuleAt(c) \in Rule /\ ChainAt(c) \in Range(Chains)
             /\ RuleAt(c).tag = c /\ (pc'[c] # pc[c] \/ n'[c] # n[c])
  <2>1. /\ pc[c] \in {"publish", "unpublish"} /\ n[c] \in Nat
        /\ pc'[c] # pc[c] \/ n'[c] # n[c]
    <3>1. CASE AddPublishRule(c)
      <4>1. NextStep(c, "publish", "up")
        BY <3>1 DEF AddPublishRule
      <4>2. QED
        BY <4>1, NextStepIs DEF TypeOK, PC
    <3>2. CASE DeletePublishRule(c)
      BY <3>2, NextStepIs DEF TypeOK, PC, DeletePublishRule
    <3>3. QED
      BY <1>3, <3>1, <3>2
  <2>2. QED
    BY <2>1, StepRule DEF Counters, RuleAt, ChainAt, RuleOf, ChainOf
<1>4. ASSUME NEW c \in Conts, AddPublishRule(c)
      PROVE  chain' =
               [chain EXCEPT ![ChainAt(c)] = Queued(chain[ChainAt(c)], RuleAt(c))]
  BY <1>4 DEF AddPublishRule, Queued
<1>5. ASSUME NEW c \in Conts, DeletePublishRule(c)
      PROVE  /\ pc[c] = "unpublish"
             /\ chain' =
                  [chain EXCEPT ![ChainAt(c)] = RemoveFirst(chain[ChainAt(c)], RuleAt(c))]
  BY <1>5, NextStepIs DEF DeletePublishRule, PC
<1>6. CASE UNCHANGED vars
  BY <1>6 DEF vars
<1>7. QED
  BY <1>1, <1>2, <1>3, <1>4, <1>5, <1>6 DEF Next, AllOver

\* Only the container that a rule is tagged with adds or removes copies of it,
\* colliding addresses and ports included.
THEOREM OwnRules == Spec => RulesOwn
<1>1. ASSUME TypeOK, Counters, [Next]_vars
      PROVE  \A k \in Range(Chains), r \in Rule :
               Copies(k, r)' # Copies(k, r)
                 => n'[r.tag] # n[r.tag] \/ pc'[r.tag] # pc[r.tag]
  <2>1. CASE chain' = chain
    BY <2>1 DEF Copies
  <2>2. ASSUME NEW c \in Conts, NEW l \in Range(Chains), NEW e \in Rule,
               e.tag = c, pc'[c] # pc[c] \/ n'[c] # n[c],
               chain' = [chain EXCEPT ![l] = Queued(chain[l], e)],
               NEW k \in Range(Chains), NEW r \in Rule,
               Copies(k, r)' # Copies(k, r)
        PROVE  n'[r.tag] # n[r.tag] \/ pc'[r.tag] # pc[r.tag]
    <3>1. r = e
      BY <1>1, <2>2, CopiesAppend
    <3>2. QED
      BY <2>2, <3>1
  <2>3. ASSUME NEW c \in Conts, NEW l \in Range(Chains), NEW e \in Rule,
               e.tag = c, pc'[c] # pc[c] \/ n'[c] # n[c],
               chain' = [chain EXCEPT ![l] = RemoveFirst(chain[l], e)],
               NEW k \in Range(Chains), NEW r \in Rule,
               Copies(k, r)' # Copies(k, r)
        PROVE  n'[r.tag] # n[r.tag] \/ pc'[r.tag] # pc[r.tag]
    <3>1. r = e
      BY <1>1, <2>3, CopiesRemove
    <3>2. QED
      BY <2>3, <3>1
  <2>4. QED
    BY <1>1, <2>1, <2>2, <2>3, ChainStep
<1>2. IInv => TypeOK /\ Counters
  BY DEF IInv
<1>3. QED
  BY Invariance, <1>1, <1>2, PTL DEF Spec, RulesOwn

\* The rule at position m is the first for port h.
LeadsTo(s, h, m) ==
  m \in 1..Len(s) /\ s[m].port = h /\ \A j \in 1..m - 1 : s[j].port # h

\* Holder, of a chain given as a sequence.
FirstTag(s, h) ==
  LET i == SelectInSeq(s, LAMBDA r : r.port = h)
  IN  IF i = 0 THEN NoCont ELSE s[i].tag

\* The container of the first rule for a port gets its traffic.
LEMMA FirstTagIs ==
  ASSUME NEW s \in Seq(Rule), NEW h, NEW m, LeadsTo(s, h, m)
  PROVE  FirstTag(s, h) = s[m].tag
<1> DEFINE I == {i \in 1..Len(s) : s[i].port = h}
<1>1. I \in SUBSET Nat /\ m \in I /\ m \in Nat
  BY LenProperties DEF LeadsTo
<1>2. \A y \in I : m <= y
  BY <1>1 DEF LeadsTo
<1>3. FirstTag(s, h) = LET i == IF I # {} THEN Min(I) ELSE 0
                       IN  IF i = 0 THEN NoCont ELSE s[i].tag
  BY DEF FirstTag, SelectInSeq
<1>4. m # 0
  BY DEF LeadsTo
<1> HIDE DEF I
<1>5. Min(I) \in I /\ \A y \in I : Min(I) <= y
  BY <1>1, LeastOf
<1>6. Min(I) = m
  <2>1. Min(I) \in Nat /\ m <= Min(I) /\ Min(I) <= m
    BY <1>1, <1>2, <1>5
  <2>2. QED
    BY <1>1, <2>1
<1>7. QED
  BY <1>1, <1>3, <1>4, <1>6

\* Where somebody gets the traffic there is a first rule for the port.
LEMMA FirstTagLeads ==
  ASSUME NEW s \in Seq(Rule), NEW h, FirstTag(s, h) # NoCont
  PROVE  \E m \in Nat : LeadsTo(s, h, m)
<1> DEFINE I == {i \in 1..Len(s) : s[i].port = h}
<1>1. FirstTag(s, h) = LET i == IF I # {} THEN Min(I) ELSE 0
                       IN  IF i = 0 THEN NoCont ELSE s[i].tag
  BY DEF FirstTag, SelectInSeq
<1>2. I \in SUBSET Nat /\ I # {}
  BY <1>1, LenProperties
<1>3. Min(I) \in I /\ \A y \in I : Min(I) <= y
  <2> HIDE DEF I
  <2>1. QED
    BY <1>2, LeastOf
<1> DEFINE m == Min(I)
<1> HIDE DEF m
<1>4. m \in I /\ \A y \in I : m <= y
  BY <1>3 DEF m
<1>5. LeadsTo(s, h, m) /\ m \in Nat
  BY <1>4, LenProperties DEF LeadsTo
<1>6. QED
  BY <1>5

\* A rule added behind does not take the traffic away.
LEMMA FirstTagQueued ==
  ASSUME NEW s \in Seq(Rule), NEW e \in Rule, NEW h, FirstTag(s, h) # NoCont
  PROVE  FirstTag(Queued(s, e), h) = FirstTag(s, h)
<1>1. PICK m \in Nat : LeadsTo(s, h, m)
  BY FirstTagLeads
<1>2. /\ Queued(s, e) \in Seq(Rule) /\ Len(Queued(s, e)) = Len(s) + 1
      /\ \A i \in 1..Len(s) : Queued(s, e)[i] = s[i]
      /\ Len(s) \in Nat
  BY AppendProperties, LenProperties DEF Queued
<1>3. LeadsTo(Queued(s, e), h, m) /\ Queued(s, e)[m] = s[m]
  BY <1>1, <1>2 DEF LeadsTo
<1>4. QED
  BY <1>1, <1>2, <1>3, FirstTagIs

\* Nor does the deletion of a rule of somebody else.
LEMMA FirstTagRemoved ==
  ASSUME NEW s \in Seq(Rule), NEW e \in Rule, NEW h, FirstTag(s, h) # NoCont,
         FirstTag(s, h) # e.tag
  PROVE  FirstTag(RemoveFirst(s, e), h) = FirstTag(s, h)
<1>1. CASE ~Occurs(s, e)
  BY <1>1 DEF Occurs, RemoveFirst
<1>2. CASE Occurs(s, e)
  <2> DEFINE t == RemoveFirst(s, e)
  <2>1. t \in Seq(Rule) /\ \E i \in 1..Len(s) : WithoutFirst(s, e, i, t)
    BY <1>2, RemoveFirstIs
  <2> HIDE DEF t
  <2>2. PICK i \in 1..Len(s) : WithoutFirst(s, e, i, t)
    BY <2>1
  <2>3. PICK m \in Nat : LeadsTo(s, h, m)
    BY FirstTagLeads
  <2>4. FirstTag(s, h) = s[m].tag /\ Len(s) \in Nat
    BY <2>3, FirstTagIs, LenProperties
  <2>5. i # m
    BY <2>2, <2>4 DEF WithoutFirst
  <2>6. CASE m < i
    <3>1. LeadsTo(t, h, m) /\ t[m] = s[m]
      BY <2>2, <2>3, <2>4, <2>6 DEF WithoutFirst, LeadsTo
    <3>2. QED
      BY <2>1, <2>4, <3>1, FirstTagIs DEF t
  <2>7. CASE i < m
    <3>1. m - 1 \in 1..Len(s) - 1 /\ ~(m - 1 < i) /\ (m - 1) + 1 = m
      BY <2>3, <2>4, <2>7 DEF LeadsTo
    <3>2. t[m - 1] = s[m] /\ Len(t) = Len(s) - 1
      BY <2>2, <3>1 DEF WithoutFirst
    <3>3. ASSUME NEW j \in 1..(m - 1) - 1 PROVE t[j].port # h
      BY <2>2, <2>3, <2>4 DEF WithoutFirst, LeadsTo
    <3>4. LeadsTo(t, h, m - 1)
      BY <2>3, <3>1, <3>2, <3>3 DEF LeadsTo
    <3>5. QED
      BY <2>1, <2>4, <3>2, <3>4, FirstTagIs DEF t
  <2>8. QED
    BY <2>2, <2>3, <2>5, <2>6, <2>7
<1>3. QED
  BY <1>1, <1>2

\* A container that receives the traffic of a port keeps it until its Teardown,
\* whatever others publish or take away.
THEOREM HolderKeeps == Spec => PortHolderKeeps
<1>1. ASSUME TypeOK, Counters, [Next]_vars
      PROVE  \A h \in HostPorts, k \in {"PREROUTING", "OUTPUT"} :
               LET c == Holder(k, h)
               IN  c # NoCont /\ pc[c] # "unpublish" => Holder(k, h)' = c
  <2>1. SUFFICES ASSUME NEW h \in HostPorts, NEW k \in {"PREROUTING", "OUTPUT"},
                        Holder(k, h) # NoCont, pc[Holder(k, h)] # "unpublish"
                 PROVE  Holder(k, h)' = Holder(k, h)
    OBVIOUS
  <2>2. /\ Holder(k, h) = FirstTag(chain[k], h)
        /\ Holder(k, h)' = FirstTag(chain'[k], h)
    BY DEF Holder, FirstTag, SelectInSeq
  <2>3. k \in Range(Chains)
    BY DEF Chains, Range
  <2>4. chain \in [Range(Chains) -> Seq(Rule)] /\ chain[k] \in Seq(Rule)
    BY <1>1, <2>3 DEF TypeOK
  <2>5. CASE chain' = chain
    BY <2>2, <2>5
  <2>6. ASSUME NEW c \in Conts, NEW l \in Range(Chains), NEW e \in Rule, e.tag = c,
               \/ chain' = [chain EXCEPT ![l] = Queued(chain[l], e)]
               \/ /\ pc[c] = "unpublish"
                  /\ chain' = [chain EXCEPT ![l] = RemoveFirst(chain[l], e)]
        PROVE  Holder(k, h)' = Holder(k, h)
    <3>1. CASE k # l
      <4>1. chain'[k] = chain[k]
        BY <2>3, <2>4, <2>6, <3>1
      <4>2. QED
        BY <2>2, <4>1
    <3>2. CASE k = l /\ chain'[k] = Queued(chain[k], e)
      BY <2>1, <2>2, <2>4, <3>2, FirstTagQueued
    <3>3. CASE k = l /\ pc[c] = "unpublish" /\ chain'[k] = RemoveFirst(chain[k], e)
      <4>1. FirstTag(chain[k], h) # NoCont /\ FirstTag(chain[k], h) # e.tag
        BY <2>1, <2>2, <2>6, <3>3
      <4>2. QED
        BY <2>2, <2>4, <3>3, <4>1, FirstTagRemoved
    <3>4. QED
      BY <2>4, <2>6, <3>1, <3>2, <3>3
  <2>7. QED
    BY <1>1, <2>5, <2>6, ChainStep
<1>2. IInv => TypeOK /\ Counters
  BY DEF IInv
<1>3. QED
  BY Invariance, <1>1, <1>2, PTL DEF Spec, PortHolderKeeps
=============================================================================
