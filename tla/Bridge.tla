------------------------------- MODULE Bridge -------------------------------
(***************************************************************************)
(* package network: concurrent Setup and Teardown on the one bridge, the   *)
(* one MASQUERADE rule and the iptables chains that all invocations of     *)
(* `myrun run` share.  EnsureBridge looks before it creates, and every     *)
(* look and every creation is a command of its own: other invocations come *)
(* in between.                                                             *)
(*                                                                         *)
(* Simplifications: the veth pair and the netns, which no other invocation *)
(* touches, are one step (they are steps of ContainerRun); a rule is the   *)
(* container its comment names, the host port and the address it leads to  *)
(* (protocols and the container's ports, which tell no more rules apart    *)
(* here, are left out); -A appends a rule to a chain, -D removes the first *)
(* equal one.                                                              *)
(***************************************************************************)
EXTENDS Naturals, SequencesExt

CONSTANTS
  Conts,      \* containers: invocations of Setup and, later, Teardown
  HostPorts,  \* ports of the host that can be published
  Addresses,  \* the addresses 10.44.0.2 - 10.44.0.254
  Addr,       \* ipFromID: the address of each container, collisions included
  Publish,    \* PortMappings of each container: the host ports, in order
  NoCont      \* nobody

ASSUME BridgeAssumption ==
  /\ Addr \in [Conts -> Addresses]
  /\ Publish \in [Conts -> Seq(HostPorts)]
  /\ NoCont \notin Conts

VARIABLES
  pc,       \* where the invocation is in Setup, or in Teardown
  n,        \* host rules looked after, or publish rules handled, so far
  link,     \* the link myrun0 exists
  addr,     \* 10.44.0.1/24 is assigned to it
  up,       \* it is up
  forward,  \* net.ipv4.ip_forward
  host,     \* how many copies of each of the host's rules are installed
  chain,    \* the publish rules in each chain
  dirty,    \* a deletion of Teardown failed, unnoticed
  halfMade, \* history: a creator did not get from `link add` to `addr add`
  doubled   \* history: a rule was added by somebody who overlooked another

bridge == <<link, addr, up, forward, host>>
vars == <<pc, n, bridge, chain, dirty, halfMade, doubled>>

\* The rules EnsureBridge installs unless -C finds them, in this order.
HostRules == <<"masquerade", "in", "out">>

\* The chains addPublishRules appends to, in this order.
Chains == <<"PREROUTING", "OUTPUT", "FORWARD">>

Rule == [tag : Conts, port : HostPorts, to : Addresses]

PC == {"show", "add", "addr", "linkup", "forward", "check", "append", "wire",
       "publish", "up", "unpublish", "gone", "failed", "crashed"}

TypeOK ==
  /\ pc \in [Conts -> PC]
  /\ n \in [Conts -> Nat]
  /\ link \in BOOLEAN /\ addr \in BOOLEAN /\ up \in BOOLEAN
  /\ forward \in BOOLEAN
  /\ host \in [Range(HostRules) -> Nat]
  /\ chain \in [Range(Chains) -> Seq(Rule)]
  /\ dirty \in [Conts -> BOOLEAN]
  /\ halfMade \in BOOLEAN /\ doubled \in BOOLEAN

Init ==
  /\ pc = [c \in Conts |-> "show"]
  /\ n = [c \in Conts |-> 0]
  /\ link = FALSE /\ addr = FALSE /\ up = FALSE /\ forward \in BOOLEAN
  /\ host = [k \in Range(HostRules) |-> 0]
  /\ chain = [k \in Range(Chains) |-> <<>>]
  /\ dirty = [c \in Conts |-> FALSE]
  /\ halfMade = FALSE /\ doubled = FALSE

(***************************************************************************)
(* Helpers.                                                                *)
(***************************************************************************)
Goto(c, a, b) == pc[c] = a /\ pc' = [pc EXCEPT ![c] = b]

\* The host rule c looks after.
Wanted(c) == HostRules[n[c] + 1]

\* After a host rule comes the next one, then the container's own link.
NextRule(c, a) ==
  IF n[c] + 1 < Len(HostRules)
    THEN Goto(c, a, "check") /\ n' = [n EXCEPT ![c] = @ + 1]
    ELSE Goto(c, a, "wire") /\ n' = [n EXCEPT ![c] = 0]

\* Three rules for each mapping, which addPublishRules and delPublishRules
\* go through in the same order.
PublishSteps(c) == Len(Chains) * Len(Publish[c])
ChainAt(c) == Chains[(n[c] % Len(Chains)) + 1]

\* Mutant: the comment of a rule lacks the id.
RuleAtUntagged(c) ==
  [tag |-> NoCont, port |-> Publish[c][(n[c] \div Len(Chains)) + 1],
   to |-> Addr[c]]

RuleAt(c) == [tag |-> c, port |-> Publish[c][(n[c] \div Len(Chains)) + 1],
              to |-> Addr[c]]

NextStep(c, a, b) ==
  IF n[c] + 1 < PublishSteps(c)
    THEN Goto(c, a, a) /\ n' = [n EXCEPT ![c] = @ + 1]
    ELSE Goto(c, a, b) /\ n' = [n EXCEPT ![c] = 0]

(***************************************************************************)
(* EnsureBridge.                                                           *)
(***************************************************************************)

\* Mutant: a bridge that exists is taken to be configured.
ShowLinkTrusting(c) ==
  /\ \/ link /\ Goto(c, "show", "wire")
     \/ Goto(c, "show", "add")
  /\ UNCHANGED <<n, bridge, chain, dirty, halfMade, doubled>>

\* `ip link show`: the bridge is there, or, also when the command itself
\* fails, it has to be created.
ShowLink(c) ==
  /\ \/ link /\ Goto(c, "show", "linkup")
     \/ Goto(c, "show", "add")
  /\ UNCHANGED <<n, bridge, chain, dirty, halfMade, doubled>>

AddLink(c) ==
  /\ ~link /\ link' = TRUE
  /\ Goto(c, "add", "addr")
  /\ UNCHANGED <<n, addr, up, forward, host, chain, dirty, halfMade, doubled>>

\* Also when another invocation created it meanwhile.
AddLinkFails(c) ==
  /\ Goto(c, "add", "failed")
  /\ UNCHANGED <<n, bridge, chain, dirty, halfMade, doubled>>

AddAddr(c) ==
  /\ addr' = TRUE
  /\ Goto(c, "addr", "linkup")
  /\ UNCHANGED <<n, link, up, forward, host, chain, dirty, halfMade, doubled>>

\* The link stays, without an address, and nobody adds it any more.
AddAddrFails(c) ==
  /\ Goto(c, "addr", "failed")
  /\ halfMade' = TRUE
  /\ UNCHANGED <<n, bridge, chain, dirty, doubled>>

LinkUp(c) ==
  /\ up' = TRUE
  /\ Goto(c, "linkup", "forward")
  /\ UNCHANGED <<n, link, addr, forward, host, chain, dirty, halfMade, doubled>>

EnableForward(c) ==
  /\ forward' = TRUE
  /\ Goto(c, "forward", "check")
  /\ UNCHANGED <<n, link, addr, up, host, chain, dirty, halfMade, doubled>>

\* `ip link set up` or the write to ip_forward fails.
EnableFails(c) ==
  /\ Goto(c, "linkup", "failed") \/ Goto(c, "forward", "failed")
  /\ UNCHANGED <<n, bridge, chain, dirty, halfMade, doubled>>

\* Mutant: the rule is appended whether it is there or not.
RuleFoundIgnored(c) ==
  /\ Goto(c, "check", "append") /\ host[Wanted(c)] > 0
  /\ UNCHANGED <<n, bridge, chain, dirty, halfMade, doubled>>

\* `iptables -C` finds the rule.
RuleFound(c) ==
  /\ NextRule(c, "check")
  /\ host[Wanted(c)] > 0
  /\ UNCHANGED <<bridge, chain, dirty, halfMade, doubled>>

\* `iptables -C` does not find it, or fails (the lock of the tables is
\* taken), which EnsureBridge takes for the same answer.  It is overlooking
\* a rule if there is one, or if another invocation is about to add it.
RuleNotFound(c) ==
  /\ Goto(c, "check", "append")
  /\ doubled' = (doubled \/ host[Wanted(c)] > 0
                  \/ \E d \in Conts \ {c} :
                       pc[d] = "append" /\ Wanted(d) = Wanted(c))
  /\ UNCHANGED <<n, bridge, chain, dirty, halfMade>>

AppendRule(c) ==
  /\ NextRule(c, "append")
  /\ host' = [host EXCEPT ![Wanted(c)] = @ + 1]
  /\ UNCHANGED <<link, addr, up, forward, chain, dirty, halfMade, doubled>>

\* Without the MASQUERADE rule Setup fails; the ACCEPT rules are optional.
AppendRuleFails(c) ==
  /\ pc[c] = "append"
  /\ IF Wanted(c) = "masquerade"
       THEN Goto(c, "append", "failed") /\ UNCHANGED n
       ELSE NextRule(c, "append")
  /\ UNCHANGED <<bridge, chain, dirty, halfMade, doubled>>

EnsureBridge(c) ==
  \/ ShowLink(c) \/ AddLink(c) \/ AddLinkFails(c) \/ AddAddr(c)
  \/ AddAddrFails(c) \/ LinkUp(c) \/ EnableForward(c) \/ EnableFails(c)
  \/ RuleFound(c) \/ RuleNotFound(c) \/ AppendRule(c) \/ AppendRuleFails(c)

(***************************************************************************)
(* The rest of Setup, and Teardown.                                        *)
(***************************************************************************)

\* The veth pair, its address and route in the netns: Setup goes on to the
\* ports or returns, or deletes the pair again and fails.
Wire(c) ==
  /\ \/ Goto(c, "wire", IF Publish[c] = <<>> THEN "up" ELSE "publish")
     \/ Goto(c, "wire", "failed")
  /\ UNCHANGED <<n, bridge, chain, dirty, halfMade, doubled>>

\* Mutant: rules are inserted at the head of the chain.
InsertPublishRule(c) ==
  /\ NextStep(c, "publish", "up")
  /\ chain' = [chain EXCEPT ![ChainAt(c)] = <<RuleAt(c)>> \o @]
  /\ UNCHANGED <<bridge, dirty, halfMade, doubled>>

\* `iptables -A`: one rule of addPublishRules.
AddPublishRule(c) ==
  /\ NextStep(c, "publish", "up")
  /\ chain' = [chain EXCEPT ![ChainAt(c)] = Append(@, RuleAt(c))]
  /\ UNCHANGED <<bridge, dirty, halfMade, doubled>>

\* Setup fails; the rules installed so far stay.
AddPublishRuleFails(c) ==
  /\ Goto(c, "publish", "failed")
  /\ UNCHANGED <<n, bridge, chain, dirty, halfMade, doubled>>

\* The container has exited: Teardown starts.
StartTeardown(c) ==
  /\ Goto(c, "up", IF Publish[c] = <<>> THEN "gone" ELSE "unpublish")
  /\ UNCHANGED <<n, bridge, chain, dirty, halfMade, doubled>>

\* Mutant: the rule is deleted without its comment.
DeletePublishRuleUntagged(c) ==
  LET same(r) == r.port = RuleAt(c).port /\ r.to = Addr[c]
  IN  /\ NextStep(c, "unpublish", "gone")
      /\ chain' = [chain EXCEPT ![ChainAt(c)] = RemoveFirstMatch(@, same)]
      /\ UNCHANGED <<bridge, dirty, halfMade, doubled>>

\* Mutant: a mapping listed twice is deleted once.
DeletePublishRuleOnce(c) ==
  /\ NextStep(c, "unpublish", "gone")
  /\ chain' = IF \E i \in 1..(n[c] \div Len(Chains)) :
                   Publish[c][i] = RuleAt(c).port
                THEN chain
                ELSE [chain EXCEPT ![ChainAt(c)] = RemoveFirst(@, RuleAt(c))]
  /\ UNCHANGED <<bridge, dirty, halfMade, doubled>>

\* `iptables -D`, matched by the whole rule, comment included.
DeletePublishRule(c) ==
  /\ NextStep(c, "unpublish", "gone")
  /\ chain' = [chain EXCEPT ![ChainAt(c)] = RemoveFirst(@, RuleAt(c))]
  /\ UNCHANGED <<bridge, dirty, halfMade, doubled>>

\* The result of the deletion is dropped.
DeletePublishRuleFails(c) ==
  /\ NextStep(c, "unpublish", "gone")
  /\ dirty' = [dirty EXCEPT ![c] = TRUE]
  /\ UNCHANGED <<bridge, chain, halfMade, doubled>>

\* The invocation is killed, at any point.
Crash(c) ==
  /\ pc[c] \notin {"gone", "failed", "crashed"}
  /\ pc' = [pc EXCEPT ![c] = "crashed"]
  /\ halfMade' = (halfMade \/ pc[c] = "addr")
  /\ UNCHANGED <<n, bridge, chain, dirty, doubled>>

\* Everybody is done.
AllOver ==
  /\ \A c \in Conts : pc[c] \in {"gone", "failed", "crashed"}
  /\ UNCHANGED vars

Next ==
  \/ \E c \in Conts :
       \/ EnsureBridge(c) \/ Wire(c) \/ AddPublishRule(c)
       \/ AddPublishRuleFails(c) \/ StartTeardown(c) \/ DeletePublishRule(c)
       \/ DeletePublishRuleFails(c) \/ Crash(c)
  \/ AllOver

Spec == Init /\ [][Next]_vars

(***************************************************************************)
(* Properties.                                                             *)
(***************************************************************************)

\* EnsureBridge has returned nil to c.
Ensured(c) == pc[c] \in {"wire", "publish", "up", "unpublish"}

\* "makes sure it is up with the expected IP, ip_forward is on, and the
\* MASQUERADE rule for our subnet is installed", whoever created the bridge:
\* what every container's default route relies on.  Two things can spoil
\* the address: its creator is not there yet, or never gets there.
GatewayUp ==
  \A c \in Conts : Ensured(c) =>
    /\ link /\ up /\ forward /\ host["masquerade"] > 0
    /\ addr \/ halfMade \/ \E d \in Conts : pc[d] = "addr"

\* "We use -C (check) first so repeated runs don't stack duplicate rules":
\* they do not, unless the check of one run falls between the check and the
\* append of another, or fails itself.
HostRulesOnce == ~doubled => \A k \in Range(HostRules) : host[k] <= 1

\* The container that gets the traffic to port h through chain k: the one whose
\* rule comes first.
Holder(k, h) ==
  LET i == SelectInSeq(chain[k], LAMBDA r : r.port = h)
  IN  IF i = 0 THEN NoCont ELSE chain[k][i].tag

\* Nothing checks that a port is free, but a container that receives a
\* port's traffic keeps it until it is torn down: whoever publishes the same
\* port later queues up behind it, in each chain.
PortHolderKeeps ==
  [][\A h \in HostPorts, k \in {"PREROUTING", "OUTPUT"} :
       LET c == Holder(k, h)
       IN  c # NoCont /\ pc[c] # "unpublish"
             => Holder(k, h)' = c]_vars

\* How often a rule is in a chain.
Copies(k, r) == Cardinality({i \in DOMAIN chain[k] : chain[k][i] = r})

\* "Teardown can find and remove exactly its own rules": only a step of the
\* container that a rule is tagged with adds a copy of it or takes one away,
\* also when another container hashes to its address and publishes its port.
RulesOwn ==
  [][\A k \in Range(Chains), r \in Rule :
       Copies(k, r)' # Copies(k, r)
         => n'[r.tag] # n[r.tag] \/ pc'[r.tag] # pc[r.tag]]_vars

\* A torn down container has left no rule, also when it published a port
\* twice, unless a deletion failed.
NoRuleLeft ==
  \A c \in Conts, k \in Range(Chains) :
    pc[c] = "gone" /\ ~dirty[c] => \A i \in DOMAIN chain[k] : chain[k][i].tag # c
=============================================================================
