------------------------- MODULE MCRunConfiguration -------------------------
(* Inputs of RunConfiguration for TLC.  Fields that the code never reads     *)
(* together are varied one group at a time.  An int64 has 8 bits here, K, M  *)
(* and G shift by 2, 4 and 6, ports go up to 3.                              *)
EXTENDS RunConfiguration

Shifts == [B |-> 1, K |-> 4, M |-> 16, G |-> 64]

NoMemory == [given |-> FALSE, numeric |-> TRUE, n |-> 0, unit |-> "B"]
Size(n, u) == [given |-> TRUE, numeric |-> TRUE, n |-> n, unit |-> u]
Garbage == [given |-> TRUE, numeric |-> FALSE, n |-> 0, unit |-> "B"]

Plain == [memory |-> NoMemory, set |-> {}, cpu |-> 0, pids |-> 0, publish |-> {},
          rootless |-> FALSE, noSeccomp |-> FALSE,
          positional |-> <<"dir", "sh">>]

Ports == {[host |-> h, cont |-> 1, proto |-> "tcp"] : h \in {-1, 0, 1, 3, 4}}
           \cup {[host |-> 2, cont |-> c, proto |-> "udp"] : c \in {0, 3, 4}}
           \cup {[host |-> 1, cont |-> 1, proto |-> "sctp"]}

\* A flag that is not given, beside one that is: the value 0 is tried as both.
Numbers(flag, values) == {<<{}, 0>>} \cup {<<{flag}, n>> : n \in values}
Switch(flag) == {<<{}, FALSE>>, <<{flag}, FALSE>>, <<{flag}, TRUE>>}

SomeCommandLines ==
  {[Plain EXCEPT !.memory = m] :
     m \in {Garbage, Size(0, "G"), Size(5, "K"), Size(7, "M"), Size(2, "G"),
            Size(4, "G"), Size(3, "G"), Size(-1, "B")}}
  \cup
  {[Plain EXCEPT !.memory = m, !.set = c[1] \cup p[1], !.cpu = c[2], !.pids = p[2]] :
     m \in {NoMemory, Size(5, "K")}, c \in Numbers("cpu", {-1, 0, 1, 500}),
     p \in Numbers("pids", {-1, 0, 9})}
  \cup
  {[Plain EXCEPT !.set = r[1], !.rootless = r[2], !.noSeccomp = n, !.positional = a] :
     r \in Switch("rootless"), n \in BOOLEAN,
     a \in {<<>>, <<"dir">>, <<"", "sh">>, <<"dir", "sh">>,
            <<"dir", "sh", "-c">>, <<"dir", "">>, <<"dir", "", "-c">>}}
  \cup {[Plain EXCEPT !.publish = {m}] : m \in Ports}

Minimal == [given |-> TRUE, readable |-> TRUE, version |-> TRUE,
            root |-> "bundle", args |-> <<"init">>, has |-> {},
            memory |-> 0, quota |-> 0, period |-> 0, pids |-> 0]

SomeSpecs ==
  {[Minimal EXCEPT !.given = FALSE], [Minimal EXCEPT !.readable = FALSE],
   [Minimal EXCEPT !.version = FALSE], [Minimal EXCEPT !.root = ""]}
  \cup
  {[Minimal EXCEPT !.args = a, !.has = h] :
     a \in {<<>>, <<"">>, <<"init">>, <<"init", "-v">>}, h \in {{}, {"seccomp"}}}
  \cup
  {[Minimal EXCEPT !.has = h] : h \in SUBSET {"user", "uidMap", "gidMap"}}
  \cup
  {[Minimal EXCEPT !.has = {"memory", "cpu", "pids"}, !.memory = m,
      !.quota = q[1], !.period = q[2], !.pids = p] :
     m \in {-1, 0, 11}, q \in {<<-1, 0>>, <<0, 0>>, <<1, 5000>>, <<50, 0>>},
     p \in {-1, 4}}

SomeHosts ==
  {[root |-> r, cloneSysctl |-> c[1], maxUserns |-> c[2]] :
     r \in BOOLEAN, c \in {<<"missing", "1">>, <<"0", "1">>, <<"1", "0">>}}

\* For ExplicitFlagsWin: a flag, and a spec that says the contrary.
DebugLines == {[Plain EXCEPT !.noSeccomp = n] : n \in BOOLEAN}
DebugSpecs == {[Minimal EXCEPT !.has = h] : h \in {{}, {"seccomp"}}}
=============================================================================
