-------------------------- MODULE LayerStackProofs --------------------------
(***************************************************************************)
(* RepullRepairs and StackShowsImage for any names, entries, archives and  *)
(* number of layers, and for pulls that are stopped and repeated any       *)
(* number of times.  At every moment a layer's directory is a part of what *)
(* its archive says, some of its files torn (Partial); behind the entry    *)
(* that the pull has reached nothing is missing and nothing torn           *)
(* (Extracted).  A name is locked because of an entry of the archive       *)
(* (LockedBy), and the first pull meets only what it has made itself       *)
(* (Only), which is why modes stop none but the pulls of RepullRepairs.    *)
(* What the image of several layers is, is shown layer by layer (Made), by *)
(* induction over a set of naturals (AllNaturals).                         *)
(***************************************************************************)
EXTENDS LayerStack, SequenceTheorems, FiniteSetTheorems, TLAPS

Nodes == {"dir", "file", "torn", "symlink"}

\* What an entry makes at its name: a hard link is a file.
KindOf(e) == IF e.kind = "link" THEN "file" ELSE e.kind

\* The tree t is a part of what the archive a holds.
Partial(a, t) ==
  /\ t \in [DOMAIN t -> Nodes]
  /\ DOMAIN t \subseteq DOMAIN Contents(a)
  /\ \A p \in DOMAIN t :
       t[p] = Contents(a)[p] \/ (t[p] = "torn" /\ Contents(a)[p] = "file")

\* The first n entries of a are in t as the archive has them.
Extracted(a, t, n) ==
  \A i \in 1..n : a[i].kind \in Adding =>
    \A p \in Names(a[i]) : p \in DOMAIN t /\ t[p] = Contents(a)[p]

\* The locked names S of the tree t are those of read-only files and
\* directories of a, and of hard links.
LockedBy(a, t, S) ==
  /\ S \subseteq DOMAIN t
  /\ \A p \in S : \E i \in 1..Len(a) :
       /\ a[i].path = p
       /\ a[i].kind = "link" \/ (a[i].kind \in {"dir", "file"} /\ a[i].mode = "ro")

\* The tree t has only what the first n entries of a have added.
Only(a, t, n) ==
  \A p \in DOMAIN t : \E i \in 1..n : a[i].kind \in Adding /\ p \in Names(a[i])

(***************************************************************************)
(* The inductive invariant.                                                *)
(***************************************************************************)

Shape ==
  /\ archive \in [1..Layers -> Seq(Entries)]
  /\ \A l \in 1..Layers : Tidy(archive[l])
  /\ phase \in {"extract", "stopped", "conflict", "done"}
  /\ layer \in 1..Layers
  /\ at \in 0..Len(archive[layer])
  /\ DOMAIN tree = 1..Layers /\ DOMAIN locked = 1..Layers
  /\ root \in BOOLEAN
  /\ pulls \in Nat \ {0}

Parts ==
  \A l \in 1..Layers :
    Partial(archive[l], tree[l]) /\ LockedBy(archive[l], tree[l], locked[l])

Reached ==
  phase = "extract" /\ (root \/ Linkable(archive[layer]))
    => Extracted(archive[layer], tree[layer], at)

\* The first pull meets nothing that it has not made itself.
FirstPull ==
  phase = "extract" /\ pulls = 1 =>
    /\ Only(archive[layer], tree[layer], at)
    /\ \A l \in 1..Layers : l > layer => DOMAIN tree[l] = {}

IInv ==
  Shape /\ Parts /\ Reached /\ FirstPull /\ RefusedForModes /\ LayersWhole

(***************************************************************************)
(* What an archive holds.                                                  *)
(***************************************************************************)

\* An entry adds or hides a name.
LEMMA EntryIs ==
  ASSUME NEW e \in Entries
  PROVE  /\ e.path \in Paths /\ e.kind \in Adding \cup Hiding
         /\ e.kind \in Adding => KindOf(e) \in {"dir", "file", "symlink"}
         /\ e.kind \in {"dir", "file"} => e.mode \in {"rw", "ro"}
         /\ e.kind = "link" => e.to \in Paths
  BY StackAssumption DEF Adding, Hiding, KindOf

\* An archive adds a name once.
LEMMA AddedOnce ==
  ASSUME NEW a \in Seq(Entries), Tidy(a),
         NEW i \in 1..Len(a), NEW j \in 1..Len(a),
         a[i].kind \in Adding, a[j].kind \in Adding, a[i].path = a[j].path
  PROVE  i = j
<1>1. DOMAIN a = 1..Len(a) /\ Len(a) \in Nat
  BY LenProperties
<1>2. i < j \/ j < i \/ i = j
  BY <1>1
<1>3. QED
  BY <1>1, <1>2 DEF Tidy

\* Contents without its choice: every added name has the kind of its entry, and
\* what they are in is a directory.
LEMMA ContentsIs ==
  ASSUME NEW a \in Seq(Entries), Tidy(a)
  PROVE  /\ Contents(a) = [p \in DOMAIN Contents(a) |-> Contents(a)[p]]
         /\ \A p : p \in DOMAIN Contents(a) <=>
              \E i \in 1..Len(a) : a[i].kind \in Adding /\ p \in Names(a[i])
         /\ \A i \in 1..Len(a) : a[i].kind \in Adding =>
              /\ Contents(a)[a[i].path] = KindOf(a[i])
              /\ \A q \in Parents(a[i].path) : Contents(a)[q] = "dir"
<1> DEFINE named == {a[i].path : i \in {j \in DOMAIN a : a[j].kind \in Adding}}
           over == UNION {Parents(p) : p \in named}
<1>1. DOMAIN a = 1..Len(a)
  BY LenProperties
<1>2. Contents(a) = [p \in named \cup over |->
                       IF p \in named THEN AddedKind(a, p) ELSE "dir"]
  BY DEF Contents
<1>3. \A p : p \in named <=>
        \E i \in 1..Len(a) : a[i].kind \in Adding /\ p = a[i].path
  BY <1>1
<1>4. \A p : p \in over <=>
        \E i \in 1..Len(a) : a[i].kind \in Adding /\ p \in Parents(a[i].path)
  BY <1>3
<1>5. ASSUME NEW i \in 1..Len(a), a[i].kind \in Adding
      PROVE  AddedKind(a, a[i].path) = KindOf(a[i])
  <2> DEFINE k == CHOOSE k \in DOMAIN a :
                    a[k].path = a[i].path /\ a[k].kind \in Adding
  <2>1. k \in 1..Len(a) /\ a[k].path = a[i].path /\ a[k].kind \in Adding
    BY <1>1, <1>5
  <2>2. AddedKind(a, a[i].path) = IF a[k].kind = "link" THEN "file" ELSE a[k].kind
    BY DEF AddedKind
  <2> HIDE DEF k
  <2>3. k = i
    BY <1>5, <2>1, AddedOnce
  <2>4. QED
    BY <2>2, <2>3 DEF KindOf
<1>6. ASSUME NEW i \in 1..Len(a), a[i].kind \in Adding,
             NEW q \in Parents(a[i].path), q \in named
      PROVE  AddedKind(a, q) = "dir"
  <2>1. PICK j \in 1..Len(a) : a[j].kind \in Adding /\ q = a[j].path
    BY <1>3, <1>6
  <2>2. a[j].kind = "dir"
    BY <1>1, <1>6, <2>1 DEF Tidy
  <2>3. QED
    BY <1>5, <2>1, <2>2 DEF KindOf
<1> HIDE DEF named, over
<1>7. DOMAIN Contents(a) = named \cup over
  BY <1>2
<1>8. \A p : p \in DOMAIN Contents(a) <=>
        \E i \in 1..Len(a) : a[i].kind \in Adding /\ p \in Names(a[i])
  BY <1>3, <1>4, <1>7 DEF Names
<1>9. ASSUME NEW i \in 1..Len(a), a[i].kind \in Adding
      PROVE  /\ Contents(a)[a[i].path] = KindOf(a[i])
             /\ \A q \in Parents(a[i].path) : Contents(a)[q] = "dir"
  <2>1. a[i].path \in named
    BY <1>3, <1>9
  <2>2. \A q \in Parents(a[i].path) : q \in over
    BY <1>4, <1>9
  <2>3. Contents(a)[a[i].path] = KindOf(a[i])
    BY <1>2, <1>5, <1>9, <2>1
  <2>4. ASSUME NEW q \in Parents(a[i].path) PROVE Contents(a)[q] = "dir"
    <3>1. q \in named => AddedKind(a, q) = "dir"
      BY <1>6, <1>9
    <3>2. QED
      BY <1>2, <2>2, <3>1
  <2>5. QED
    BY <2>3, <2>4
<1>10. Contents(a) = [p \in DOMAIN Contents(a) |-> Contents(a)[p]]
  BY <1>2
<1>11. QED
  BY <1>8, <1>9, <1>10

\* The entry read next adds to what the archive holds and changes none of it.
LEMMA ContentsGrow ==
  ASSUME NEW a \in Seq(Entries), NEW e \in Entries, Tidy(a), Tidy(Append(a, e))
  PROVE  /\ DOMAIN Contents(a) \subseteq DOMAIN Contents(Append(a, e))
         /\ \A p \in DOMAIN Contents(a) :
              Contents(Append(a, e))[p] = Contents(a)[p]
<1> DEFINE b == Append(a, e)
<1>1. /\ b \in Seq(Entries) /\ Tidy(b) /\ Len(a) \in Nat /\ Len(b) = Len(a) + 1
      /\ \A i \in 1..Len(a) : b[i] = a[i]
  BY AppendProperties, LenProperties
<1> HIDE DEF b
<1>2. 1..Len(a) \subseteq 1..Len(b)
  BY <1>1
<1>3. ASSUME NEW p \in DOMAIN Contents(a)
      PROVE  p \in DOMAIN Contents(b) /\ Contents(b)[p] = Contents(a)[p]
  <2>1. PICK i \in 1..Len(a) : a[i].kind \in Adding /\ p \in Names(a[i])
    BY ContentsIs
  <2>2. i \in 1..Len(b) /\ b[i] = a[i]
    BY <1>1, <1>2
  <2>3. p \in DOMAIN Contents(b)
    BY <1>1, <2>1, <2>2, ContentsIs
  <2>4. /\ Contents(a)[a[i].path] = KindOf(a[i])
        /\ \A q \in Parents(a[i].path) : Contents(a)[q] = "dir"
    BY <2>1, ContentsIs
  <2>5. /\ Contents(b)[a[i].path] = KindOf(a[i])
        /\ \A q \in Parents(a[i].path) : Contents(b)[q] = "dir"
    BY <1>1, <2>1, <2>2, ContentsIs
  <2>6. QED
    BY <2>1, <2>3, <2>4, <2>5 DEF Names
<1>4. QED
  BY <1>3 DEF b

(***************************************************************************)
(* What an entry does to a directory.                                      *)
(***************************************************************************)

\* The tree v is t with a node at p and directories at the missing ones of S.
Adds(v, t, S, p, node) ==
  /\ v = [x \in DOMAIN v |-> v[x]]
  /\ DOMAIN v = DOMAIN t \cup ({p} \cup S)
  /\ \A x \in DOMAIN t \cup ({p} \cup S) :
       v[x] = IF x = p THEN node ELSE IF x \in DOMAIN t THEN t[x] ELSE "dir"

\* That is what With and MkdirAll make.
LEMMA NodePut ==
  ASSUME NEW t, NEW S, NEW p, NEW node
  PROVE  Adds(With(MkdirAll(t, S), p, node), t, S, p, node)
<1> DEFINE u == [q \in S |-> "dir"]
           m == MkdirAll(t, S)
<1>1. m = [q \in DOMAIN t \cup S |-> IF q \in DOMAIN t THEN t[q] ELSE u[q]]
  BY DEF MkdirAll, Over
<1>2. /\ DOMAIN m = DOMAIN t \cup S
      /\ \A x \in DOMAIN m : m[x] = IF x \in DOMAIN t THEN t[x] ELSE "dir"
  BY <1>1
<1> HIDE DEF m
<1>3. With(m, p, node) =
        [x \in DOMAIN m \cup {p} |-> IF x = p THEN node ELSE m[x]]
  BY DEF With
<1> DEFINE v == With(m, p, node)
<1>4. /\ v = [x \in DOMAIN v |-> v[x]]
      /\ DOMAIN v = DOMAIN t \cup ({p} \cup S)
  BY <1>2, <1>3
<1>5. \A x \in DOMAIN t \cup ({p} \cup S) :
        v[x] = IF x = p THEN node ELSE IF x \in DOMAIN t THEN t[x] ELSE "dir"
  BY <1>2, <1>3
<1>6. QED
  BY <1>4, <1>5 DEF m, Adds

\* The tree w is t with p gone or a copy of q, and with the parents of p if
\* nothing is in their place.
LinkLaws(t, p, q, w) ==
  /\ w = [x \in DOMAIN w |-> w[x]]
  /\ \A x \in DOMAIN w :
       \/ x \in DOMAIN t /\ w[x] = t[x]
       \/ x \in Parents(p) /\ w[x] = "dir"
       \/ x = p /\ Linked(t, p, q) /\ w[x] = t[q]
  /\ DOMAIN t \ {p} \subseteq DOMAIN w
  /\ ~Removable(t, p) => DOMAIN t \subseteq DOMAIN w
  /\ Linked(t, p, q) =>
       /\ DOMAIN w = DOMAIN t \cup {p} \cup Parents(p) /\ w[p] = t[q]
       /\ \A x \in DOMAIN t \ {p} : w[x] = t[x]
       /\ \A x \in Parents(p) \ {p} : x \notin DOMAIN t => w[x] = "dir"

\* That is what PutLink makes.
LEMMA LinkPut ==
  ASSUME NEW t, t = [x \in DOMAIN t |-> t[x]], NEW p, NEW q,
         NEW w, w = PutLink(t, p, q)
  PROVE  LinkLaws(t, p, q, w)
<1> DEFINE u == IF Removable(t, p) THEN Without(t, {p}) ELSE t
           m == MkdirAll(u, Parents(p))
           v == IF ParentsFit(t, p) THEN m ELSE u
<1>1. w = IF Linked(t, p, q) THEN With(v, p, t[q]) ELSE v
  BY DEF PutLink
<1>2. /\ u = [x \in DOMAIN u |-> u[x]]
      /\ \A x \in DOMAIN u : x \in DOMAIN t /\ u[x] = t[x]
      /\ DOMAIN t \ {p} \subseteq DOMAIN u
      /\ ~Removable(t, p) => DOMAIN t \subseteq DOMAIN u
  <2>1. CASE Removable(t, p)
    <3>1. u = [x \in DOMAIN t \ {p} |-> t[x]]
      BY <2>1 DEF Without, Restrict
    <3>2. QED
      BY <2>1, <3>1
  <2>2. CASE ~Removable(t, p)
    BY <2>2
  <2>3. QED
    BY <2>1, <2>2
<1> HIDE DEF u
<1>3. m = [x \in DOMAIN u \cup Parents(p) |-> IF x \in DOMAIN u THEN u[x] ELSE "dir"]
  <2> DEFINE d == [x \in Parents(p) |-> "dir"]
  <2>1. DOMAIN d = Parents(p) /\ \A x \in Parents(p) : d[x] = "dir"
    OBVIOUS
  <2> HIDE DEF d
  <2>2. Over(u, d) = [x \in DOMAIN u \cup Parents(p) |->
                        IF x \in DOMAIN u THEN u[x] ELSE "dir"]
    BY <2>1 DEF Over
  <2>3. QED
    BY <2>2 DEF MkdirAll, d
<1> HIDE DEF m
<1>4. /\ v = [x \in DOMAIN v |-> v[x]]
      /\ \A x \in DOMAIN v :
           (x \in DOMAIN u /\ v[x] = u[x]) \/ (x \in Parents(p) /\ v[x] = "dir")
      /\ DOMAIN u \subseteq DOMAIN v
      /\ \A x \in DOMAIN u : v[x] = u[x]
      /\ ParentsFit(t, p) => /\ DOMAIN v = DOMAIN u \cup Parents(p)
                             /\ \A x \in Parents(p) \ DOMAIN u : v[x] = "dir"
  BY <1>2, <1>3
<1> HIDE DEF v
<1>5. CASE Linked(t, p, q)
  <2>1. w = [x \in DOMAIN v \cup {p} |-> IF x = p THEN t[q] ELSE v[x]]
    BY <1>1, <1>5 DEF With
  <2>2. ParentsFit(t, p)
    BY <1>5 DEF Linked
  <2>3. /\ DOMAIN w = DOMAIN v \cup {p} /\ w[p] = t[q]
        /\ \A x \in DOMAIN v \ {p} : w[x] = v[x]
        /\ w = [x \in DOMAIN w |-> w[x]]
    BY <2>1
  <2>4. DOMAIN w = DOMAIN t \cup {p} \cup Parents(p)
    BY <1>2, <1>4, <2>2, <2>3
  <2>5. \A x \in DOMAIN t \ {p} : w[x] = t[x]
    BY <1>2, <1>4, <2>3
  <2>6. \A x \in Parents(p) \ {p} : x \notin DOMAIN t => w[x] = "dir"
    BY <1>2, <1>4, <2>2, <2>3
  <2>7. ASSUME NEW x \in DOMAIN w
        PROVE  \/ x \in DOMAIN t /\ w[x] = t[x]
               \/ x \in Parents(p) /\ w[x] = "dir"
               \/ x = p /\ Linked(t, p, q) /\ w[x] = t[q]
    BY <1>5, <2>3, <2>4, <2>5, <2>6
  <2>8. QED
    BY <1>5, <2>3, <2>4, <2>5, <2>6, <2>7 DEF LinkLaws
<1>6. CASE ~Linked(t, p, q)
  BY <1>1, <1>2, <1>4, <1>6 DEF LinkLaws
<1>7. QED
  BY <1>5, <1>6

\* Where the node at x comes from once e is put over t.
Origin(e, t, x, node) ==
  \/ x \in DOMAIN t /\ node = t[x]
  \/ e.kind \in Adding /\ x \in Parents(e.path) /\ node = "dir"
  \/ e.kind \in {"dir", "file", "symlink"} /\ x = e.path /\ node = KindOf(e)
  \/ e.kind = "link" /\ x = e.path /\ e.to \in DOMAIN t
       /\ node = t[e.to] /\ node # "dir"

\* What any entry makes of a tree.
LEMMA PutLaws ==
  ASSUME NEW e \in Entries, NEW t, t = [x \in DOMAIN t |-> t[x]]
  PROVE  /\ Put(t, e) = [x \in DOMAIN Put(t, e) |-> Put(t, e)[x]]
         /\ \A x \in DOMAIN Put(t, e) : Origin(e, t, x, Put(t, e)[x])
         /\ e.kind \in {"dir", "file", "symlink"} =>
              /\ DOMAIN Put(t, e) = DOMAIN t \cup Names(e)
              /\ \A x \in (DOMAIN t \cup Names(e)) \ {e.path} :
                   Put(t, e)[x] = IF x \in DOMAIN t THEN t[x] ELSE "dir"
         /\ e.kind \in {"file", "symlink"} => Put(t, e)[e.path] = KindOf(e)
         /\ e.kind = "dir" => Put(t, e)[e.path] =
              IF e.path \in DOMAIN t THEN t[e.path] ELSE "dir"
         /\ e.kind = "link" => Put(t, e) = PutLink(t, e.path, e.to)
         /\ e.kind = "whiteout" =>
              Put(t, e) = [x \in DOMAIN t \ Subtree(e.path) |-> t[x]]
         /\ e.kind = "opaque" => Put(t, e) = t
<1> DEFINE P == Parents(e.path)
<1>1. CASE e.kind = "dir"
  <2>1. Put(t, e) = [x \in DOMAIN t \cup (P \cup {e.path}) |->
                       IF x \in DOMAIN t THEN t[x] ELSE "dir"]
    BY <1>1 DEF Put, MkdirAll, Over
  <2>2. KindOf(e) = "dir" /\ Names(e) = {e.path} \cup P /\ e.kind \in Adding
    BY <1>1 DEF KindOf, Names, Adding
  <2> DEFINE w == Put(t, e)
  <2>3. /\ w = [x \in DOMAIN w |-> w[x]] /\ DOMAIN w = DOMAIN t \cup Names(e)
        /\ \A x \in DOMAIN w : w[x] = IF x \in DOMAIN t THEN t[x] ELSE "dir"
    BY <2>1, <2>2
  <2> HIDE DEF w
  <2>4. \A x \in DOMAIN w : Origin(e, t, x, w[x])
    BY <1>1, <2>2, <2>3 DEF Origin
  <2>5. QED
    BY <1>1, <2>2, <2>3, <2>4 DEF w
<1>2. CASE e.kind \in {"file", "symlink"}
  <2>1. Put(t, e) = With(MkdirAll(t, P), e.path, KindOf(e))
    BY <1>2 DEF Put, PutFile, PutSymlink, KindOf
  <2>2. Adds(With(MkdirAll(t, P), e.path, KindOf(e)), t, P, e.path, KindOf(e))
    BY NodePut, Zenon
  <2>3. Names(e) = {e.path} \cup P /\ e.kind \in Adding /\ e.kind # "dir"
    BY <1>2 DEF Names, Adding
  <2> DEFINE w == Put(t, e)
  <2>4. Adds(w, t, P, e.path, KindOf(e))
    BY <2>1, <2>2
  <2> HIDE DEF w
  <2>5. \A x \in DOMAIN w : Origin(e, t, x, w[x])
    BY <1>2, <2>3, <2>4 DEF Origin, Adds
  <2>6. QED
    BY <1>2, <2>3, <2>4, <2>5 DEF Adds, w
<1>3. CASE e.kind = "link"
  <2> DEFINE w == Put(t, e)
  <2>1. w = PutLink(t, e.path, e.to) /\ e.kind \in Adding
    BY <1>3 DEF Put, Adding
  <2> HIDE DEF w
  <2>a. LinkLaws(t, e.path, e.to, w)
    BY <2>1, LinkPut
  <2>2. /\ w = [x \in DOMAIN w |-> w[x]]
        /\ \A x \in DOMAIN w :
             \/ x \in DOMAIN t /\ w[x] = t[x]
             \/ x \in P /\ w[x] = "dir"
             \/ x = e.path /\ Linked(t, e.path, e.to) /\ w[x] = t[e.to]
    BY <2>a DEF LinkLaws
  <2>3. Linked(t, e.path, e.to) => e.to \in DOMAIN t /\ t[e.to] # "dir"
    BY DEF Linked
  <2>4. \A x \in DOMAIN w : Origin(e, t, x, w[x])
    BY <1>3, <2>1, <2>2, <2>3 DEF Origin
  <2>5. QED
    BY <1>3, <2>1, <2>2, <2>4 DEF w
<1>4. CASE e.kind = "whiteout"
  <2> DEFINE w == Put(t, e)
  <2>1. w = [x \in DOMAIN t \ Subtree(e.path) |-> t[x]]
    BY <1>4 DEF Put, RemoveAll, Without, Restrict
  <2>2. /\ w = [x \in DOMAIN w |-> w[x]]
        /\ \A x \in DOMAIN w : x \in DOMAIN t /\ w[x] = t[x]
    BY <2>1
  <2> HIDE DEF w
  <2>3. \A x \in DOMAIN w : Origin(e, t, x, w[x])
    BY <2>2 DEF Origin
  <2>4. QED
    BY <1>4, <2>1, <2>2, <2>3 DEF w
<1>5. CASE e.kind = "opaque"
  <2>1. Put(t, e) = t
    BY <1>5 DEF Put
  <2>2. \A x \in DOMAIN t : Origin(e, t, x, t[x])
    BY DEF Origin
  <2>3. QED
    BY <1>5, <2>1, <2>2
<1>6. QED
  BY <1>1, <1>2, <1>3, <1>4, <1>5, EntryIs DEF Adding, Hiding

\* An entry that fits adds its names and changes nothing else; a hard link does
\* if the file it names is there.
LEMMA PutAdds ==
  ASSUME NEW e \in Entries, NEW t, t = [x \in DOMAIN t |-> t[x]],
         e.kind \in Adding, Fits(t, e),
         e.kind = "link" =>
           /\ e.to \in DOMAIN t /\ t[e.to] = "file" /\ e.to # e.path
           /\ e.path \in DOMAIN t => t[e.path] # "dir"
  PROVE  /\ DOMAIN Put(t, e) = DOMAIN t \cup Names(e)
         /\ \A x \in DOMAIN t \cup Names(e) :
              Put(t, e)[x] = IF x = e.path THEN KindOf(e)
                             ELSE IF x \in DOMAIN t THEN t[x] ELSE "dir"
<1>1. CASE e.kind \in {"dir", "file", "symlink"}
  <2>1. e.kind = "dir" => KindOf(e) = "dir"
    BY DEF KindOf
  <2>2. e.kind = "dir" /\ e.path \in DOMAIN t => t[e.path] = "dir"
    BY DEF Fits
  <2>3. Put(t, e)[e.path] = KindOf(e)
    BY <1>1, <2>1, <2>2, PutLaws
  <2>4. /\ DOMAIN Put(t, e) = DOMAIN t \cup Names(e)
        /\ \A x \in (DOMAIN t \cup Names(e)) \ {e.path} :
             Put(t, e)[x] = IF x \in DOMAIN t THEN t[x] ELSE "dir"
    BY <1>1, PutLaws
  <2>5. QED
    BY <2>3, <2>4
<1>2. CASE e.kind = "link"
  <2>1. Put(t, e) = PutLink(t, e.path, e.to) /\ KindOf(e) = "file"
    BY <1>2, PutLaws DEF KindOf
  <2>2. Linked(t, e.path, e.to)
    BY <1>2 DEF Linked, Removable, Fits
  <2> DEFINE w == Put(t, e)
  <2>a. LinkLaws(t, e.path, e.to, w)
    BY <2>1, LinkPut
  <2>3. /\ DOMAIN w = DOMAIN t \cup {e.path} \cup Parents(e.path)
        /\ w[e.path] = t[e.to]
        /\ \A x \in DOMAIN t \ {e.path} : w[x] = t[x]
        /\ \A x \in Parents(e.path) \ {e.path} : x \notin DOMAIN t => w[x] = "dir"
    BY <2>2, <2>a DEF LinkLaws
  <2>4. DOMAIN t \cup {e.path} \cup Parents(e.path) = DOMAIN t \cup Names(e)
    BY DEF Names
  <2> HIDE DEF w
  <2>5. QED
    BY <1>2, <2>1, <2>3, <2>4 DEF Names, w
<1>3. QED
  BY <1>1, <1>2 DEF Adding

(***************************************************************************)
(* One entry of an archive, over what is there.                            *)
(***************************************************************************)

\* What is there from the same archive is in no entry's way.
LEMMA EntryFits ==
  ASSUME NEW a \in Seq(Entries), Tidy(a), NEW t, Partial(a, t),
         NEW i \in 1..Len(a), a[i].kind \in Adding
  PROVE  Fits(t, a[i])
<1> DEFINE e == a[i]
           c == Contents(a)
<1>1. c[e.path] = KindOf(e) /\ \A q \in Parents(e.path) : c[q] = "dir"
  BY ContentsIs
<1>2. /\ DOMAIN t \subseteq DOMAIN c
      /\ \A p \in DOMAIN t : t[p] = c[p] \/ (t[p] = "torn" /\ c[p] = "file")
  BY DEF Partial
<1> HIDE DEF c
<1>3. \A q \in Parents(e.path) : q \in DOMAIN t => t[q] = "dir"
  BY <1>1, <1>2
<1>4. /\ e.kind = "dir" /\ e.path \in DOMAIN t => t[e.path] = "dir"
      /\ e.kind = "file" /\ e.path \in DOMAIN t => t[e.path] \in {"file", "torn"}
      /\ e.kind = "symlink" /\ e.path \in DOMAIN t => t[e.path] = "symlink"
  BY <1>1, <1>2 DEF KindOf
<1>5. QED
  BY <1>3, <1>4 DEF Fits, ParentsFit, Removable

\* The file that a hard link names is before it.
LEMMA LinkedFile ==
  ASSUME NEW a \in Seq(Entries), Tidy(a),
         NEW n \in Nat, n < Len(a), a[n + 1].kind = "link"
  PROVE  \E i \in 1..n : /\ i \in 1..Len(a) /\ i # n + 1
                         /\ a[i].kind = "file" /\ a[i].path = a[n + 1].to
<1>1. DOMAIN a = 1..Len(a) /\ Len(a) \in Nat
  BY LenProperties
<1>2. n + 1 \in 1..Len(a) /\ (n + 1) - 1 = n
  BY <1>1
<1>3. PICK i \in 1..n : a[i].kind = "file" /\ a[i].path = a[n + 1].to
  BY <1>1, <1>2 DEF Tidy
<1>4. QED
  BY <1>1, <1>3

\* The directory stays a part of the archive.
LEMMA EntryPartial ==
  ASSUME NEW a \in Seq(Entries), Tidy(a), NEW t, Partial(a, t),
         NEW n \in Nat, n < Len(a)
  PROVE  Partial(a, Put(t, a[n + 1]))
<1> DEFINE e == a[n + 1]
           c == Contents(a)
           u == Put(t, e)
<1>1. n + 1 \in 1..Len(a) /\ e \in Entries
  <2>1. n + 1 \in 1..Len(a)
    BY LenProperties
  <2>2. QED
    BY <2>1, ElementOfSeq
<1>2. /\ t = [x \in DOMAIN t |-> t[x]] /\ DOMAIN t \subseteq DOMAIN c
      /\ \A p \in DOMAIN t : t[p] \in Nodes
      /\ \A p \in DOMAIN t : t[p] = c[p] \/ (t[p] = "torn" /\ c[p] = "file")
  BY DEF Partial
<1>3. e.kind \in Adding =>
        /\ c[e.path] = KindOf(e) /\ KindOf(e) \in Nodes
        /\ \A q \in Parents(e.path) : c[q] = "dir"
        /\ Names(e) \subseteq DOMAIN c
  BY <1>1, ContentsIs, EntryIs DEF Nodes
<1>4. e.kind = "link" => c[e.path] = "file" /\ c[e.to] = "file"
  <2>1. SUFFICES ASSUME e.kind = "link" PROVE c[e.path] = "file" /\ c[e.to] = "file"
    OBVIOUS
  <2>2. PICK i \in 1..Len(a) : a[i].kind = "file" /\ a[i].path = e.to
    BY <2>1, LinkedFile
  <2>3. c[e.to] = "file"
    BY <2>2, ContentsIs DEF KindOf, Adding
  <2>4. QED
    BY <1>3, <2>1, <2>3 DEF KindOf, Adding
<1>5. u = [x \in DOMAIN u |-> u[x]] /\ \A x \in DOMAIN u : Origin(e, t, x, u[x])
  <2>1. e \in Entries /\ t = [x \in DOMAIN t |-> t[x]]
    BY <1>1, <1>2
  <2> HIDE DEF e
  <2>2. u = [x \in DOMAIN u |-> u[x]]
    BY <2>1, PutLaws
  <2>3. \A x \in DOMAIN u : Origin(e, t, x, u[x])
    BY <2>1, PutLaws
  <2>4. QED
    BY <2>2, <2>3
<1> HIDE DEF c, e, u
<1>6. ASSUME NEW x \in DOMAIN u
      PROVE  /\ x \in DOMAIN c /\ u[x] \in Nodes
             /\ u[x] = c[x] \/ (u[x] = "torn" /\ c[x] = "file")
  <2>1. CASE x \in DOMAIN t /\ u[x] = t[x]
    BY <1>2, <2>1
  <2>2. CASE e.kind \in Adding /\ x \in Parents(e.path) /\ u[x] = "dir"
    BY <1>3, <2>2 DEF Names, Nodes
  <2>3. CASE e.kind \in {"dir", "file", "symlink"} /\ x = e.path /\ u[x] = KindOf(e)
    BY <1>3, <2>3 DEF Names, Adding
  <2>4. CASE /\ e.kind = "link" /\ x = e.path /\ e.to \in DOMAIN t
             /\ u[x] = t[e.to] /\ u[x] # "dir"
    <3>1. e.kind \in Adding /\ x \in Names(e)
      BY <2>4 DEF Adding, Names
    <3>2. x \in DOMAIN c
      BY <1>3, <3>1
    <3>3. c[x] = "file" /\ u[x] \in {"file", "torn"}
      BY <1>2, <1>4, <2>4
    <3>4. QED
      BY <3>2, <3>3 DEF Nodes
  <2>5. QED
    BY <1>5, <2>1, <2>2, <2>3, <2>4 DEF Origin
<1>7. u \in [DOMAIN u -> Nodes]
  BY <1>5, <1>6
<1>8. QED
  BY <1>6, <1>7 DEF Partial, c, u, e

\* Behind the entry nothing is missing or torn.
LEMMA EntryExtracted ==
  ASSUME NEW a \in Seq(Entries), Tidy(a), NEW t, Partial(a, t),
         NEW n \in Nat, n < Len(a), Extracted(a, t, n)
  PROVE  Extracted(a, Put(t, a[n + 1]), n + 1)
<1> DEFINE e == a[n + 1]
           c == Contents(a)
           u == Put(t, e)
<1>1. /\ Len(a) \in Nat /\ DOMAIN a = 1..Len(a)
      /\ n + 1 \in 1..Len(a) /\ 1..n \subseteq 1..Len(a)
      /\ \A i \in 1..n + 1 : i \in 1..n \/ i = n + 1
      /\ \A i \in 1..n : i < n + 1
  BY LenProperties
<1>2. e \in Entries /\ t = [x \in DOMAIN t |-> t[x]]
  BY <1>1, ElementOfSeq DEF Partial
<1>3. CASE e.kind \in Hiding
  <2>1. e.kind \notin Adding
    BY <1>3 DEF Adding, Hiding
  <2>2. ASSUME NEW i \in 1..n, a[i].kind \in Adding, NEW p \in Names(a[i])
        PROVE  p \in DOMAIN u /\ u[p] = c[p]
    <3>1. p \in DOMAIN t /\ t[p] = c[p]
      BY <2>2 DEF Extracted
    <3>2. CASE e.kind = "opaque"
      <4>1. u = t
        BY <1>2, <3>2, PutLaws
      <4>2. QED
        BY <3>1, <4>1
    <3>3. CASE e.kind = "whiteout"
      <4>1. u = [x \in DOMAIN t \ Subtree(e.path) |-> t[x]]
        BY <1>2, <3>3, PutLaws
      <4>2. Subtree(e.path) \cap Names(a[i]) = {}
        BY <1>1, <2>2, <3>3 DEF Tidy
      <4> HIDE DEF u, c, e
      <4>3. QED
        BY <2>2, <3>1, <4>1, <4>2
    <3>4. QED
      BY <1>3, <3>2, <3>3 DEF Hiding
  <2> HIDE DEF u, c
  <2>3. QED
    BY <1>1, <2>1, <2>2 DEF Extracted, u, c
<1>4. CASE e.kind \in Adding
  <2>1. /\ c[e.path] = KindOf(e)
        /\ \A q \in Parents(e.path) : c[q] = "dir"
        /\ Names(e) \subseteq DOMAIN c
    BY <1>1, <1>4, ContentsIs
  <2>2. /\ DOMAIN t \subseteq DOMAIN c
        /\ \A p \in DOMAIN t : t[p] = c[p] \/ (t[p] = "torn" /\ c[p] = "file")
    BY DEF Partial
  <2>3. \A q \in Parents(e.path) : q \in DOMAIN t => t[q] = "dir"
    BY <2>1, <2>2
  <2>4. Fits(t, e)
    BY <1>1, <1>4, EntryFits
  <2>5. ASSUME e.kind = "link"
        PROVE  /\ e.to \in DOMAIN t /\ t[e.to] = "file" /\ e.to # e.path
               /\ e.path \in DOMAIN t => t[e.path] # "dir"
    <3>1. PICK i \in 1..n : /\ i \in 1..Len(a) /\ i # n + 1
                            /\ a[i].kind = "file" /\ a[i].path = e.to
      BY <2>5, LinkedFile
    <3>2. a[i].kind \in Adding /\ e.to \in Names(a[i])
      BY <3>1 DEF Adding, Names
    <3>3. e.to \in DOMAIN t /\ t[e.to] = c[e.to]
      BY <3>2 DEF Extracted
    <3>4. c[e.to] = "file"
      BY <3>1, <3>2, ContentsIs DEF KindOf
    <3>5. e.to # e.path
      BY <1>1, <1>4, <3>1, <3>2, AddedOnce
    <3>6. c[e.path] = "file"
      BY <2>1, <2>5 DEF KindOf
    <3> HIDE DEF c, e
    <3>7. QED
      BY <2>2, <3>3, <3>4, <3>5, <3>6
  <2>6. /\ DOMAIN u = DOMAIN t \cup Names(e)
        /\ \A x \in DOMAIN t \cup Names(e) :
             u[x] = IF x = e.path THEN KindOf(e)
                    ELSE IF x \in DOMAIN t THEN t[x] ELSE "dir"
    BY <1>2, <1>4, <2>4, <2>5, PutAdds
  <2> HIDE DEF u, c, e
  <2>7. ASSUME NEW i \in 1..n + 1, a[i].kind \in Adding, NEW p \in Names(a[i])
        PROVE  p \in DOMAIN u /\ u[p] = c[p]
    <3>1. CASE i \in 1..n
      <4>1. p \in DOMAIN t /\ t[p] = c[p]
        BY <2>7, <3>1 DEF Extracted, c
      <4>2. QED
        BY <2>1, <2>6, <4>1
    <3>2. CASE i = n + 1
      <4>1. p \in Names(e)
        BY <2>7, <3>2 DEF e
      <4>2. CASE p = e.path
        BY <2>1, <2>6, <4>1, <4>2
      <4>3. CASE p # e.path
        <5>1. p \in Parents(e.path)
          BY <4>1, <4>3 DEF Names
        <5>2. QED
          BY <2>1, <2>3, <2>6, <4>1, <4>3, <5>1
      <4>4. QED
        BY <4>2, <4>3
    <3>3. QED
      BY <1>1, <3>1, <3>2
  <2>8. QED
    BY <2>7 DEF Extracted, e, u, c
<1>5. QED
  BY <1>2, <1>3, <1>4, EntryIs

\* What is locked stays explained by the archive.
LEMMA EntryLocked ==
  ASSUME NEW a \in Seq(Entries), NEW t, t = [x \in DOMAIN t |-> t[x]],
         NEW S, LockedBy(a, t, S), NEW n \in Nat, n < Len(a)
  PROVE  LockedBy(a, Put(t, a[n + 1]), Locks(t, S, a[n + 1]))
<1> DEFINE e == a[n + 1]
           u == Put(t, e)
           L == Locks(t, S, e)
           Why(p) == \E i \in 1..Len(a) :
             /\ a[i].path = p
             /\ \/ a[i].kind = "link"
                \/ a[i].kind \in {"dir", "file"} /\ a[i].mode = "ro"
<1>1. n + 1 \in 1..Len(a) /\ e \in Entries
  <2>1. n + 1 \in 1..Len(a)
    BY LenProperties
  <2>2. QED
    BY <2>1, ElementOfSeq
<1>2. S \subseteq DOMAIN t /\ \A p \in S : Why(p)
  BY DEF LockedBy
<1>3. /\ e.kind \in {"dir", "file"} /\ e.mode = "ro" => Why(e.path)
      /\ e.kind = "link" => Why(e.path)
  BY <1>1
<1>4. L \subseteq DOMAIN u /\ \A p \in L : p \in S \/ (p = e.path /\ Why(e.path))
  <2>1. CASE e.kind \in {"dir", "file"}
    <3>1. L = IF e.mode = "ro" /\ e.path \notin DOMAIN t THEN S \cup {e.path} ELSE S
      BY <2>1 DEF Locks
    <3>2. DOMAIN u = DOMAIN t \cup Names(e) /\ e.path \in Names(e)
      BY <1>1, <2>1, PutLaws DEF Names
    <3> HIDE DEF L, u, e, Why
    <3>3. QED
      BY <1>2, <1>3, <2>1, <3>1, <3>2
  <2>2. CASE e.kind = "symlink"
    <3>1. L = S \ {e.path}
      BY <2>2 DEF Locks
    <3>2. DOMAIN u = DOMAIN t \cup Names(e)
      BY <1>1, <2>2, PutLaws
    <3> HIDE DEF L, u, e, Why
    <3>3. QED
      BY <1>2, <3>1, <3>2
  <2>3. CASE e.kind = "link"
    <3>1. L = (IF Removable(t, e.path) THEN S \ {e.path} ELSE S)
                \cup {p \in {e.path} : e.to \in S /\ Linked(t, p, e.to)}
      BY <2>3 DEF Locks
    <3>2. u = PutLink(t, e.path, e.to)
      BY <1>1, <2>3, PutLaws
    <3>3. LinkLaws(t, e.path, e.to, u)
      BY <3>2, LinkPut
    <3>4. /\ DOMAIN t \ {e.path} \subseteq DOMAIN u
          /\ ~Removable(t, e.path) => DOMAIN t \subseteq DOMAIN u
          /\ Linked(t, e.path, e.to) => e.path \in DOMAIN u
      BY <3>3 DEF LinkLaws
    <3> HIDE DEF L, u, e, Why
    <3>5. QED
      BY <1>2, <1>3, <2>3, <3>1, <3>4
  <2>4. CASE e.kind = "whiteout"
    <3>1. L = S \ Subtree(e.path)
      BY <2>4 DEF Locks
    <3>2. u = [x \in DOMAIN t \ Subtree(e.path) |-> t[x]]
      BY <1>1, <2>4, PutLaws
    <3> HIDE DEF L, u, e, Why
    <3>3. QED
      BY <1>2, <3>1, <3>2
  <2>5. CASE e.kind = "opaque"
    <3>1. L = S /\ u = t
      BY <1>1, <2>5, PutLaws DEF Locks
    <3> HIDE DEF L, u, e, Why
    <3>2. QED
      BY <1>2, <3>1
  <2>6. QED
    BY <1>1, <2>1, <2>2, <2>3, <2>4, <2>5, EntryIs DEF Adding, Hiding
<1> HIDE DEF L, u
<1>5. QED
  BY <1>2, <1>4 DEF LockedBy, L, u

\* A pull that meets nothing but its own adds what it reads.
LEMMA EntryOnly ==
  ASSUME NEW a \in Seq(Entries), NEW t, t = [x \in DOMAIN t |-> t[x]],
         NEW n \in Nat, n < Len(a), Only(a, t, n)
  PROVE  Only(a, t, n + 1) /\ Only(a, Put(t, a[n + 1]), n + 1)
<1> DEFINE e == a[n + 1]
           u == Put(t, e)
<1>1. n + 1 \in 1..Len(a) /\ 1..n \subseteq 1..n + 1 /\ n + 1 \in 1..n + 1
  BY LenProperties
<1>2. e \in Entries
  BY <1>1, ElementOfSeq
<1>3. Only(a, t, n + 1)
  BY <1>1 DEF Only
<1>4. \A x \in DOMAIN u : Origin(e, t, x, u[x])
  BY <1>2, PutLaws
<1> HIDE DEF u
<1>5. \A x \in DOMAIN u : x \in DOMAIN t \/ (e.kind \in Adding /\ x \in Names(e))
  BY <1>4 DEF Origin, Names, Adding
<1>6. Only(a, u, n + 1)
  BY <1>1, <1>3, <1>5 DEF Only
<1>7. QED
  BY <1>3, <1>6 DEF u

\* A file's name is then free.
LEMMA NameFree ==
  ASSUME NEW a \in Seq(Entries), Tidy(a), NEW t, NEW n \in Nat, n < Len(a),
         Only(a, t, n), a[n + 1].kind = "file"
  PROVE  a[n + 1].path \notin DOMAIN t
<1> DEFINE e == a[n + 1]
<1>1. /\ n + 1 \in 1..Len(a) /\ 1..n \subseteq 1..Len(a) /\ n + 1 \notin 1..n
  BY LenProperties
<1>2. e.kind \in Adding /\ Contents(a)[e.path] = "file"
  BY <1>1, ContentsIs DEF KindOf, Adding
<1>3. SUFFICES ASSUME e.path \in DOMAIN t PROVE FALSE
  OBVIOUS
<1>4. PICK i \in 1..n : a[i].kind \in Adding /\ e.path \in Names(a[i])
  BY <1>3 DEF Only
<1>5. i \in 1..Len(a) /\ i # n + 1
  BY <1>1
<1>6. e.path # a[i].path
  BY <1>1, <1>2, <1>4, <1>5, AddedOnce
<1>7. Contents(a)[e.path] = "dir"
  BY <1>4, <1>5, <1>6, ContentsIs DEF Names
<1>8. QED
  BY <1>2, <1>7

\* The archive itself has locked a directory that is locked above an entry.
LEMMA LockedAbove ==
  ASSUME NEW a \in Seq(Entries), Tidy(a), NEW t, NEW S, LockedBy(a, t, S),
         NEW i \in 1..Len(a), a[i].kind \in Adding, Parents(a[i].path) \cap S # {}
  PROVE  ClosedTo(a, a[i])
<1>1. DOMAIN a = 1..Len(a)
  BY LenProperties
<1>2. PICK q \in Parents(a[i].path) : q \in S
  OBVIOUS
<1>3. PICK k \in 1..Len(a) :
        /\ a[k].path = q
        /\ a[k].kind = "link" \/ (a[k].kind \in {"dir", "file"} /\ a[k].mode = "ro")
  BY <1>2 DEF LockedBy
<1>4. a[k].kind = "dir"
  BY <1>1, <1>2, <1>3 DEF Tidy, Adding
<1>5. QED
  BY <1>1, <1>2, <1>3, <1>4 DEF ClosedTo

\* A file that is locked was made by its own entry.
LEMMA LockedFile ==
  ASSUME NEW a \in Seq(Entries), Tidy(a), NEW t, NEW S, LockedBy(a, t, S),
         NEW i \in 1..Len(a), a[i].kind = "file", a[i].path \in S
  PROVE  a[i].mode = "ro"
<1>1. PICK k \in 1..Len(a) :
        /\ a[k].path = a[i].path
        /\ a[k].kind = "link" \/ (a[k].kind \in {"dir", "file"} /\ a[k].mode = "ro")
  BY DEF LockedBy
<1>2. k = i
  BY <1>1, AddedOnce DEF Adding
<1>3. QED
  BY <1>1, <1>2

\* At the end of the archive the directory is what the archive holds.
LEMMA ArchiveExtracted ==
  ASSUME NEW a \in Seq(Entries), Tidy(a), NEW t, Partial(a, t),
         Extracted(a, t, Len(a))
  PROVE  t = Contents(a)
<1> DEFINE c == Contents(a)
<1>1. ASSUME NEW p \in DOMAIN c PROVE p \in DOMAIN t /\ t[p] = c[p]
  <2>1. PICK i \in 1..Len(a) : a[i].kind \in Adding /\ p \in Names(a[i])
    BY ContentsIs
  <2>2. QED
    BY <2>1 DEF Extracted
<1>2. /\ t = [p \in DOMAIN t |-> t[p]] /\ DOMAIN t \subseteq DOMAIN c
  BY DEF Partial
<1>3. c = [p \in DOMAIN c |-> c[p]]
  BY ContentsIs
<1> HIDE DEF c
<1>4. DOMAIN t = DOMAIN c
  BY <1>1, <1>2
<1>5. t = c
  BY <1>1, <1>2, <1>3, <1>4
<1>6. QED
  BY <1>5 DEF c

\* A file that is there, or was being made, may be left torn.
LEMMA TornPart ==
  ASSUME NEW a \in Seq(Entries), Tidy(a), NEW t, Partial(a, t),
         NEW i \in 1..Len(a), a[i].kind = "file", NEW u,
         u = [x \in DOMAIN u |-> u[x]],
         DOMAIN t \subseteq DOMAIN u, DOMAIN u \subseteq DOMAIN t \cup Names(a[i]),
         \A x \in DOMAIN u : u[x] = IF x = a[i].path THEN "torn"
                                    ELSE IF x \in DOMAIN t THEN t[x] ELSE "dir"
  PROVE  Partial(a, u)
<1> DEFINE c == Contents(a)
<1>1. /\ c[a[i].path] = "file"
      /\ \A q \in Parents(a[i].path) : c[q] = "dir"
      /\ Names(a[i]) \subseteq DOMAIN c
  BY ContentsIs DEF KindOf, Adding
<1>2. /\ DOMAIN t \subseteq DOMAIN c
      /\ \A p \in DOMAIN t : t[p] \in Nodes
      /\ \A p \in DOMAIN t : t[p] = c[p] \/ (t[p] = "torn" /\ c[p] = "file")
  BY DEF Partial
<1>3. "torn" \in Nodes /\ "dir" \in Nodes
  BY DEF Nodes
<1> HIDE DEF c
<1>4. \A x \in DOMAIN u : u[x] \in Nodes
  BY <1>2, <1>3
<1>5. u \in [DOMAIN u -> Nodes]
  BY <1>4
<1>6. ASSUME NEW x \in DOMAIN u
      PROVE  x \in DOMAIN c /\ (u[x] = c[x] \/ (u[x] = "torn" /\ c[x] = "file"))
  <2>1. CASE x = a[i].path
    BY <1>1, <2>1 DEF Names
  <2>2. CASE x # a[i].path /\ x \in DOMAIN t
    BY <1>2, <2>2
  <2>3. CASE x # a[i].path /\ x \notin DOMAIN t
    BY <1>1, <2>3 DEF Names
  <2>4. QED
    BY <2>1, <2>2, <2>3
<1>7. QED
  BY <1>5, <1>6 DEF Partial, c

\* An entry that nobody has read before takes nothing back.
LEMMA Unveiled ==
  ASSUME NEW a \in Seq(Entries), NEW e \in Entries, Tidy(a), Tidy(Append(a, e)),
         NEW t, Partial(a, t)
  PROVE  /\ Partial(Append(a, e), t)
         /\ Extracted(a, t, Len(a)) => Extracted(Append(a, e), t, Len(a))
<1> DEFINE b == Append(a, e)
<1>1. Len(a) \in Nat /\ \A i \in 1..Len(a) : b[i] = a[i]
  BY AppendProperties, LenProperties
<1>2. /\ DOMAIN Contents(a) \subseteq DOMAIN Contents(b)
      /\ \A p \in DOMAIN Contents(a) : Contents(b)[p] = Contents(a)[p]
  BY ContentsGrow
<1> HIDE DEF b
<1>3. Partial(b, t)
  BY <1>2 DEF Partial
<1>4. ASSUME Extracted(a, t, Len(a)),
             NEW i \in 1..Len(a), b[i].kind \in Adding, NEW p \in Names(b[i])
      PROVE  p \in DOMAIN t /\ t[p] = Contents(b)[p]
  <2>1. p \in DOMAIN t /\ t[p] = Contents(a)[p]
    BY <1>1, <1>4 DEF Extracted
  <2>2. QED
    BY <1>2, <2>1 DEF Partial
<1>5. QED
  BY <1>3, <1>4 DEF Extracted, b

(***************************************************************************)
(* Every step preserves the invariant.                                     *)
(***************************************************************************)

\* The archive read further loses no explanation and opens no directory.
LEMMA LockedGrow ==
  ASSUME NEW a \in Seq(Entries), NEW e \in Entries
  PROVE  /\ \A t, S : LockedBy(a, t, S) => LockedBy(Append(a, e), t, S)
         /\ \A t : Only(a, t, Len(a)) => Only(Append(a, e), t, Len(a))
         /\ Linkable(Append(a, e)) => Linkable(a)
<1> DEFINE b == Append(a, e)
<1>1. /\ b \in Seq(Entries) /\ Len(a) \in Nat /\ Len(b) = Len(a) + 1
      /\ \A i \in 1..Len(a) : b[i] = a[i]
      /\ DOMAIN a = 1..Len(a) /\ DOMAIN b = 1..Len(b)
  BY AppendProperties, LenProperties
<1> HIDE DEF b
<1>2. 1..Len(a) \subseteq 1..Len(b)
  BY <1>1
<1>3. \A t, S : LockedBy(a, t, S) => LockedBy(b, t, S)
  BY <1>1, <1>2 DEF LockedBy
<1>4. \A t : Only(a, t, Len(a)) => Only(b, t, Len(a))
  BY <1>1 DEF Only
<1>5. Linkable(b) => Linkable(a)
  BY <1>1, <1>2 DEF Linkable, ClosedTo
<1>6. QED
  BY <1>3, <1>4, <1>5 DEF b

\* extractLayer deals with the entry at its position: it goes on, or a mode stops
\* it.
LEMMA Extracting ==
  ASSUME NEW a \in Seq(Entries), Tidy(a), layer \in 1..Layers,
         DOMAIN tree = 1..Layers, DOMAIN locked = 1..Layers,
         Partial(a, tree[layer]), LockedBy(a, tree[layer], locked[layer]),
         at \in Nat, at < Len(a),
         root \/ Linkable(a) => Extracted(a, tree[layer], at),
         Extract(a[at + 1])
  PROVE  /\ DOMAIN tree' = 1..Layers /\ DOMAIN locked' = 1..Layers
         /\ \A l \in 1..Layers \ {layer} : tree'[l] = tree[l] /\ locked'[l] = locked[l]
         /\ Partial(a, tree'[layer]) /\ LockedBy(a, tree'[layer], locked'[layer])
         /\ \/ /\ at' = at + 1 /\ phase' = phase
               /\ root \/ Linkable(a) => Extracted(a, tree'[layer], at + 1)
               /\ Only(a, tree[layer], at) => Only(a, tree'[layer], at + 1)
            \/ /\ at' = at /\ phase' = "conflict" /\ ~root
               /\ \/ /\ a[at + 1].kind = "file" /\ a[at + 1].mode = "ro"
                     /\ ~Only(a, tree[layer], at)
                  \/ ClosedTo(a, a[at + 1])
<1> DEFINE e == a[at + 1]
           t == tree[layer]
           S == locked[layer]
<1>1. /\ at + 1 \in 1..Len(a) /\ DOMAIN a = 1..Len(a) /\ e \in Entries
  <2>1. at + 1 \in 1..Len(a) /\ DOMAIN a = 1..Len(a)
    BY LenProperties
  <2>2. QED
    BY <2>1, ElementOfSeq
<1>2. t = [x \in DOMAIN t |-> t[x]]
  BY DEF Partial
<1>3. CASE WriteOut(e)
  <2>1. /\ tree' = [tree EXCEPT ![layer] = Put(@, e)]
        /\ locked' = [locked EXCEPT ![layer] = Locks(tree[layer], @, e)]
        /\ at' = at + 1 /\ phase' = phase
    BY <1>3 DEF WriteOut
  <2>2. tree'[layer] = Put(t, e) /\ locked'[layer] = Locks(t, S, e)
    BY <2>1
  <2>3. /\ DOMAIN tree' = 1..Layers /\ DOMAIN locked' = 1..Layers
        /\ \A l \in 1..Layers \ {layer} : tree'[l] = tree[l] /\ locked'[l] = locked[l]
    BY <2>1
  <2>4. Partial(a, Put(t, e)) /\ LockedBy(a, Put(t, e), Locks(t, S, e))
    BY <1>2, EntryPartial, EntryLocked
  <2>5. Extracted(a, t, at) => Extracted(a, Put(t, e), at + 1)
    BY EntryExtracted
  <2>6. Only(a, t, at) => Only(a, Put(t, e), at + 1)
    BY <1>2, EntryOnly
  <2>7. QED
    BY <2>1, <2>2, <2>3, <2>4, <2>5, <2>6
<1>4. CASE LeaveOut(e)
  <2>1. /\ tree' = tree /\ locked' = locked /\ at' = at + 1 /\ phase' = phase
        /\ e.kind \in {"link"} \cup Hiding /\ Denied(S, e)
    BY <1>4 DEF LeaveOut
  <2>2. ~root /\ Parents(e.path) \cap S # {}
    BY <2>1 DEF Denied, Hiding
  <2>3. e.kind = "link" => ~(root \/ Linkable(a))
    <3>1. e.kind = "link" => ClosedTo(a, e)
      BY <1>1, <2>2, LockedAbove DEF Adding
    <3>2. QED
      BY <1>1, <2>2, <3>1 DEF Linkable
  <2>4. e.kind \in Hiding => e.kind \notin Adding
    BY DEF Hiding, Adding
  <2>5. \A i \in 1..at + 1 : i \in 1..at \/ i = at + 1
    OBVIOUS
  <2>6. e.kind \in Hiding => (Extracted(a, t, at) => Extracted(a, t, at + 1))
    BY <2>4, <2>5 DEF Extracted
  <2>7. Only(a, t, at) => Only(a, t, at + 1)
    BY <1>2, EntryOnly
  <2>8. QED
    BY <2>1, <2>3, <2>6, <2>7
<1>5. CASE Refuse(e)
  <2>1. /\ tree' = tree /\ locked' = locked /\ at' = at /\ phase' = "conflict"
        /\ e.kind \in {"dir", "file", "symlink"}
        /\ Denied(S, e) \/ ~Fits(t, e)
    BY <1>5 DEF Refuse
  <2>2. e.kind \in Adding
    BY <2>1 DEF Adding
  <2>3. Fits(t, e)
    BY <1>1, <2>2, EntryFits
  <2>4. ~root /\ (Parents(e.path) \cap S # {} \/ (e.kind = "file" /\ e.path \in S))
    BY <2>1, <2>3 DEF Denied
  <2>5. CASE Parents(e.path) \cap S # {}
    <3>1. ClosedTo(a, e)
      BY <1>1, <2>2, <2>5, LockedAbove
    <3>2. QED
      BY <2>1, <2>4, <3>1
  <2>6. CASE e.kind = "file" /\ e.path \in S
    <3>1. e.mode = "ro"
      BY <1>1, <2>6, LockedFile
    <3>2. e.path \in DOMAIN t
      BY <2>6 DEF LockedBy
    <3>3. ~Only(a, t, at)
      BY <2>6, <3>2, NameFree
    <3>4. QED
      BY <2>1, <2>4, <2>6, <3>1, <3>3
  <2>7. QED
    BY <2>4, <2>5, <2>6
<1>6. QED
  BY <1>3, <1>4, <1>5 DEF Extract

\* What Extracting says of the entry that is read or read again, as one
\* statement about the archive b that the layer then has.
LEMMA EntryKeeps ==
  ASSUME IInv, NEW b \in Seq(Entries), Tidy(b), phase = "extract",
         at < Len(b), Partial(b, tree[layer]),
         LockedBy(b, tree[layer], locked[layer]),
         root \/ Linkable(b) => Extracted(b, tree[layer], at),
         pulls = 1 => Only(b, tree[layer], at),
         Extract(b[at + 1]),
         archive' = [archive EXCEPT ![layer] = b],
         layer' = layer, root' = root, pulls' = pulls
  PROVE  IInv'
<1>0. /\ Shape /\ Parts /\ FirstPull /\ LayersWhole
      /\ layer \in 1..Layers /\ at \in Nat /\ Len(b) \in Nat
      /\ DOMAIN tree = 1..Layers /\ DOMAIN locked = 1..Layers
  <2>1. archive[layer] \in Seq(Entries) /\ at \in 0..Len(archive[layer])
    BY DEF IInv, Shape
  <2>2. at \in Nat /\ Len(b) \in Nat
    BY <2>1, LenProperties
  <2>3. QED
    BY <2>2 DEF IInv, Shape
<1>1. /\ archive'[layer] = b /\ archive' \in [1..Layers -> Seq(Entries)]
      /\ \A l \in 1..Layers \ {layer} : archive'[l] = archive[l]
  BY <1>0 DEF Shape
<1>2. /\ DOMAIN tree' = 1..Layers /\ DOMAIN locked' = 1..Layers
      /\ \A l \in 1..Layers \ {layer} : tree'[l] = tree[l] /\ locked'[l] = locked[l]
      /\ Partial(b, tree'[layer]) /\ LockedBy(b, tree'[layer], locked'[layer])
      /\ \/ /\ at' = at + 1 /\ phase' = phase
            /\ root \/ Linkable(b) => Extracted(b, tree'[layer], at + 1)
            /\ Only(b, tree[layer], at) => Only(b, tree'[layer], at + 1)
         \/ /\ at' = at /\ phase' = "conflict" /\ ~root
            /\ \/ /\ b[at + 1].kind = "file" /\ b[at + 1].mode = "ro"
                  /\ ~Only(b, tree[layer], at)
               \/ ClosedTo(b, b[at + 1])
  BY <1>0, Extracting
<1>3. Shape'
  <2>1. \A l \in 1..Layers : Tidy(archive'[l])
    BY <1>0, <1>1 DEF Shape
  <2>2. at' \in 0..Len(archive'[layer])
    BY <1>0, <1>1, <1>2
  <2>3. phase' \in {"extract", "stopped", "conflict", "done"}
    BY <1>2
  <2>4. QED
    BY <1>0, <1>1, <1>2, <2>1, <2>2, <2>3 DEF Shape
<1>4. Parts'
  <2>1. ASSUME NEW l \in 1..Layers
        PROVE  Partial(archive'[l], tree'[l])
                 /\ LockedBy(archive'[l], tree'[l], locked'[l])
    <3>1. CASE l = layer
      BY <1>1, <1>2, <3>1
    <3>2. CASE l # layer
      BY <1>0, <1>1, <1>2, <3>2 DEF Parts
    <3>3. QED
      BY <3>1, <3>2
  <2>2. QED
    BY <2>1 DEF Parts
<1>5. Reached'
  BY <1>1, <1>2 DEF Reached
<1>6. FirstPull'
  <2>1. phase' = "extract" /\ pulls' = 1 => Only(b, tree'[layer], at')
    BY <1>2
  <2>2. \A l \in 1..Layers : l > layer => l \in 1..Layers \ {layer}
    BY <1>0
  <2>3. phase' = "extract" /\ pulls' = 1 =>
          \A l \in 1..Layers : l > layer => DOMAIN tree'[l] = {}
    BY <1>0, <1>2, <2>2 DEF FirstPull
  <2>4. QED
    BY <1>1, <2>1, <2>3 DEF FirstPull
<1>7. RefusedForModes'
  <2>1. SUFFICES ASSUME phase' = "conflict" PROVE RefusedForModes'
    BY DEF RefusedForModes
  <2>2. /\ at' = at /\ ~root
        /\ \/ /\ b[at + 1].kind = "file" /\ b[at + 1].mode = "ro"
              /\ ~Only(b, tree[layer], at)
           \/ ClosedTo(b, b[at + 1])
    BY <1>2, <2>1
  <2>3. ~Only(b, tree[layer], at) => pulls > 1
    <3>1. pulls \in Nat \ {0}
      BY <1>0 DEF Shape
    <3>2. pulls # 1 => pulls > 1
      BY <3>1
    <3>3. QED
      BY <3>2
  <2>4. archive'[layer'] = b /\ at' + 1 = at + 1 /\ pulls' = pulls /\ root' = root
    BY <1>1, <2>2
  <2>5. QED
    BY <2>2, <2>3, <2>4 DEF RefusedForModes
<1>8. LayersWhole'
  <2>1. \A l \in 1..Layers : l < layer => l \in 1..Layers \ {layer}
    BY <1>0
  <2>2. phase' # "done"
    BY <1>2
  <2>3. ASSUME NEW l \in 1..Layers, l < layer, root \/ Linkable(archive'[l])
        PROVE  tree'[l] = Contents(archive'[l])
    BY <1>0, <1>1, <1>2, <2>1, <2>3 DEF LayersWhole
  <2>4. QED
    BY <2>2, <2>3 DEF LayersWhole
<1>9. QED
  BY <1>3, <1>4, <1>5, <1>6, <1>7, <1>8 DEF IInv

\* Every step of a pull keeps the inductive invariant.
LEMMA StepKeeps ==
  ASSUME IInv, Next
  PROVE  IInv'
<1> DEFINE a == archive[layer]
<1>0. /\ Shape /\ Parts /\ Reached /\ FirstPull /\ RefusedForModes /\ LayersWhole
      /\ Layers \in Nat \ {0} /\ layer \in 1..Layers
      /\ a \in Seq(Entries) /\ Tidy(a) /\ Len(a) \in Nat
      /\ Partial(a, tree[layer]) /\ LockedBy(a, tree[layer], locked[layer])
      /\ at \in 0..Len(a) /\ at \in Nat
  <2>1. a \in Seq(Entries)
    BY DEF IInv, Shape
  <2>2. Len(a) \in Nat
    BY <2>1, LenProperties
  <2>3. QED
    BY <2>1, <2>2, StackAssumption DEF IInv, Shape, Parts
<1>1. CASE ReadEntry
  <2>1. PICK e \in Entries :
          /\ Tidy(Append(a, e))
          /\ archive' = [archive EXCEPT ![layer] = Append(@, e)]
          /\ Extract(e)
    BY <1>1 DEF ReadEntry
  <2>2. /\ phase = "extract" /\ at = Len(a)
        /\ layer' = layer /\ root' = root /\ pulls' = pulls
    BY <1>1 DEF ReadEntry
  <2> DEFINE b == Append(a, e)
  <2>3. b \in Seq(Entries) /\ Len(b) = Len(a) + 1 /\ b[at + 1] = e
    BY <1>0, <2>2, AppendProperties
  <2>4. Partial(b, tree[layer])
    BY <1>0, <2>1, Unveiled
  <2>5. LockedBy(b, tree[layer], locked[layer])
    BY <1>0, LockedGrow
  <2>6. root \/ Linkable(b) => Extracted(b, tree[layer], at)
    <3>1. Linkable(b) => Linkable(a)
      BY <1>0, LockedGrow
    <3>2. root \/ Linkable(a) => Extracted(a, tree[layer], Len(a))
      BY <1>0, <2>2 DEF Reached
    <3>3. Extracted(a, tree[layer], Len(a)) => Extracted(b, tree[layer], Len(a))
      BY <1>0, <2>1, Unveiled
    <3>4. QED
      BY <2>2, <3>1, <3>2, <3>3
  <2>7. pulls = 1 => Only(b, tree[layer], at)
    BY <1>0, <2>2, LockedGrow DEF FirstPull
  <2>8. /\ archive' = [archive EXCEPT ![layer] = b]
        /\ Tidy(b) /\ Extract(b[at + 1]) /\ at < Len(b)
    BY <1>0, <2>1, <2>2, <2>3
  <2> HIDE DEF a, b
  <2>9. QED
    BY <2>2, <2>3, <2>4, <2>5, <2>6, <2>7, <2>8, EntryKeeps
<1>2. CASE ReadAgain
  <2>1. /\ phase = "extract" /\ at < Len(a) /\ Extract(a[at + 1])
        /\ archive' = archive /\ layer' = layer /\ root' = root /\ pulls' = pulls
    BY <1>2 DEF ReadAgain
  <2>2. archive' = [archive EXCEPT ![layer] = a]
    BY <1>0, <2>1 DEF Shape
  <2>3. root \/ Linkable(a) => Extracted(a, tree[layer], at)
    BY <1>0, <2>1 DEF Reached
  <2>4. pulls = 1 => Only(a, tree[layer], at)
    BY <1>0, <2>1 DEF FirstPull
  <2> HIDE DEF a
  <2>5. QED
    BY <1>0, <2>1, <2>2, <2>3, <2>4, EntryKeeps
<1>3. CASE EndOfArchive
  <2>1. /\ phase = "extract" /\ at = Len(a) /\ at' = 0
        /\ archive' = archive /\ tree' = tree /\ locked' = locked
        /\ root' = root /\ pulls' = pulls
        /\ IF layer < Layers THEN layer' = layer + 1 /\ phase' = phase
                             ELSE phase' = "done" /\ layer' = layer
    BY <1>3 DEF EndOfArchive
  <2>2. root \/ Linkable(a) => tree[layer] = Contents(a)
    BY <1>0, <2>1, ArchiveExtracted DEF Reached
  <2>3. \A l \in 1..layer :
          root \/ Linkable(archive[l]) => tree[l] = Contents(archive[l])
    <3>1. \A l \in 1..layer : l = layer \/ (l \in 1..Layers /\ l < layer)
      BY <1>0
    <3>2. QED
      BY <1>0, <2>2, <3>1 DEF LayersWhole
  <2>4. layer' \in 1..Layers /\ phase' \in {"extract", "done"}
    BY <1>0, <2>1
  <2>5. Shape'
    <3>1. archive[layer'] \in Seq(Entries)
      BY <1>0, <2>4 DEF Shape
    <3>2. Len(archive[layer']) \in Nat
      BY <3>1, LenProperties
    <3>3. at' \in 0..Len(archive'[layer'])
      BY <2>1, <3>2
    <3>4. QED
      BY <1>0, <2>1, <2>4, <3>3 DEF Shape
  <2>6. Parts'
    BY <1>0, <2>1 DEF Parts
  <2>7. Reached'
    BY <2>1 DEF Reached, Extracted
  <2>8. FirstPull'
    <3>1. SUFFICES ASSUME phase' = "extract", pulls' = 1 PROVE FirstPull'
      BY DEF FirstPull
    <3>2. layer' = layer + 1
      BY <2>1, <3>1
    <3>3. \A l \in 1..Layers : l > layer => DOMAIN tree[l] = {}
      BY <1>0, <2>1, <3>1 DEF FirstPull
    <3>4. DOMAIN tree'[layer'] = {}
      BY <1>0, <2>1, <2>4, <3>2, <3>3
    <3>5. \A l \in 1..Layers : l > layer' => DOMAIN tree'[l] = {}
      BY <1>0, <2>1, <3>2, <3>3
    <3>6. Only(archive'[layer'], tree'[layer'], at')
      BY <3>4 DEF Only
    <3>7. QED
      BY <3>5, <3>6 DEF FirstPull
  <2>9. RefusedForModes'
    BY <2>4 DEF RefusedForModes
  <2>10. LayersWhole'
    <3>1. \A l \in 1..Layers : phase' = "done" \/ l < layer' => l \in 1..layer
      BY <1>0, <2>1
    <3>2. ASSUME NEW l \in 1..Layers, phase' = "done" \/ l < layer',
                 root' \/ Linkable(archive'[l])
          PROVE  tree'[l] = Contents(archive'[l])
      BY <2>1, <2>3, <3>1, <3>2
    <3>3. QED
      BY <3>2 DEF LayersWhole
  <2>11. QED
    BY <2>5, <2>6, <2>7, <2>8, <2>9, <2>10 DEF IInv
<1>4. CASE Stop
  <2>1. /\ phase = "extract" /\ phase' = "stopped"
        /\ archive' = archive /\ layer' = layer /\ at' = at
        /\ root' = root /\ pulls' = pulls
    BY <1>4 DEF Stop
  <2>2. /\ DOMAIN tree' = 1..Layers /\ DOMAIN locked' = 1..Layers /\ Parts'
        /\ \A l \in 1..Layers \ {layer} : tree'[l] = tree[l]
    <3>1. CASE tree' = tree /\ locked' = locked
      BY <1>0, <2>1, <3>1 DEF Shape, Parts
    <3>2. CASE /\ at < Len(a)
               /\ LET e == a[at + 1]
                  IN  /\ e.kind = "file"
                      /\ Fits(tree[layer], e) /\ ~Denied(locked[layer], e)
                      /\ tree' = [tree EXCEPT ![layer] =
                                    With(PutFile(@, e.path), e.path, "torn")]
                      /\ locked' = [locked EXCEPT ![layer] = Locks(tree[layer], @, e)]
      <4> DEFINE e == a[at + 1]
                 p == e.path
                 t == tree[layer]
                 m == PutFile(t, p)
                 u == With(m, p, "torn")
                 L == Locks(t, locked[layer], e)
      <4>1. /\ tree' = [tree EXCEPT ![layer] = u] /\ DOMAIN tree = 1..Layers
            /\ locked' = [locked EXCEPT ![layer] = L] /\ DOMAIN locked = 1..Layers
        BY <1>0, <3>2 DEF Shape
      <4>2. Adds(m, t, Parents(p), p, "file")
        BY NodePut, Zenon DEF PutFile
      <4>3. at + 1 \in 1..Len(a) /\ e.kind = "file" /\ at < Len(a)
        BY <1>0, <3>2
      <4>4. Names(e) = {p} \cup Parents(p)
        BY DEF Names
      <4>5. u = [q \in DOMAIN m \cup {p} |-> IF q = p THEN "torn" ELSE m[q]]
        BY DEF With
      <4>6. p = a[at + 1].path /\ t = tree[layer] /\ e = a[at + 1]
        OBVIOUS
      <4>7. /\ tree'[layer] = u /\ DOMAIN tree' = 1..Layers
            /\ locked'[layer] = L /\ DOMAIN locked' = 1..Layers
            /\ \A l \in 1..Layers \ {layer} :
                 tree'[l] = tree[l] /\ locked'[l] = locked[l]
        BY <1>0, <4>1
      <4>a. t = [x \in DOMAIN t |-> t[x]]
        BY <1>0 DEF Partial
      <4>b. LockedBy(a, Put(t, e), L)
        BY <1>0, <4>3, <4>a, EntryLocked
      <4>c. DOMAIN Put(t, e) = DOMAIN t \cup Names(e)
        <5>1. e \in Entries
          BY <1>0, <4>3, ElementOfSeq
        <5>2. QED
          BY <4>3, <4>a, <5>1, PutLaws
      <4> HIDE DEF a, p, t, m, u, e, L
      <4>8. /\ u = [x \in DOMAIN u |-> u[x]]
            /\ DOMAIN u = DOMAIN t \cup Names(e)
            /\ \A x \in DOMAIN u : u[x] = IF x = p THEN "torn"
                                          ELSE IF x \in DOMAIN t THEN t[x] ELSE "dir"
        BY <4>2, <4>4, <4>5 DEF Adds
      <4>9. Partial(a, u)
        BY <1>0, <4>3, <4>6, <4>8, TornPart
      <4>10. LockedBy(a, u, L)
        BY <4>8, <4>b, <4>c DEF LockedBy
      <4>11. QED
        BY <1>0, <2>1, <4>7, <4>9, <4>10 DEF Parts, a
    <3>3. CASE /\ at > 0 /\ a[at].kind = "file" /\ locked' = locked
               /\ tree' = [tree EXCEPT ![layer][a[at].path] = "torn"]
      <4> DEFINE p == a[at].path
                 t == tree[layer]
                 u == [t EXCEPT ![p] = "torn"]
      <4>1. at \in 1..Len(a)
        BY <1>0, <3>3
      <4>2. tree'[layer] = u /\ DOMAIN tree' = 1..Layers
            /\ \A l \in 1..Layers \ {layer} : tree'[l] = tree[l]
        BY <1>0, <3>3 DEF Shape
      <4>3. p = a[at].path /\ t = tree[layer]
        OBVIOUS
      <4>4. t = [x \in DOMAIN t |-> t[x]]
        BY <1>0 DEF Partial
      <4>5. /\ u = [x \in DOMAIN u |-> u[x]] /\ DOMAIN u = DOMAIN t
            /\ \A x \in DOMAIN u : u[x] = IF x = p THEN "torn"
                                          ELSE IF x \in DOMAIN t THEN t[x] ELSE "dir"
        BY <4>4
      <4> HIDE DEF a, p, t, u
      <4>6. Partial(a, u)
        BY <1>0, <3>3, <4>1, <4>3, <4>5, TornPart
      <4>7. LockedBy(a, u, locked[layer])
        BY <1>0, <4>3, <4>5 DEF LockedBy
      <4>8. DOMAIN locked' = 1..Layers
        BY <1>0, <3>3 DEF Shape
      <4>9. QED
        BY <1>0, <2>1, <3>3, <4>2, <4>6, <4>7, <4>8 DEF Parts, a
    <3>4. QED
      BY <1>4, <3>1, <3>2, <3>3 DEF Stop
  <2>3. Shape'
    BY <1>0, <2>1, <2>2 DEF Shape
  <2>4. Reached' /\ FirstPull' /\ RefusedForModes'
    BY <2>1 DEF Reached, FirstPull, RefusedForModes
  <2>5. LayersWhole'
    <3>1. \A l \in 1..Layers : l < layer => l \in 1..Layers \ {layer}
      BY <1>0
    <3>2. ASSUME NEW l \in 1..Layers, l < layer', root' \/ Linkable(archive'[l])
          PROVE  tree'[l] = Contents(archive'[l])
      BY <1>0, <2>1, <2>2, <3>1, <3>2 DEF LayersWhole
    <3>3. QED
      BY <2>1, <3>2 DEF LayersWhole
  <2>6. QED
    BY <2>2, <2>3, <2>4, <2>5 DEF IInv
<1>5. CASE PullAgain
  <2>1. /\ phase' = "extract" /\ layer' = 1 /\ at' = 0
        /\ archive' = archive /\ tree' = tree /\ locked' = locked /\ root' = root
        /\ pulls' = pulls + 1
    BY <1>5 DEF PullAgain
  <2>2. 1 \in 1..Layers
    BY <1>0
  <2>3. archive[1] \in Seq(Entries)
    BY <1>0, <2>2 DEF Shape
  <2>4. 0 \in 0..Len(archive[1])
    BY <2>3, LenProperties
  <2>5. pulls' \in Nat \ {0} /\ pulls' # 1
    BY <1>0, <2>1 DEF Shape
  <2>6. Shape'
    BY <1>0, <2>1, <2>2, <2>4, <2>5 DEF Shape
  <2>7. Parts'
    BY <1>0, <2>1 DEF Parts
  <2>8. Reached' /\ FirstPull' /\ RefusedForModes'
    BY <2>1, <2>5 DEF Reached, Extracted, FirstPull, RefusedForModes
  <2>9. LayersWhole'
    BY <1>0, <2>1 DEF LayersWhole
  <2>10. QED
    BY <2>6, <2>7, <2>8, <2>9 DEF IInv
<1>6. CASE Done
  BY <1>0, <1>6
  DEF Done, vars, IInv, Shape, Parts, Reached, FirstPull, RefusedForModes, LayersWhole
<1>7. QED
  BY <1>1, <1>2, <1>3, <1>4, <1>5, <1>6 DEF Next

(***************************************************************************)
(* The image, layer by layer.                                              *)
(***************************************************************************)

\* What the n-th layer brings, and what it hides of those below.
New(n)  == Contents(archive[n])
Gone(n) == HiddenBy(archive[n])
             \cup UNION {Below(p) : p \in {q \in DOMAIN New(n) : New(n)[q] # "dir"}}

\* A set that has 0 and the successor of each of its members has all naturals:
\* there is no least one that it lacks.
LEMMA AllNaturals ==
  ASSUME NEW I \in SUBSET Nat, 0 \in I, \A n \in I : n + 1 \in I
  PROVE  I = Nat
<1>1. SUFFICES ASSUME Nat \ I # {} PROVE FALSE
  OBVIOUS
<1> DEFINE T == {0..x : x \in Nat \ I}
<1>2. T \subseteq FiniteSubsetsOf(Nat) /\ T # {}
  <2>1. \A x \in Nat : 0..x \subseteq Nat /\ IsFiniteSet(0..x)
    BY FS_Interval
  <2>2. QED
    BY <1>1, <2>1 DEF FiniteSubsetsOf
<1>3. PICK t \in T : \A u \in T : ~(<<u, t>> \in StrictSubsetOrdering(Nat))
  BY <1>2, FS_StrictSubsetOrderingWellFounded, WFMin, Zenon
<1>4. PICK x \in Nat \ I : t = 0..x
  BY <1>3
<1>5. x - 1 \in Nat \ I
  <2>1. x # 0
    OBVIOUS
  <2>2. x - 1 \in Nat /\ (x - 1) + 1 = x
    BY <2>1
  <2>3. QED
    BY <2>2
<1>6. 0..x - 1 \subseteq 0..x /\ x \in 0..x /\ x \notin 0..x - 1
  BY <1>5
<1>7. <<0..x - 1, 0..x>> \in StrictSubsetOrdering(Nat)
  BY <1>6 DEF StrictSubsetOrdering
<1>8. QED
  BY <1>3, <1>4, <1>5, <1>7

\* The function Unpacked is what its definition says: on every initial part of
\* the layers there is one that is.
LEMMA UnpackedIs ==
  /\ Unpacked[0] = <<>>
  /\ \A n \in 1..Layers : Unpacked[n] = ApplyLayer(Unpacked[n - 1], n)
<1> DEFINE Is(g, n) ==
      g = [l \in 0..n |-> IF l = 0 THEN <<>> ELSE ApplyLayer(g[l - 1], l)]
           I == {n \in Nat : \E g : Is(g, n)}
<1>1. 0 \in I
  <2> DEFINE g == [l \in 0..0 |-> <<>>]
  <2>1. \A l \in 0..0 : l = 0
    OBVIOUS
  <2>2. Is(g, 0)
    BY <2>1
  <2>3. QED
    BY <2>2
<1>2. ASSUME NEW n \in I PROVE n + 1 \in I
  <2>1. PICK g : Is(g, n)
    OBVIOUS
  <2>2. n \in Nat /\ n + 1 \in Nat
    OBVIOUS
  <2> DEFINE h == [l \in 0..n + 1 |->
                     IF l = n + 1 THEN ApplyLayer(g[n], n + 1) ELSE g[l]]
  <2>3. ASSUME NEW l \in 0..n + 1
        PROVE  h[l] = IF l = 0 THEN <<>> ELSE ApplyLayer(h[l - 1], l)
    <3>1. CASE l = 0
      <4>1. l # n + 1 /\ l \in 0..n
        BY <2>2, <3>1
      <4>2. g[l] = <<>>
        BY <2>1, <3>1, <4>1
      <4>3. QED
        BY <3>1, <4>1, <4>2
    <3>2. CASE l = n + 1
      <4>1. l # 0 /\ l - 1 = n /\ l - 1 \in 0..n + 1 /\ l - 1 # n + 1
        BY <2>2, <3>2
      <4>2. h[l - 1] = g[n] /\ h[l] = ApplyLayer(g[n], l)
        BY <3>2, <4>1
      <4>3. QED
        BY <4>1, <4>2
    <3>3. CASE l # 0 /\ l # n + 1
      <4>1. l \in 0..n /\ l - 1 \in 0..n + 1 /\ l - 1 # n + 1
        BY <2>2, <3>3
      <4>2. h[l - 1] = g[l - 1] /\ h[l] = g[l]
        BY <3>3, <4>1
      <4>3. g[l] = ApplyLayer(g[l - 1], l)
        BY <2>1, <3>3, <4>1
      <4>4. QED
        BY <3>3, <4>2, <4>3
    <3>4. QED
      BY <3>1, <3>2, <3>3
  <2>4. h = [l \in 0..n + 1 |-> h[l]]
    OBVIOUS
  <2> HIDE DEF h
  <2>5. Is(h, n + 1)
    BY <2>3, <2>4
  <2>6. QED
    BY <2>2, <2>5
<1>3. I \in SUBSET Nat
  OBVIOUS
<1>4. Unpacked = CHOOSE f : Is(f, Layers)
  BY DEF Unpacked
<1>5. Layers \in Nat
  BY StackAssumption
<1>6. \E g : Is(g, Layers)
  <2>1. ASSUME NEW J, J = I PROVE J = Nat
    <3>1. J \in SUBSET Nat /\ 0 \in J /\ \A n \in J : n + 1 \in J
      BY <1>1, <1>2, <1>3, <2>1
    <3>2. QED
      BY <3>1, AllNaturals
  <2>2. Layers \in I
    BY <1>5, <2>1
  <2>3. QED
    BY <2>2
<1>7. Is(Unpacked, Layers)
  BY <1>4, <1>6
<1>8. \A n \in 1..Layers : n \in 0..Layers /\ n # 0
  BY <1>5
<1>9. 0 \in 0..Layers
  BY <1>5
<1>10. QED
  BY <1>7, <1>8, <1>9

\* A layer lays what it brings over what it does not hide.
LEMMA LayerApplied ==
  ASSUME NEW image, NEW l
  PROVE  /\ DOMAIN ApplyLayer(image, l) = DOMAIN New(l) \cup (DOMAIN image \ Gone(l))
         /\ \A p \in DOMAIN New(l) \cup (DOMAIN image \ Gone(l)) :
              ApplyLayer(image, l)[p] =
                IF p \in DOMAIN New(l) THEN Label(New(l)[p], l) ELSE image[p]
<1> DEFINE new  == [p \in DOMAIN New(l) |-> Label(New(l)[p], l)]
           kept == Without(image, Gone(l))
<1>1. ApplyLayer(image, l) = Over(new, kept)
  BY DEF ApplyLayer, New, Gone
<1>2. kept = [p \in DOMAIN image \ Gone(l) |-> image[p]]
  <2>1. (DOMAIN image \ Gone(l)) \cap DOMAIN image = DOMAIN image \ Gone(l)
    OBVIOUS
  <2>2. QED
    BY <2>1 DEF Without, Restrict
<1>3. DOMAIN new = DOMAIN New(l) /\ \A p \in DOMAIN New(l) : new[p] = Label(New(l)[p], l)
  OBVIOUS
<1>4. /\ DOMAIN kept = DOMAIN image \ Gone(l)
      /\ \A p \in DOMAIN kept : kept[p] = image[p]
  BY <1>2
<1> HIDE DEF new, kept
<1>5. Over(new, kept) = [p \in DOMAIN new \cup DOMAIN kept |->
                           IF p \in DOMAIN new THEN new[p] ELSE kept[p]]
  BY DEF Over
<1>6. QED
  BY <1>1, <1>3, <1>4, <1>5

\* Layer l is the topmost of the first n that has p, and none above hides p.
Topmost(l, n, p) ==
  /\ l \in 1..n /\ p \in DOMAIN New(l)
  /\ \A k \in l + 1..n : p \notin DOMAIN New(k) /\ p \notin Gone(k)

\* The image of the first n layers has what no layer above hides, from the
\* topmost layer that has it.
Made(n) ==
  /\ \A p \in DOMAIN Unpacked[n] :
       \E l \in 1..n : Topmost(l, n, p) /\ Unpacked[n][p] = Label(New(l)[p], l)
  /\ \A l \in 1..n : \A p \in DOMAIN New(l) :
       (\A k \in l + 1..n : p \notin Gone(k)) => p \in DOMAIN Unpacked[n]

\* One more layer.
LEMMA OneMore ==
  ASSUME NEW n \in Nat, n + 1 \in 1..Layers, Made(n)
  PROVE  Made(n + 1)
<1> DEFINE m == n + 1
           old == Unpacked[n]
           now == Unpacked[m]
<1>1. now = ApplyLayer(old, m)
  <2>1. m - 1 = n
    OBVIOUS
  <2>2. QED
    BY <2>1, UnpackedIs
<1>2. /\ DOMAIN now = DOMAIN New(m) \cup (DOMAIN old \ Gone(m))
      /\ \A p \in DOMAIN now :
           now[p] = IF p \in DOMAIN New(m) THEN Label(New(m)[p], m) ELSE old[p]
  <2>1. /\ DOMAIN ApplyLayer(old, m) = DOMAIN New(m) \cup (DOMAIN old \ Gone(m))
        /\ \A p \in DOMAIN New(m) \cup (DOMAIN old \ Gone(m)) :
             ApplyLayer(old, m)[p] =
               IF p \in DOMAIN New(m) THEN Label(New(m)[p], m) ELSE old[p]
    BY LayerApplied, Zenon
  <2> HIDE DEF m, old, now
  <2>2. QED
    BY <1>1, <2>1
<1>3. /\ m \in 1..m /\ 1..n \subseteq 1..m
      /\ \A l \in 1..m : l = m \/ l \in 1..n
      /\ \A k : k \notin m + 1..m
      /\ \A l \in 1..n : m \in l + 1..m /\ l + 1..n \subseteq l + 1..m
      /\ \A l \in 1..n : \A k \in l + 1..m : k = m \/ k \in l + 1..n
  OBVIOUS
<1>4. /\ \A p \in DOMAIN old :
           \E l \in 1..n : Topmost(l, n, p) /\ old[p] = Label(New(l)[p], l)
      /\ \A l \in 1..n : \A p \in DOMAIN New(l) :
           (\A k \in l + 1..n : p \notin Gone(k)) => p \in DOMAIN old
  BY DEF Made
<1> HIDE DEF m, old, now
<1>5. ASSUME NEW p \in DOMAIN now
      PROVE  \E l \in 1..m : Topmost(l, m, p) /\ now[p] = Label(New(l)[p], l)
  <2>1. CASE p \in DOMAIN New(m)
    BY <1>2, <1>3, <2>1 DEF Topmost
  <2>2. CASE p \notin DOMAIN New(m)
    <3>1. p \in DOMAIN old /\ p \notin Gone(m) /\ now[p] = old[p]
      BY <1>2, <2>2
    <3>2. PICK l \in 1..n : Topmost(l, n, p) /\ old[p] = Label(New(l)[p], l)
      BY <1>4, <3>1
    <3>3. Topmost(l, m, p)
      BY <1>3, <2>2, <3>1, <3>2 DEF Topmost
    <3>4. QED
      BY <1>3, <3>1, <3>2, <3>3
  <2>3. QED
    BY <2>1, <2>2
<1>6. ASSUME NEW l \in 1..m, NEW p \in DOMAIN New(l),
             \A k \in l + 1..m : p \notin Gone(k)
      PROVE  p \in DOMAIN now
  <2>1. CASE l = m
    BY <1>2, <2>1
  <2>2. CASE l \in 1..n
    BY <1>2, <1>3, <1>4, <1>6, <2>2
  <2>3. QED
    BY <1>3, <2>1, <2>2
<1>7. QED
  BY <1>5, <1>6 DEF Made, m, now

\* All layers.
LEMMA ImageIs == Made(Layers)
<1> DEFINE I == {n \in Nat : n \in 0..Layers => Made(n)}
<1>1. 0 \in I
  <2>1. Unpacked[0] = <<>> /\ DOMAIN <<>> = {}
    BY UnpackedIs, EmptySeq, LenProperties
  <2>2. \A l : l \notin 1..0
    OBVIOUS
  <2>3. Made(0)
    BY <2>1, <2>2 DEF Made
  <2>4. QED
    BY <2>3
<1>2. Layers \in Nat
  BY StackAssumption
<1>3. ASSUME NEW n \in I PROVE n + 1 \in I
  <2>1. CASE n + 1 \in 0..Layers
    <3>1. n \in Nat /\ n \in 0..Layers /\ n + 1 \in 1..Layers
      BY <1>2, <2>1
    <3>2. Made(n + 1)
      BY <3>1, OneMore
    <3>3. QED
      BY <3>2
  <2>2. QED
    BY <2>1
<1>4. I \in SUBSET Nat
  OBVIOUS
<1>5. ASSUME NEW J, J = I PROVE J = Nat
  <2>1. J \in SUBSET Nat /\ 0 \in J /\ \A n \in J : n + 1 \in J
    BY <1>1, <1>3, <1>4, <1>5
  <2>2. QED
    BY <2>1, AllNaturals
<1>6. Layers \in I
  BY <1>2, <1>5
<1>7. QED
  BY <1>2, <1>6

(***************************************************************************)
(* The mounted stack.                                                      *)
(***************************************************************************)

\* OverlayLowerDirs counts the layers from the topmost.
LEMMA LowerDirs ==
  \A i \in 1..Layers : OverlayLowerDirs[i] = Layers + 1 - i
<1>1. Reverse([i \in 1..Layers |-> i]) = [i \in 1..Layers |-> Layers + 1 - i]
  BY StackAssumption DEF Reverse
<1>2. QED
  BY <1>1 DEF OverlayLowerDirs

\* An archive holds names only, and a node that is no directory takes what is
\* below it away from the layers underneath.
LEMMA GoneBelow ==
  ASSUME NEW n \in 1..Layers, archive[n] \in Seq(Entries), Tidy(archive[n])
  PROVE  /\ DOMAIN New(n) \subseteq Paths
         /\ \A p \in Paths : p \in Gone(n) <=>
              \/ p \in HiddenBy(archive[n])
              \/ \E q \in Parents(p) : q \in DOMAIN New(n) /\ New(n)[q] # "dir"
<1> DEFINE a == archive[n]
<1>1. DOMAIN New(n) \subseteq Paths
  <2>1. ASSUME NEW p \in DOMAIN Contents(a) PROVE p \in Paths
    <3>1. PICK i \in 1..Len(a) : a[i].kind \in Adding /\ p \in Names(a[i])
      BY ContentsIs
    <3>2. a[i] \in Entries
      BY ElementOfSeq
    <3>3. QED
      BY <3>1, <3>2, EntryIs DEF Names, Parents
  <2>2. QED
    BY <2>1 DEF New
<1>2. \A p, q \in Paths : p \in Below(q) <=> q \in Parents(p)
  BY DEF Below, Parents
<1>3. \A p \in Paths : p \in Gone(n) <=>
        \/ p \in HiddenBy(archive[n])
        \/ \E q \in DOMAIN New(n) : New(n)[q] # "dir" /\ p \in Below(q)
  BY DEF Gone
<1>4. \A p : Parents(p) \subseteq Paths
  BY DEF Parents
<1>5. QED
  BY <1>1, <1>2, <1>3, <1>4

\* What overlayfs shows of directories that are what the archives say, in terms
\* of layers instead of places in the mount order.
LEMMA ShowingIs ==
  ASSUME NEW p, NEW l \in 1..Layers,
         \A k \in 1..Layers : tree[k] = New(k)
  PROVE  Layers + 1 - l \in Showing(p) <=>
           /\ p \in DOMAIN New(l)
           /\ \A k \in l + 1..Layers : \A q \in Parents(p) \cup {p} :
                q \in DOMAIN New(k) => New(k)[q] = "dir"
<1> DEFINE i == Layers + 1 - l
           Dirs(k) == \A q \in Parents(p) \cup {p} :
                        q \in DOMAIN New(k) => New(k)[q] = "dir"
<1>1. Layers \in Nat
  BY StackAssumption
<1>2. i \in 1..Layers /\ OverlayLowerDirs[i] = l
  BY <1>1, LowerDirs
<1>3. \A j \in 1..i - 1 : j \in 1..Layers /\ Layers + 1 - j \in l + 1..Layers
  BY <1>1
<1>4. \A k \in l + 1..Layers :
        Layers + 1 - k \in 1..i - 1 /\ Layers + 1 - (Layers + 1 - k) = k
  BY <1>1
<1>5. \A j \in 1..i - 1 : tree[OverlayLowerDirs[j]] = New(Layers + 1 - j)
  <2>1. ASSUME NEW j \in 1..i - 1
        PROVE  tree[OverlayLowerDirs[j]] = New(Layers + 1 - j)
    <3>1. Layers + 1 - j \in 1..Layers
      BY <1>1, <1>3
    <3>2. OverlayLowerDirs[j] = Layers + 1 - j
      BY <1>3, LowerDirs
    <3>3. QED
      BY <3>1, <3>2
  <2>2. QED
    BY <2>1
<1>6. tree[OverlayLowerDirs[i]] = New(l)
  BY <1>2
<1>7. i \in Showing(p) <=>
        /\ p \in DOMAIN New(l)
        /\ \A j \in 1..i - 1 : \A q \in Parents(p) \cup {p} :
             q \in DOMAIN tree[OverlayLowerDirs[j]]
               => tree[OverlayLowerDirs[j]][q] = "dir"
  BY <1>2, <1>6 DEF Showing
<1> HIDE DEF i
<1>8. i \in Showing(p) <=>
        p \in DOMAIN New(l) /\ \A j \in 1..i - 1 : Dirs(Layers + 1 - j)
  BY <1>5, <1>7
<1> HIDE DEF Dirs
<1>9. ASSUME \A j \in 1..i - 1 : Dirs(Layers + 1 - j), NEW k \in l + 1..Layers
      PROVE  Dirs(k)
  <2>1. Dirs(Layers + 1 - (Layers + 1 - k))
    BY <1>4, <1>9
  <2>2. QED
    BY <1>4, <2>1, Zenon
<1>10. (\A j \in 1..i - 1 : Dirs(Layers + 1 - j)) <=> (\A k \in l + 1..Layers : Dirs(k))
  BY <1>3, <1>9
<1>11. QED
  BY <1>8, <1>10 DEF i, Dirs

\* A path is shown from the first directory in mount order that shows it.
LEMMA ViewIs ==
  ASSUME NEW p \in Paths, NEW i \in Showing(p), \A j \in Showing(p) : i <= j
  PROVE  /\ p \in DOMAIN View
         /\ View[p] = Label(tree[OverlayLowerDirs[i]][p], OverlayLowerDirs[i])
<1> DEFINE c == CHOOSE c \in Showing(p) : \A j \in Showing(p) : c <= j
<1>1. c \in Showing(p) /\ \A j \in Showing(p) : c <= j
  OBVIOUS
<1>2. /\ p \in DOMAIN View
      /\ View[p] = Label(tree[OverlayLowerDirs[c]][p], OverlayLowerDirs[c])
  BY DEF View
<1>3. Showing(p) \subseteq Nat
  BY StackAssumption DEF Showing
<1> HIDE DEF c
<1>4. c = i
  <2>1. c \in Nat /\ i \in Nat /\ c <= i /\ i <= c
    BY <1>1, <1>3
  <2>2. QED
    BY <2>1
<1>5. QED
  BY <1>2, <1>4

\* When every directory is what its archive says, the stack shows the image.
LEMMA Stacked ==
  ASSUME archive \in [1..Layers -> Seq(Entries)],
         \A k \in 1..Layers : Tidy(archive[k]),
         \A k \in 1..Layers : tree[k] = Contents(archive[k])
  PROVE  /\ \A p \in DOMAIN Image : p \in DOMAIN View /\ View[p] = Image[p]
         /\ \A p \in DOMAIN View \ DOMAIN Image :
              \E k \in 1..Layers, j \in 1..Layers :
                j < k /\ p \in HiddenBy(archive[k]) \cap DOMAIN tree[j]
<1>1. /\ \A k \in 1..Layers : tree[k] = New(k)
      /\ \A n \in 1..Layers : DOMAIN New(n) \subseteq Paths
      /\ \A n \in 1..Layers : \A p \in Paths : p \in Gone(n) <=>
           \/ p \in HiddenBy(archive[n])
           \/ \E q \in Parents(p) : q \in DOMAIN New(n) /\ New(n)[q] # "dir"
  <2>1. \A k \in 1..Layers : archive[k] \in Seq(Entries)
    OBVIOUS
  <2>2. QED
    BY <2>1, GoneBelow DEF New
<1>2. Layers \in Nat /\ \A l \in 1..Layers : l + 1..Layers \subseteq 1..Layers
  BY StackAssumption
<1>3. ASSUME NEW p \in DOMAIN Image
      PROVE  p \in DOMAIN View /\ View[p] = Image[p]
  <2>1. PICK l \in 1..Layers :
          Topmost(l, Layers, p) /\ Image[p] = Label(New(l)[p], l)
    BY ImageIs DEF Made, Image
  <2>2. /\ p \in DOMAIN New(l) /\ p \in Paths
        /\ \A k \in l + 1..Layers : p \notin DOMAIN New(k) /\ p \notin Gone(k)
    BY <1>1, <2>1 DEF Topmost
  <2> DEFINE i == Layers + 1 - l
  <2>3. i \in Showing(p)
    <3>1. ASSUME NEW k \in l + 1..Layers, NEW q \in Parents(p) \cup {p},
                 q \in DOMAIN New(k)
          PROVE  New(k)[q] = "dir"
      BY <1>1, <1>2, <2>2, <3>1
    <3>2. QED
      BY <1>1, <2>2, <3>1, ShowingIs
  <2>4. ASSUME NEW j \in Showing(p) PROVE i <= j
    <3>1. /\ j \in 1..Layers /\ p \in DOMAIN tree[OverlayLowerDirs[j]]
          /\ OverlayLowerDirs[j] = Layers + 1 - j
      BY LowerDirs DEF Showing
    <3>2. Layers + 1 - j \in 1..Layers
      BY <1>2, <3>1
    <3>3. p \in DOMAIN New(Layers + 1 - j)
      BY <1>1, <3>1, <3>2
    <3>4. Layers + 1 - j \notin l + 1..Layers
      BY <2>2, <3>3
    <3>5. QED
      BY <1>2, <3>1, <3>2, <3>4
  <2>5. i \in 1..Layers /\ OverlayLowerDirs[i] = l
    <3>1. i \in 1..Layers /\ Layers + 1 - i = l
      BY <1>2
    <3>2. QED
      BY <3>1, LowerDirs
  <2> HIDE DEF i
  <2>6. p \in DOMAIN View /\ View[p] = Label(tree[l][p], l)
    BY <2>2, <2>3, <2>4, <2>5, ViewIs
  <2>7. QED
    BY <1>1, <2>1, <2>6
<1>4. ASSUME NEW p \in DOMAIN View \ DOMAIN Image
      PROVE  \E k \in 1..Layers, j \in 1..Layers :
               j < k /\ p \in HiddenBy(archive[k]) \cap DOMAIN tree[j]
  <2>1. p \in Paths /\ Showing(p) # {}
    BY DEF View
  <2>2. PICK i \in 1..Layers : i \in Showing(p)
    BY <2>1 DEF Showing
  <2> DEFINE l == Layers + 1 - i
  <2>3. l \in 1..Layers /\ i = Layers + 1 - l
    BY <1>2
  <2> HIDE DEF l
  <2>4. /\ p \in DOMAIN New(l)
        /\ \A k \in l + 1..Layers : \A q \in Parents(p) \cup {p} :
             q \in DOMAIN New(k) => New(k)[q] = "dir"
    BY <1>1, <2>2, <2>3, ShowingIs
  <2>5. PICK k \in l + 1..Layers : p \in Gone(k)
    BY <2>3, <2>4, ImageIs DEF Made, Image
  <2>6. k \in 1..Layers /\ l < k
    BY <1>2, <2>3
  <2>7. p \in HiddenBy(archive[k])
    BY <1>1, <2>1, <2>4, <2>5, <2>6
  <2>8. QED
    BY <1>1, <2>3, <2>4, <2>6, <2>7
<1>5. QED
  BY <1>3, <1>4

(***************************************************************************)
(* Theorems.                                                               *)
(***************************************************************************)

\* The inductive invariant holds of every series of pulls: each directory is a
\* part of its archive, whole behind the entry reached unless a hard link was
\* left out, and what is locked in it the archive has locked (extractLayer, Pull).
THEOREM Invariance == Spec => []IInv
<1>1. Init => IInv
  <2>1. SUFFICES ASSUME Init PROVE IInv
    OBVIOUS
  <2>2. <<>> \in Seq(Entries) /\ Len(<<>>) = 0 /\ DOMAIN <<>> = {}
    BY EmptySeq, LenProperties
  <2>3. Tidy(<<>>)
    BY <2>2 DEF Tidy
  <2>4. Layers \in Nat \ {0} /\ 1 \in 1..Layers
    BY StackAssumption
  <2>5. /\ archive = [l \in 1..Layers |-> <<>>] /\ tree = [l \in 1..Layers |-> <<>>]
        /\ locked = [l \in 1..Layers |-> {}]
        /\ phase = "extract" /\ layer = 1 /\ at = 0 /\ root \in BOOLEAN /\ pulls = 1
    BY <2>1 DEF Init
  <2>6. Shape
    BY <2>2, <2>3, <2>4, <2>5 DEF Shape
  <2>7. Partial(<<>>, <<>>) /\ LockedBy(<<>>, <<>>, {})
    <3>1. <<>> \in [DOMAIN <<>> -> Nodes]
      BY <2>2
    <3>2. QED
      BY <2>2, <3>1 DEF Partial, LockedBy
  <2>8. Parts
    BY <2>5, <2>7 DEF Parts
  <2>9. Reached
    BY <2>5 DEF Reached, Extracted
  <2>10. FirstPull
    <3>1. \A l \in 1..Layers : DOMAIN tree[l] = {}
      BY <2>2, <2>5
    <3>2. QED
      BY <2>4, <2>5, <3>1 DEF FirstPull, Only
  <2>11. RefusedForModes /\ LayersWhole
    BY <2>4, <2>5 DEF RefusedForModes, LayersWhole
  <2>12. QED
    BY <2>6, <2>8, <2>9, <2>10, <2>11 DEF IInv
<1>2. IInv /\ [Next]_vars => IInv'
  <2>1. ASSUME IInv, UNCHANGED vars PROVE IInv'
    BY <2>1
    DEF vars, IInv, Shape, Parts, Reached, FirstPull, RefusedForModes, LayersWhole
  <2>2. QED
    BY <2>1, StepKeeps
<1>3. QED
  BY <1>1, <1>2, PTL DEF Spec

\* Extraction repairs: however many pulls were stopped, between two entries or
\* in the middle of a file, or refused, and however often they were repeated,
\* the directory of every layer the pull has passed is what the archive says, and
\* an entry is refused only to somebody other than root, for a read-only file
\* that an earlier pull has made or a directory that the archive has closed
\* (extractLayer, Pull).
THEOREM Repaired == Spec => []RepullRepairs
<1>1. IInv => RepullRepairs
  BY DEF IInv, RepullRepairs
<1>2. QED
  BY Invariance, <1>1, PTL

\* Once a pull is done, the mounted stack shows everything of the image from
\* the layer that the image has it from, and nothing besides but what a marker
\* should have hidden further down (OverlayLowerDirs, the mount of the overlay).
THEOREM StackIsImage == Spec => []StackShowsImage
<1>1. IInv => StackShowsImage
  <2>1. SUFFICES ASSUME IInv, phase = "done",
                        root \/ \A l \in 1..Layers : Linkable(archive[l])
                 PROVE  StackShowsImage
    BY DEF StackShowsImage
  <2>2. /\ archive \in [1..Layers -> Seq(Entries)]
        /\ \A k \in 1..Layers : Tidy(archive[k])
        /\ \A k \in 1..Layers : tree[k] = Contents(archive[k])
    BY <2>1 DEF IInv, Shape, LayersWhole
  <2>3. QED
    BY <2>2, Stacked DEF StackShowsImage
<1>2. QED
  BY Invariance, <1>1, PTL
=============================================================================
