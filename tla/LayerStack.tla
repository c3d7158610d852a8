----------------------------- MODULE LayerStack -----------------------------
(***************************************************************************)
(* What `myrun pull` makes of the layers of an image and what `myrun run`  *)
(* then shows the container: extractLayer unpacks every archive into a     *)
(* directory of its own, entry by entry, and ImageInfo.OverlayLowerDirs    *)
(* stacks the directories for overlayfs.  The detail of OpenBlob,          *)
(* ExtractChunk and FinishLayer of ImagePull.                              *)
(*                                                                         *)
(* A directory tree is a function from the paths it has to "dir", "file",  *)
(* "torn" (a file whose writer was stopped) or "symlink".  What a file     *)
(* holds is which layer it is from, so no contents are needed; a hard link *)
(* is a copy.                                                              *)
(*                                                                         *)
(* Of a mode counts whether its owner may write: "rw" or "ro".  It is what *)
(* a name was created with, and only users other than root are held to it: *)
(* they can neither open such a file for writing again nor create anything *)
(* in such a directory, which therefore stays empty.                       *)
(*                                                                         *)
(* An archive is unveiled as it is read: the first reader of a position    *)
(* chooses the entry, every later pull finds the same one.  Archives are   *)
(* those of Tidy.  Device nodes, names outside of the layer, directories   *)
(* that their owner may not search, and an image that root and somebody    *)
(* else pull in turns are left out.                                        *)
(***************************************************************************)
EXTENDS Naturals, Sequences, Functions, SequencesExt

CONSTANTS
  Paths,       \* the names there are, as sequences; no parent is missing
  Entries,     \* the entries an archive may have
  Layers,      \* number of layers of the image
  MaxEntries,  \* bound: entries of all its archives together
  MaxPulls     \* bound: pulls of the image, one after the other

Adding == {"dir", "file", "symlink", "link"}
Hiding == {"whiteout", "opaque"}

Parents(p) == {q \in Paths : IsStrictPrefix(q, p)}
Below(p)   == {q \in Paths : IsStrictPrefix(p, q)}
Subtree(p) == {p} \cup Below(p)

\* The names an entry stands for: its own, and the directories it is in.
Names(e) == {e.path} \cup Parents(e.path)

ASSUME StackAssumption ==
  /\ \A p \in Paths :
       Len(p) > 0 /\ \A n \in 1..Len(p) : SubSeq(p, 1, n) \in Paths
  /\ Entries \subseteq
       [kind : {"dir", "file"}, path : Paths, mode : {"rw", "ro"}]
         \cup [kind : {"symlink"} \cup Hiding, path : Paths]
         \cup [kind : {"link"}, path : Paths, to : Paths]
  /\ Layers \in Nat \ {0} /\ MaxEntries \in Nat /\ MaxPulls \in Nat

VARIABLES
  archive,  \* the entries of each layer's archive that were read so far
  closed,   \* the layers whose archive was read to its end
  phase,    \* "extract", "stopped", "conflict" (an entry was refused), "done"
  layer,    \* the layer extractLayer works on
  at,       \* entries of its archive that are extracted
  tree,     \* the directory rootfs/<hex> of each layer
  locked,   \* the names in it that their owner may not write to
  root,     \* whether root pulls
  pulls     \* pulls that were begun

vars == <<archive, closed, phase, layer, at, tree, locked, root, pulls>>

Init ==
  /\ archive = [l \in 1..Layers |-> <<>>]
  /\ closed = {}
  /\ phase = "extract" /\ layer = 1 /\ at = 0
  /\ tree = [l \in 1..Layers |-> <<>>]
  /\ locked = [l \in 1..Layers |-> {}]
  /\ root \in BOOLEAN
  /\ pulls = 1

(***************************************************************************)
(* Archives.                                                               *)
(***************************************************************************)
\* What image builders keep to: a name is added once; a whiteout, which is for
\* the layers below, does not take away what its own archive has added before;
\* nothing is below a file or symlink; a hard link follows the file it names.
\* Whiteouts and opaque markers may otherwise be anywhere.
Tidy(a) ==
  /\ \A i, j \in DOMAIN a : i < j /\ a[i].kind \in Adding =>
       /\ a[j].kind \in Adding => a[j].path # a[i].path
       /\ a[j].kind = "whiteout" => Subtree(a[j].path) \cap Names(a[i]) = {}
  /\ \A i, j \in DOMAIN a :
       a[i].kind \in Adding /\ a[j].kind \in Adding
         /\ a[i].path \in Parents(a[j].path) => a[i].kind = "dir"
  /\ \A j \in DOMAIN a : a[j].kind = "link" =>
       \E i \in 1..j - 1 : a[i].kind = "file" /\ a[i].path = a[j].to

(***************************************************************************)
(* extractLayer.                                                           *)
(***************************************************************************)

\* The tree u with t laid over it, with a node at p, and without the names in S.
Over(t, u) ==
  [q \in DOMAIN t \cup DOMAIN u |-> IF q \in DOMAIN t THEN t[q] ELSE u[q]]

With(t, p, node) == [q \in DOMAIN t \cup {p} |-> IF q = p THEN node ELSE t[q]]

Without(t, S) == Restrict(t, DOMAIN t \ S)

\* os.MkdirAll: what is there stays.
MkdirAll(t, S) == Over(t, [q \in S |-> "dir"])

\* os.Remove takes a file, a link or an empty directory away.
Removable(t, p) == p \in DOMAIN t /\ t[p] = "dir" => DOMAIN t \cap Below(p) = {}

ParentsFit(t, p) == \A q \in Parents(p) \cap DOMAIN t : t[q] = "dir"

\* The kernel lets only root write to a locked file, or change what is in a
\* locked directory.
Denied(S, e) ==
  /\ ~root
  /\ Parents(e.path) \cap S # {} \/ (e.kind = "file" /\ e.path \in S)

\* Whether what is there lets the entry be made.
Fits(t, e) ==
  /\ ParentsFit(t, e.path)
  /\ e.kind = "dir" /\ e.path \in DOMAIN t => t[e.path] = "dir"
  /\ e.kind = "file" /\ e.path \in DOMAIN t => t[e.path] \in {"file", "torn"}
  /\ e.kind = "symlink" => Removable(t, e.path)

\* Mutant: an existing file is opened, as it is, and not truncated.
PutFileKeeping(t, p) ==
  Over(t, With(MkdirAll(<<>>, Parents(p)), p, "file"))

PutFile(t, p) == With(MkdirAll(t, Parents(p)), p, "file")

PutSymlink(t, p) == With(MkdirAll(t, Parents(p)), p, "symlink")

Linked(t, p, q) ==
  /\ Removable(t, p) /\ ParentsFit(t, p)
  /\ q \in DOMAIN t \ {p} /\ t[q] # "dir"

\* A link that cannot be made is left out, and the old name is gone.
PutLink(t, p, q) ==
  LET u == IF Removable(t, p) THEN Without(t, {p}) ELSE t
      v == IF ParentsFit(t, p) THEN MkdirAll(u, Parents(p)) ELSE u
  IN  IF Linked(t, p, q) THEN With(v, p, t[q]) ELSE v

\* A whiteout removes the name from this layer's own directory.
RemoveAll(t, p) == Without(t, Subtree(p))

Put(t, e) ==
  CASE e.kind = "dir"      -> MkdirAll(t, Parents(e.path) \cup {e.path})
    [] e.kind = "file"     -> PutFile(t, e.path)
    [] e.kind = "symlink"  -> PutSymlink(t, e.path)
    [] e.kind = "link"     -> PutLink(t, e.path, e.to)
    [] e.kind = "whiteout" -> RemoveAll(t, e.path)
    [] e.kind = "opaque"   -> t

\* A mode is given to what an entry creates; a link shares that of its file.
Locks(t, S, e) ==
  CASE e.kind \in {"dir", "file"} ->
         IF e.mode = "ro" /\ e.path \notin DOMAIN t THEN S \cup {e.path} ELSE S
    [] e.kind = "symlink"  -> S \ {e.path}
    [] e.kind = "link"     ->
         (IF Removable(t, e.path) THEN S \ {e.path} ELSE S)
           \cup {p \in {e.path} : e.to \in S /\ Linked(t, p, e.to)}
    [] e.kind = "whiteout" -> S \ Subtree(e.path)
    [] e.kind = "opaque"   -> S

WriteOut(e) ==
  /\ ~Denied(locked[layer], e)
  /\ e.kind \in {"dir", "file", "symlink"} => Fits(tree[layer], e)
  /\ tree' = [tree EXCEPT ![layer] = Put(@, e)]
  /\ locked' = [locked EXCEPT ![layer] = Locks(tree[layer], @, e)]
  /\ at' = at + 1
  /\ UNCHANGED phase

\* The errors of hard links and whiteouts are ignored.
LeaveOut(e) ==
  /\ Denied(locked[layer], e)
  /\ e.kind \in {"link"} \cup Hiding
  /\ at' = at + 1
  /\ UNCHANGED <<phase, tree, locked>>

Refuse(e) ==
  /\ Denied(locked[layer], e) \/ ~Fits(tree[layer], e)
  /\ e.kind \in {"dir", "file", "symlink"}
  /\ phase' = "conflict"
  /\ UNCHANGED <<at, tree, locked>>

\* tr.Next returns an entry.
Extract(e) == WriteOut(e) \/ LeaveOut(e) \/ Refuse(e)

\* An entry nobody has read before.
ReadEntry ==
  /\ phase = "extract" /\ at = Len(archive[layer]) /\ layer \notin closed
  /\ Len(FlattenSeq(archive)) < MaxEntries
  /\ \E e \in Entries :
       /\ Tidy(Append(archive[layer], e))
       /\ archive' = [archive EXCEPT ![layer] = Append(@, e)]
       /\ Extract(e)
  /\ UNCHANGED <<closed, layer, root, pulls>>

\* An entry that an earlier pull has extracted already.
ReadAgain ==
  /\ phase = "extract" /\ at < Len(archive[layer])
  /\ Extract(archive[layer][at + 1])
  /\ UNCHANGED <<archive, closed, layer, root, pulls>>

\* io.EOF: Pull goes on to the next layer, or returns.
EndOfArchive ==
  /\ phase = "extract" /\ at = Len(archive[layer])
  /\ closed' = closed \cup {layer}
  /\ at' = 0
  /\ IF layer < Layers
     THEN layer' = layer + 1 /\ UNCHANGED phase
     ELSE phase' = "done" /\ UNCHANGED layer
  /\ UNCHANGED <<archive, tree, locked, root, pulls>>

\* Between two entries, or in the middle of a file, the pull is killed or the
\* disk is full.
Stop ==
  /\ phase = "extract"
  /\ phase' = "stopped"
  /\ \/ UNCHANGED <<tree, locked>>
     \/ /\ at < Len(archive[layer])
        /\ LET e == archive[layer][at + 1]
           IN  /\ e.kind = "file"
               /\ Fits(tree[layer], e) /\ ~Denied(locked[layer], e)
               /\ tree' = [tree EXCEPT ![layer] =
                             With(PutFile(@, e.path), e.path, "torn")]
               /\ locked' = [locked EXCEPT ![layer] = Locks(tree[layer], @, e)]
     \/ /\ at > 0 /\ archive[layer][at].kind = "file"
        /\ tree' = [tree EXCEPT ![layer][archive[layer][at].path] = "torn"]
        /\ UNCHANGED locked
  /\ UNCHANGED <<archive, closed, layer, at, root, pulls>>

\* The user pulls the image again, after a failure or for no reason: every
\* layer is extracted over the directory that is there.
PullAgain ==
  /\ phase # "extract" /\ pulls < MaxPulls
  /\ phase' = "extract" /\ layer' = 1 /\ at' = 0
  /\ pulls' = pulls + 1
  /\ UNCHANGED <<archive, closed, tree, locked, root>>

Done == phase # "extract" /\ UNCHANGED vars

Next == ReadEntry \/ ReadAgain \/ EndOfArchive \/ Stop \/ PullAgain \/ Done

Spec == Init /\ [][Next]_vars

(***************************************************************************)
(* The stack.                                                              *)
(***************************************************************************)

\* Mutant: the layers in manifest order.
OverlayLowerDirsUnreversed == [i \in 1..Layers |-> i]

\* Topmost first.
OverlayLowerDirs == Reverse([i \in 1..Layers |-> i])

\* overlayfs: the layers that contribute to p, in mount order; a file or link
\* hides what the layers after it have at that name and below.
Showing(p) ==
  {i \in 1..Layers :
     /\ p \in DOMAIN tree[OverlayLowerDirs[i]]
     /\ \A j \in 1..i - 1, q \in Parents(p) \cup {p} :
          LET upper == tree[OverlayLowerDirs[j]]
          IN  q \in DOMAIN upper => upper[q] = "dir"}

\* What a path is and which layer it is from; directories are merged.
Label(node, l) == IF node = "dir" THEN <<"dir", 0>> ELSE <<node, l>>

View ==
  [p \in {q \in Paths : Showing(q) # {}} |->
     LET i == CHOOSE i \in Showing(p) : \A j \in Showing(p) : i <= j
     IN  Label(tree[OverlayLowerDirs[i]][p], OverlayLowerDirs[i])]

(***************************************************************************)
(* Reference: what an archive holds, and the image that its layers are     *)
(* change sets of.                                                         *)
(***************************************************************************)
AddedKind(a, p) ==
  LET i == CHOOSE i \in DOMAIN a : a[i].path = p /\ a[i].kind \in Adding
  IN  IF a[i].kind = "link" THEN "file" ELSE a[i].kind

Contents(a) ==
  LET named == {a[i].path : i \in {j \in DOMAIN a : a[j].kind \in Adding}}
      over  == UNION {Parents(p) : p \in named}
  IN  [p \in named \cup over |-> IF p \in named THEN AddedKind(a, p) ELSE "dir"]

\* What an archive hides in the layers below it.
HiddenBy(a) ==
  UNION {Below(a[i].path) : i \in {j \in DOMAIN a : a[j].kind \in Hiding}}
    \cup {a[i].path : i \in {j \in DOMAIN a : a[j].kind = "whiteout"}}

ApplyLayer(image, l) ==
  LET new  == Contents(archive[l])
      gone == HiddenBy(archive[l])
                \cup UNION {Below(p) : p \in {q \in DOMAIN new : new[q] # "dir"}}
  IN  Over([p \in DOMAIN new |-> Label(new[p], l)], Without(image, gone))

\* The image of the first n layers.
Unpacked[n \in 0..Layers] ==
  IF n = 0 THEN <<>> ELSE ApplyLayer(Unpacked[n - 1], n)

Image == Unpacked[Layers]

(***************************************************************************)
(* Properties.                                                             *)
(***************************************************************************)

\* A directory that the archive makes read-only, with e below it.
ClosedTo(a, e) ==
  \E i \in DOMAIN a :
    a[i].kind = "dir" /\ a[i].mode = "ro" /\ a[i].path \in Parents(e.path)

\* No hard link is in a directory that the archive has closed, where all but
\* root leave it out.
Linkable(a) == \A j \in DOMAIN a : a[j].kind = "link" => ~ClosedTo(a, a[j])

RefusedForModes ==
  phase = "conflict" =>
    LET a == archive[layer]
        e == archive[layer][at + 1]
    IN  ~root /\ ((e.kind = "file" /\ e.mode = "ro" /\ pulls > 1) \/ ClosedTo(a, e))

LayersWhole ==
  \A l \in 1..Layers :
    (phase = "done" \/ l < layer) /\ (root \/ Linkable(archive[l]))
      => tree[l] = Contents(archive[l])

\* Extraction repairs: whatever earlier pulls that were stopped or refused have
\* left behind, and however often a layer is extracted over itself, the layer's
\* directory ends as its archive says, nothing more, nothing less, no file
\* torn.  Root is never refused an entry.  Who else is, has to do with
\* read-only modes: it is a file that a pull before has made, or it is below a
\* directory that the archive itself has closed.
RepullRepairs == RefusedForModes /\ LayersWhole

\* The mounted stack loses nothing of the image and shows no file of a lower
\* layer in the place of an upper one's; all it may show too many is what a
\* whiteout or opaque marker should have hidden in a layer further down.
StackShowsImage ==
  phase = "done" /\ (root \/ \A l \in 1..Layers : Linkable(archive[l])) =>
    /\ \A p \in DOMAIN Image : p \in DOMAIN View /\ View[p] = Image[p]
    /\ \A p \in DOMAIN View \ DOMAIN Image :
         \E k \in 1..Layers, j \in 1..Layers :
           j < k /\ p \in HiddenBy(archive[k]) \cap DOMAIN tree[j]

\* What src/README.md:142 says: whiteout files are honored, so a container sees
\* no name that its image does not have.
WhiteoutsHonored == phase = "done" => DOMAIN View \subseteq DOMAIN Image
=============================================================================
