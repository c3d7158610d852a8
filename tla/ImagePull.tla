------------------------------ MODULE ImagePull ------------------------------
(***************************************************************************)
(* package image: invocations of `myrun pull` on one store.  Client.Pull   *)
(* writes manifest.json and then, layer by layer, pullBlob downloads the   *)
(* blob into the cache that all images share (through <digest>.part and a  *)
(* rename) and extractLayer unpacks it under the image.                    *)
(*                                                                         *)
(* A file is an inode: the descriptor a pull writes through keeps naming   *)
(* the inode it opened, whatever is renamed or removed meanwhile.  The     *)
(* inode created by pull p for digest d is data[d][p].                     *)
(*                                                                         *)
(* Simplifications: a blob is Chunks reads long; a chunk on disk is a hole *)
(* (never written, or truncated away), good or bad, and no wrong stream has*)
(* the right sha256; of the entries of a layer only Refusal is known; a tag*)
(* does not move while it is being pulled.                                 *)
(***************************************************************************)
EXTENDS Naturals, Sequences, Functions

CONSTANTS
  Pulls,     \* the invocations of `myrun pull`
  Images,    \* image references
  Digests,   \* layer digests
  LayersOf,  \* the layers of each image's manifest, base first
  Refusal,   \* of each layer: whether a user who is not root can extract it.
             \* "never" refused; "again": not over an earlier extraction, for
             \* the archive has a file that its owner may not write to;
             \* "always": it has such a directory, with entries in it
  Chunks,    \* number of reads io.Copy needs for a blob
  Uses,      \* ways the store is used: pulls that share a layer take "turns",
             \* or are a "crowd" and overlap in time
  CrowdImages,  \* bound: the images a crowd pulls
  None       \* no file, no pull

ASSUME PullAssumption ==
  /\ LayersOf \in [Images -> Seq(Digests) \ {<<>>}]
  /\ Refusal \in [Digests -> {"never", "again", "always"}]
  /\ Chunks \in Nat \ {0}
  /\ Uses \subseteq {"turns", "crowd"} /\ CrowdImages \subseteq Images
  /\ None \notin Pulls \cup Images /\ "empty" \notin Pulls

VARIABLES
  use,     \* how the store is used; the code does nothing to take turns
  pc,      \* where the pull is in Pull
  img,     \* the image it pulls
  layer,   \* index of the layer it works on
  fd,      \* inode it writes (pullBlob) or reads (extractLayer)
  at,      \* chunks it has copied or extracted
  clean,   \* the hash of what it has downloaded is on the way to the digest
  fault,   \* network or disk let the pull down
  mf,      \* manifest.json: absent, "empty", or the pull that wrote it
  part,    \* the inode named <digest>.part, if any
  blob,    \* the inode named <digest> in blobs/sha256, if any
  data,    \* contents of the inodes
  rootfs   \* extracted layer of an image: "absent", "partial", "again" (partial,
           \* over what was there), "full"

local  == <<img, layer, fd, at, clean>>
store  == <<mf, part, blob, data, rootfs>>
vars   == <<use, pc, local, fault, store>>

PC == {"idle", "manifest", "stat", "create", "copy", "verify", "rename",
       "open", "extract", "done", "failed", "crashed"}
Over == {"done", "failed", "crashed"}
Progress == {"absent", "partial", "again", "full"}

TypeOK ==
  /\ use \in Uses
  /\ pc \in [Pulls -> PC]
  /\ img \in [Pulls -> Images \cup {None}]
  /\ layer \in [Pulls -> Nat \ {0}]
  /\ fd \in [Pulls -> Pulls \cup {None}]
  /\ at \in [Pulls -> 0..Chunks]
  /\ clean \in [Pulls -> BOOLEAN]
  /\ fault \in [Pulls -> BOOLEAN]
  /\ mf \in [Images -> Pulls \cup {None, "empty"}]
  /\ part \in [Digests -> Pulls \cup {None}]
  /\ blob \in [Digests -> Pulls \cup {None}]
  /\ data \in [Digests -> [Pulls -> [1..Chunks -> {"hole", "good", "bad"}]]]
  /\ rootfs \in [Images -> [Digests -> Progress]]

Holes == [k \in 1..Chunks |-> "hole"]
Good  == [k \in 1..Chunks |-> "good"]

Init ==
  /\ use \in Uses
  /\ pc = [p \in Pulls |-> "idle"]
  /\ img = [p \in Pulls |-> None]
  /\ layer = [p \in Pulls |-> 1]
  /\ fd = [p \in Pulls |-> None]
  /\ at = [p \in Pulls |-> 0]
  /\ clean = [p \in Pulls |-> TRUE]
  /\ fault = [p \in Pulls |-> FALSE]
  /\ mf = [i \in Images |-> None]
  /\ part = [d \in Digests |-> None]
  /\ blob = [d \in Digests |-> None]
  /\ data = [d \in Digests |-> [p \in Pulls |-> Holes]]
  /\ rootfs = [i \in Images |-> [d \in Digests |-> "absent"]]

(***************************************************************************)
(* Helpers.                                                                *)
(***************************************************************************)
Goto(p, a, b) == pc[p] = a /\ pc' = [pc EXCEPT ![p] = b] /\ UNCHANGED use

\* A call of p that depends on the network or the disk returns an error.
Fault(p, a) == Goto(p, a, "failed") /\ fault' = [fault EXCEPT ![p] = TRUE]

Active(p) == pc[p] \notin Over \cup {"idle"}

Layer(p) == LayersOf[img[p]][layer[p]]

InCommon(i, j) == Range(LayersOf[i]) \cap Range(LayersOf[j])

\* os.Remove(tmp): the name goes, whoever's file it names.
RemovePart(p) == part' = [part EXCEPT ![Layer(p)] = None]

(***************************************************************************)
(* Pull, up to the layers.                                                 *)
(***************************************************************************)

\* Mutant: a manifest that is there already is left alone.
OpenManifestOnce(p) ==
  \E i \in Images :
    /\ \/ use = "turns" /\ \A q \in Pulls : Active(q) => InCommon(i, img[q]) = {}
       \/ use = "crowd" /\ i \in CrowdImages
    /\ Goto(p, "idle", IF mf[i] \in Pulls THEN "stat" ELSE "manifest")
    /\ img' = [img EXCEPT ![p] = i]
    /\ mf' = IF mf[i] \in Pulls THEN mf ELSE [mf EXCEPT ![i] = "empty"]
    /\ UNCHANGED <<layer, fd, at, clean, fault, part, blob, data, rootfs>>

\* token, the manifest request and ImageDir have succeeded; WriteFile has
\* truncated manifest.json.
OpenManifest(p) ==
  \E i \in Images :
    /\ \/ use = "turns" /\ \A q \in Pulls : Active(q) => InCommon(i, img[q]) = {}
       \/ use = "crowd" /\ i \in CrowdImages
    /\ Goto(p, "idle", "manifest")
    /\ img' = [img EXCEPT ![p] = i]
    /\ mf' = [mf EXCEPT ![i] = "empty"]
    /\ UNCHANGED <<layer, fd, at, clean, fault, part, blob, data, rootfs>>

FetchManifestFails(p) == Fault(p, "idle") /\ UNCHANGED <<local, store>>

WriteManifest(p) ==
  /\ Goto(p, "manifest", "stat")
  /\ mf' = [mf EXCEPT ![img[p]] = p]
  /\ UNCHANGED <<local, fault, part, blob, data, rootfs>>

WriteManifestFails(p) == Fault(p, "manifest") /\ UNCHANGED <<local, store>>

(***************************************************************************)
(* pullBlob.                                                               *)
(***************************************************************************)

\* Mutant: the cache is never consulted.
StatBlobAlwaysFetch(p) ==
  Goto(p, "stat", "create") /\ UNCHANGED <<local, fault, store>>

\* A blob that has its final name is taken to be complete.
StatBlob(p) ==
  /\ Goto(p, "stat", IF blob[Layer(p)] # None THEN "open" ELSE "create")
  /\ UNCHANGED <<local, fault, store>>

RequestBlobFails(p) == Fault(p, "create") /\ UNCHANGED <<local, store>>

\* Mutant: the .part file is created with O_EXCL.
CreatePartExclusive(p) ==
  LET d == Layer(p)
  IN  \/ /\ Goto(p, "create", "copy")
         /\ part[d] = None
         /\ fd' = [fd EXCEPT ![p] = p]
         /\ at' = [at EXCEPT ![p] = 0]
         /\ clean' = [clean EXCEPT ![p] = TRUE]
         /\ part' = [part EXCEPT ![d] = p]
         /\ UNCHANGED <<img, layer, fault, mf, blob, data, rootfs>>
      \/ /\ Goto(p, "create", "failed")
         /\ part[d] # None
         /\ UNCHANGED <<local, fault, store>>

\* os.Create(tmp) makes the file, or truncates the one that has the name.
CreatePart(p) ==
  LET d == Layer(p)
      inode == IF part[d] = None THEN p ELSE part[d]
  IN  /\ Goto(p, "create", "copy")
      /\ fd' = [fd EXCEPT ![p] = inode]
      /\ at' = [at EXCEPT ![p] = 0]
      /\ clean' = [clean EXCEPT ![p] = TRUE]
      /\ part' = [part EXCEPT ![d] = inode]
      /\ data' = [data EXCEPT ![d][inode] = Holes]
      /\ UNCHANGED <<img, layer, fault, mf, blob, rootfs>>

\* Mutant: a short read passes for the end of the blob.
CopyChunkShort(p) ==
  \E chunk \in {"good", "bad"} :
    /\ Goto(p, "copy", IF at[p] + 2 >= Chunks THEN "verify" ELSE "copy")
    /\ at' = [at EXCEPT ![p] = @ + 1]
    /\ data' = [data EXCEPT ![Layer(p)][fd[p]][at[p] + 1] = chunk]
    /\ clean' = [clean EXCEPT ![p] = @ /\ chunk = "good"]
    /\ fault' = [fault EXCEPT ![p] = @ \/ chunk = "bad"]
    /\ UNCHANGED <<img, layer, fd, mf, part, blob, rootfs>>

\* Mutant: one read too many.
CopyChunkLong(p) ==
  \E chunk \in {"good", "bad"} :
    /\ Goto(p, "copy", IF at[p] = Chunks THEN "verify" ELSE "copy")
    /\ at' = [at EXCEPT ![p] = @ + 1]
    /\ data' = [data EXCEPT ![Layer(p)][fd[p]][at[p] + 1] = chunk]
    /\ clean' = [clean EXCEPT ![p] = @ /\ chunk = "good"]
    /\ fault' = [fault EXCEPT ![p] = @ \/ chunk = "bad"]
    /\ UNCHANGED <<img, layer, fd, mf, part, blob, rootfs>>

\* One round of io.Copy into the file and the hash, at p's own offset.
CopyChunk(p) ==
  \E chunk \in {"good", "bad"} :
    /\ Goto(p, "copy", IF at[p] + 1 = Chunks THEN "verify" ELSE "copy")
    /\ at' = [at EXCEPT ![p] = @ + 1]
    /\ data' = [data EXCEPT ![Layer(p)][fd[p]][at[p] + 1] = chunk]
    /\ clean' = [clean EXCEPT ![p] = @ /\ chunk = "good"]
    /\ fault' = [fault EXCEPT ![p] = @ \/ chunk = "bad"]
    /\ UNCHANGED <<img, layer, fd, mf, part, blob, rootfs>>

\* The network, a write or f.Close fails.
CopyFails(p) ==
  /\ \E a \in {"copy", "verify"} : Fault(p, a)
  /\ RemovePart(p)
  /\ UNCHANGED <<local, mf, blob, data, rootfs>>

DigestMatches(p) ==
  /\ clean[p] /\ Goto(p, "verify", "rename")
  /\ UNCHANGED <<local, fault, store>>

DigestMismatch(p) ==
  /\ ~clean[p] /\ Goto(p, "verify", "failed")
  /\ RemovePart(p)
  /\ UNCHANGED <<local, fault, mf, blob, data, rootfs>>

\* os.Rename(tmp, dst) moves the file that has the name now.
RenamePart(p) ==
  LET d == Layer(p)
  IN  /\ Goto(p, "rename", "open")
      /\ part[d] # None
      /\ blob' = [blob EXCEPT ![d] = part[d]]
      /\ part' = [part EXCEPT ![d] = None]
      /\ UNCHANGED <<local, fault, mf, data, rootfs>>

\* The .part file stays.
RenameFails(p) == Fault(p, "rename") /\ UNCHANGED <<local, store>>

\* Nothing has that name any more.
RenameMissing(p) ==
  /\ Goto(p, "rename", "failed")
  /\ part[Layer(p)] = None
  /\ UNCHANGED <<local, fault, store>>

(***************************************************************************)
(* extractLayer.                                                           *)
(***************************************************************************)
Extracted(p, how) == rootfs' = [rootfs EXCEPT ![img[p]][Layer(p)] = how]

\* Mutant: a layer directory that exists is taken to be extracted.
OpenBlobUnlessThere(p) ==
  \/ /\ Goto(p, "open", "extract")
     /\ rootfs[img[p]][Layer(p)] = "absent"
     /\ fd' = [fd EXCEPT ![p] = blob[Layer(p)]]
     /\ at' = [at EXCEPT ![p] = 0]
     /\ Extracted(p, "partial")
     /\ UNCHANGED <<img, layer, clean, fault, mf, part, blob, data>>
  \/ /\ pc[p] = "open" /\ rootfs[img[p]][Layer(p)] # "absent"
     /\ \/ /\ layer[p] < Len(LayersOf[img[p]])
           /\ Goto(p, "open", "stat")
           /\ layer' = [layer EXCEPT ![p] = @ + 1]
        \/ /\ layer[p] = Len(LayersOf[img[p]])
           /\ Goto(p, "open", "done")
           /\ UNCHANGED layer
     /\ UNCHANGED <<img, fd, at, clean, fault, store>>

\* MkdirAll, os.Open and the first write over what may be there already.
OpenBlob(p) ==
  /\ Goto(p, "open", "extract")
  /\ fd' = [fd EXCEPT ![p] = blob[Layer(p)]]
  /\ at' = [at EXCEPT ![p] = 0]
  /\ Extracted(p, IF rootfs[img[p]][Layer(p)] = "absent" THEN "partial" ELSE "again")
  /\ UNCHANGED <<img, layer, clean, fault, mf, part, blob, data>>

ReadBack(p) == data[Layer(p)][fd[p]][at[p] + 1]

ExtractChunk(p) ==
  /\ Goto(p, "extract", "extract")
  /\ ReadBack(p) = "good" /\ at[p] + 1 < Chunks
  /\ at' = [at EXCEPT ![p] = @ + 1]
  /\ UNCHANGED <<img, layer, fd, clean, fault, store>>

\* The end of the archive: the next layer, or Pull returns.
FinishLayer(p) ==
  /\ pc[p] = "extract"
  /\ ReadBack(p) = "good" /\ at[p] + 1 = Chunks
  /\ Extracted(p, "full")
  /\ \/ /\ layer[p] < Len(LayersOf[img[p]])
        /\ Goto(p, "extract", "stat")
        /\ layer' = [layer EXCEPT ![p] = @ + 1]
     \/ /\ layer[p] = Len(LayersOf[img[p]])
        /\ Goto(p, "extract", "done")
        /\ UNCHANGED layer
  /\ UNCHANGED <<img, fd, at, clean, fault, mf, part, blob, data>>

\* gunzip or untar meets an end of file or garbage.
ExtractBroken(p) ==
  /\ Goto(p, "extract", "failed") /\ ReadBack(p) # "good"
  /\ UNCHANGED <<local, fault, store>>

\* An entry is refused for a mode that the archive gave an earlier one, of this
\* extraction or of the one before.  Whoever pulls may be root, or nothing
\* protected was written before the kill: then it is not.
ExtractRefused(p) ==
  /\ Goto(p, "extract", "failed")
  /\ \/ Refusal[Layer(p)] = "always"
     \/ Refusal[Layer(p)] = "again" /\ rootfs[img[p]][Layer(p)] = "again"
  /\ UNCHANGED <<local, fault, store>>

\* The disk fails or is full.
ExtractFails(p) ==
  /\ \E a \in {"open", "extract"} : Fault(p, a)
  /\ UNCHANGED <<local, store>>

(***************************************************************************)
(* The system.                                                             *)
(***************************************************************************)

\* The process is killed; the store stays as it is.
Crash(p) ==
  /\ Active(p) /\ pc' = [pc EXCEPT ![p] = "crashed"]
  /\ UNCHANGED <<use, local, fault, store>>

Download(p) ==
  \/ StatBlob(p) \/ RequestBlobFails(p) \/ CreatePart(p) \/ CopyChunk(p)
  \/ CopyFails(p) \/ DigestMatches(p) \/ DigestMismatch(p) \/ RenamePart(p)
  \/ RenameFails(p) \/ RenameMissing(p)

Extract(p) ==
  \/ OpenBlob(p) \/ ExtractChunk(p) \/ FinishLayer(p) \/ ExtractBroken(p)
  \/ ExtractRefused(p) \/ ExtractFails(p)

Pull(p) ==
  \/ OpenManifest(p) \/ FetchManifestFails(p) \/ WriteManifest(p)
  \/ WriteManifestFails(p) \/ Download(p) \/ Extract(p)

AllOver == (\A p \in Pulls : pc[p] \in Over) /\ UNCHANGED vars

Next == (\E p \in Pulls : Pull(p) \/ Crash(p)) \/ AllOver

Spec == Init /\ [][Next]_vars

(***************************************************************************)
(* Properties.                                                             *)
(***************************************************************************)

\* pullBlob "streams a layer blob to disk under the store's blob cache,
\* verifying the sha256 digest": what has the final name, and is taken for
\* complete by every later pull, is the content that was hashed.
CachedBlobVerified ==
  \A d \in Digests : blob[d] # None => data[d][blob[d]] = Good

\* CachedBlobVerified holds of pulls that take turns, in spite of every fault
\* and of whatever .part file a killed pull has left.  ImplementsStore includes
\* it: no step of the abstract store makes a blob "broken".
TurnsVerified == use = "turns" => CachedBlobVerified

\* Store.LoadManifest, which `myrun run` calls: the manifest decodes.
Loadable(i) == mf[i] \in Pulls

Complete(i) == \A d \in Range(LayersOf[i]) : rootfs[i][d] = "full"

\* While pulls take turns, a successful Pull leaves an image with every layer
\* fully extracted, in spite of what earlier pulls left behind when they failed
\* or were killed, until another pull rewrites the manifest.
PullComplete ==
  use = "turns" =>
    \A i \in Images : Loadable(i) /\ pc[mf[i]] = "done" => Complete(i)

\* q has extracted at least a part of the k-th layer of its manifest.
Reached(q, k) ==
  \/ k < layer[q]
  \/ k = layer[q] /\ pc[q] \in {"extract"} \cup Over

\* Some pull, or p itself for a layer that its manifest lists twice, has
\* extracted p's layer, or a part of it, before p came to it.
ExtractedBefore(p) ==
  \E q \in Pulls : \E k \in 1..layer[q] :
    /\ img[q] = img[p] /\ LayersOf[img[q]][k] = Layer(p)
    /\ Reached(q, k) /\ <<q, k>> # <<p, layer[p]>>

\* The layer's own modes keep a user who is not root from extracting it.
Protected(p) ==
  \/ Refusal[Layer(p)] = "always"
  \/ Refusal[Layer(p)] = "again" /\ ExtractedBefore(p)

\* A pull that waits its turn fails only if the network or the disk lets it
\* down, or for the modes in the layer itself: neither the .part file nor the
\* half-extracted layer of a killed pull is in its way, unless that layer has
\* files its owner may not write to.
FailureExplained ==
  use = "turns" => \A p \in Pulls : pc[p] = "failed" => fault[p] \/ Protected(p)

\* Blobs are content-addressed and shared: a file that has its final name is
\* never written to, renamed over or removed again while pulls take turns.
BlobsImmutable ==
  [][use = "turns" => \A d \in Digests : blob[d] # None =>
       blob'[d] = blob[d] /\ data'[d][blob[d]] = data[d][blob[d]]]_vars

\* Overlapping pulls truncate and rename each other's files, but as long as
\* neither network nor disk fails and nobody is killed, what is cached is
\* whole again as soon as nobody is writing.
OverlapHeals ==
  (\A p \in Pulls : ~fault[p] /\ pc[p] \notin {"crashed", "copy"})
    => \A d \in Digests : blob[d] # None => data[d][blob[d]] = Good

(***************************************************************************)
(* Refinement.                                                             *)
(***************************************************************************)

\* The blobs as a later pull finds them.
Cached ==
  [d \in Digests |->
     IF blob[d] = None THEN "absent"
     ELSE IF data[d][blob[d]] = Good THEN "whole" ELSE "broken"]

Unpacked == [i \in Images |-> {d \in Digests : rootfs[i][d] = "full"}]

\* The images whose manifest is from a pull that has succeeded.
Ready == {i \in Images : Loadable(i) /\ pc[mf[i]] = "done"}

Store == INSTANCE ImageStore
           WITH cache <- Cached, unpacked <- Unpacked, ready <- Ready

\* Pulls that take turns keep what the store promises, whatever fails and
\* whoever is killed (Client.Pull, pullBlob, extractLayer): each of their steps
\* is one of the abstract store, or does not show.
ImplementsStore ==
  Store!Init /\ [][use = "turns" => [Store!Next]_(Store!vars)]_vars
=============================================================================
