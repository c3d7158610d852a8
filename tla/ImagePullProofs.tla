-------------------------- MODULE ImagePullProofs ---------------------------
(***************************************************************************)
(* Safety of ImagePull, for any number of pulls, any images, blobs of any  *)
(* length.                                                                 *)
(*                                                                         *)
(* Of pulls that take turns two active ones have no digest in common, so   *)
(* nobody else writes to the files a pull is working on (Apart, Work) or   *)
(* to the image it unpacks (Kept).  Of a crowd nothing of this is true; a  *)
(* file is whole, or the pull that truncated it last is still writing it   *)
(* from its beginning (Healing).                                           *)
(*                                                                         *)
(* Pulls that take turns implement ImageStore (TurnsImplementStore).       *)
(***************************************************************************)
EXTENDS ImagePull, SequenceTheorems, TLAPS

(***************************************************************************)
(* The inductive invariant.                                                *)
(***************************************************************************)

\* Where a pull is, whoever else is there.
Flow(p) ==
  /\ pc[p] \in {"idle", "manifest"} => layer[p] = 1
  /\ Active(p) => img[p] \in Images /\ layer[p] \in 1..Len(LayersOf[img[p]])
  /\ pc[p] = "copy" => fd[p] \in Pulls /\ at[p] < Chunks
  /\ pc[p] = "verify" => fd[p] \in Pulls /\ at[p] = Chunks
  /\ pc[p] = "extract" => at[p] < Chunks
  /\ clean[p] \/ fault[p]

Apart ==
  \A p, q \in Pulls :
    p # q /\ Active(p) /\ Active(q) => InCommon(img[p], img[q]) = {}

\* What a pull that has its turn finds in the files of its layer.
Work(p) ==
  /\ pc[p] \in {"create", "copy", "verify", "rename"} => blob[Layer(p)] = None
  /\ pc[p] \in {"copy", "verify"} =>
       /\ part[Layer(p)] = fd[p]
       /\ clean[p] => \A k \in 1..at[p] : data[Layer(p)][fd[p]][k] = "good"
  /\ pc[p] = "rename" =>
       part[Layer(p)] \in Pulls /\ data[Layer(p)][part[Layer(p)]] = Good
  /\ pc[p] \in {"open", "extract"} => blob[Layer(p)] \in Pulls
  /\ pc[p] = "extract" => fd[p] = blob[Layer(p)]
  /\ pc[p] = "failed" => fault[p] \/ Protected(p)

\* The layers a pull has unpacked stay; the one it unpacks again because its
\* manifest lists it twice is being rewritten.
Kept(p) ==
  /\ pc[p] = "manifest" => mf[img[p]] = "empty"
  /\ Active(p) /\ pc[p] # "manifest" => mf[img[p]] = p
  /\ \A i \in Images : mf[i] = p =>
       img[p] = i /\ pc[p] # "idle" /\ (pc[p] = "done" => Complete(i))
  /\ Active(p) =>
       \A l \in 1..layer[p] - 1 :
         LET d == LayersOf[img[p]][l]
         IN  rootfs[img[p]][d] = "full" \/ (d = Layer(p) /\ pc[p] = "extract")

Turns ==
  use = "turns" =>
    /\ Apart
    /\ CachedBlobVerified
    /\ \A p \in Pulls : Work(p) /\ Kept(p)

\* A layer directory that is there was made by a pull that has come so far; one
\* that is being extracted over another extraction is not the first of its layer.
Traced ==
  /\ \A i \in Images, d \in Digests :
       rootfs[i][d] # "absent" =>
         \E q \in Pulls : \E k \in 1..layer[q] :
           img[q] = i /\ LayersOf[i][k] = d /\ Reached(q, k)
  /\ \A p \in Pulls :
       pc[p] = "extract" /\ rootfs[img[p]][Layer(p)] = "again" => ExtractedBefore(p)

\* Pull p is writing the inode x of digest d and has written all before its
\* offset since x was truncated.
Rewrites(p, d, x) ==
  /\ pc[p] = "copy" /\ Layer(p) = d /\ fd[p] = x
  /\ \A k \in 1..at[p] : data[d][x][k] = "good"

Whole(d, x) == data[d][x] = Good \/ \E p \in Pulls : Rewrites(p, d, x)

NoFault == \A p \in Pulls : ~fault[p] /\ pc[p] # "crashed"

\* A file that has a name is whole, or somebody is about to make it whole.
Healing ==
  NoFault =>
    \A d \in Digests, x \in Pulls :
      x \in {part[d], blob[d]} => Whole(d, x)

Flows == \A p \in Pulls : Flow(p)

IInv == TypeOK /\ Flows /\ Traced /\ Turns /\ Healing

(***************************************************************************)
(* Types, and where a pull is.                                             *)
(***************************************************************************)

LEMMA InitIInv == Init => IInv
<1> SUFFICES ASSUME Init PROVE IInv
  OBVIOUS
<1> USE PullAssumption
<1>1. TypeOK
  BY DEF Init, TypeOK, PC, Progress, Holes
<1>2. Flows
  BY DEF Init, Flows, Flow, Active
<1>t. Traced
  BY DEF Init, Traced
<1>3. Turns
  BY DEF Init, Turns, Apart, Active, CachedBlobVerified, Work, Kept
<1>4. Healing
  BY DEF Init, Healing
<1>5. QED
  BY <1>1, <1>2, <1>t, <1>3, <1>4 DEF IInv

LEMMA LayerOfActive ==
  ASSUME NEW p \in Pulls, Flow(p), Active(p)
  PROVE  /\ img[p] \in Images /\ LayersOf[img[p]] \in Seq(Digests)
         /\ layer[p] \in 1..Len(LayersOf[img[p]])
         /\ Layer(p) \in Digests
         /\ Layer(p) \in Range(LayersOf[img[p]])
  BY PullAssumption DEF Flow, Layer, Range

LEMMA OwnFlow ==
  ASSUME TypeOK, NEW p \in Pulls, Flow(p), Pull(p) \/ Crash(p)
  PROVE  TypeOK' /\ Flow(p)'
<1>c. Chunks \in Nat /\ Chunks > 0
  BY PullAssumption
<1> USE <1>c DEF TypeOK, Flow, Goto, Active, Over, PC, Progress, local, store
<1>1. Active(p) => Layer(p) \in Digests /\ Len(LayersOf[img[p]]) \in Nat
  BY LayerOfActive, LenProperties
<1>2. CASE OpenManifest(p)
  <2>1. \A i \in Images : Len(LayersOf[i]) \in Nat /\ Len(LayersOf[i]) > 0
    BY PullAssumption, EmptySeq, LenProperties
  <2>2. QED
    BY <1>2, <2>1 DEF OpenManifest
<1>3. CASE FetchManifestFails(p) BY <1>3 DEF FetchManifestFails, Fault
<1>4. CASE WriteManifest(p) BY <1>4 DEF WriteManifest
<1>5. CASE WriteManifestFails(p) BY <1>5 DEF WriteManifestFails, Fault
<1>6. CASE StatBlob(p) BY <1>6 DEF StatBlob
<1>7. CASE RequestBlobFails(p) BY <1>7 DEF RequestBlobFails, Fault
<1>8. CASE CreatePart(p) BY <1>8, <1>1 DEF CreatePart, Holes
<1>9. CASE CopyChunk(p) BY <1>9, <1>1 DEF CopyChunk
<1>10. CASE CopyFails(p) BY <1>10 DEF CopyFails, Fault, RemovePart
<1>11. CASE DigestMatches(p) BY <1>11 DEF DigestMatches
<1>12. CASE DigestMismatch(p) BY <1>12 DEF DigestMismatch, RemovePart
<1>13. CASE RenamePart(p) BY <1>13, <1>1 DEF RenamePart
<1>14. CASE RenameFails(p) BY <1>14 DEF RenameFails, Fault
<1>15. CASE RenameMissing(p) BY <1>15 DEF RenameMissing
<1>16. CASE OpenBlob(p) BY <1>16, <1>1 DEF OpenBlob, Extracted
<1>17. CASE ExtractChunk(p) BY <1>17 DEF ExtractChunk
<1>18. CASE FinishLayer(p)
  <2>1. rootfs' \in [Images -> [Digests -> Progress]]
    BY <1>18, <1>1 DEF FinishLayer, Extracted
  <2>2. CASE layer[p] < Len(LayersOf[img[p]])
    <3>1. pc' = [pc EXCEPT ![p] = "stat"] /\ layer' = [layer EXCEPT ![p] = @ + 1]
      BY <1>18, <1>1, <2>2 DEF FinishLayer
    <3>2. QED
      BY <1>18, <1>1, <2>1, <2>2, <3>1 DEF FinishLayer
  <2>3. CASE ~(layer[p] < Len(LayersOf[img[p]]))
    <3>1. pc' = [pc EXCEPT ![p] = "done"] /\ layer' = layer
      BY <1>18, <1>1, <2>3 DEF FinishLayer
    <3>2. QED
      BY <1>18, <1>1, <2>1, <3>1 DEF FinishLayer
  <2>4. QED
    BY <2>2, <2>3
<1>19. CASE ExtractBroken(p) BY <1>19 DEF ExtractBroken
<1>20. CASE ExtractFails(p) BY <1>20 DEF ExtractFails, Fault
<1>r. CASE ExtractRefused(p) BY <1>r DEF ExtractRefused
<1>21. CASE Crash(p) BY <1>21 DEF Crash
<1>22. QED
  BY <1>r, <1>2, <1>3, <1>4, <1>5, <1>6, <1>7, <1>8, <1>9, <1>10, <1>11, <1>12,
     <1>13, <1>14, <1>15, <1>16, <1>17, <1>18, <1>19, <1>20, <1>21 DEF Pull,
     Download, Extract

(***************************************************************************)
(* What a step of p leaves alone.                                          *)
(***************************************************************************)

LEMMA OthersKeep ==
  ASSUME TypeOK, NEW p \in Pulls, Pull(p) \/ Crash(p), NEW q \in Pulls \ {p}
  PROVE  /\ pc'[q] = pc[q] /\ img'[q] = img[q] /\ layer'[q] = layer[q]
         /\ fd'[q] = fd[q] /\ at'[q] = at[q] /\ clean'[q] = clean[q]
         /\ fault'[q] = fault[q]
<1> USE DEF TypeOK, Goto, local, store
<1>1. CASE OpenManifest(p) BY <1>1 DEF OpenManifest
<1>2. CASE FetchManifestFails(p) BY <1>2 DEF FetchManifestFails, Fault
<1>3. CASE WriteManifest(p) BY <1>3 DEF WriteManifest
<1>4. CASE WriteManifestFails(p) BY <1>4 DEF WriteManifestFails, Fault
<1>5. CASE StatBlob(p) BY <1>5 DEF StatBlob
<1>6. CASE RequestBlobFails(p) BY <1>6 DEF RequestBlobFails, Fault
<1>7. CASE CreatePart(p) BY <1>7 DEF CreatePart
<1>8. CASE CopyChunk(p) BY <1>8 DEF CopyChunk
<1>9. CASE CopyFails(p) BY <1>9 DEF CopyFails, Fault, RemovePart
<1>10. CASE DigestMatches(p) BY <1>10 DEF DigestMatches
<1>11. CASE DigestMismatch(p) BY <1>11 DEF DigestMismatch, RemovePart
<1>12. CASE RenamePart(p) BY <1>12 DEF RenamePart
<1>13. CASE RenameFails(p) BY <1>13 DEF RenameFails, Fault
<1>14. CASE RenameMissing(p) BY <1>14 DEF RenameMissing
<1>15. CASE OpenBlob(p) BY <1>15 DEF OpenBlob, Extracted
<1>16. CASE ExtractChunk(p) BY <1>16 DEF ExtractChunk
<1>17. CASE FinishLayer(p) BY <1>17 DEF FinishLayer, Extracted
<1>18. CASE ExtractBroken(p) BY <1>18 DEF ExtractBroken
<1>19. CASE ExtractFails(p) BY <1>19 DEF ExtractFails, Fault
<1>r. CASE ExtractRefused(p) BY <1>r DEF ExtractRefused
<1>20. CASE Crash(p) BY <1>20 DEF Crash
<1>21. QED
  BY <1>r, <1>1, <1>2, <1>3, <1>4, <1>5, <1>6, <1>7, <1>8, <1>9, <1>10, <1>11,
     <1>12, <1>13, <1>14, <1>15, <1>16, <1>17, <1>18, <1>19, <1>20 DEF Pull,
     Download, Extract

\* Files of another digest, and manifests and layers of another image.
LEMMA FilesKeep ==
  ASSUME TypeOK, NEW p \in Pulls, Flow(p), Pull(p) \/ Crash(p)
  PROVE  /\ use' = use
         /\ Active(p) \/ pc[p] = "idle"
         /\ \A d \in Digests : (Active(p) /\ d = Layer(p)) \/
              (part'[d] = part[d] /\ blob'[d] = blob[d] /\ data'[d] = data[d])
         /\ \A i \in Images :
              mf'[i] # mf[i] =>
                i = img'[p] /\ Active(p)' /\ mf'[i] \in {"empty", p}
         /\ \A i \in Images :
              rootfs'[i] # rootfs[i] =>
                i = img[p] /\ pc[p] \in {"open", "extract"}
         /\ Active(p) => img'[p] = img[p]
         /\ fault[p] => fault'[p]
         /\ layer'[p] \in {layer[p], layer[p] + 1}
         /\ pc[p] = "extract" =>
              layer'[p] = layer[p] + 1 \/ pc'[p] \in {"extract"} \cup Over
         /\ use = "turns" /\ Active(p)' /\ ~Active(p) =>
              \A q \in Pulls : Active(q) => InCommon(img'[p], img[q]) = {}
<1> USE DEF TypeOK, Goto, local, store, Active, Over
<1>1. CASE OpenManifest(p) BY <1>1 DEF OpenManifest
<1>2. CASE FetchManifestFails(p) BY <1>2 DEF FetchManifestFails, Fault
<1>3. CASE WriteManifest(p) BY <1>3 DEF WriteManifest
<1>4. CASE WriteManifestFails(p) BY <1>4 DEF WriteManifestFails, Fault
<1>5. CASE StatBlob(p) BY <1>5 DEF StatBlob
<1>6. CASE RequestBlobFails(p) BY <1>6 DEF RequestBlobFails, Fault
<1>7. CASE CreatePart(p) BY <1>7 DEF CreatePart
<1>8. CASE CopyChunk(p) BY <1>8 DEF CopyChunk
<1>9. CASE CopyFails(p) BY <1>9 DEF CopyFails, Fault, RemovePart
<1>10. CASE DigestMatches(p) BY <1>10 DEF DigestMatches
<1>11. CASE DigestMismatch(p) BY <1>11 DEF DigestMismatch, RemovePart
<1>12. CASE RenamePart(p) BY <1>12 DEF RenamePart
<1>13. CASE RenameFails(p) BY <1>13 DEF RenameFails, Fault
<1>14. CASE RenameMissing(p) BY <1>14 DEF RenameMissing
<1>15. CASE OpenBlob(p) BY <1>15 DEF OpenBlob, Extracted
<1>16. CASE ExtractChunk(p) BY <1>16 DEF ExtractChunk
<1>17. CASE FinishLayer(p) BY <1>17 DEF FinishLayer, Extracted
<1>18. CASE ExtractBroken(p) BY <1>18 DEF ExtractBroken
<1>19. CASE ExtractFails(p) BY <1>19 DEF ExtractFails, Fault
<1>r. CASE ExtractRefused(p) BY <1>r DEF ExtractRefused
<1>20. CASE Crash(p) BY <1>20 DEF Crash
<1>21. QED
  BY <1>r, <1>1, <1>2, <1>3, <1>4, <1>5, <1>6, <1>7, <1>8, <1>9, <1>10, <1>11,
     <1>12, <1>13, <1>14, <1>15, <1>16, <1>17, <1>18, <1>19, <1>20 DEF Pull,
     Download, Extract

(***************************************************************************)
(* Who has extracted what.                                                 *)
(***************************************************************************)

\* A layer that a pull has come to it has come to for good.
LEMMA ReachedStays ==
  ASSUME TypeOK, NEW p \in Pulls, Flow(p), Pull(p) \/ Crash(p),
         NEW q \in Pulls, NEW k \in 1..layer[q], Reached(q, k)
  PROVE  k \in 1..layer'[q] /\ Reached(q, k)' /\ img'[q] = img[q]
<1>1. layer[q] \in Nat /\ k \in Nat
  BY DEF TypeOK
<1>2. CASE q # p
  BY <1>2, OthersKeep DEF Reached
<1>3. CASE q = p
  <2>1. Active(p)
    <3>1. CASE pc[p] = "idle"
      <4>1. layer[p] = 1 /\ k = 1
        BY <1>1, <1>3, <3>1 DEF Flow
      <4>2. QED
        BY <1>3, <3>1, <4>1 DEF Reached, Over
    <3>2. QED
      BY <3>1, FilesKeep
  <2>2. /\ img'[p] = img[p] /\ layer'[p] \in {layer[p], layer[p] + 1}
        /\ pc[p] = "extract" =>
             layer'[p] = layer[p] + 1 \/ pc'[p] \in {"extract"} \cup Over
    BY <2>1, FilesKeep
  <2>3. k < layer[p] \/ (k = layer[p] /\ pc[p] = "extract")
    BY <1>3, <2>1 DEF Reached, Active
  <2>4. QED
    BY <1>1, <1>3, <2>2, <2>3 DEF Reached
<1>4. QED
  BY <1>2, <1>3

\* What came before p's layer stays before it, as long as p stays at the layer.
LEMMA BeforeStays ==
  ASSUME TypeOK, NEW p \in Pulls, Flow(p), Pull(p) \/ Crash(p),
         NEW q \in Pulls, img'[q] = img[q], layer'[q] = layer[q]
  PROVE  /\ ExtractedBefore(q) => ExtractedBefore(q)'
         /\ Protected(q) => Protected(q)'
<1>1. Layer(q)' = Layer(q)
  BY DEF Layer
<1>2. ASSUME ExtractedBefore(q) PROVE ExtractedBefore(q)'
  <2>1. PICK a \in Pulls : \E k \in 1..layer[a] :
          /\ img[a] = img[q] /\ LayersOf[img[a]][k] = Layer(q)
          /\ Reached(a, k) /\ <<a, k>> # <<q, layer[q]>>
    BY <1>2 DEF ExtractedBefore
  <2>2. PICK k \in 1..layer[a] :
          /\ img[a] = img[q] /\ LayersOf[img[a]][k] = Layer(q)
          /\ Reached(a, k) /\ <<a, k>> # <<q, layer[q]>>
    BY <2>1
  <2>3. k \in 1..layer'[a] /\ Reached(a, k)' /\ img'[a] = img[a]
    BY <2>2, ReachedStays
  <2>4. QED
    BY <1>1, <2>2, <2>3 DEF ExtractedBefore
<1>3. QED
  BY <1>1, <1>2 DEF Protected

\* A directory appears, or is extracted over, only when a pull opens its layer.
LEMMA DirsKeep ==
  ASSUME TypeOK, NEW p \in Pulls, Flow(p), Pull(p) \/ Crash(p), ~OpenBlob(p)
  PROVE  /\ \A i \in Images, d \in Digests :
              rootfs'[i][d] # rootfs[i][d] =>
                /\ i = img[p] /\ d = Layer(p) /\ pc[p] = "extract"
                /\ rootfs'[i][d] = "full"
         /\ pc'[p] = "extract" =>
              /\ pc[p] = "extract" /\ rootfs' = rootfs
              /\ img' = img /\ layer' = layer
<1> USE DEF TypeOK, Goto, local, store, Active, Over
<1>1. CASE OpenManifest(p) BY <1>1 DEF OpenManifest
<1>2. CASE FetchManifestFails(p) BY <1>2 DEF FetchManifestFails, Fault
<1>3. CASE WriteManifest(p) BY <1>3 DEF WriteManifest
<1>4. CASE WriteManifestFails(p) BY <1>4 DEF WriteManifestFails, Fault
<1>5. CASE StatBlob(p) BY <1>5 DEF StatBlob
<1>6. CASE RequestBlobFails(p) BY <1>6 DEF RequestBlobFails, Fault
<1>7. CASE CreatePart(p) BY <1>7 DEF CreatePart
<1>8. CASE CopyChunk(p) BY <1>8 DEF CopyChunk
<1>9. CASE CopyFails(p) BY <1>9 DEF CopyFails, Fault, RemovePart
<1>10. CASE DigestMatches(p) BY <1>10 DEF DigestMatches
<1>11. CASE DigestMismatch(p) BY <1>11 DEF DigestMismatch, RemovePart
<1>12. CASE RenamePart(p) BY <1>12 DEF RenamePart
<1>13. CASE RenameFails(p) BY <1>13 DEF RenameFails, Fault
<1>14. CASE RenameMissing(p) BY <1>14 DEF RenameMissing
<1>15. CASE ExtractChunk(p) BY <1>15 DEF ExtractChunk
<1>16. CASE FinishLayer(p) BY <1>16 DEF FinishLayer, Extracted
<1>17. CASE ExtractBroken(p) BY <1>17 DEF ExtractBroken
<1>18. CASE ExtractRefused(p) BY <1>18 DEF ExtractRefused
<1>19. CASE ExtractFails(p) BY <1>19 DEF ExtractFails, Fault
<1>20. CASE Crash(p) BY <1>20 DEF Crash
<1>21. QED
  BY <1>1, <1>2, <1>3, <1>4, <1>5, <1>6, <1>7, <1>8, <1>9, <1>10, <1>11,
     <1>12, <1>13, <1>14, <1>15, <1>16, <1>17, <1>18, <1>19, <1>20 DEF Pull,
     Download, Extract

LEMMA TracedStep ==
  ASSUME TypeOK, Flows, NEW p \in Pulls, Pull(p) \/ Crash(p), Traced
  PROVE  Traced'
<1> USE DEF Flows
<1>0. Flow(p)
  OBVIOUS
<1> DEFINE Made(i, d) ==
             \E q \in Pulls : \E k \in 1..layer[q] :
               img[q] = i /\ LayersOf[i][k] = d /\ Reached(q, k)
<1>1. ASSUME NEW i \in Images, NEW d \in Digests, Made(i, d) PROVE Made(i, d)'
  <2>1. PICK q \in Pulls : \E k \in 1..layer[q] :
          img[q] = i /\ LayersOf[i][k] = d /\ Reached(q, k)
    BY <1>1
  <2>2. PICK k \in 1..layer[q] :
          img[q] = i /\ LayersOf[i][k] = d /\ Reached(q, k)
    BY <2>1
  <2>3. k \in 1..layer'[q] /\ Reached(q, k)' /\ img'[q] = img[q]
    BY <2>2, ReachedStays
  <2>4. QED
    BY <2>2, <2>3
<1> HIDE DEF Made
<1>2. CASE OpenBlob(p)
  <2>0. PICK j, c : j = img[p] /\ c = Layer(p)
    OBVIOUS
  <2>1. /\ pc[p] = "open" /\ pc'[p] = "extract" /\ Active(p)
        /\ img' = img /\ layer' = layer
        /\ rootfs' = [rootfs EXCEPT ![j][c] =
                        IF rootfs[j][c] = "absent" THEN "partial" ELSE "again"]
    BY <1>2, <2>0 DEF OpenBlob, Goto, Extracted, Active, Over, TypeOK
  <2>2. /\ j \in Images /\ c \in Digests /\ layer[p] \in Nat \ {0}
        /\ c = LayersOf[j][layer[p]]
    BY <2>0, <2>1, LayerOfActive DEF Layer, TypeOK
  <2>3. Reached(p, layer[p])'
    BY <2>1 DEF Reached
  <2>4. Made(j, c)'
    BY <2>0, <2>1, <2>2, <2>3 DEF Made
  <2>5. \A i \in Images, d \in Digests :
          i # j \/ d # c => rootfs'[i][d] = rootfs[i][d]
    BY <2>1, <2>2 DEF TypeOK
  <2>6. ASSUME NEW i \in Images, NEW d \in Digests, rootfs'[i][d] # "absent"
        PROVE  Made(i, d)'
    BY <1>1, <2>4, <2>5, <2>6 DEF Traced, Made
  <2>7. ASSUME rootfs'[j][c] = "again" PROVE ExtractedBefore(p)'
    <3>1. rootfs[j][c] # "absent"
      BY <2>1, <2>2, <2>7 DEF TypeOK
    <3>2. PICK q \in Pulls : \E k \in 1..layer[q] :
            img[q] = j /\ LayersOf[j][k] = c /\ Reached(q, k)
      BY <2>2, <3>1 DEF Traced
    <3>3. PICK k \in 1..layer[q] :
            img[q] = j /\ LayersOf[j][k] = c /\ Reached(q, k)
      BY <3>2
    <3>4. <<q, k>> # <<p, layer[p]>>
      BY <2>1, <3>3 DEF Reached, Over, TypeOK
    <3>5. ExtractedBefore(p)
      BY <2>0, <3>3, <3>4 DEF ExtractedBefore
    <3>6. QED
      BY <2>1, <3>5, BeforeStays
  <2>8. ASSUME NEW q \in Pulls \ {p}, pc'[q] = "extract",
               rootfs'[img'[q]][Layer(q)'] = "again"
        PROVE  ExtractedBefore(q)'
    <3>1. /\ pc[q] = "extract" /\ img'[q] = img[q] /\ layer'[q] = layer[q]
          /\ Layer(q)' = Layer(q) /\ Active(q)
      BY <2>8, OthersKeep DEF Layer, Active, Over
    <3>2. img[q] \in Images /\ Layer(q) \in Digests
      BY <3>1, LayerOfActive
    <3>3. CASE img[q] = j /\ Layer(q) = c
      <4>1. /\ layer[p] \in 1..layer'[p] /\ img'[p] = img'[q]
            /\ LayersOf[img'[p]][layer[p]] = Layer(q)'
            /\ Reached(p, layer[p])' /\ <<p, layer[p]>> # <<q, layer'[q]>>
        BY <2>0, <2>1, <2>2, <2>3, <3>1, <3>3
      <4>2. PICK k : k = layer[p]
        OBVIOUS
      <4>3. Reached(p, k)'
        BY <2>1, <4>2 DEF Reached
      <4>4. QED
        BY <4>1, <4>2, <4>3 DEF ExtractedBefore
    <3>4. CASE ~(img[q] = j /\ Layer(q) = c)
      <4>1. rootfs[img[q]][Layer(q)] = "again"
        BY <2>5, <2>8, <3>1, <3>2, <3>4
      <4>2. ExtractedBefore(q)
        BY <3>1, <4>1 DEF Traced
      <4>3. QED
        BY <3>1, <4>2, BeforeStays
    <3>5. QED
      BY <3>3, <3>4
  <2>9. QED
    <3>1. Layer(p)' = c /\ img'[p] = j
      BY <2>0, <2>1 DEF Layer
    <3>2. ASSUME NEW q \in Pulls, pc'[q] = "extract",
                 rootfs'[img'[q]][Layer(q)'] = "again"
          PROVE  ExtractedBefore(q)'
      BY <2>7, <2>8, <3>1, <3>2
    <3>3. QED
      BY <2>6, <3>2 DEF Traced, Made
<1>3. CASE ~OpenBlob(p)
  <2>1. ASSUME NEW i \in Images, NEW d \in Digests, rootfs'[i][d] # "absent"
        PROVE  Made(i, d)'
    <3>1. CASE rootfs[i][d] # "absent"
      BY <1>1, <3>1 DEF Traced, Made
    <3>2. CASE rootfs[i][d] = "absent"
      <4>1. /\ i = img[p] /\ d = Layer(p) /\ pc[p] = "extract"
        BY <1>0, <1>3, <2>1, <3>2, DirsKeep
      <4>2. layer[p] \in 1..layer[p] /\ Reached(p, layer[p])
        BY <4>1 DEF Reached, TypeOK
      <4>3. Made(i, d)
        BY <4>1, <4>2 DEF Made, Layer
      <4>4. QED
        BY <1>1, <4>3
    <3>3. QED
      BY <3>1, <3>2
  <2>2. ASSUME NEW q \in Pulls, pc'[q] = "extract",
               rootfs'[img'[q]][Layer(q)'] = "again"
        PROVE  ExtractedBefore(q)'
    <3>1. pc[q] = "extract" /\ img'[q] = img[q] /\ layer'[q] = layer[q]
      BY <1>0, <1>3, <2>2, DirsKeep, OthersKeep
    <3>2. Layer(q)' = Layer(q) /\ img[q] \in Images /\ Layer(q) \in Digests
      BY <3>1, LayerOfActive DEF Layer, Active, Over
    <3>3. rootfs[img[q]][Layer(q)] = "again"
      BY <1>0, <1>3, <2>2, <3>1, <3>2, DirsKeep
    <3>4. ExtractedBefore(q)
      BY <3>1, <3>3 DEF Traced
    <3>5. QED
      BY <3>1, <3>4, BeforeStays
  <2>3. QED
    BY <2>1, <2>2 DEF Traced, Made
<1>4. QED
  BY <1>2, <1>3

(***************************************************************************)
(* Pulls that take turns.                                                  *)
(***************************************************************************)

LEMMA ApartStep ==
  ASSUME TypeOK, NEW p \in Pulls, Flow(p), Pull(p) \/ Crash(p),
         use = "turns", Apart
  PROVE  Apart'
<1> SUFFICES ASSUME NEW a \in Pulls, NEW b \in Pulls,
                    a # b, Active(a)', Active(b)'
             PROVE  InCommon(img'[a], img'[b]) = {}
  BY DEF Apart
<1>1. ASSUME NEW q \in Pulls \ {p}, Active(p)', Active(q)'
      PROVE  InCommon(img'[p], img'[q]) = {}
  <2>1. Active(q) /\ img'[q] = img[q]
    BY <1>1, OthersKeep DEF Active
  <2>2. QED
    BY <1>1, <2>1, FilesKeep DEF Apart
<1>2. CASE a = p
  BY <1>1, <1>2
<1>3. CASE b = p
  BY <1>1, <1>3 DEF InCommon
<1>4. CASE a # p /\ b # p
  BY <1>4, OthersKeep DEF Active, Apart
<1>5. QED
  BY <1>2, <1>3, <1>4

\* Nobody else knows the digest of p's layer or the image p unpacks.
LEMMA ApartMeans ==
  ASSUME NEW p \in Pulls, NEW q \in Pulls \ {p}, Apart,
         Flow(p), Flow(q), Active(p), Active(q)
  PROVE  Layer(p) # Layer(q) /\ img[p] # img[q]
<1>1. Layer(p) \in Range(LayersOf[img[p]]) /\ Layer(q) \in Range(LayersOf[img[q]])
  BY LayerOfActive
<1>2. InCommon(img[p], img[q]) = {}
  BY DEF Apart
<1>3. QED
  BY <1>1, <1>2 DEF InCommon

LEMMA OwnWork ==
  ASSUME TypeOK, NEW p \in Pulls, Flow(p), Pull(p) \/ Crash(p), Traced,
         CachedBlobVerified, Work(p)
  PROVE  Work(p)'
<1>c. Chunks \in Nat /\ Chunks > 0 /\ None \notin Pulls
  BY PullAssumption
<1> USE <1>c DEF TypeOK, Flow, Work, Goto, Active, Over, local, store
<1>1. /\ Active(p) => Layer(p) \in Digests
      /\ UNCHANGED <<img, layer>> => Layer(p)' = Layer(p)
  BY LayerOfActive DEF Layer
<1>2. CASE OpenManifest(p) BY <1>2 DEF OpenManifest
<1>3. CASE FetchManifestFails(p) BY <1>3 DEF FetchManifestFails, Fault
<1>4. CASE WriteManifest(p) BY <1>4 DEF WriteManifest
<1>5. CASE WriteManifestFails(p) BY <1>5 DEF WriteManifestFails, Fault
<1>6. CASE StatBlob(p)
  BY <1>6, <1>1 DEF StatBlob
<1>7. CASE RequestBlobFails(p) BY <1>7 DEF RequestBlobFails, Fault
<1>8. CASE CreatePart(p)
  BY <1>8, <1>1 DEF CreatePart
<1>9. CASE CopyChunk(p)
  <2>1. PICK chunk \in {"good", "bad"} : CopyChunk(p)!(chunk)
    BY <1>9 DEF CopyChunk
  <2>2. /\ Layer(p)' = Layer(p) /\ fd'[p] = fd[p] /\ at'[p] = at[p] + 1
        /\ pc'[p] \in {"copy", "verify"} /\ pc[p] = "copy"
        /\ clean'[p] => clean[p] /\ chunk = "good"
        /\ part' = part /\ blob' = blob
    BY <2>1, <1>1
  <2>3. data'[Layer(p)][fd[p]]
          = [data[Layer(p)][fd[p]] EXCEPT ![at[p] + 1] = chunk]
    BY <2>1, <1>1
  <2>4. ASSUME clean'[p], NEW k \in 1..at'[p]
        PROVE  data'[Layer(p)][fd[p]][k] = "good"
    <3>1. k \in 1..Chunks /\ (k # at[p] + 1 => k \in 1..at[p])
      BY <2>2, <2>4
    <3>2. data[Layer(p)][fd[p]] \in [1..Chunks -> {"hole", "good", "bad"}]
      BY <2>2, <1>1
    <3>3. QED
      BY <2>2, <2>3, <2>4, <3>1, <3>2
  <2>5. QED
    BY <2>2, <2>4
<1>10. CASE CopyFails(p) BY <1>10 DEF CopyFails, Fault, RemovePart
<1>11. CASE DigestMatches(p)
  BY <1>11, <1>1 DEF DigestMatches, Good
<1>12. CASE DigestMismatch(p) BY <1>12 DEF DigestMismatch, RemovePart
<1>13. CASE RenamePart(p)
  BY <1>13, <1>1 DEF RenamePart
<1>14. CASE RenameFails(p) BY <1>14 DEF RenameFails, Fault
<1>15. CASE RenameMissing(p) BY <1>15 DEF RenameMissing
<1>16. CASE OpenBlob(p)
  BY <1>16, <1>1 DEF OpenBlob, Extracted
<1>17. CASE ExtractChunk(p)
  BY <1>17, <1>1 DEF ExtractChunk
<1>18. CASE FinishLayer(p) BY <1>18 DEF FinishLayer, Extracted
<1>19. CASE ExtractBroken(p)
  <2>1. at[p] + 1 \in 1..Chunks /\ fd[p] = blob[Layer(p)] /\ blob[Layer(p)] # None
    BY <1>19, <1>1 DEF ExtractBroken
  <2>2. data[Layer(p)][fd[p]] = Good
    BY <1>19, <1>1, <2>1 DEF ExtractBroken, CachedBlobVerified
  <2>3. ReadBack(p) = "good"
    BY <2>1, <2>2 DEF ReadBack, Good
  <2>4. QED
    BY <1>19, <2>3 DEF ExtractBroken
<1>20. CASE ExtractFails(p) BY <1>20 DEF ExtractFails, Fault
<1>r. CASE ExtractRefused(p)
  <2>1. /\ pc[p] = "extract" /\ pc'[p] = "failed"
        /\ img' = img /\ layer' = layer
        /\ \/ Refusal[Layer(p)] = "always"
           \/ Refusal[Layer(p)] = "again" /\ rootfs[img[p]][Layer(p)] = "again"
    BY <1>r DEF ExtractRefused
  <2>2. Protected(p)
    BY <2>1 DEF Protected, Traced
  <2>3. Protected(p)'
    BY <2>1, <2>2, BeforeStays
  <2>4. QED
    BY <2>1, <2>3
<1>21. CASE Crash(p) BY <1>21 DEF Crash
<1>22. QED
  BY <1>r, <1>2, <1>3, <1>4, <1>5, <1>6, <1>7, <1>8, <1>9, <1>10, <1>11, <1>12,
     <1>13, <1>14, <1>15, <1>16, <1>17, <1>18, <1>19, <1>20, <1>21 DEF Pull,
     Download, Extract

LEMMA CachedStep ==
  ASSUME TypeOK, NEW p \in Pulls, Flow(p), Pull(p) \/ Crash(p),
         CachedBlobVerified, Work(p)
  PROVE  CachedBlobVerified'
<1> USE DEF TypeOK, Work, Goto, Active, Over, local, store, CachedBlobVerified
<1>1. Active(p) => Layer(p) \in Digests
  BY LayerOfActive
<1>2. CASE OpenManifest(p) BY <1>2 DEF OpenManifest
<1>3. CASE FetchManifestFails(p) BY <1>3 DEF FetchManifestFails, Fault
<1>4. CASE WriteManifest(p) BY <1>4 DEF WriteManifest
<1>5. CASE WriteManifestFails(p) BY <1>5 DEF WriteManifestFails, Fault
<1>6. CASE StatBlob(p) BY <1>6 DEF StatBlob
<1>7. CASE RequestBlobFails(p) BY <1>7 DEF RequestBlobFails, Fault
<1>8. CASE CreatePart(p) BY <1>8 DEF CreatePart
<1>9. CASE CopyChunk(p) BY <1>9 DEF CopyChunk
<1>10. CASE CopyFails(p) BY <1>10 DEF CopyFails, Fault, RemovePart
<1>11. CASE DigestMatches(p) BY <1>11 DEF DigestMatches
<1>12. CASE DigestMismatch(p) BY <1>12 DEF DigestMismatch, RemovePart
<1>13. CASE RenamePart(p) BY <1>13 DEF RenamePart
<1>14. CASE RenameFails(p) BY <1>14 DEF RenameFails, Fault
<1>15. CASE RenameMissing(p) BY <1>15 DEF RenameMissing
<1>16. CASE OpenBlob(p) BY <1>16 DEF OpenBlob, Extracted
<1>17. CASE ExtractChunk(p) BY <1>17 DEF ExtractChunk
<1>18. CASE FinishLayer(p) BY <1>18 DEF FinishLayer, Extracted
<1>19. CASE ExtractBroken(p) BY <1>19 DEF ExtractBroken
<1>20. CASE ExtractFails(p) BY <1>20 DEF ExtractFails, Fault
<1>r. CASE ExtractRefused(p) BY <1>r DEF ExtractRefused
<1>21. CASE Crash(p) BY <1>21 DEF Crash
<1>22. QED
  BY <1>r, <1>2, <1>3, <1>4, <1>5, <1>6, <1>7, <1>8, <1>9, <1>10, <1>11, <1>12,
     <1>13, <1>14, <1>15, <1>16, <1>17, <1>18, <1>19, <1>20, <1>21 DEF Pull,
     Download, Extract

LEMMA OthersWork ==
  ASSUME TypeOK, NEW p \in Pulls, NEW q \in Pulls \ {p}, Flow(p), Flow(q),
         Pull(p) \/ Crash(p), Apart, Work(q)
  PROVE  Work(q)'
<1>1. Layer(q)' = Layer(q)
  BY OthersKeep DEF Layer
<1>p. Protected(q) => Protected(q)'
  BY OthersKeep, BeforeStays
<1>2. CASE Active(q)
  <2>1. Layer(q) \in Digests
    BY <1>2, LayerOfActive
  <2>2. /\ part'[Layer(q)] = part[Layer(q)] /\ blob'[Layer(q)] = blob[Layer(q)]
        /\ data'[Layer(q)] = data[Layer(q)]
    BY <1>2, <2>1, ApartMeans, FilesKeep
  <2>3. QED
    BY <1>1, <1>2, <2>2, OthersKeep DEF Work, Active, Over
<1>3. CASE ~Active(q)
  BY <1>3, <1>p, OthersKeep DEF Work, Active, Over
<1>4. QED
  BY <1>2, <1>3

LEMMA OwnKept ==
  ASSUME TypeOK, NEW p \in Pulls, Flow(p), Pull(p) \/ Crash(p), Kept(p)
  PROVE  Kept(p)'
<1>p. None \notin Pulls /\ "empty" \notin Pulls
  BY PullAssumption
<1> USE <1>p DEF TypeOK, Flow, Kept, Goto, Active, Over, local, store
<1>1. /\ UNCHANGED <<img, layer>> => Layer(p)' = Layer(p)
      /\ UNCHANGED rootfs => \A i \in Images : Complete(i)' = Complete(i)
  BY DEF Layer, Complete
<1>2. CASE OpenManifest(p) BY <1>2, <1>1 DEF OpenManifest
<1>3. CASE FetchManifestFails(p) BY <1>3, <1>1 DEF FetchManifestFails, Fault
<1>4. CASE WriteManifest(p) BY <1>4, <1>1 DEF WriteManifest
<1>5. CASE WriteManifestFails(p) BY <1>5, <1>1 DEF WriteManifestFails, Fault
<1>6. CASE StatBlob(p) BY <1>6, <1>1 DEF StatBlob
<1>7. CASE RequestBlobFails(p) BY <1>7, <1>1 DEF RequestBlobFails, Fault
<1>8. CASE CreatePart(p) BY <1>8, <1>1 DEF CreatePart
<1>9. CASE CopyChunk(p) BY <1>9, <1>1 DEF CopyChunk
<1>10. CASE CopyFails(p) BY <1>10, <1>1 DEF CopyFails, Fault, RemovePart
<1>11. CASE DigestMatches(p) BY <1>11, <1>1 DEF DigestMatches
<1>12. CASE DigestMismatch(p) BY <1>12, <1>1 DEF DigestMismatch, RemovePart
<1>13. CASE RenamePart(p) BY <1>13, <1>1 DEF RenamePart
<1>14. CASE RenameFails(p) BY <1>14, <1>1 DEF RenameFails, Fault
<1>15. CASE RenameMissing(p) BY <1>15, <1>1 DEF RenameMissing
<1>16. CASE OpenBlob(p) BY <1>16, <1>1 DEF OpenBlob, Extracted
<1>17. CASE ExtractChunk(p) BY <1>17, <1>1 DEF ExtractChunk
<1>18. CASE FinishLayer(p)
  <2>1. /\ img[p] \in Images /\ Layer(p) \in Digests /\ layer[p] \in Nat
        /\ LayersOf[img[p]] \in Seq(Digests) /\ Len(LayersOf[img[p]]) \in Nat
        /\ Layer(p) = LayersOf[img[p]][layer[p]]
    BY <1>18, LayerOfActive, LenProperties DEF FinishLayer, Layer
  <2>2. /\ rootfs'[img[p]] = [rootfs[img[p]] EXCEPT ![Layer(p)] = "full"]
        /\ img' = img /\ mf' = mf /\ mf[img[p]] = p
    BY <1>18, <2>1 DEF FinishLayer, Extracted
  <2>3. \A l \in 1..layer[p] : LayersOf[img[p]][l] \in Digests
    BY <2>1, <1>18 DEF FinishLayer
  <2>4. ASSUME NEW l \in 1..layer[p]
        PROVE  rootfs'[img[p]][LayersOf[img[p]][l]] = "full"
    <3>1. rootfs[img[p]] \in [Digests -> Progress]
      BY <2>1
    <3>2. CASE LayersOf[img[p]][l] = Layer(p)
      BY <2>1, <2>2, <3>1, <3>2
    <3>3. CASE LayersOf[img[p]][l] # Layer(p)
      <4>1. l \in 1..layer[p] - 1
        BY <2>1, <3>3
      <4>2. rootfs[img[p]][LayersOf[img[p]][l]] = "full"
        BY <1>18, <3>3, <4>1 DEF FinishLayer
      <4>3. QED
        BY <2>2, <2>3, <3>1, <3>3, <4>2
    <3>4. QED
      BY <3>2, <3>3
  <2>5. CASE layer[p] < Len(LayersOf[img[p]])
    <3>1. pc'[p] = "stat" /\ layer'[p] = layer[p] + 1
      BY <1>18, <2>1, <2>5 DEF FinishLayer
    <3>2. \A l \in 1..layer'[p] - 1 : l \in 1..layer[p]
      BY <2>1, <3>1
    <3>3. QED
      BY <1>18, <2>2, <2>4, <3>1, <3>2 DEF FinishLayer
  <2>6. CASE layer[p] = Len(LayersOf[img[p]])
    <3>1. pc'[p] = "done"
      BY <1>18, <2>1, <2>6 DEF FinishLayer
    <3>2. Complete(img[p])'
      <4>1. ASSUME NEW d \in Range(LayersOf[img[p]])
            PROVE  rootfs'[img[p]][d] = "full"
        <5>1. PICK l \in 1..Len(LayersOf[img[p]]) : d = LayersOf[img[p]][l]
          BY <2>1 DEF Range
        <5>2. QED
          BY <2>4, <2>6, <5>1
      <4>2. QED
        BY <4>1, <2>2 DEF Complete
    <3>3. QED
      BY <2>2, <3>1, <3>2
  <2>7. QED
    BY <1>18, <2>5, <2>6 DEF FinishLayer
<1>19. CASE ExtractBroken(p) BY <1>19, <1>1 DEF ExtractBroken
<1>20. CASE ExtractFails(p) BY <1>20, <1>1 DEF ExtractFails, Fault
<1>r. CASE ExtractRefused(p) BY <1>r, <1>1 DEF ExtractRefused
<1>21. CASE Crash(p) BY <1>21, <1>1 DEF Crash
<1>22. QED
  BY <1>r, <1>2, <1>3, <1>4, <1>5, <1>6, <1>7, <1>8, <1>9, <1>10, <1>11, <1>12,
     <1>13, <1>14, <1>15, <1>16, <1>17, <1>18, <1>19, <1>20, <1>21 DEF Pull,
     Download, Extract

LEMMA OthersKept ==
  ASSUME TypeOK, NEW p \in Pulls, NEW q \in Pulls \ {p}, Flow(p), Flow(q),
         Pull(p) \/ Crash(p), Apart, Apart', Kept(p), Kept(q)
  PROVE  Kept(q)'
<1>1. /\ Layer(q)' = Layer(q) /\ img'[q] = img[q] /\ pc'[q] = pc[q]
      /\ layer'[q] = layer[q] /\ Active(q)' = Active(q)
  BY OthersKeep DEF Layer, Active
<1>2. Active(q) => mf'[img[q]] = mf[img[q]] /\ rootfs'[img[q]] = rootfs[img[q]]
  <2> SUFFICES ASSUME Active(q)
               PROVE  mf'[img[q]] = mf[img[q]] /\ rootfs'[img[q]] = rootfs[img[q]]
    OBVIOUS
  <2>1. img[q] \in Images /\ Layer(q) \in Range(LayersOf[img[q]])
    BY LayerOfActive
  <2>2. Active(p)' => img'[p] # img[q]
    BY <1>1, <2>1 DEF Apart, InCommon
  <2>3. pc[p] \in {"open", "extract"} => img[p] # img[q]
    BY ApartMeans DEF Active, Over
  <2>4. QED
    BY <2>1, <2>2, <2>3, FilesKeep
<1>3. ASSUME NEW i \in Images, mf'[i] = q
      PROVE  mf[i] = q /\ Complete(i)' = Complete(i)
  <2>1. mf[i] = q
    BY <1>3, FilesKeep, PullAssumption
  <2>2. pc[p] \in {"open", "extract"} => img[p] # i
    BY <2>1 DEF Kept, Active, Over
  <2>3. QED
    BY <2>1, <2>2, FilesKeep DEF Complete
<1>4. /\ pc'[q] = "manifest" => mf'[img'[q]] = "empty"
      /\ Active(q)' /\ pc'[q] # "manifest" => mf'[img'[q]] = q
  BY <1>1, <1>2 DEF Kept, Active, Over
<1>5. \A i \in Images : mf'[i] = q =>
        img'[q] = i /\ pc'[q] # "idle" /\ (pc'[q] = "done" => Complete(i)')
  BY <1>1, <1>3 DEF Kept
<1>6. ASSUME Active(q)', NEW l \in 1..layer'[q] - 1
      PROVE  LET d == LayersOf[img'[q]][l]
             IN  \/ rootfs'[img'[q]][d] = "full"
                 \/ d = Layer(q)' /\ pc'[q] = "extract"
  BY <1>1, <1>2, <1>6 DEF Kept
<1>7. QED
  BY <1>4, <1>5, <1>6 DEF Kept

LEMMA TurnsStep ==
  ASSUME TypeOK, Flows, NEW p \in Pulls, Pull(p) \/ Crash(p), Traced, Turns
  PROVE  Turns'
<1> SUFFICES ASSUME use = "turns"
             PROVE  /\ Apart' /\ CachedBlobVerified'
                    /\ \A q \in Pulls : Work(q)' /\ Kept(q)'
  BY FilesKeep DEF Turns, Flows
<1> USE DEF Turns, Flows
<1>1. Apart'
  BY ApartStep
<1>2. CachedBlobVerified'
  BY CachedStep
<1>3. ASSUME NEW q \in Pulls PROVE Work(q)' /\ Kept(q)'
  <2>1. CASE q = p
    BY <2>1, OwnWork, OwnKept
  <2>2. CASE q # p
    BY <1>1, <2>2, OthersWork, OthersKept
  <2>3. QED
    BY <2>1, <2>2
<1>4. QED
  BY <1>1, <1>2, <1>3

(***************************************************************************)
(* Pulls that overlap.                                                     *)
(***************************************************************************)

\* What another pull has written of a file stays written.
LEMMA OthersRewrite ==
  ASSUME TypeOK, NEW p \in Pulls, NEW w \in Pulls \ {p}, Pull(p) \/ Crash(p),
         NEW d \in Digests, NEW x \in Pulls, Rewrites(w, d, x), Flow(w),
         \A k \in 1..Chunks : data[d][x][k] = "good" => data'[d][x][k] = "good"
  PROVE  Rewrites(w, d, x)'
<1>1. \A k \in 1..at[w] : k \in 1..Chunks
  BY PullAssumption DEF TypeOK
<1>2. Layer(w)' = Layer(w)
  BY OthersKeep DEF Layer
<1>3. QED
  BY <1>1, <1>2, OthersKeep DEF Rewrites

\* A step that moves neither names nor contents of d, nor a writer of it.
LEMMA QuietHeals ==
  ASSUME TypeOK, NEW p \in Pulls, Flows, Pull(p) \/ Crash(p),
         NEW d \in Digests, NEW x \in Pulls, Whole(d, x),
         data'[d][x] = data[d][x], ~Rewrites(p, d, x)
  PROVE  Whole(d, x)'
  BY OthersRewrite DEF Whole, Flows, Good

LEMMA CreateHeals ==
  ASSUME TypeOK, NEW p \in Pulls, Flows, CreatePart(p),
         NEW d \in Digests, d = Layer(p),
         NEW x \in Pulls, x \in {part'[d], blob'[d]},
         x \in {part[d], blob[d]} => Whole(d, x)
  PROVE  Whole(d, x)'
<1> DEFINE inode == IF part[d] = None THEN p ELSE part[d]
<1>1. /\ part'[d] = inode /\ blob' = blob /\ inode \in Pulls /\ at'[p] = 0
      /\ \A y \in Pulls : y # inode => data'[d][y] = data[d][y]
      /\ pc[p] = "create" /\ pc'[p] = "copy"
      /\ fd'[p] = inode /\ Layer(p)' = Layer(p)
  BY DEF CreatePart, Goto, TypeOK, Layer
<1>2. CASE x = inode
  BY <1>1, <1>2 DEF Whole, Rewrites
<1>3. CASE x # inode
  <2>1. Whole(d, x) /\ data'[d][x] = data[d][x] /\ ~Rewrites(p, d, x)
    BY <1>1, <1>3 DEF Rewrites
  <2>2. Pull(p)
    BY DEF Pull, Download
  <2>3. QED
    BY <2>1, <2>2, QuietHeals
<1>4. QED
  BY <1>2, <1>3

\* One good chunk more: the file stays whole, its writers go on, and the one
\* that has written the last chunk has made it whole.
LEMMA CopyHeals ==
  ASSUME TypeOK, NEW p \in Pulls, Flows, CopyChunk(p), ~fault'[p],
         NEW d \in Digests, d = Layer(p), NEW x \in Pulls, Whole(d, x)
  PROVE  Whole(d, x)'
<1>0. Chunks \in Nat /\ Chunks > 0
  BY PullAssumption
<1>1. /\ pc[p] = "copy" /\ fd[p] \in Pulls /\ fd'[p] = fd[p]
      /\ at[p] \in 0..Chunks /\ at[p] < Chunks /\ at'[p] = at[p] + 1
      /\ pc'[p] = IF at[p] + 1 = Chunks THEN "verify" ELSE "copy"
      /\ Layer(p)' = Layer(p)
  BY DEF CopyChunk, Goto, TypeOK, Layer, Flows, Flow
<1>2. PICK chunk \in {"good", "bad"} : CopyChunk(p)!(chunk)
  BY DEF CopyChunk
<1>3. chunk = "good"
  BY <1>2 DEF TypeOK
<1>4. data' = [data EXCEPT ![d][fd[p]][at[p] + 1] = "good"]
  BY <1>2, <1>3
<1>5. data[d] \in [Pulls -> [1..Chunks -> {"hole", "good", "bad"}]]
  BY DEF TypeOK
<1>6. data'[d] = [data[d] EXCEPT ![fd[p]][at[p] + 1] = "good"]
  BY <1>4 DEF TypeOK
<1>7. \A k \in 1..Chunks :
        data'[d][x][k] =
          IF x = fd[p] /\ k = at[p] + 1 THEN "good" ELSE data[d][x][k]
  <2>1. CASE x = fd[p]
    <3>1. data'[d][x] = [data[d][x] EXCEPT ![at[p] + 1] = "good"]
      BY <1>1, <1>5, <1>6, <2>1
    <3>2. data[d][x] \in [1..Chunks -> {"hole", "good", "bad"}]
      BY <1>5
    <3>3. QED
      BY ONLY <2>1, <3>1, <3>2
  <2>2. CASE x # fd[p]
    BY <1>5, <1>6, <2>2
  <2>3. QED
    BY <2>1, <2>2
<1>8. data'[d][x] \in [1..Chunks -> {"hole", "good", "bad"}]
  BY <1>0, <1>1, <1>5, <1>6
<1>9. CASE data[d][x] = Good
  <2>1. data'[d][x] = Good
    BY <1>7, <1>8, <1>9 DEF Good
  <2>2. QED
    BY <2>1 DEF Whole, Good
<1>10. ASSUME NEW w \in Pulls \ {p}, Rewrites(w, d, x) PROVE Whole(d, x)'
  <2>1. Pull(p)
    BY DEF Pull, Download
  <2>2. Rewrites(w, d, x)'
    BY <1>7, <1>10, <2>1, OthersRewrite DEF Flows
  <2>3. QED
    BY <2>2 DEF Whole
<1>11. CASE Rewrites(p, d, x)
  <2>1. x = fd[p] /\ \A k \in 1..at[p] + 1 : data'[d][x][k] = "good"
    BY <1>0, <1>1, <1>7, <1>11 DEF Rewrites
  <2>2. CASE at[p] + 1 = Chunks
    <3>1. data'[d][x] = Good
      BY <1>8, <2>1, <2>2 DEF Good
    <3>2. QED
      BY <3>1 DEF Whole, Good
  <2>3. CASE at[p] + 1 # Chunks
    <3>1. Rewrites(p, d, x)'
      BY <1>1, <2>1, <2>3 DEF Rewrites
    <3>2. QED
      BY <3>1 DEF Whole
  <2>4. QED
    BY <2>2, <2>3
<1>12. QED
  BY <1>9, <1>10, <1>11 DEF Whole

LEMMA HealingStep ==
  ASSUME TypeOK, Flows, NEW p \in Pulls, Pull(p) \/ Crash(p), Healing
  PROVE  Healing'
<1> SUFFICES ASSUME NoFault', NEW d \in Digests, NEW x \in Pulls,
                    x \in {part'[d], blob'[d]}
             PROVE  Whole(d, x)'
  BY DEF Healing
<1>1. NoFault
  <2>1. ~fault[p] /\ pc[p] # "crashed"
    BY FilesKeep DEF NoFault, TypeOK, Flows, Active, Over
  <2>2. \A q \in Pulls \ {p} : ~fault[q] /\ pc[q] # "crashed"
    BY OthersKeep DEF NoFault
  <2>3. QED
    BY <2>1, <2>2 DEF NoFault
<1>2. x \in {part[d], blob[d]} => Whole(d, x)
  BY <1>1 DEF Healing
<1>3. ~fault[p] /\ ~fault'[p] /\ pc'[p] # "crashed" /\ clean[p]
  BY <1>1 DEF NoFault, Flows, Flow
<1>4. CASE ~(Active(p) /\ d = Layer(p))
  <2>1. data'[d] = data[d] /\ part'[d] = part[d] /\ blob'[d] = blob[d]
    BY <1>4, FilesKeep DEF Flows
  <2>2. ~Rewrites(p, d, x)
    BY <1>4 DEF Rewrites, Active, Over
  <2>3. QED
    BY <1>2, <2>1, <2>2, QuietHeals
<1>5. CASE Active(p) /\ d = Layer(p)
  <2>1. CASE CreatePart(p)
    BY <1>2, <1>5, <2>1, CreateHeals
  <2>2. CASE CopyChunk(p)
    <3>1. part' = part /\ blob' = blob
      BY <2>2 DEF CopyChunk
    <3>2. QED
      BY <1>2, <1>3, <1>5, <2>2, <3>1, CopyHeals
  <2>3. CASE RenamePart(p)
    <3>1. /\ x \in {part[d], blob[d]} /\ data' = data
          /\ pc[p] = "rename"
      BY <1>5, <2>3, PullAssumption DEF RenamePart, Goto, TypeOK
    <3>2. QED
      BY <1>2, <3>1, QuietHeals DEF Rewrites
  <2>4. CASE ~CreatePart(p) /\ ~CopyChunk(p) /\ ~RenamePart(p)
    <3>1. part' = part /\ blob' = blob /\ data' = data /\ pc[p] # "copy"
      <4> USE <1>3, <1>5, <2>4 DEF Goto, Fault, Active, Over, local, store, TypeOK
      <4>1. CASE OpenManifest(p) BY <4>1 DEF OpenManifest
      <4>2. CASE FetchManifestFails(p) BY <4>2 DEF FetchManifestFails
      <4>3. CASE WriteManifest(p) BY <4>3 DEF WriteManifest
      <4>4. CASE WriteManifestFails(p) BY <4>4 DEF WriteManifestFails
      <4>5. CASE StatBlob(p) BY <4>5 DEF StatBlob
      <4>6. CASE RequestBlobFails(p) BY <4>6 DEF RequestBlobFails
      <4>7. CASE CopyFails(p) BY <4>7 DEF CopyFails, RemovePart
      <4>8. CASE DigestMatches(p) BY <4>8 DEF DigestMatches
      <4>9. CASE DigestMismatch(p) BY <4>9 DEF DigestMismatch, RemovePart
      <4>10. CASE RenameFails(p) BY <4>10 DEF RenameFails
      <4>11. CASE RenameMissing(p) BY <4>11 DEF RenameMissing
      <4>12. CASE OpenBlob(p) BY <4>12 DEF OpenBlob, Extracted
      <4>13. CASE ExtractChunk(p) BY <4>13 DEF ExtractChunk
      <4>14. CASE FinishLayer(p) BY <4>14 DEF FinishLayer, Extracted
      <4>15. CASE ExtractBroken(p) BY <4>15 DEF ExtractBroken
      <4>16. CASE ExtractFails(p) BY <4>16 DEF ExtractFails
      <4>r. CASE ExtractRefused(p) BY <4>r DEF ExtractRefused
      <4>17. CASE Crash(p) BY <4>17 DEF Crash
      <4>18. QED
        BY <4>r, <4>1, <4>2, <4>3, <4>4, <4>5, <4>6, <4>7, <4>8, <4>9, <4>10,
           <4>11, <4>12, <4>13, <4>14, <4>15, <4>16, <4>17 DEF Pull,
           Download, Extract
    <3>2. QED
      BY <1>2, <3>1, QuietHeals DEF Rewrites
  <2>5. QED
    BY <2>1, <2>2, <2>3, <2>4
<1>6. QED
  BY <1>4, <1>5

(***************************************************************************)
(* The system.                                                             *)
(***************************************************************************)

LEMMA StepIInv == IInv /\ [Next]_vars => IInv'
<1> SUFFICES ASSUME IInv, [Next]_vars PROVE IInv'
  OBVIOUS
<1> USE DEF IInv
<1>1. ASSUME NEW p \in Pulls, Pull(p) \/ Crash(p) PROVE IInv'
  <2>1. TypeOK' /\ Flow(p)'
    BY <1>1, OwnFlow DEF Flows
  <2>2. Flows'
    <3>1. ASSUME NEW q \in Pulls \ {p} PROVE Flow(q)'
      BY <1>1, OthersKeep DEF Flows, Flow, Active
    <3>2. QED
      BY <2>1, <3>1 DEF Flows
  <2>3. QED
    BY <1>1, <2>1, <2>2, TracedStep, TurnsStep, HealingStep
<1>2. CASE UNCHANGED vars
  BY <1>2 DEF vars, local, store, TypeOK, Flows, Flow, Active, Turns, Apart,
     CachedBlobVerified, Work, Kept, Complete, Layer, Healing, NoFault, Whole,
     Rewrites, Traced, Protected, ExtractedBefore, Reached
<1>3. QED
  BY <1>1, <1>2 DEF Next, AllOver

\* The invariant on which the theorems below rest.
THEOREM Invariance == Spec => []IInv
<1>1. Init => IInv
  BY InitIInv
<1>2. IInv /\ [Next]_vars => IInv'
  BY StepIInv
<1>3. QED
  BY <1>1, <1>2, PTL DEF Spec

(***************************************************************************)
(* The theorems.                                                           *)
(***************************************************************************)

\* Every variable of the pulls keeps its type.
THEOREM TypeCorrect == Spec => []TypeOK
<1>1. IInv => TypeOK
  BY DEF IInv
<1>2. QED
  BY <1>1, Invariance, PTL

\* What pulls that take turns have cached has the digest it is named by, in
\* spite of every failed or killed pull and of the .part file it left.
THEOREM Verified == Spec => []TurnsVerified
<1>1. IInv => TurnsVerified
  BY DEF IInv, Turns, TurnsVerified
<1>2. QED
  BY <1>1, Invariance, PTL

\* A pull that returned nil has unpacked every layer of its image, and they
\* stay unpacked until another pull of the image starts.
THEOREM Completeness == Spec => []PullComplete
<1>1. IInv => PullComplete
  BY DEF IInv, Turns, Kept, PullComplete, Loadable
<1>2. QED
  BY <1>1, Invariance, PTL

\* A pull that takes turns fails for network, disk or the modes of its own layer
\* only: nothing that an earlier pull left behind makes it fail, unless that pull
\* had extracted the same layer, and the layer has a file its owner may not write
\* to (pullBlob, extractLayer).
THEOREM NoFalseFailure == Spec => []FailureExplained
<1>1. IInv => FailureExplained
  BY DEF IInv, Turns, Work, FailureExplained
<1>2. QED
  BY <1>1, Invariance, PTL

\* A crowd leaves no damage behind that a fault did not cause: when nobody
\* is copying there is nobody a file could be waiting for.
THEOREM CrowdHeals == Spec => []OverlapHeals
<1>1. IInv => OverlapHeals
  <2> SUFFICES ASSUME IInv, \A p \in Pulls : ~fault[p] /\ pc[p] \notin {"crashed", "copy"},
                      NEW d \in Digests, blob[d] # None
               PROVE  data[d][blob[d]] = Good
    BY DEF OverlapHeals
  <2>1. blob[d] \in Pulls /\ NoFault
    BY DEF IInv, TypeOK, NoFault
  <2>2. Whole(d, blob[d])
    BY <2>1 DEF IInv, Healing
  <2>3. QED
    BY <2>2 DEF Whole, Rewrites
<1>2. QED
  BY <1>1, Invariance, PTL

\* Of pulls that take turns, none writes to a file that has its final name.
THEOREM Immutability == Spec => BlobsImmutable
<1>1. IInv /\ [Next]_vars =>
        [use = "turns" => \A d \in Digests : blob[d] # None =>
           blob'[d] = blob[d] /\ data'[d][blob[d]] = data[d][blob[d]]]_vars
  <2> SUFFICES ASSUME IInv, Next, use = "turns",
                      NEW d \in Digests, blob[d] # None
               PROVE  blob'[d] = blob[d] /\ data'[d][blob[d]] = data[d][blob[d]]
    BY DEF IInv
  <2>1. CASE AllOver
    BY <2>1 DEF AllOver, vars, store
  <2>2. ASSUME NEW p \in Pulls, Pull(p) \/ Crash(p)
        PROVE  blob'[d] = blob[d] /\ data'[d] = data[d]
    <3>1. CASE ~(Active(p) /\ d = Layer(p))
      BY <2>2, <3>1, FilesKeep DEF IInv, Flows
    <3>2. CASE Active(p) /\ d = Layer(p)
      <4>1. pc[p] \notin {"create", "copy", "verify", "rename"}
        BY <3>2 DEF IInv, Turns, Work
      <4> USE <3>2, <4>1 DEF Goto, Fault, Active, Over, local, store
      <4>2. CASE OpenManifest(p) BY <4>2 DEF OpenManifest
      <4>3. CASE FetchManifestFails(p) BY <4>3 DEF FetchManifestFails
      <4>4. CASE WriteManifest(p) BY <4>4 DEF WriteManifest
      <4>5. CASE WriteManifestFails(p) BY <4>5 DEF WriteManifestFails
      <4>6. CASE StatBlob(p) BY <4>6 DEF StatBlob
      <4>7. CASE RequestBlobFails(p) BY <4>7 DEF RequestBlobFails
      <4>8. CASE CreatePart(p) BY <4>8 DEF CreatePart
      <4>9. CASE CopyChunk(p) BY <4>9 DEF CopyChunk
      <4>10. CASE CopyFails(p) BY <4>10 DEF CopyFails, RemovePart
      <4>11. CASE DigestMatches(p) BY <4>11 DEF DigestMatches
      <4>12. CASE DigestMismatch(p) BY <4>12 DEF DigestMismatch, RemovePart
      <4>13. CASE RenamePart(p) BY <4>13 DEF RenamePart
      <4>14. CASE RenameFails(p) BY <4>14 DEF RenameFails
      <4>15. CASE RenameMissing(p) BY <4>15 DEF RenameMissing
      <4>16. CASE OpenBlob(p) BY <4>16 DEF OpenBlob, Extracted
      <4>17. CASE ExtractChunk(p) BY <4>17 DEF ExtractChunk
      <4>18. CASE FinishLayer(p) BY <4>18 DEF FinishLayer, Extracted
      <4>19. CASE ExtractBroken(p) BY <4>19 DEF ExtractBroken
      <4>20. CASE ExtractFails(p) BY <4>20 DEF ExtractFails
      <4>r. CASE ExtractRefused(p) BY <4>r DEF ExtractRefused
      <4>21. CASE Crash(p) BY <4>21 DEF Crash
      <4>22. QED
        BY <4>r, <2>2, <4>2, <4>3, <4>4, <4>5, <4>6, <4>7, <4>8, <4>9, <4>10,
           <4>11, <4>12, <4>13, <4>14, <4>15, <4>16, <4>17, <4>18, <4>19,
           <4>20, <4>21 DEF Pull, Download, Extract
    <3>3. QED
      BY <3>1, <3>2
  <2>3. QED
    BY <2>1, <2>2 DEF Next
<1>2. QED
  BY <1>1, Invariance, PTL DEF Spec, BlobsImmutable

(***************************************************************************)
(* Pulls that take turns implement ImageStore.                             *)
(***************************************************************************)

\* While nobody overlaps, what has its final name is whole, before a step and
\* after it.
LEMMA CachedIs ==
  ASSUME CachedBlobVerified, CachedBlobVerified'
  PROVE  /\ Cached = [d \in Digests |-> IF blob[d] = None THEN "absent" ELSE "whole"]
         /\ Cached' = [d \in Digests |-> IF blob'[d] = None THEN "absent" ELSE "whole"]
<1>1. \A d \in Digests :
        (IF blob[d] = None THEN "absent"
         ELSE IF data[d][blob[d]] = Good THEN "whole" ELSE "broken")
          = IF blob[d] = None THEN "absent" ELSE "whole"
  BY DEF CachedBlobVerified
<1>2. \A d \in Digests :
        (IF blob'[d] = None THEN "absent"
         ELSE IF data'[d][blob'[d]] = Good THEN "whole" ELSE "broken")
          = IF blob'[d] = None THEN "absent" ELSE "whole"
  BY DEF CachedBlobVerified, Good
<1>3. Cached = [d \in Digests |-> IF blob[d] = None THEN "absent" ELSE "whole"]
  BY <1>1 DEF Cached
<1>4. Cached' = [d \in Digests |->
                   IF blob'[d] = None THEN "absent"
                   ELSE IF data'[d][blob'[d]] = Good THEN "whole" ELSE "broken"]
  BY DEF Cached, Good
<1>5. QED
  BY <1>2, <1>3, <1>4

\* A pull that neither has succeeded nor succeeds now makes no image ready.
LEMMA ReadyKept ==
  ASSUME TypeOK, NEW p \in Pulls, NEW b, pc' = [pc EXCEPT ![p] = b],
         pc[p] # "done", b # "done"
  PROVE  \A i \in Images : mf'[i] = mf[i] => (i \in Ready' <=> i \in Ready)
<1>1. \A q \in Pulls : pc'[q] = "done" <=> pc[q] = "done"
  BY DEF TypeOK
<1>2. QED
  BY <1>1 DEF Ready, Loadable

\* Most steps do not show: they name no blob, finish no layer and leave the
\* manifests of images that are ready alone.
LEMMA Unseen ==
  ASSUME TypeOK, CachedBlobVerified, TypeOK', CachedBlobVerified', use = "turns",
         NEW p \in Pulls, Work(p), Kept(p), Flow(p), Pull(p) \/ Crash(p),
         ~OpenManifest(p), ~RenamePart(p), ~OpenBlob(p), ~FinishLayer(p)
  PROVE  UNCHANGED <<Cached, Unpacked, Ready>>
<1>1. /\ blob' = blob /\ rootfs' = rootfs
      /\ pc[p] # "done" /\ \E b : b # "done" /\ pc' = [pc EXCEPT ![p] = b]
      /\ \/ mf' = mf
         \/ /\ img[p] \in Images /\ mf[img[p]] = "empty"
            /\ mf' = [mf EXCEPT ![img[p]] = p] /\ pc[p] = "manifest"
  <2> USE DEF Goto, Fault, Active, Over, local, store
  <2>1. CASE FetchManifestFails(p) BY <2>1 DEF FetchManifestFails
  <2>2. CASE WriteManifest(p) BY <2>2 DEF WriteManifest, Kept, Flow
  <2>3. CASE WriteManifestFails(p) BY <2>3 DEF WriteManifestFails
  <2>4. CASE StatBlob(p) BY <2>4 DEF StatBlob
  <2>5. CASE RequestBlobFails(p) BY <2>5 DEF RequestBlobFails
  <2>6. CASE CreatePart(p) BY <2>6 DEF CreatePart
  <2>7. CASE CopyChunk(p) BY <2>7 DEF CopyChunk
  <2>8. CASE CopyFails(p) BY <2>8 DEF CopyFails
  <2>9. CASE DigestMatches(p) BY <2>9 DEF DigestMatches
  <2>10. CASE DigestMismatch(p) BY <2>10 DEF DigestMismatch
  <2>11. CASE RenameFails(p) BY <2>11 DEF RenameFails
  <2>12. CASE RenameMissing(p) BY <2>12 DEF RenameMissing
  <2>13. CASE ExtractChunk(p) BY <2>13 DEF ExtractChunk
  <2>14. CASE ExtractBroken(p) BY <2>14 DEF ExtractBroken
  <2>15. CASE ExtractFails(p) BY <2>15 DEF ExtractFails
  <2>r. CASE ExtractRefused(p) BY <2>r DEF ExtractRefused
  <2>16. CASE Crash(p) BY <2>16 DEF Crash
  <2>17. QED
    BY <2>r, <2>1, <2>2, <2>3, <2>4, <2>5, <2>6, <2>7, <2>8, <2>9, <2>10, <2>11,
       <2>12, <2>13, <2>14, <2>15, <2>16 DEF Pull, Download, Extract
<1>2. Cached' = Cached
  BY <1>1, CachedIs
<1>3. Unpacked' = Unpacked
  BY <1>1 DEF Unpacked
<1>4. PICK b : b # "done" /\ pc' = [pc EXCEPT ![p] = b]
  BY <1>1
<1>5. \A i \in Images : mf'[i] = mf[i] => (i \in Ready' <=> i \in Ready)
  BY <1>1, <1>4, ReadyKept
<1>6. CASE mf' = mf
  BY <1>2, <1>3, <1>5, <1>6 DEF Ready
<1>7. CASE /\ img[p] \in Images /\ mf[img[p]] = "empty"
           /\ mf' = [mf EXCEPT ![img[p]] = p] /\ pc[p] = "manifest"
  <2>1. mf'[img[p]] = p /\ \A i \in Images \ {img[p]} : mf'[i] = mf[i]
    BY <1>7 DEF TypeOK
  <2>2. pc'[p] # "done"
    BY <1>4 DEF TypeOK
  <2>3. img[p] \notin Ready' /\ img[p] \notin Ready
    BY <1>7, <2>1, <2>2, PullAssumption DEF Ready, Loadable
  <2>4. Ready' = Ready
    BY <1>5, <2>1, <2>3 DEF Ready
  <2>5. QED
    BY <1>2, <1>3, <2>4
<1>8. QED
  BY <1>1, <1>6, <1>7

\* A pull starts: if its image was ready it is no more.
LEMMA Announced ==
  ASSUME TypeOK, CachedBlobVerified, CachedBlobVerified', use = "turns",
         NEW p \in Pulls, OpenManifest(p)
  PROVE  UNCHANGED <<Cached, Unpacked, Ready>> \/ \E i \in Images : Store!Renew(i)
<1>1. PICK i \in Images :
        /\ pc[p] = "idle" /\ pc' = [pc EXCEPT ![p] = "manifest"]
        /\ mf' = [mf EXCEPT ![i] = "empty"]
        /\ blob' = blob /\ rootfs' = rootfs
  BY DEF OpenManifest, Goto
<1>2. Cached' = Cached /\ Unpacked' = Unpacked
  BY <1>1, CachedIs DEF Unpacked
<1>3. mf'[i] = "empty" /\ \A j \in Images \ {i} : mf'[j] = mf[j]
  BY <1>1 DEF TypeOK
<1>4. i \notin Ready' /\ Ready \subseteq Images /\ Ready' \subseteq Images
  BY <1>3, PullAssumption DEF Ready, Loadable
<1>5. \A j \in Images \ {i} : j \in Ready' <=> j \in Ready
  BY <1>1, <1>3, ReadyKept
<1>6. Ready' = Ready \ {i}
  BY <1>4, <1>5
<1>7. QED
  BY <1>2, <1>6 DEF Store!Renew

\* A rename puts a blob under its final name.
LEMMA Named ==
  ASSUME TypeOK, CachedBlobVerified, CachedBlobVerified',
         NEW p \in Pulls, Flow(p), Work(p), RenamePart(p)
  PROVE  \E d \in Digests : Store!Cache(d)
<1> DEFINE d == Layer(p)
<1>1. /\ pc[p] = "rename" /\ pc' = [pc EXCEPT ![p] = "open"]
      /\ blob' = [blob EXCEPT ![d] = part[d]]
      /\ mf' = mf /\ rootfs' = rootfs /\ part[d] # None
  BY DEF RenamePart, Goto, local
<1>2. d \in Digests /\ blob[d] = None
  BY <1>1, LayerOfActive DEF Active, Over, Work
<1> HIDE DEF d
<1>3. blob'[d] # None /\ \A c \in Digests \ {d} : blob'[c] = blob[c]
  BY <1>1, <1>2 DEF TypeOK
<1>4. Cached[d] = "absent" /\ Cached' = [Cached EXCEPT ![d] = "whole"]
  BY <1>2, <1>3, CachedIs
<1>5. \A i \in Images : i \in Ready' <=> i \in Ready
  BY <1>1, ReadyKept
<1>6. Ready' = Ready /\ Unpacked' = Unpacked
  BY <1>1, <1>5 DEF Ready, Unpacked
<1>7. QED
  BY <1>2, <1>4, <1>6 DEF Store!Cache

\* The image that a pull unpacks is not ready, and the layer's blob is whole.
LEMMA Unpacking ==
  ASSUME TypeOK, CachedBlobVerified, CachedBlobVerified',
         NEW p \in Pulls, Flow(p), Work(p), Kept(p), pc[p] \in {"open", "extract"}
  PROVE  /\ img[p] \in Images \ Ready /\ Layer(p) \in Range(LayersOf[img[p]])
         /\ Layer(p) \in Digests /\ Cached[Layer(p)] = "whole"
<1>1. Active(p) /\ pc[p] # "manifest" /\ pc[p] # "done"
  BY DEF Active, Over
<1>2. /\ img[p] \in Images /\ Layer(p) \in Range(LayersOf[img[p]])
      /\ Layer(p) \in Digests
  BY <1>1, LayerOfActive
<1>3. mf[img[p]] = p
  BY <1>1 DEF Kept
<1>4. blob[Layer(p)] # None
  BY PullAssumption DEF Work
<1>5. Cached[Layer(p)] = "whole"
  BY <1>2, <1>4, CachedIs
<1>6. QED
  BY <1>1, <1>2, <1>3, <1>5 DEF Ready

\* A layer is unpacked again.
LEMMA Reopened ==
  ASSUME TypeOK, CachedBlobVerified, CachedBlobVerified',
         NEW p \in Pulls, Flow(p), Work(p), Kept(p), OpenBlob(p)
  PROVE  \/ UNCHANGED <<Cached, Unpacked, Ready>>
         \/ \E i \in Images, d \in Digests : Store!Redo(i, d)
<1> DEFINE i == img[p]
           d == Layer(p)
<1>1. /\ pc[p] = "open" /\ pc' = [pc EXCEPT ![p] = "extract"]
      /\ \E how \in {"partial", "again"} : rootfs' = [rootfs EXCEPT ![i][d] = how]
      /\ mf' = mf /\ blob' = blob
  BY DEF OpenBlob, Goto, Extracted
<1>2. i \in Images \ Ready /\ d \in Digests /\ Cached[d] = "whole"
  BY <1>1, Unpacking
<1> HIDE DEF i, d
<1>3. \A j \in Images : j \in Ready' <=> j \in Ready
  BY <1>1, ReadyKept
<1>4. Ready' = Ready /\ Cached' = Cached
  BY <1>1, <1>3, CachedIs DEF Ready
<1>5. /\ rootfs'[i][d] # "full"
      /\ \A j \in Images, c \in Digests :
           j # i \/ c # d => rootfs'[j][c] = rootfs[j][c]
  BY <1>1, <1>2 DEF TypeOK
<1>6. Unpacked' = [Unpacked EXCEPT ![i] = @ \ {d}]
  <2>1. Unpacked'[i] = Unpacked[i] \ {d}
    BY <1>2, <1>5 DEF Unpacked
  <2>2. \A j \in Images \ {i} : Unpacked'[j] = Unpacked[j]
    BY <1>5 DEF Unpacked
  <2>3. QED
    BY <1>2, <2>1, <2>2 DEF Unpacked
<1>7. CASE d \in Unpacked[i]
  BY <1>2, <1>4, <1>6, <1>7 DEF Store!Redo
<1>8. CASE d \notin Unpacked[i]
  <2>1. Unpacked' = Unpacked
    BY <1>2, <1>6, <1>8 DEF Unpacked
  <2>2. QED
    BY <1>4, <2>1
<1>9. QED
  BY <1>7, <1>8

\* A layer is complete; when it was the last one, so is the image.
LEMMA Finished ==
  ASSUME TypeOK, CachedBlobVerified, CachedBlobVerified',
         NEW p \in Pulls, Flow(p), Work(p), Kept(p), Kept(p)', FinishLayer(p)
  PROVE  \E i \in Images, d \in Digests : Store!Unpack(i, d)
<1> DEFINE i == img[p]
           d == Layer(p)
<1>1. /\ pc[p] = "extract" /\ mf' = mf /\ blob' = blob
      /\ rootfs' = [rootfs EXCEPT ![i][d] = "full"]
      /\ pc' = [pc EXCEPT ![p] = "stat"] \/ pc' = [pc EXCEPT ![p] = "done"]
  BY DEF FinishLayer, Goto, Extracted
<1>2. /\ i \in Images \ Ready /\ d \in Digests /\ Cached[d] = "whole"
      /\ d \in Range(LayersOf[i])
  BY <1>1, Unpacking
<1>3. mf[i] = p
  BY <1>1 DEF Kept, Active, Over
<1>a. \A j \in Images : mf'[j] = p => (pc'[p] = "done" => Complete(j)')
  BY DEF Kept
<1> HIDE DEF i, d
<1>4. Cached' = Cached
  BY <1>1, CachedIs
<1>5. /\ rootfs'[i][d] = "full"
      /\ \A j \in Images, c \in Digests :
           j # i \/ c # d => rootfs'[j][c] = rootfs[j][c]
  BY <1>1, <1>2 DEF TypeOK
<1>6. Unpacked' = [Unpacked EXCEPT ![i] = @ \cup {d}]
  <2>1. Unpacked'[i] = Unpacked[i] \cup {d}
    BY <1>2, <1>5 DEF Unpacked
  <2>2. \A j \in Images \ {i} : Unpacked'[j] = Unpacked[j]
    BY <1>5 DEF Unpacked
  <2>3. QED
    BY <1>2, <2>1, <2>2 DEF Unpacked
<1>7. CASE pc' = [pc EXCEPT ![p] = "stat"]
  <2>1. \A j \in Images : j \in Ready' <=> j \in Ready
    BY <1>1, <1>7, ReadyKept
  <2>2. Ready' = Ready
    BY <2>1 DEF Ready
  <2>3. QED
    BY <1>2, <1>4, <1>6, <2>2 DEF Store!Unpack, Store!Range, Range
<1>8. CASE pc' = [pc EXCEPT ![p] = "done"]
  <2>1. pc'[p] = "done" /\ \A q \in Pulls \ {p} : pc'[q] = pc[q]
    BY <1>8 DEF TypeOK
  <2>2. \A j \in Images : mf[j] = p => j \in Ready' /\ Complete(j)'
    BY <1>1, <1>a, <2>1 DEF Ready, Loadable
  <2>3. \A j \in Images : mf[j] = p => j = i
    BY <1>1, <1>3 DEF Kept, i
  <2>4. \A j \in Images \ {i} : j \in Ready' <=> j \in Ready
    BY <1>1, <2>1, <2>3 DEF Ready, Loadable
  <2>5. Ready' = Ready \cup {i}
    BY <1>2, <1>3, <2>2, <2>4 DEF Ready
  <2>6. Range(LayersOf[i]) \subseteq Unpacked'[i]
    <3>1. Range(LayersOf[i]) \subseteq Digests
      BY <1>2, PullAssumption DEF Range
    <3>2. \A c \in Range(LayersOf[i]) : rootfs'[i][c] = "full"
      BY <1>2, <1>3, <2>2 DEF Complete
    <3>3. QED
      BY <1>2, <3>1, <3>2 DEF Unpacked
  <2>7. QED
    BY <1>2, <1>4, <1>6, <2>5, <2>6 DEF Store!Unpack, Store!Range, Range
<1>9. QED
  BY <1>1, <1>7, <1>8

\* A step of pulls that take turns is one of the abstract store, or does not
\* show; and they go on taking turns.
LEMMA StoreStep ==
  ASSUME IInv, IInv', use = "turns", [Next]_vars
  PROVE  use' = "turns" /\ [Store!Next]_(Store!vars)
<1>1. use' = use
  BY DEF Next, Pull, Download, Extract, OpenManifest, FetchManifestFails,
     WriteManifest, WriteManifestFails, StatBlob, RequestBlobFails, CreatePart,
     CopyChunk, CopyFails, DigestMatches, DigestMismatch, RenamePart,
     RenameFails, RenameMissing, OpenBlob, ExtractChunk, FinishLayer,
     ExtractBroken, ExtractRefused, ExtractFails, Crash, AllOver, Goto, Fault, vars
<1>2. CASE UNCHANGED vars
  BY <1>1, <1>2 DEF vars, local, store, Store!vars, Cached, Unpacked, Ready, Loadable
<1>3. ASSUME NEW p \in Pulls, Pull(p) \/ Crash(p)
      PROVE  [Store!Next]_(Store!vars)
  <2>1. /\ TypeOK /\ CachedBlobVerified /\ TypeOK' /\ CachedBlobVerified'
        /\ Work(p) /\ Kept(p) /\ Flow(p) /\ Kept(p)'
    BY <1>1 DEF IInv, Turns, Flows
  <2>2. CASE OpenManifest(p)
    BY <2>1, <2>2, Announced DEF Store!Next, Store!vars
  <2>3. CASE RenamePart(p)
    BY <2>1, <2>3, Named DEF Store!Next
  <2>4. CASE OpenBlob(p)
    BY <2>1, <2>4, Reopened DEF Store!Next, Store!vars
  <2>5. CASE FinishLayer(p)
    BY <2>1, <2>5, Finished DEF Store!Next
  <2>6. CASE ~(OpenManifest(p) \/ RenamePart(p) \/ OpenBlob(p) \/ FinishLayer(p))
    BY <1>3, <2>1, <2>6, Unseen DEF Store!vars
  <2>7. QED
    BY <2>2, <2>3, <2>4, <2>5, <2>6
<1>4. CASE AllOver
  BY <1>2, <1>4 DEF AllOver
<1>5. QED
  BY <1>1, <1>2, <1>3, <1>4 DEF Next

\* An empty store is an empty store.
LEMMA InitStore == Init => Store!Init
<1>1. SUFFICES ASSUME Init PROVE Store!Init
  OBVIOUS
<1>2. Cached = [d \in Digests |-> "absent"]
  BY <1>1 DEF Init, Cached
<1>3. Unpacked = [i \in Images |-> {}]
  BY <1>1 DEF Init, Unpacked
<1>4. Ready = {}
  BY <1>1, PullAssumption DEF Init, Ready, Loadable
<1>5. QED
  BY <1>2, <1>3, <1>4 DEF Store!Init

\* Pulls that take turns keep what the store promises, step by step, whatever
\* fails and whoever is killed: the cache only gains whole blobs, and nobody
\* touches the layers of an image that is ready (Client.Pull, pullBlob,
\* extractLayer).
THEOREM StepsImplementStore == Spec => ImplementsStore
<1>1. IInv /\ IInv' /\ [Next]_vars
        => [use = "turns" => [Store!Next]_(Store!vars)]_vars
  BY StoreStep
<1>2. QED
  BY <1>1, InitStore, Invariance, PTL DEF Spec, ImplementsStore

\* A store that is only used in turns is an abstract store (Client.Pull,
\* pullBlob, extractLayer).
THEOREM TurnsImplementStore == Spec /\ use = "turns" => Store!Spec
<1>1. IInv /\ IInv' /\ use = "turns" /\ [Next]_vars
        => (use = "turns")' /\ [Store!Next]_(Store!vars)
  BY StoreStep
<1>2. QED
  BY <1>1, InitStore, Invariance, PTL DEF Spec, Store!Spec
=============================================================================
