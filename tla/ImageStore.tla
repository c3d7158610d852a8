----------------------------- MODULE ImageStore -----------------------------
(***************************************************************************)
(* What the image store promises as long as the pulls that share a layer   *)
(* take turns: the cache only gains blobs, and only whole ones; an         *)
(* image is made from blobs of the cache; it is ready all at once, with    *)
(* its last layer, and nobody touches its layers until a pull of the same  *)
(* image announces itself.  Who pulls, and how pulls fail or are killed,   *)
(* does not show.                                                          *)
(*                                                                         *)
(* ImagePull implements this with files, renames and repeated extraction.  *)
(***************************************************************************)
EXTENDS Functions

CONSTANTS Images, Digests, LayersOf

VARIABLES
  cache,     \* of each digest "absent", "whole", or "broken": never that
  unpacked,  \* the layers of each image that are there in full
  ready      \* the images whose last pull has succeeded

vars == <<cache, unpacked, ready>>

Init ==
  /\ cache = [d \in Digests |-> "absent"]
  /\ unpacked = [i \in Images |-> {}]
  /\ ready = {}

\* A blob gets its final name.
Cache(d) ==
  /\ cache[d] = "absent" /\ cache' = [cache EXCEPT ![d] = "whole"]
  /\ UNCHANGED <<unpacked, ready>>

\* An image that is ready is pulled again.
Renew(i) ==
  /\ i \in ready /\ ready' = ready \ {i}
  /\ UNCHANGED <<cache, unpacked>>

\* A layer is unpacked over what is there.
Redo(i, d) ==
  /\ i \notin ready /\ cache[d] = "whole"
  /\ d \in unpacked[i] /\ unpacked' = [unpacked EXCEPT ![i] = @ \ {d}]
  /\ UNCHANGED <<cache, ready>>

\* A layer is complete, and if it is the last one the image is ready.
Unpack(i, d) ==
  /\ i \notin ready /\ cache[d] = "whole" /\ d \in Range(LayersOf[i])
  /\ unpacked' = [unpacked EXCEPT ![i] = @ \cup {d}]
  /\ \/ UNCHANGED ready
     \/ Range(LayersOf[i]) \subseteq unpacked'[i] /\ ready' = ready \cup {i}
  /\ UNCHANGED cache

Next ==
  \/ \E d \in Digests : Cache(d)
  \/ \E i \in Images : Renew(i) \/ \E d \in Digests : Redo(i, d) \/ Unpack(i, d)

Spec == Init /\ [][Next]_vars
=============================================================================
