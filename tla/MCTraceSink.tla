---------------------------- MODULE MCTraceSink ----------------------------
(* Two threads, three rows of one group, two blobs of which one is shared. *)
EXTENDS TraceSink, TLC

CONSTANTS t1, t2, r1, r2, r3, groupA, b1, b2

MCThreads == {t1, t2}
MCRows == {r1, r2, r3}
MCGroups == {groupA}
MCBlobs == {b1, b2}
MCGroupOf == [r \in MCRows |-> groupA]
MCBlobsOf == r1 :> <<b1>> @@ r2 :> <<b1, b2>> @@ r3 :> <<b2>>
MCSize == [b \in MCBlobs |-> 1]
MCSymmetry == Permutations(MCThreads)

(* What the sink only writes - row objects, their numbers, the pointer -   *)
(* matters to the properties of calls that do not interleave; no guard and *)
(* no other property reads it, so interleaved states that differ in        *)
(* nothing else are one.                                                   *)
MCView ==
    <<interleaved, rows, blobs, blob_bytes, stored, dropped, blobObjects, at, accepted,
      IF interleaved
        THEN [t \in MCThreads |-> [job[t] EXCEPT !.seqs = <<>>]]
        ELSE <<job, bucket, raised, statusLost>>,
      IF interleaved THEN <<>> ELSE seq>>
=============================================================================
