----------------------------- MODULE MCCostSink -----------------------------
(* Two threads, one group of three records and one of a single record.     *)
EXTENDS CostSink, TLC

CONSTANTS t1, t2, r1, r2, r3, r4, groupA, groupB

MCThreads == {t1, t2}
MCRecords == {r1, r2, r3, r4}
MCGroups == {groupA, groupB}
MCGroupOf == [r \in MCRecords |-> IF r = r4 THEN groupB ELSE groupA]

(* The threads are interchangeable, and so are the records of a group.     *)
MCSymmetry == Permutations(MCThreads) \cup Permutations({r1, r2, r3})
=============================================================================
