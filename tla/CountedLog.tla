----------------------------- MODULE CountedLog -----------------------------
(***************************************************************************)
(* What a buffering sink promises for its records, without the threads,    *)
(* the groups, the numbers and the objects that make it so.  A record that *)
(* was accepted is held until it is written or lost, each of which is      *)
(* final; the counter grows with every loss by exactly what was lost.      *)
(***************************************************************************)
EXTENDS Naturals, FiniteSets

CONSTANT Records

VARIABLES held,     \* accepted, and still in memory
          written,  \* reported to have been written
          lost,     \* given up
          counted   \* what the counter of losses shows
fate == <<held, written, lost, counted>>

Init == held = {} /\ written = {} /\ lost = {} /\ counted = 0

Accept(r) == /\ r \notin held \cup written \cup lost
             /\ held' = held \cup {r}
             /\ UNCHANGED <<written, lost, counted>>

Write(some) == /\ held' = held \ some
               /\ written' = written \cup some
               /\ UNCHANGED <<lost, counted>>

Lose(some) == /\ held' = held \ some
              /\ lost' = lost \cup some
              /\ counted' = counted + Cardinality(some)
              /\ UNCHANGED written

Next == \/ \E r \in Records : Accept(r)
        \/ \E some \in SUBSET held : Write(some) \/ Lose(some)
Spec == Init /\ [][Next]_fate
=============================================================================
