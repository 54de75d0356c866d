---- MODULE MCIdleStream ----
(* IdleStream with a silence of 2, and a total budget of 4 or none. *)
EXTENDS IdleStream
MCTotals == {NoTotal, 4}
MCTransports == {"openai", "anthropic"}
====
