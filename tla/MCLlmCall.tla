---- MODULE MCLlmCall ----
(* LlmCall with two attempts, with and without the escalation of the budget. *)
EXTENDS LlmCall
MCFactors == {1, 2}
====
