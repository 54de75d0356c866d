---------------------------- MODULE BoundedStream ----------------------------
(***************************************************************************)
(* What a streamed call promises its caller, without the thread, the queue *)
(* and the deadlines that make it so: the caller is given the provider's   *)
(* chunks in order, and the call ends in one of four ways, each of which   *)
(* says something true of the provider:                                    *)
(*    returned   everything it sent was given, and it ended the stream;    *)
(*    error      everything it sent was given, and the transport failed;   *)
(*    idle       everything it sent was given, it has not ended, and has   *)
(*               been silent for Idle;                                     *)
(*    total      the stream is Total old.                                  *)
(* An open call is never older than its total budget and Grace, and a call *)
(* is known to have the provider's own count of its tokens only when the   *)
(* last chunk it sent completed that count.                                *)
(***************************************************************************)
EXTENDS Naturals, Sequences

CONSTANTS Chunks,   \* what a provider sends
          Idle,     \* the silence allowed between two chunks
          Totals,   \* the total budgets, NoTotal among them
          Grace     \* by how much a call may outlive its total budget
NoTotal == 0

VARIABLES made,     \* the chunks the provider has sent
          source,   \* "open", "ended" or "failed"
          quiet,    \* the time since it last sent anything, up to Idle
          age,      \* the time since the call began, up to Old
          total,    \* the total budget of the call
          counted,  \* the last chunk sent completes the provider's count
          given,    \* the chunks the caller was given
          outcome,  \* "open", or how the call ended
          known     \* the call says that it has the provider's count
vars == <<made, source, quiet, age, total, counted, given, outcome, known>>

\* Beyond it, the age of a call tells nothing apart.
Old == IF total = NoTotal THEN 0 ELSE total + Grace + 1

Init == /\ made = <<>> /\ given = <<>>
        /\ source = "open" /\ outcome = "open"
        /\ quiet = 0 /\ age = 0
        /\ total \in Totals /\ counted = FALSE /\ known = FALSE

Send == /\ source = "open"
        /\ \E c \in Chunks : made' = Append(made, c)
        /\ quiet' = 0 /\ counted' \in BOOLEAN
        /\ UNCHANGED <<source, age, total, given, outcome, known>>

Stop == /\ source = "open"
        /\ source' \in {"ended", "failed"}
        /\ UNCHANGED <<made, quiet, age, total, counted, given, outcome, known>>

Pass == /\ outcome = "open" /\ total # NoTotal => age < total + Grace
        /\ quiet' = IF quiet < Idle THEN quiet + 1 ELSE quiet
        /\ age' = IF age < Old THEN age + 1 ELSE age
        /\ UNCHANGED <<made, source, total, counted, given, outcome, known>>

Give == /\ outcome = "open"
        /\ Len(given) < Len(made)
        /\ given' = Append(given, made[Len(given) + 1])
        /\ UNCHANGED <<made, source, quiet, age, total, counted, outcome, known>>

\* A call that ends by itself, or that the idle budget ends, has given everything.
Finish == /\ outcome = "open" /\ given = made
          /\ \/ source = "ended"  /\ outcome' = "returned" /\ known' \in {FALSE, counted}
             \/ source = "failed" /\ outcome' = "error" /\ UNCHANGED known
             \/ source = "open" /\ quiet >= Idle /\ outcome' = "idle" /\ UNCHANGED known
          /\ UNCHANGED <<made, source, quiet, age, total, counted, given>>

Exceed == /\ outcome = "open"
          /\ total # NoTotal /\ age >= total
          /\ outcome' = "total"
          /\ UNCHANGED <<made, source, quiet, age, total, counted, given, known>>

Next == Send \/ Stop \/ Pass \/ Give \/ Finish \/ Exceed
Spec == Init /\ [][Next]_vars
=============================================================================
