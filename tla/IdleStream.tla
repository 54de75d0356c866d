------------------------------ MODULE IdleStream ------------------------------
(***************************************************************************)
(* A streamed completion (llm.py): a daemon thread pumps the provider's    *)
(* blocking iterator into an unbounded queue, and the caller's thread      *)
(* waits on the queue under two budgets, one for the silence between two   *)
(* chunks and one for the whole stream.  The two threads, the clock and    *)
(* the provider move on their own; the caller's thread may be late by up   *)
(* to Lag whenever it has something to do.                                 *)
(***************************************************************************)
EXTENDS Integers, Sequences, SequencesExt

CONSTANTS Idle,       \* _effective_idle_timeout
          Totals,     \* the total budgets to check, NoTotal for None
          Transports, \* "openai", "anthropic"
          Lag,        \* bound: how late the caller's thread may run
          MaxItems    \* bound: the chunks a provider sends

NoTotal == 0

\* _effective_idle_timeout, _effective_total_timeout: what they refuse
IdleAccepted(idle) == idle \in Nat \ {0}
TotalAccepted(t, idle) == t = NoTotal \/ (t \in Nat /\ t > idle)

ASSUME BudgetAssumption == IdleAccepted(Idle) /\ \A t \in Totals : TotalAccepted(t, Idle)
ASSUME BoundsAssumption == Lag \in Nat /\ MaxItems \in Nat

(***************************************************************************)
(* A chunk is known by what it carries: "start" opens an anthropic message *)
(* with its input usage, "piece" is text, "finish" has the finish reason   *)
(* (and, on anthropic, the output tokens), "usage" is openai's usage       *)
(* block.  A provider sends them in this order, some of them or none.      *)
(***************************************************************************)
Order  == <<"start", "piece", "finish", "usage">>
Chunks == Range(Order)
InOrder(c, d) == \E i, j \in 1..4 : /\ Order[i] = c /\ Order[j] = d
                                   /\ (i < j \/ (i = j /\ c = "piece"))

Item(c) == [kind |-> "item", payload |-> c]
Error   == [kind |-> "error", payload |-> "exc"]
Done    == [kind |-> "done", payload |-> "none"]

Outcomes == {"returned", "error", "idle", "total"}

VARIABLES elapsed,    \* time.monotonic() - started, up to Cap
          silence,    \* history: the time since the last chunk, up to Idle
          transport,  \* the accumulator: of openai or of anthropic
          total,      \* total_timeout
          pump,       \* the daemon: "reading", "finally", "gone"
          queue,      \* q
          sent,       \* history: the chunks pumped
          broke,      \* history: the iterator raised
          caller,     \* "check", "waiting", or one of Outcomes
          wait,       \* what the q.get under way has left
          late,       \* for how long the caller's thread has been runnable
          got,        \* the chunks the accumulator has seen
          closed      \* "no", "closed", or "raised": _close_stream
vars == <<elapsed, silence, transport, total, pump, queue, sent, broke,
          caller, wait, late, got, closed>>
callVars   == <<transport, total>>
pumpVars   == <<pump, queue, sent, broke>>
callerVars == <<caller, wait, late, got, closed>>

\* Beyond it, the age of the stream tells nothing apart.
Cap == IF total = NoTotal THEN 0 ELSE total + 2 * Lag + 1

Init ==
    /\ elapsed = 0 /\ silence = 0 /\ wait = 0 /\ late = 0
    /\ transport \in Transports /\ total \in Totals
    /\ pump = "reading" /\ queue = <<>> /\ sent = <<>> /\ broke = FALSE
    /\ caller = "check" /\ got = <<>> /\ closed = "no"
-----------------------------------------------------------------------------
(***************************************************************************)
(* The daemon thread: _pump.                                               *)
(***************************************************************************)
Put(c) ==
    /\ pump = "reading" /\ closed # "closed"
    /\ Len(sent) < MaxItems
    /\ sent # <<>> => InOrder(Last(sent), c)
    /\ queue' = Append(queue, Item(c))
    /\ sent' = Append(sent, c)
    /\ silence' = 0
    /\ UNCHANGED <<pump, broke, callerVars, elapsed, callVars>>

\* The iterator is exhausted.
Exhausted ==
    /\ pump = "reading" /\ closed # "closed"
    /\ pump' = "finally"
    /\ UNCHANGED <<queue, sent, broke, callerVars, elapsed, silence, callVars>>

\* The read raises: by itself, or because the caller has closed the stream.
ReadFails ==
    /\ pump = "reading"
    /\ pump' = "finally"
    /\ queue' = Append(queue, Error)
    /\ broke' = TRUE
    /\ UNCHANGED <<sent, callerVars, elapsed, silence, callVars>>

PutDone ==
    /\ pump = "finally"
    /\ pump' = "gone"
    /\ queue' = Append(queue, Done)
    /\ UNCHANGED <<sent, broke, callerVars, elapsed, silence, callVars>>
-----------------------------------------------------------------------------
(***************************************************************************)
(* The caller's thread: _iter_with_idle_timeout, and the accumulator       *)
(* around it.                                                              *)
(***************************************************************************)
Live == caller \notin Outcomes

\* Mutant: the abandoned stream is not closed.
AbortOnly(outcome) ==
    /\ caller' = outcome
    /\ UNCHANGED <<wait, got, closed>>

\* _close_stream: an error of close() is swallowed.
CloseStream == closed' \in {"closed", "raised"}

\* The accumulator ends the call, with what it has got so far.
Abort(outcome) ==
    /\ caller' = outcome
    /\ CloseStream
    /\ UNCHANGED <<wait, got>>

WaitFor == IF total = NoTotal THEN Idle ELSE Min({Idle, total - elapsed})

CheckTotal ==
    /\ caller = "check"
    /\ IF total # NoTotal /\ elapsed >= total
       THEN Abort("total")
       ELSE /\ caller' = "waiting"
            /\ wait' = WaitFor
            /\ UNCHANGED <<got, closed>>

\* q.get: what is in the queue comes before the time-out.
TakeItem ==
    /\ caller = "waiting" /\ queue # <<>>
    /\ CASE Head(queue).kind = "item" ->
                /\ caller' = "check"
                /\ got' = Append(got, Head(queue).payload)
         [] Head(queue).kind = "error" -> caller' = "error" /\ UNCHANGED got
         [] Head(queue).kind = "done" -> caller' = "returned" /\ UNCHANGED got
    /\ UNCHANGED <<wait, closed>>

\* Mutant: the time-out wins over an item that has just arrived.
TimedOutFirst == caller = "waiting" /\ wait = 0

TimedOut == caller = "waiting" /\ queue = <<>> /\ wait = 0

\* Mutant: only the total budget ends a wait.
EmptyWaitsOn ==
    /\ TimedOut
    /\ IF total # NoTotal /\ elapsed >= total
       THEN Abort("total")
       ELSE caller' = "check" /\ UNCHANGED <<wait, got, closed>>

Empty ==
    /\ TimedOut
    /\ Abort(IF total # NoTotal /\ elapsed >= total THEN "total" ELSE "idle")

Caller ==
    /\ CheckTotal \/ TakeItem \/ Empty
    /\ late' = 0
    /\ queue' = IF caller = "waiting" /\ queue # <<>> THEN Tail(queue) ELSE queue
    /\ UNCHANGED <<pump, sent, broke, elapsed, silence, callVars>>

Runnable == caller = "check" \/ (caller = "waiting" /\ queue # <<>>) \/ TimedOut

Tick ==
    /\ elapsed' = Min({elapsed + 1, Cap})
    /\ silence' = Min({silence + 1, Idle})
    /\ wait' = Max({wait - 1, 0})
    /\ IF Runnable THEN late < Lag /\ late' = late + 1 ELSE UNCHANGED late
    /\ UNCHANGED <<pumpVars, caller, got, closed, callVars>>

Finished == ~Live /\ pump = "gone" /\ UNCHANGED vars

Next == \/ \E c \in Chunks : Put(c)
        \/ Exhausted \/ ReadFails \/ PutDone
        \/ Caller \/ Tick \/ Finished

(***************************************************************************)
(* Both threads are scheduled and time passes.  Nothing is assumed of the  *)
(* provider, but that a read on a stream that was closed fails.            *)
(***************************************************************************)
Fairness == /\ WF_vars(Caller) /\ WF_vars(PutDone) /\ WF_vars(Tick)
            /\ WF_vars(closed = "closed" /\ ReadFails)
Spec == Init /\ [][Next]_vars /\ Fairness
-----------------------------------------------------------------------------
(***************************************************************************)
(* What the accumulator makes of a stream that returned.                   *)
(***************************************************************************)
OpenaiReported == "usage" \in Range(got)

AnthropicReported == {"start", "finish"} \subseteq Range(got)

UsageReported == IF transport = "openai" THEN OpenaiReported ELSE AnthropicReported

\* History: the provider's count covers all it sent.
CountIsFinal == /\ sent # <<>>
                /\ IF transport = "openai"
                   THEN Last(sent) = "usage"
                   ELSE "start" \in Range(sent) /\ Last(sent) \in {"finish", "usage"}

(***************************************************************************)
(* _iter_with_idle_timeout and its accumulators implement the contract of  *)
(* BoundedStream: the chunks in order, and an ending that is true of the   *)
(* provider -- a call is never ended for a silence that was not one, or    *)
(* with chunks left in the queue.  However steadily chunks arrive, it does *)
(* not outlive its total budget by more than the two turns the caller's    *)
(* thread may be late for, one to take the last chunk and one to find the  *)
(* budget spent; and a stream that was cut off is never taken for one      *)
(* whose spend is known (usage_reported).                                  *)
(***************************************************************************)
BS == INSTANCE BoundedStream WITH
    Grace   <- 2 * Lag,
    made    <- sent,
    \* the stream has ended, or failed, when the daemon says so
    source  <- IF broke THEN "failed" ELSE IF pump = "gone" THEN "ended" ELSE "open",
    quiet   <- silence,
    age     <- elapsed,
    counted <- CountIsFinal,
    given   <- got,
    outcome <- IF Live THEN "open" ELSE caller,
    known   <- caller = "returned" /\ UsageReported
Contract == BS!Spec

(***************************************************************************)
(* A call with a total budget ends, however long the provider goes on      *)
(* sending.  One without is "unbounded, deliberately": it ends if the      *)
(* provider at some time sends no more, be it that the stream ends, fails  *)
(* or hangs.                                                               *)
(***************************************************************************)
FallsSilent == <>[][UNCHANGED sent]_sent
StreamEnds == total # NoTotal \/ FallsSilent => <>(~Live)

(***************************************************************************)
(* The daemon does not stay behind: once the call has ended, and unless    *)
(* close() itself raised, its thread ends, though nobody joins it.         *)
(***************************************************************************)
ThreadGoes == (~Live /\ closed # "raised") ~> (pump = "gone")
=============================================================================
