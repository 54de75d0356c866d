------------------------------- MODULE LlmCall -------------------------------
(***************************************************************************)
(* One LLMClient (llm.py) and the calls made on it, one after the other:   *)
(* complete, structured and complete_grounded, with the corrective         *)
(* retries, the one descent of the structured-output ladder, the one       *)
(* escalation of the token budget, the outbound scan, and what every call  *)
(* leaves behind: its usage, the record of its degradation, its cost and   *)
(* trace records.  The provider may answer any request in any way.         *)
(***************************************************************************)
EXTENDS Naturals, Sequences, FiniteSets

CONSTANTS Attempts,   \* attempts, of structured and complete_grounded
          Factors,    \* the budget_escalation_factors to check
          MaxCalls    \* bound: the calls made on the client

ASSUME AttemptsAssumption == Attempts \in Nat \ {0}
ASSUME FactorAssumption == Factors \subseteq Nat \ {0}

Transports == {"anthropic", "openai", "openrouter", "edge"}
Methods    == {"complete", "structured", "grounded"}
Verdicts   == {"none", "pass", "disabled", "block", "scan_error"}

(***************************************************************************)
(* LLMUsage, as far as calls differ in it: the answered requests it sums   *)
(* over, whether one of them came without a count, and its escalations.    *)
(***************************************************************************)
NewUsage == [attempts |-> 0, unknown |-> FALSE, escalations |-> 0]

VARIABLES spec,    \* the client's ModelSpec
          facts,   \* self.dropped_params and self._dlp_facts
          call,    \* the call under way: its local variables
          pc,      \* where it is
          out,     \* what the last call returned or raised
          emitted, \* the cost and the trace record of the last call
          hist,    \* history: what really happened to the call
          calls    \* the calls begun
vars == <<spec, facts, call, pc, out, emitted, hist, calls>>

NoFacts == [dropped |-> {}, dlp |-> "none"]

\* No result; a result, an LLMError with its usage, one without, or another exception.
NoOut  == [kind |-> "none", usage |-> NewUsage, rung |-> "none",
           dropped |-> {}, dlp |-> "none"]

\* The dispatches, the escalated one or the first, that sent a request, and that were let go.
NoHist == [asked |-> {}, cleared |-> {}, answered |-> 0, missing |-> FALSE,
           dropped |-> {}, dlp |-> "none"]

Anthropic == spec.transport = "anthropic"

(***************************************************************************)
(* _structured_anthropic, _structured_openai and complete_grounded begin:  *)
(* each dispatch has a usage, attempts and a rung of its own.              *)
(***************************************************************************)
FirstRung(m) == CASE m # "structured" -> "none"
                  [] m = "structured" /\ Anthropic -> "tool_emulation"
                  [] OTHER -> IF spec.native THEN "native" ELSE "prompt_only"

Dispatch(c, escalated, exhausted) ==
    [c EXCEPT !.escalated = escalated, !.exhausted = exhausted,
              !.attempt = 0, !.budget = IF c.method = "complete" THEN 1 ELSE Attempts,
              !.rung = FirstRung(c.method), !.descended = FALSE, !.usage = NewUsage]

Init ==
    /\ spec \in [transport : Transports, native : BOOLEAN, caching : BOOLEAN, factor : Factors]
    /\ facts = NoFacts /\ out = NoOut /\ hist = NoHist /\ calls = 0 /\ pc = "idle"
    /\ call = [method |-> "complete", stream |-> FALSE, escalated |-> FALSE,
               attempt |-> 0, budget |-> 1, rung |-> "none", descended |-> FALSE,
               usage |-> NewUsage, exhausted |-> NewUsage]
    /\ emitted = [cost |-> "none", trace |-> "none"]
-----------------------------------------------------------------------------
(***************************************************************************)
(* _finalize_result, on the way in and on the way out: no fact of one call *)
(* may ride along on the next.                                             *)
(***************************************************************************)

\* Mutant: only the drops are cleared.
ClearDrops(f) == [f EXCEPT !.dropped = {}]

Clear(f) == NoFacts

Begin(m, stream) ==
    /\ pc = "idle" /\ calls < MaxCalls
    /\ stream => m # "grounded"
    /\ pc' = "entered" /\ calls' = calls + 1
    /\ facts' = Clear(facts)
    /\ hist' = NoHist /\ out' = NoOut
    /\ emitted' = [cost |-> "none", trace |-> "none"]
    /\ call' = Dispatch([call EXCEPT !.method = m, !.stream = stream], FALSE, NewUsage)
    /\ UNCHANGED spec

(***************************************************************************)
(* The call ends, with a result or for an exception: "rejected" is an      *)
(* LLMError raised for the answers themselves, with the usage; "bare" is   *)
(* one raised with usage=None, by the scan or for a stream's time-out;     *)
(* "failed" is any other exception, which has no usage at all.             *)
(***************************************************************************)
End(kind, usage) ==
    /\ pc' = "ended"
    /\ out' = [NoOut EXCEPT !.kind = kind, !.usage = usage, !.rung = call.rung]
    /\ UNCHANGED <<spec, emitted, calls>>

Fail == End("failed", NewUsage) /\ UNCHANGED <<facts, call>>

\* exc.usage is None: structured has nothing to absorb the first dispatch's usage into.
Bare == End("bare", NewUsage)

\* Refused before any request: a capability, a budget, an argument or a credential.
Refuse == /\ pc \in {"entered", "scan", "send"} /\ hist.asked = {}
          /\ Fail /\ UNCHANGED hist

\* _emit_cache_breakpoints: structured does not record the drop.
Enter == /\ pc = "entered"
         /\ ~(call.method = "grounded" /\ spec.transport \notin {"anthropic", "openrouter"})
         /\ pc' = "scan"
         /\ IF call.method # "structured" /\ ~spec.caching
            THEN \E cacheSystem \in BOOLEAN :
                    LET lost == IF cacheSystem THEN {"cache_system"} ELSE {} IN
                    /\ facts' = [facts EXCEPT !.dropped = @ \cup lost]
                    /\ hist' = [hist EXCEPT !.dropped = @ \cup lost]
            ELSE UNCHANGED <<facts, hist>>
         /\ UNCHANGED <<spec, call, out, emitted, calls>>

(***************************************************************************)
(* _dlp_scan_request, of the first body of a dispatch only: the bodies of  *)
(* its further attempts and of its descent are not scanned.  A payload     *)
(* that cannot be serialised leaves no verdict, and is not sent either.    *)
(***************************************************************************)

Forwarded == {"pass", "disabled"}

Scan == /\ pc = "scan"
        /\ \E v \in Verdicts :
              /\ facts' = IF v = "none" THEN facts ELSE [facts EXCEPT !.dlp = v]
              /\ hist' = [hist EXCEPT !.dlp = IF v = "none" THEN @ ELSE v,
                                      !.cleared = IF v \in Forwarded THEN @ \cup {call.escalated}
                                                  ELSE @]
              /\ IF v \in Forwarded
                 THEN pc' = "send" /\ UNCHANGED <<spec, call, out, emitted, calls>>
                 ELSE Bare /\ UNCHANGED call
-----------------------------------------------------------------------------
(***************************************************************************)
(* The answers.  A response is counted as soon as it has been decoded, and *)
(* a streamed one without its usage makes the sum unknown.                 *)
(***************************************************************************)
Counted(reported) ==
    [call.usage EXCEPT !.attempts = @ + 1, !.unknown = @ \/ ~reported]

Sent == hist' = [hist EXCEPT !.asked = @ \cup {call.escalated}]

Answered(reported) ==
    hist' = [hist EXCEPT !.asked = @ \cup {call.escalated},
                         !.answered = @ + 1, !.missing = @ \/ ~reported]

\* Only a stream can end without its usage.
Reports == IF call.stream THEN BOOLEAN ELSE {TRUE}

\* Mutant: the sum of the first dispatch replaces that of the second.
AbsorbOver(usage, other) == [other EXCEPT !.escalations = usage.escalations + other.escalations]

\* _absorb_usage
Absorb(usage, other) ==
    [attempts |-> usage.attempts + other.attempts,
     unknown |-> usage.unknown \/ other.unknown,
     escalations |-> usage.escalations + other.escalations]

\* An LLMError with the usage of its dispatch: the escalated one absorbs the first's.
Reject(usage) ==
    /\ End("rejected", IF call.escalated THEN Absorb(usage, call.exhausted) ELSE usage)
    /\ UNCHANGED <<facts, call>>

Return(usage) ==
    /\ End("result",
           IF call.escalated
           THEN Absorb([usage EXCEPT !.escalations = @ + 1], call.exhausted) ELSE usage)
    /\ UNCHANGED <<facts, call>>

\* The next attempt, with the error fed back or after a back-off, or the end of them.
Retry(usage) ==
    IF call.attempt + 1 < call.budget
    THEN /\ call' = [call EXCEPT !.attempt = @ + 1, !.usage = usage]
         /\ UNCHANGED <<spec, facts, pc, out, emitted, calls>>
    ELSE Reject(usage)

Loops == call.method # "complete" /\ ~(call.method = "grounded" /\ Anthropic)

\* Every exception of the transport, a permanent refusal included.
Down == pc = "send" /\ Sent /\ Fail

\* StreamIdleTimeoutError and StreamTotalTimeoutError: LLMErrors, raised without usage=.
StreamTimesOut == /\ pc = "send" /\ call.stream
                  /\ Sent
                  /\ Bare /\ UNCHANGED <<facts, call>>

\* json.JSONDecodeError out of the SDK: retried by the loops of the openai wire.
Garbled == /\ pc = "send" /\ ~Anthropic
           /\ Sent
           /\ IF Loops THEN Retry(call.usage) ELSE Fail

\* NullChoicesError: decoded, and counted.  A stream is assembled into a choice.
NullChoices == /\ pc = "send" /\ ~Anthropic /\ ~call.stream
               /\ Answered(TRUE)
               /\ IF Loops THEN Retry(Counted(TRUE)) ELSE Reject(Counted(TRUE))

\* Mutant: the descent is not recorded.
DescendQuietly(f) == f

\* self.dropped_params.append("response_format")
RecordDescent(f) == [f EXCEPT !.dropped = @ \cup {"response_format"}]

\* The rungs that an endpoint may refuse, and the rung below each.
Below == [native |-> "prompt_only"]

\* The endpoint refuses response_format: one rung down, once, at no attempt's cost.
Refused == /\ pc = "send" /\ call.rung \in DOMAIN Below /\ ~call.descended
           /\ hist' = [hist EXCEPT !.asked = @ \cup {call.escalated},
                                   !.dropped = @ \cup {"response_format"}]
           /\ call' = [call EXCEPT !.descended = TRUE, !.rung = Below[@],
                                   !.budget = @ + 1, !.attempt = @ + 1]
           /\ facts' = RecordDescent(facts)
           /\ UNCHANGED <<spec, pc, out, emitted, calls>>

\* _escalated_budget, and the one re-issue
Escalates == ~call.escalated /\ spec.factor > 1

\* The budget went before any content did: once per call, a larger one is tried.
Exhausted == /\ pc = "send" /\ call.method = "structured"
             /\ \E r \in Reports :
                   /\ Answered(r)
                   /\ IF Escalates
                      THEN /\ call' = Dispatch(call, TRUE, Counted(r))
                           /\ pc' = "scan"
                           /\ UNCHANGED <<spec, facts, out, emitted, calls>>
                      ELSE Reject(Counted(r))

\* _resolve_group_served_model finds no member to bill.
Unresolved == /\ pc = "send" /\ spec.transport = "edge"
              /\ \E r \in Reports : Answered(r)
              /\ Fail

\* The object does not parse, or fails the schema or the caller's validation.
Invalid == /\ pc = "send" /\ call.method = "structured"
           /\ \E r \in Reports : Answered(r) /\ Retry(Counted(r))

\* A leaked control token or an unresolved tool call; anthropic's own search has neither.
Ungrounded == /\ pc = "send" /\ call.method = "grounded" /\ ~Anthropic
              /\ Answered(TRUE) /\ Retry(Counted(TRUE))

\* _stamp_response_facts: a stream without its usage, seen on the response itself.
Stamped(usage, reported) == [usage EXCEPT !.unknown = @ \/ ~reported]

Complete == /\ pc = "send" /\ call.method = "complete"
            /\ \E r \in Reports : Answered(r) /\ Return(Stamped(Counted(TRUE), r))

Structured == /\ pc = "send" /\ call.method = "structured"
              /\ \E r \in Reports : Answered(r) /\ Return(Stamped(Counted(r), r))

Grounded == /\ pc = "send" /\ call.method = "grounded"
            /\ Answered(TRUE) /\ Return(Counted(TRUE))

Answer == \/ Down \/ StreamTimesOut \/ Garbled \/ NullChoices \/ Refused \/ Exhausted \/ Unresolved
          \/ Invalid \/ Ungrounded \/ Complete \/ Structured \/ Grounded

(***************************************************************************)
(* The way out: the facts are taken off the client and put on the result,  *)
(* or on the trace of the failed call.  The sinks may raise; the caller    *)
(* gets its result, or its own exception, all the same.                    *)
(***************************************************************************)
EmitCost(kind) == IF kind = "result" THEN {"none", "sink", "error"} ELSE {"none"}
EmitTrace == {"none", "row", "error"}

Finalize ==
    /\ pc = "ended" /\ pc' = "idle"
    /\ out' = [out EXCEPT !.dropped = facts.dropped, !.dlp = facts.dlp]
    /\ facts' = Clear(facts)
    /\ \E cost \in EmitCost(out.kind), trace \in EmitTrace :
          emitted' = [cost |-> cost, trace |-> trace]
    /\ UNCHANGED <<spec, call, hist, calls>>

Done == pc = "idle" /\ calls = MaxCalls /\ UNCHANGED vars

Next == \/ \E m \in Methods, s \in BOOLEAN : Begin(m, s)
        \/ Refuse \/ Enter \/ Scan \/ Answer \/ Finalize \/ Done

Spec == Init /\ [][Next]_vars /\ WF_vars(Refuse \/ Enter \/ Scan \/ Answer \/ Finalize)
-----------------------------------------------------------------------------
Over == pc = "idle" /\ out.kind # "none"

(***************************************************************************)
(* A usage that is reported is all that was spent: it counts every answer  *)
(* of every attempt, those of the dispatch its escalation abandoned        *)
(* included, and is unknown as soon as one of them came without its count  *)
(* -- on a result, and on an LLMError that carries a usage.  LLMError's    *)
(* own comment (llm.py 567-573) promises one on each: the two time-outs of *)
(* a stream and the refusals of the scan are raised without, whatever was  *)
(* billed before them, and are excepted ("bare"); an exception that is no  *)
(* LLMError has nowhere to put one ("failed").                             *)
(***************************************************************************)
SpendIsWhole ==
    Over /\ out.kind \in {"result", "rejected"} =>
        /\ out.usage.attempts = hist.answered
        /\ out.usage.unknown = hist.missing

(***************************************************************************)
(* The degradation and the verdict stamped on a call, returned or raised,  *)
(* are its own, whatever the calls before it on the same client dropped    *)
(* and however they ended.  No dispatch, the escalated one included, sends *)
(* a request before its own first body was scanned and let go, and the     *)
(* verdict a result carries is that of such a scan.  It need not be the    *)
(* verdict on the body that was answered, as llm.py 1962-1966 has it: the  *)
(* later attempts of a dispatch, with the error fed back or one rung down, *)
(* are sent without a scan of their own.                                   *)
(***************************************************************************)
FactsAreOwn ==
    Over => /\ out.dropped = hist.dropped /\ out.dlp = hist.dlp
            /\ hist.asked \subseteq hist.cleared
            /\ out.kind = "result" => out.dlp \in Forwarded

(***************************************************************************)
(* An answer given without the strict schema, by a route that declares it, *)
(* says so.                                                                *)
(***************************************************************************)
DegradationIsRecorded ==
    Over /\ out.kind = "result" /\ spec.native /\ out.rung = "prompt_only"
        => "response_format" \in out.dropped
=============================================================================

