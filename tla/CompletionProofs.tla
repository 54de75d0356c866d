-------------------------- MODULE CompletionProofs --------------------------
(***************************************************************************)
(* What a completion guarantees: the call of the LLM client (LlmCall), for *)
(* any number of attempts, escalation factors and calls, and the sink that *)
(* keeps its trace (TraceSink), for any number of threads, rows and blobs. *)
(*                                                                         *)
(* The call's invariant says what the facts on the client, the usage of    *)
(* the dispatch and its rung are worth while a call is under way, and what *)
(* the call has kept of them once it has ended.  The sink's says what each *)
(* thread holds at each step of a flush, where the blobs of a row are as   *)
(* long as calls do not overlap, and when the status pointer may lag.      *)
(***************************************************************************)
EXTENDS LlmCall, TraceSink, TLAPS, WellFoundedInduction, FiniteSetTheorems, SequenceTheorems

-----------------------------------------------------------------------------
(* The call.                                                               *)

Usage == [attempts : Nat, unknown : BOOLEAN, escalations : Nat]
Drops == {"cache_system", "response_format"}
Facts == [dropped : SUBSET Drops, dlp : Verdicts]
Rungs == {"none", "tool_emulation", "native", "prompt_only"}
Calls == [method : Methods, stream : BOOLEAN, escalated : BOOLEAN, attempt : Nat, budget : Nat,
          rung : Rungs, descended : BOOLEAN, usage : Usage, exhausted : Usage]
Outs == [kind : {"none", "failed", "bare", "rejected", "result"}, usage : Usage, rung : Rungs,
         dropped : SUBSET Drops, dlp : Verdicts]
Hists == [asked : SUBSET BOOLEAN, cleared : SUBSET BOOLEAN, answered : Nat, missing : BOOLEAN,
          dropped : SUBSET Drops, dlp : Verdicts]
Active == {"entered", "scan", "send"}

TypeOK ==
    /\ spec \in [transport : Transports, native : BOOLEAN, caching : BOOLEAN, factor : Factors]
    /\ facts \in Facts /\ call \in Calls /\ out \in Outs /\ hist \in Hists
    /\ pc \in Active \cup {"idle", "ended"}

(* The facts that wait on the client are those of the call under way.      *)
FactsMatch == pc # "idle" => facts.dropped = hist.dropped /\ facts.dlp = hist.dlp

(* No dispatch sends, nor returns, what the scan did not let go.           *)
ScannedFirst ==
    /\ hist.asked \subseteq hist.cleared
    /\ pc = "send" => hist.dlp \in Forwarded /\ call.escalated \in hist.cleared
    /\ pc \in {"ended", "idle"} /\ out.kind = "result" => hist.dlp \in Forwarded

(* The usage of the dispatch, with that of the one its escalation left, is *)
(* what the call has been answered.                                        *)
UsageMatches ==
    pc \in Active =>
        /\ hist.answered = call.usage.attempts + (IF call.escalated THEN call.exhausted.attempts ELSE 0)
        /\ hist.missing = (call.usage.unknown \/ (call.escalated /\ call.exhausted.unknown))

SpendIsKept ==
    pc \in {"ended", "idle"} /\ out.kind \in {"rejected", "result"} =>
        /\ out.usage.attempts = hist.answered
        /\ out.usage.unknown = hist.missing

(* A native route is left for the prompt only by the recorded descent.     *)
DescentIsNoted ==
    /\ pc \in Active /\ spec.native /\ call.rung = "prompt_only" => "response_format" \in hist.dropped
    /\ pc \in {"ended", "idle"} /\ out.kind = "result" /\ spec.native /\ out.rung = "prompt_only"
         => "response_format" \in hist.dropped

IInv ==
    /\ TypeOK
    /\ FactsMatch
    /\ ScannedFirst
    /\ UsageMatches
    /\ SpendIsKept
    /\ DescentIsNoted
    /\ FactsAreOwn

-----------------------------------------------------------------------------
(* A dispatch begins with a usage of nothing, on a first rung.             *)
LEMMA DispatchFacts ==
    ASSUME TypeOK, NEW c \in Calls, NEW escalated \in BOOLEAN, NEW exhausted \in Usage
    PROVE  /\ Dispatch(c, escalated, exhausted) \in Calls
           /\ Dispatch(c, escalated, exhausted).usage.attempts = 0
           /\ ~Dispatch(c, escalated, exhausted).usage.unknown
           /\ Dispatch(c, escalated, exhausted).escalated = escalated
           /\ Dispatch(c, escalated, exhausted).exhausted = exhausted
           /\ spec.native => Dispatch(c, escalated, exhausted).rung # "prompt_only"
<1>1. FirstRung(c.method) \in Rungs /\ (spec.native => FirstRung(c.method) # "prompt_only")
  BY DEF TypeOK, Calls, Methods, FirstRung, Rungs
<1>2. NewUsage \in Usage /\ NewUsage.attempts = 0 /\ ~NewUsage.unknown
  BY DEF NewUsage, Usage
<1> QED
  BY <1>1, <1>2, AttemptsAssumption DEF Dispatch, Calls

(* An answer adds one to the usage, and makes it unknown when it came      *)
(* without its count.                                                      *)
LEMMA CountedFacts ==
    ASSUME TypeOK, NEW r \in BOOLEAN
    PROVE  /\ Counted(r) \in Usage
           /\ Counted(r).attempts = call.usage.attempts + 1
           /\ Counted(r).unknown = (call.usage.unknown \/ ~r)
<1>1. call.usage \in Usage
  BY DEF TypeOK, Calls
<1>2. call.usage.attempts + 1 \in Nat
  BY <1>1 DEF Usage
<1> QED
  BY <1>1, <1>2, Zenon DEF Usage, Counted

(* The stamp of a result adds nothing to the count of its answers.         *)
LEMMA StampedFacts ==
    ASSUME TypeOK, NEW r \in BOOLEAN, NEW s \in BOOLEAN
    PROVE  /\ Stamped(Counted(s), r) \in Usage
           /\ Stamped(Counted(s), r).attempts = call.usage.attempts + 1
           /\ Stamped(Counted(s), r).unknown = (call.usage.unknown \/ ~s \/ ~r)
  BY CountedFacts DEF Stamped, Usage

(* What a call that was escalated adds up.                                 *)
LEMMA AbsorbFacts ==
    ASSUME NEW u \in Usage, NEW v \in Usage
    PROVE  /\ Absorb(u, v) \in Usage
           /\ Absorb(u, v).attempts = u.attempts + v.attempts
           /\ Absorb(u, v).unknown = (u.unknown \/ v.unknown)
  BY DEF Absorb, Usage

(* What a dispatch with the usage u makes of the call, its escalation in.  *)
Total(u) == IF call.escalated THEN Absorb(u, call.exhausted) ELSE u

LEMMA TotalFacts ==
    ASSUME call \in Calls, NEW u \in Usage
    PROVE  /\ Total(u) \in Usage
           /\ Total(u).attempts = u.attempts + (IF call.escalated THEN call.exhausted.attempts ELSE 0)
           /\ Total(u).unknown = (u.unknown \/ (call.escalated /\ call.exhausted.unknown))
<1>1. call.exhausted \in Usage /\ u.attempts \in Nat /\ u.unknown \in BOOLEAN
  BY DEF Calls, Usage
<1>2. CASE call.escalated
  BY <1>1, <1>2, AbsorbFacts DEF Total
<1>3. CASE ~call.escalated
  <2>1. Total(u) = u /\ u.attempts + 0 = u.attempts
    BY <1>1, <1>3 DEF Total
  <2> QED
    BY <1>1, <1>3, <2>1, Zenon
<1> QED
  BY <1>2, <1>3

(* A further attempt of a dispatch, and its one descent.                   *)
LEMMA AttemptFacts ==
    ASSUME call \in Calls, NEW usage \in Usage,
           call' = [call EXCEPT !.attempt = @ + 1, !.usage = usage]
    PROVE  /\ call' \in Calls /\ call'.usage = usage /\ call'.rung = call.rung
           /\ call'.escalated = call.escalated /\ call'.exhausted = call.exhausted
<1>1. call.attempt + 1 \in Nat
  BY DEF Calls
<1> QED
  BY <1>1, Zenon DEF Calls

LEMMA DescentFacts ==
    ASSUME call \in Calls, NEW rung \in Rungs,
           call' = [call EXCEPT !.descended = TRUE, !.rung = rung,
                                !.budget = @ + 1, !.attempt = @ + 1]
    PROVE  /\ call' \in Calls /\ call'.usage = call.usage
           /\ call'.escalated = call.escalated /\ call'.exhausted = call.exhausted
<1>1. call.attempt + 1 \in Nat /\ call.budget + 1 \in Nat
  BY DEF Calls
<1> QED
  BY <1>1, Zenon DEF Calls

-----------------------------------------------------------------------------
LEMMA InitIInv == Init => IInv
<1> SUFFICES ASSUME Init PROVE IInv
  OBVIOUS
<1> USE DEF Init
<1>1. NewUsage \in Usage /\ NoFacts \in Facts /\ NoOut \in Outs /\ NoHist \in Hists
  BY DEF NewUsage, NoFacts, NoOut, NoHist, Usage, Facts, Outs, Hists, Verdicts, Rungs
<1>2. call \in Calls
  BY <1>1 DEF Calls, Methods, Rungs
<1>3. TypeOK
  BY <1>1, <1>2 DEF TypeOK
<1>4. out.kind = "none"
  BY DEF NoOut
<1> QED
  BY <1>3, <1>4 DEF IInv, FactsMatch, ScannedFirst, UsageMatches, SpendIsKept, DescentIsNoted, FactsAreOwn, Over,
                    Active, NoHist

-----------------------------------------------------------------------------
(***************************************************************************)
(* How a call ends: with the kind, and with a usage that is all its spend. *)
(***************************************************************************)
LEMMA EndPreserves ==
    ASSUME IInv, pc \in Active, NEW kind \in {"failed", "bare", "rejected", "result"}, NEW usage \in Usage,
           End(kind, usage), call' = call, facts' \in Facts, hist' \in Hists,
           facts'.dropped = hist'.dropped, facts'.dlp = hist'.dlp,
           hist.dropped \subseteq hist'.dropped,
           hist'.asked \subseteq hist'.cleared,
           kind = "result" => hist'.dlp \in Forwarded,
           kind \in {"rejected", "result"} => usage.attempts = hist'.answered,
           kind \in {"rejected", "result"} => usage.unknown = hist'.missing
    PROVE  IInv'
<1> USE DEF IInv, End
<1>1. /\ out' \in Outs /\ out'.kind = kind /\ out'.usage = usage /\ out'.rung = call.rung
  BY DEF TypeOK, NoOut, NewUsage, Outs, Calls, Usage, Verdicts
<1>2. TypeOK'
  BY <1>1 DEF TypeOK
<1>3. FactsMatch'
  BY DEF FactsMatch
<1>4. ScannedFirst'
  BY <1>1 DEF ScannedFirst
<1>5. UsageMatches'
  BY DEF UsageMatches, Active
<1>6. SpendIsKept'
  BY <1>1 DEF SpendIsKept
<1>7. DescentIsNoted'
  BY <1>1 DEF DescentIsNoted, Active
<1>8. FactsAreOwn'
  BY DEF FactsAreOwn, Over
<1> QED
  BY <1>2, <1>3, <1>4, <1>5, <1>6, <1>7, <1>8

(* A call that goes on in the same dispatch, with a usage that is still    *)
(* that of its answers.                                                    *)
LEMMA RetryPreserves ==
    ASSUME IInv, pc = "send", NEW usage \in Usage, Retry(usage), hist' \in Hists,
           hist'.dropped = hist.dropped, hist'.dlp = hist.dlp,
           hist'.cleared = hist.cleared, hist'.asked \subseteq hist'.cleared,
           hist'.answered = usage.attempts + (IF call.escalated THEN call.exhausted.attempts ELSE 0),
           hist'.missing = (usage.unknown \/ (call.escalated /\ call.exhausted.unknown))
    PROVE  IInv'
<1> USE DEF IInv
<1>1. CASE call.attempt + 1 < call.budget
  <2>1. /\ call' = [call EXCEPT !.attempt = @ + 1, !.usage = usage]
        /\ UNCHANGED <<spec, facts, pc, out, emitted, calls>>
    BY <1>1 DEF Retry
  <2>2. /\ call' \in Calls /\ call'.usage = usage /\ call'.rung = call.rung
        /\ call'.escalated = call.escalated /\ call'.exhausted = call.exhausted
    <3>1. call \in Calls
      BY DEF TypeOK
    <3> QED
      BY <2>1, <3>1, AttemptFacts
  <2>3. TypeOK'
    BY <2>1, <2>2 DEF TypeOK
  <2>4. FactsMatch' /\ ScannedFirst'
    BY <2>1 DEF FactsMatch, ScannedFirst
  <2>5. UsageMatches'
    BY <2>2 DEF UsageMatches
  <2>6. SpendIsKept' /\ DescentIsNoted'
    BY <2>1, <2>2 DEF SpendIsKept, DescentIsNoted
  <2>7. FactsAreOwn'
    BY <2>1 DEF FactsAreOwn, Over
  <2> QED
    BY <2>3, <2>4, <2>5, <2>6, <2>7
<1>2. CASE ~ (call.attempt + 1 < call.budget)
  <2>1. End("rejected", Total(usage)) /\ UNCHANGED <<facts, call>>
    BY <1>2 DEF Retry, Reject, Total
  <2>2. call \in Calls
    BY DEF TypeOK
  <2>3. Total(usage) \in Usage /\ Total(usage).attempts = hist'.answered
    BY <2>2, TotalFacts
  <2>4. Total(usage).unknown = hist'.missing
    BY <2>2, TotalFacts, Zenon
  <2> QED
    BY <2>1, <2>3, <2>4, EndPreserves DEF FactsMatch, TypeOK, Active
<1> QED
  BY <1>1, <1>2

(* A call that returns or is rejected with the usage of its last answer.   *)
LEMMA SettlePreserves ==
    ASSUME IInv, pc = "send", NEW usage \in Usage, Reject(usage) \/ Return(usage), hist' \in Hists,
           hist'.dropped = hist.dropped, hist'.dlp = hist.dlp,
           hist'.cleared = hist.cleared, hist'.asked \subseteq hist'.cleared,
           hist'.answered = usage.attempts + (IF call.escalated THEN call.exhausted.attempts ELSE 0),
           hist'.missing = (usage.unknown \/ (call.escalated /\ call.exhausted.unknown))
    PROVE  IInv'
<1> USE DEF IInv
<1>1. call \in Calls /\ usage.attempts \in Nat
  BY DEF TypeOK, Usage
<1>2. CASE Reject(usage)
  <2>1. End("rejected", Total(usage)) /\ UNCHANGED <<facts, call>>
    BY <1>2 DEF Reject, Total
  <2>2. Total(usage) \in Usage /\ Total(usage).attempts = hist'.answered
    BY <1>1, TotalFacts
  <2>3. Total(usage).unknown = hist'.missing
    BY <1>1, TotalFacts, Zenon
  <2> QED
    BY <2>1, <2>2, <2>3, EndPreserves DEF FactsMatch, TypeOK, Active
<1>3. CASE Return(usage)
  <2> DEFINE more == IF call.escalated THEN [usage EXCEPT !.escalations = @ + 1] ELSE usage
  <2>1. End("result", Total(more)) /\ UNCHANGED <<facts, call>>
    BY <1>3 DEF Return, Total
  <2>2. more \in Usage /\ more.attempts = usage.attempts /\ more.unknown = usage.unknown
    BY DEF Usage
  <2> HIDE DEF more
  <2>3. Total(more) \in Usage /\ Total(more).attempts = hist'.answered
    BY <1>1, <2>2, TotalFacts
  <2>4. Total(more).unknown = hist'.missing
    BY <1>1, <2>2, TotalFacts, Zenon
  <2> QED
    BY <2>1, <2>3, <2>4, EndPreserves DEF FactsMatch, ScannedFirst, TypeOK, Active
<1> QED
  BY <1>2, <1>3

(* What Answered does to the history.                                      *)
LEMMA AnsweredFacts ==
    ASSUME IInv, pc = "send", NEW r \in BOOLEAN, Answered(r)
    PROVE  /\ hist' \in Hists /\ hist'.dropped = hist.dropped /\ hist'.dlp = hist.dlp
           /\ hist'.cleared = hist.cleared /\ hist'.asked \subseteq hist'.cleared
           /\ hist'.answered = (call.usage.attempts + 1) + (IF call.escalated THEN call.exhausted.attempts ELSE 0)
           /\ hist'.missing = ((call.usage.unknown \/ ~r) \/ (call.escalated /\ call.exhausted.unknown))
<1> USE DEF IInv
<1>1. /\ hist' \in Hists /\ hist'.dropped = hist.dropped /\ hist'.dlp = hist.dlp
      /\ hist'.cleared = hist.cleared /\ hist'.asked = hist.asked \cup {call.escalated}
      /\ hist'.answered = hist.answered + 1
  <2>1. hist \in Hists /\ call \in Calls
    BY DEF TypeOK
  <2>2. hist.asked \cup {call.escalated} \in SUBSET BOOLEAN /\ hist.answered + 1 \in Nat
    BY <2>1 DEF Hists, Calls
  <2> QED
    BY <2>1, <2>2, Zenon DEF Hists, Answered
<1>2. hist'.missing = (hist.missing \/ ~r)
  BY DEF Answered, TypeOK, Hists
<1>3. call.usage.attempts \in Nat /\ call.exhausted.attempts \in Nat
  BY DEF TypeOK, Calls, Usage
<1>4. hist'.answered = (call.usage.attempts + 1) + (IF call.escalated THEN call.exhausted.attempts ELSE 0)
  BY <1>1, <1>3 DEF UsageMatches, Active
<1>5. hist'.missing = ((call.usage.unknown \/ ~r) \/ (call.escalated /\ call.exhausted.unknown))
  BY <1>2 DEF UsageMatches, Active
<1>6. hist'.asked \subseteq hist'.cleared
  BY <1>1 DEF ScannedFirst
<1> QED
  BY <1>1, <1>4, <1>5, <1>6

(* What a request without an answer does to the history.                   *)
LEMMA SentFacts ==
    ASSUME IInv, pc = "send", Sent
    PROVE  /\ hist' \in Hists /\ hist'.dropped = hist.dropped /\ hist'.dlp = hist.dlp
           /\ hist'.cleared = hist.cleared /\ hist'.asked \subseteq hist'.cleared
           /\ hist'.answered = hist.answered /\ hist'.missing = hist.missing
<1> USE DEF IInv
<1>1. hist \in Hists /\ call.escalated \in BOOLEAN
  BY DEF TypeOK, Calls
<1>2. /\ hist' \in Hists /\ hist'.dropped = hist.dropped /\ hist'.dlp = hist.dlp
      /\ hist'.cleared = hist.cleared /\ hist'.asked = hist.asked \cup {call.escalated}
      /\ hist'.answered = hist.answered /\ hist'.missing = hist.missing
  BY <1>1 DEF Sent, Hists
<1> QED
  BY <1>2 DEF ScannedFirst

(* An exception without a usage ends the call.                             *)
LEMMA FailPreserves ==
    ASSUME IInv, pc \in Active, Fail \/ (Bare /\ UNCHANGED <<facts, call>>), hist' \in Hists,
           hist'.dropped = hist.dropped, hist'.dlp = hist.dlp, hist'.asked \subseteq hist'.cleared
    PROVE  IInv'
<1>1. NewUsage \in Usage
  BY DEF NewUsage, Usage
<1>2. End("failed", NewUsage) \/ End("bare", NewUsage)
  BY DEF Fail, Bare
<1> QED
  BY <1>1, <1>2, EndPreserves DEF Fail, IInv, FactsMatch, TypeOK, Active

-----------------------------------------------------------------------------
(* One lemma per action.                                                   *)

LEMMA BeginPreserves ==
    ASSUME IInv, NEW m \in Methods, NEW s \in BOOLEAN, Begin(m, s)
    PROVE  IInv'
<1> USE DEF IInv, Begin
<1> DEFINE c == [call EXCEPT !.method = m, !.stream = s]
<1>1. c \in Calls /\ NewUsage \in Usage
  BY DEF TypeOK, Calls, NewUsage, Usage
<1>2. call' = Dispatch(c, FALSE, NewUsage)
  OBVIOUS
<1> HIDE DEF c
<1>3. /\ call' \in Calls /\ call'.usage.attempts = 0 /\ ~call'.usage.unknown /\ ~call'.escalated
      /\ spec.native => call'.rung # "prompt_only"
  <2>1. TypeOK /\ FALSE \in BOOLEAN
    OBVIOUS
  <2> HIDE DEF IInv, Begin
  <2> QED
    BY <1>1, <1>2, <2>1, DispatchFacts
<1>4. /\ facts' \in Facts /\ out' \in Outs /\ hist' \in Hists /\ out'.kind = "none"
      /\ facts'.dropped = hist'.dropped /\ facts'.dlp = hist'.dlp
      /\ hist'.answered = 0 /\ ~hist'.missing /\ hist'.asked = {}
  BY <1>1 DEF Clear, NoFacts, NoOut, NoHist, Facts, Outs, Hists, Verdicts, Rungs
<1>5. TypeOK'
  BY <1>3, <1>4 DEF TypeOK, Active
<1>6. FactsMatch' /\ ScannedFirst'
  BY <1>4 DEF FactsMatch, ScannedFirst
<1>7. UsageMatches'
  <2>1. hist'.answered = call'.usage.attempts + (IF call'.escalated THEN call'.exhausted.attempts ELSE 0)
    <3> DEFINE n == call'.usage.attempts
    <3>1. n = 0
      BY <1>3
    <3> HIDE DEF n
    <3>2. n + 0 = 0
      BY <3>1
    <3> QED
      BY <1>3, <1>4, <3>2, Zenon DEF n
  <2>2. hist'.missing = (call'.usage.unknown \/ (call'.escalated /\ call'.exhausted.unknown))
    <3>1. hist'.missing \in BOOLEAN
      BY <1>4 DEF Hists
    <3> QED
      BY <1>3, <1>4, <3>1
  <2> QED
    BY <2>1, <2>2 DEF UsageMatches
<1>8. SpendIsKept' /\ DescentIsNoted'
  BY <1>3, <1>4 DEF SpendIsKept, DescentIsNoted
<1>9. FactsAreOwn'
  BY <1>4 DEF FactsAreOwn, Over
<1> QED
  BY <1>5, <1>6, <1>7, <1>8, <1>9

LEMMA RefusePreserves == ASSUME IInv, Refuse PROVE IInv'
  BY FailPreserves DEF Refuse, Active, IInv, TypeOK, ScannedFirst

LEMMA EnterPreserves == ASSUME IInv, Enter PROVE IInv'
<1> USE DEF IInv, Enter
<1>1. /\ facts' \in Facts /\ hist' \in Hists
      /\ facts'.dropped = hist'.dropped /\ facts'.dlp = hist'.dlp /\ hist.dropped \subseteq hist'.dropped
      /\ hist'.answered = hist.answered /\ hist'.missing = hist.missing
      /\ hist'.asked = hist.asked /\ hist'.cleared = hist.cleared
  <2>1. CASE UNCHANGED <<facts, hist>>
    BY <2>1 DEF FactsMatch, TypeOK
  <2>2. ASSUME NEW lost \in SUBSET Drops,
               facts' = [facts EXCEPT !.dropped = @ \cup lost],
               hist' = [hist EXCEPT !.dropped = @ \cup lost]
        PROVE  /\ facts' \in Facts /\ hist' \in Hists
               /\ facts'.dropped = hist'.dropped /\ facts'.dlp = hist'.dlp /\ hist.dropped \subseteq hist'.dropped
               /\ hist'.answered = hist.answered /\ hist'.missing = hist.missing
               /\ hist'.asked = hist.asked /\ hist'.cleared = hist.cleared
    BY <2>2 DEF FactsMatch, TypeOK, Facts, Hists
  <2>3. {"cache_system"} \in SUBSET Drops /\ {} \in SUBSET Drops
    BY DEF Drops
  <2> QED
    BY <2>1, <2>2, <2>3
<1>2. TypeOK'
  BY <1>1 DEF TypeOK, Active
<1>3. FactsMatch' /\ ScannedFirst'
  BY <1>1 DEF FactsMatch, ScannedFirst
<1>4. UsageMatches'
  BY <1>1 DEF UsageMatches, Active
<1>5. SpendIsKept' /\ DescentIsNoted'
  BY <1>1 DEF SpendIsKept, DescentIsNoted, Active
<1>6. FactsAreOwn'
  BY DEF FactsAreOwn, Over
<1> QED
  BY <1>2, <1>3, <1>4, <1>5, <1>6

LEMMA ScanPreserves == ASSUME IInv, Scan PROVE IInv'
<1> USE DEF IInv
<1>1. PICK v \in Verdicts :
        /\ facts' = IF v = "none" THEN facts ELSE [facts EXCEPT !.dlp = v]
        /\ hist' = [hist EXCEPT !.dlp = IF v = "none" THEN @ ELSE v,
                                !.cleared = IF v \in Forwarded THEN @ \cup {call.escalated}
                                            ELSE @]
        /\ IF v \in Forwarded
           THEN pc' = "send" /\ UNCHANGED <<spec, call, out, emitted, calls>>
           ELSE End("bare", NewUsage) /\ UNCHANGED call
  BY DEF Scan, Bare
<1>2. pc = "scan"
  BY DEF Scan
<1>3. /\ facts' \in Facts /\ hist' \in Hists
      /\ facts'.dropped = hist'.dropped /\ facts'.dlp = hist'.dlp /\ hist'.dropped = hist.dropped
      /\ hist'.answered = hist.answered /\ hist'.missing = hist.missing
      /\ v # "none" => hist'.dlp = v
      /\ hist'.asked \subseteq hist'.cleared
      /\ v \in Forwarded => call.escalated \in hist'.cleared
  <2> DEFINE seen == IF v = "none" THEN hist.dlp ELSE v
             free == IF v \in Forwarded THEN hist.cleared \cup {call.escalated} ELSE hist.cleared
  <2>1. hist \in Hists /\ call.escalated \in BOOLEAN /\ facts \in Facts
    BY DEF TypeOK, Calls
  <2>2. hist' = [hist EXCEPT !.dlp = seen, !.cleared = free]
    BY <1>1
  <2>3. seen \in Verdicts /\ free \in SUBSET BOOLEAN /\ hist.cleared \subseteq free
    BY <2>1 DEF Hists
  <2>4. v \in Forwarded => call.escalated \in free
    OBVIOUS
  <2>5. facts' \in Facts /\ facts'.dropped = facts.dropped /\ (facts.dlp = hist.dlp => facts'.dlp = seen)
    BY <1>1, <2>1 DEF Facts
  <2>6. v # "none" => seen = v
    OBVIOUS
  <2> HIDE DEF seen, free
  <2>7. /\ hist' \in Hists /\ hist'.dropped = hist.dropped /\ hist'.dlp = seen
        /\ hist'.cleared = free /\ hist'.asked = hist.asked
        /\ hist'.answered = hist.answered /\ hist'.missing = hist.missing
    BY <2>1, <2>2, <2>3 DEF Hists
  <2> QED
    BY <1>2, <2>3, <2>4, <2>5, <2>6, <2>7 DEF FactsMatch, ScannedFirst
<1>4. CASE v \in Forwarded
  <2>1. hist'.dlp \in Forwarded
    BY <1>3, <1>4 DEF Forwarded
  <2>2. TypeOK'
    BY <1>1, <1>3, <1>4 DEF TypeOK, Active
  <2>3. FactsMatch' /\ ScannedFirst'
    BY <1>1, <1>2, <1>3, <1>4, <2>1 DEF FactsMatch, ScannedFirst
  <2>4. UsageMatches'
    BY <1>1, <1>2, <1>3, <1>4 DEF UsageMatches, Active
  <2>5. SpendIsKept' /\ DescentIsNoted'
    BY <1>1, <1>2, <1>3, <1>4 DEF SpendIsKept, DescentIsNoted, Active
  <2>6. FactsAreOwn'
    BY <1>1, <1>4 DEF FactsAreOwn, Over
  <2> QED
    BY <2>2, <2>3, <2>4, <2>5, <2>6
<1>5. CASE v \notin Forwarded
  <2>1. NewUsage \in Usage
    BY DEF NewUsage, Usage
  <2> QED
    BY <1>1, <1>2, <1>3, <1>5, <2>1, EndPreserves DEF Active
<1> QED
  BY <1>4, <1>5

LEMMA RefusedPreserves == ASSUME IInv, Refused PROVE IInv'
<1> USE DEF IInv, Refused
<1>1. /\ facts' \in Facts /\ hist' \in Hists
      /\ facts'.dropped = hist'.dropped /\ facts'.dlp = hist'.dlp /\ hist'.dlp = hist.dlp
      /\ hist'.answered = hist.answered /\ hist'.missing = hist.missing
      /\ hist'.cleared = hist.cleared /\ hist'.asked \subseteq hist'.cleared
      /\ "response_format" \in hist'.dropped
  <2> DEFINE d == {"response_format"}
  <2>1. d \subseteq Drops /\ "response_format" \in d
    BY DEF Drops
  <2>2. hist' = [hist EXCEPT !.asked = @ \cup {call.escalated}, !.dropped = @ \cup d]
    OBVIOUS
  <2>3. facts' = [facts EXCEPT !.dropped = @ \cup d]
    BY DEF RecordDescent
  <2>4. /\ hist \in Hists /\ facts \in Facts /\ facts.dropped = hist.dropped /\ facts.dlp = hist.dlp
        /\ call.escalated \in BOOLEAN /\ call.escalated \in hist.cleared /\ hist.asked \subseteq hist.cleared
    BY DEF TypeOK, FactsMatch, ScannedFirst, Calls
  <2> HIDE DEF d, Refused, IInv
  <2>5. /\ hist' \in Hists /\ hist'.dropped = hist.dropped \cup d /\ hist'.dlp = hist.dlp
        /\ hist'.answered = hist.answered /\ hist'.missing = hist.missing
        /\ hist'.cleared = hist.cleared /\ hist'.asked = hist.asked \cup {call.escalated}
    <3>1. hist.asked \cup {call.escalated} \in SUBSET BOOLEAN /\ hist.dropped \cup d \in SUBSET Drops
      BY <2>1, <2>4 DEF Hists
    <3> QED
      BY <2>2, <2>4, <3>1, Zenon DEF Hists
  <2>6. facts' \in Facts /\ facts'.dropped = facts.dropped \cup d /\ facts'.dlp = facts.dlp
    BY <2>1, <2>3, <2>4 DEF Facts
  <2> QED
    BY <2>1, <2>4, <2>5, <2>6
<1>2. Below[call.rung] \in Rungs /\ call \in Calls
  BY DEF Below, Rungs, TypeOK
<1>3. /\ call' \in Calls /\ call'.usage = call.usage
      /\ call'.escalated = call.escalated /\ call'.exhausted = call.exhausted
  BY <1>2, DescentFacts
<1>4. TypeOK'
  BY <1>1, <1>3 DEF TypeOK
<1>5. FactsMatch' /\ ScannedFirst'
  BY <1>1, <1>3 DEF FactsMatch, ScannedFirst
<1>6. UsageMatches'
  BY <1>1, <1>3 DEF UsageMatches, Active
<1>7. SpendIsKept' /\ DescentIsNoted'
  BY <1>1 DEF SpendIsKept, DescentIsNoted
<1>8. FactsAreOwn'
  BY DEF FactsAreOwn, Over
<1> QED
  BY <1>4, <1>5, <1>6, <1>7, <1>8

LEMMA ReportsFacts == ASSUME IInv, NEW r \in Reports PROVE r \in BOOLEAN
  BY DEF Reports

LEMMA ExhaustedPreserves == ASSUME IInv, Exhausted PROVE IInv'
<1> USE DEF IInv
<1>1. pc = "send"
  BY DEF Exhausted
<1>2. PICK r \in Reports :
        /\ Answered(r)
        /\ IF Escalates
           THEN /\ call' = Dispatch(call, TRUE, Counted(r))
                /\ pc' = "scan"
                /\ UNCHANGED <<spec, facts, out, emitted, calls>>
           ELSE Reject(Counted(r))
  BY DEF Exhausted
<1>3. r \in BOOLEAN
  BY ReportsFacts
<1>4. /\ Counted(r) \in Usage /\ Counted(r).attempts = call.usage.attempts + 1
      /\ Counted(r).unknown = (call.usage.unknown \/ ~r)
  BY <1>3, CountedFacts
<1>5. /\ hist' \in Hists /\ hist'.dropped = hist.dropped /\ hist'.dlp = hist.dlp
      /\ hist'.cleared = hist.cleared /\ hist'.asked \subseteq hist'.cleared
      /\ hist'.answered = (call.usage.attempts + 1) + (IF call.escalated THEN call.exhausted.attempts ELSE 0)
      /\ hist'.missing = ((call.usage.unknown \/ ~r) \/ (call.escalated /\ call.exhausted.unknown))
  BY <1>1, <1>2, <1>3, AnsweredFacts
<1>6. CASE Escalates
  <2>1. /\ call' = Dispatch(call, TRUE, Counted(r)) /\ pc' = "scan"
        /\ UNCHANGED <<spec, facts, out, emitted, calls>>
    BY <1>2, <1>6
  <2>2. /\ call' \in Calls /\ call'.usage.attempts = 0 /\ ~call'.usage.unknown
        /\ call'.escalated /\ call'.exhausted = Counted(r)
        /\ spec.native => call'.rung # "prompt_only"
    BY <2>1, <1>4, DispatchFacts DEF TypeOK
  <2>3. ~call.escalated /\ call.usage.attempts \in Nat
    BY <1>6 DEF Escalates, TypeOK, Calls, Usage
  <2>4. TypeOK'
    BY <2>1, <2>2, <1>5 DEF TypeOK, Active
  <2>5. FactsMatch' /\ ScannedFirst'
    BY <2>1, <1>1, <1>5 DEF FactsMatch, ScannedFirst
  <2>6. hist'.answered = call'.usage.attempts + (IF call'.escalated THEN call'.exhausted.attempts ELSE 0)
    BY <2>2, <2>3, <1>4, <1>5
  <2>7. hist'.missing = (call'.usage.unknown \/ (call'.escalated /\ call'.exhausted.unknown))
    BY <2>2, <2>3, <1>4, <1>5
  <2>8. UsageMatches'
    BY <2>6, <2>7 DEF UsageMatches
  <2>9. SpendIsKept' /\ DescentIsNoted'
    BY <2>1, <2>2 DEF SpendIsKept, DescentIsNoted
  <2>10. FactsAreOwn'
    BY <2>1 DEF FactsAreOwn, Over
  <2> QED
    BY <2>4, <2>5, <2>8, <2>9, <2>10
<1>7. CASE ~Escalates
  <2>1. Reject(Counted(r))
    BY <1>2, <1>7
  <2>2. /\ hist'.answered = Counted(r).attempts + (IF call.escalated THEN call.exhausted.attempts ELSE 0)
        /\ hist'.missing = (Counted(r).unknown \/ (call.escalated /\ call.exhausted.unknown))
    BY <1>4, <1>5
  <2> QED
    BY <1>1, <1>4, <1>5, <2>1, <2>2, SettlePreserves
<1> QED
  BY <1>6, <1>7

(* The answers that end the call without a usage.                          *)
LEMMA DownPreserves == ASSUME IInv, Down \/ StreamTimesOut \/ Unresolved PROVE IInv'
<1>1. CASE Down
  BY <1>1, SentFacts, FailPreserves DEF Down, Active
<1>2. CASE StreamTimesOut
  BY <1>2, SentFacts, FailPreserves DEF StreamTimesOut, Active
<1>3. CASE Unresolved
  <2>1. PICK r \in Reports : Answered(r)
    BY <1>3 DEF Unresolved
  <2> QED
    BY <1>3, <2>1, ReportsFacts, AnsweredFacts, FailPreserves DEF Unresolved, Active
<1> QED
  BY <1>1, <1>2, <1>3

(* The answers after which an attempt may follow.                          *)
LEMMA RetriedPreserves == ASSUME IInv, Garbled \/ NullChoices \/ Invalid \/ Ungrounded PROVE IInv'
<1> USE DEF IInv
<1>1. pc = "send"
  BY DEF Garbled, NullChoices, Invalid, Ungrounded
<1>2. ASSUME NEW r \in BOOLEAN, Answered(r), Retry(Counted(r)) \/ Reject(Counted(r)) PROVE IInv'
  <2>1. /\ Counted(r) \in Usage /\ Counted(r).attempts = call.usage.attempts + 1
        /\ Counted(r).unknown = (call.usage.unknown \/ ~r)
    BY CountedFacts
  <2>2. /\ hist' \in Hists /\ hist'.dropped = hist.dropped /\ hist'.dlp = hist.dlp
        /\ hist'.cleared = hist.cleared /\ hist'.asked \subseteq hist'.cleared
        /\ hist'.answered = Counted(r).attempts + (IF call.escalated THEN call.exhausted.attempts ELSE 0)
        /\ hist'.missing = (Counted(r).unknown \/ (call.escalated /\ call.exhausted.unknown))
    BY <1>1, <1>2, <2>1, AnsweredFacts
  <2>3. CASE Retry(Counted(r))
    BY <1>1, <2>1, <2>2, <2>3, RetryPreserves
  <2>4. CASE Reject(Counted(r))
    BY <1>1, <2>1, <2>2, <2>4, SettlePreserves
  <2> QED
    BY <1>2, <2>3, <2>4
<1>3. ASSUME Sent, Retry(call.usage) PROVE IInv'
  <2>1. call.usage \in Usage
    BY DEF TypeOK, Calls
  <2>2. /\ hist' \in Hists /\ hist'.dropped = hist.dropped /\ hist'.dlp = hist.dlp
        /\ hist'.cleared = hist.cleared /\ hist'.asked \subseteq hist'.cleared
        /\ hist'.answered = call.usage.attempts + (IF call.escalated THEN call.exhausted.attempts ELSE 0)
        /\ hist'.missing = (call.usage.unknown \/ (call.escalated /\ call.exhausted.unknown))
    BY <1>1, <1>3, SentFacts DEF UsageMatches, Active
  <2> QED
    BY <1>1, <1>3, <2>1, <2>2, RetryPreserves
<1>4. CASE Garbled
  <2>1. CASE Loops
    BY <1>4, <2>1, <1>3 DEF Garbled
  <2>2. CASE ~Loops
    BY <1>1, <1>4, <2>2, SentFacts, FailPreserves DEF Garbled, Active
  <2> QED
    BY <2>1, <2>2
<1>5. CASE NullChoices
  BY <1>5, <1>2 DEF NullChoices
<1>6. CASE Invalid
  <2>1. PICK r \in Reports : Answered(r) /\ Retry(Counted(r))
    BY <1>6 DEF Invalid
  <2> QED
    BY <2>1, <1>2, ReportsFacts
<1>7. CASE Ungrounded
  BY <1>7, <1>2 DEF Ungrounded
<1> QED
  BY <1>4, <1>5, <1>6, <1>7

(* The answers that are a result.                                          *)
LEMMA ResultPreserves == ASSUME IInv, Complete \/ Structured \/ Grounded PROVE IInv'
<1> USE DEF IInv
<1>1. pc = "send"
  BY DEF Complete, Structured, Grounded
<1>2. ASSUME NEW r \in BOOLEAN, NEW usage \in Usage, Answered(r), Return(usage),
             usage.attempts = call.usage.attempts + 1, usage.unknown = (call.usage.unknown \/ ~r)
      PROVE  IInv'
  <2>1. /\ hist' \in Hists /\ hist'.dropped = hist.dropped /\ hist'.dlp = hist.dlp
        /\ hist'.cleared = hist.cleared /\ hist'.asked \subseteq hist'.cleared
        /\ hist'.answered = usage.attempts + (IF call.escalated THEN call.exhausted.attempts ELSE 0)
        /\ hist'.missing = (usage.unknown \/ (call.escalated /\ call.exhausted.unknown))
    BY <1>1, <1>2, AnsweredFacts
  <2> QED
    BY <1>1, <1>2, <2>1, SettlePreserves
<1>3. CASE Complete
  <2>1. PICK r \in Reports : Answered(r) /\ Return(Stamped(Counted(TRUE), r))
    BY <1>3 DEF Complete
  <2>2. r \in BOOLEAN
    BY ReportsFacts
  <2>3. /\ Stamped(Counted(TRUE), r) \in Usage
        /\ Stamped(Counted(TRUE), r).attempts = call.usage.attempts + 1
        /\ Stamped(Counted(TRUE), r).unknown = (call.usage.unknown \/ ~r)
    BY <2>2, StampedFacts
  <2> QED
    BY <1>2, <2>1, <2>2, <2>3
<1>4. CASE Structured
  <2>1. PICK r \in Reports : Answered(r) /\ Return(Stamped(Counted(r), r))
    BY <1>4 DEF Structured
  <2>2. r \in BOOLEAN
    BY ReportsFacts
  <2>3. /\ Stamped(Counted(r), r) \in Usage
        /\ Stamped(Counted(r), r).attempts = call.usage.attempts + 1
        /\ Stamped(Counted(r), r).unknown = (call.usage.unknown \/ ~r)
    BY <2>2, StampedFacts
  <2> QED
    BY <1>2, <2>1, <2>2, <2>3
<1>5. CASE Grounded
  <2>1. /\ Counted(TRUE) \in Usage /\ Counted(TRUE).attempts = call.usage.attempts + 1
        /\ Counted(TRUE).unknown = (call.usage.unknown \/ ~TRUE)
    BY CountedFacts
  <2>2. Answered(TRUE) /\ Return(Counted(TRUE))
    BY <1>5 DEF Grounded
  <2> QED
    BY <1>2, <2>1, <2>2
<1> QED
  BY <1>3, <1>4, <1>5

LEMMA FinalizePreserves == ASSUME IInv, Finalize PROVE IInv'
<1> USE DEF IInv, Finalize
<1>1. /\ out' \in Outs /\ out'.kind = out.kind /\ out'.usage = out.usage /\ out'.rung = out.rung
      /\ out'.dropped = facts.dropped /\ out'.dlp = facts.dlp
  BY DEF TypeOK, Outs, Facts
<1>2. facts' \in Facts
  BY DEF Clear, NoFacts, Facts, Verdicts
<1>3. TypeOK'
  BY <1>1, <1>2 DEF TypeOK
<1>4. FactsMatch' /\ ScannedFirst'
  BY <1>1 DEF FactsMatch, ScannedFirst
<1>5. UsageMatches' /\ SpendIsKept' /\ DescentIsNoted'
  BY <1>1 DEF UsageMatches, SpendIsKept, DescentIsNoted, Active
<1>6. FactsAreOwn'
  BY <1>1 DEF FactsAreOwn, Over, FactsMatch, ScannedFirst, Forwarded
<1> QED
  BY <1>3, <1>4, <1>5, <1>6

LEMMA StutterPreserves == ASSUME IInv, UNCHANGED vars PROVE IInv'
<1> USE DEF vars, IInv
<1>1. TypeOK' /\ FactsMatch' /\ ScannedFirst'
  BY DEF TypeOK, FactsMatch, ScannedFirst
<1>2. UsageMatches' /\ SpendIsKept' /\ DescentIsNoted'
  BY DEF UsageMatches, SpendIsKept, DescentIsNoted
<1>3. FactsAreOwn'
  BY DEF FactsAreOwn, Over
<1> QED
  BY <1>1, <1>2, <1>3

LEMMA StepPreserves == IInv /\ [Next]_vars => IInv'
<1> SUFFICES ASSUME IInv, [Next]_vars PROVE IInv'
  OBVIOUS
<1>1. CASE \E m \in Methods, s \in BOOLEAN : Begin(m, s)
  BY <1>1, BeginPreserves
<1>2. CASE Refuse
  BY <1>2, RefusePreserves
<1>3. CASE Enter
  BY <1>3, EnterPreserves
<1>4. CASE Scan
  BY <1>4, ScanPreserves
<1>5. CASE Answer
  BY <1>5, DownPreserves, RetriedPreserves, RefusedPreserves, ExhaustedPreserves, ResultPreserves DEF Answer
<1>6. CASE Finalize
  BY <1>6, FinalizePreserves
<1>7. CASE Done \/ UNCHANGED vars
  BY <1>7, StutterPreserves DEF Done
<1> QED
  BY <1>1, <1>2, <1>3, <1>4, <1>5, <1>6, <1>7 DEF Next

-----------------------------------------------------------------------------
(* The inductive invariant holds of every client and its calls.            *)
THEOREM CallInvariant == Spec => []IInv
  BY InitIInv, StepPreserves, PTL DEF Spec

(* A result, or an LLMError, reports every answer of every attempt of its  *)
(* call (_absorb_usage, _escalated_budget and the loops of structured).    *)
THEOREM SpendIsReported == Spec => []SpendIsWhole
<1>1. IInv => SpendIsWhole
  BY DEF IInv, SpendIsKept, SpendIsWhole, Over
<1> QED
  BY <1>1, CallInvariant, PTL

(* What _finalize_result puts on a call is the call's own.                 *)
THEOREM FactsStayWithTheirCall == Spec => []FactsAreOwn
<1>1. IInv => FactsAreOwn
  BY DEF IInv
<1> QED
  BY <1>1, CallInvariant, PTL

(* A structured result below its route's rung carries the drop.            *)
THEOREM DegradationIsStamped == Spec => []DegradationIsRecorded
<1>1. IInv => DegradationIsRecorded
  BY DEF IInv, DescentIsNoted, FactsAreOwn, DegradationIsRecorded, Over
<1> QED
  BY <1>1, CallInvariant, PTL

-----------------------------------------------------------------------------
(* The trace sink: sequences first.                                        *)

(* Min is what its name says on the naturals.                              *)
LEMMA LeastPlace ==
  ASSUME NEW places \in SUBSET Nat, places # {}
  PROVE  Min(places) \in places /\ \A i \in places : Min(places) <= i
<1>1. PICK i \in places : \A j \in places : ~ (<<j, i>> \in OpToRel(<, Nat))
  BY WFMin, NatLessThanWellFounded, Zenon
<1>2. \A j \in places : ~ (j < i)
  BY <1>1, Zenon DEF OpToRel
<1>3. \A j \in places : i <= j
  BY <1>2
<1> QED
  BY <1>3 DEF Min

LEMMA AppendRange ==
  ASSUME NEW T, NEW s \in Seq(T), NEW x \in T
  PROVE  Append(s, x) \in Seq(T) /\ Range(Append(s, x)) = Range(s) \cup {x}
<1>1. /\ Append(s, x) \in Seq(T) /\ Len(Append(s, x)) = Len(s) + 1
      /\ \A i \in 1..Len(s) : Append(s, x)[i] = s[i]
      /\ Append(s, x)[Len(s) + 1] = x
  BY AppendProperties
<1> QED
  BY <1>1 DEF Range

(* Without keeps exactly the members of a sequence that are not in the     *)
(* set: by the least prefix for which the recursive function would be      *)
(* missing, or wrong.                                                      *)
LEMMA WithoutFacts ==
  ASSUME NEW T, NEW s \in Seq(T), NEW S
  PROVE  Without(s, S) \in Seq(T) /\ Range(Without(s, S)) = Range(s) \ S
<1> DEFINE Prefix(n, f) == /\ DOMAIN f = 0..n
                           /\ f[0] = <<>>
                           /\ \A i \in 1..n : f[i] = IF s[i] \in S THEN f[i - 1] ELSE Append(f[i - 1], s[i])
           Missing == {n \in Nat : n <= Len(s) /\ ~ \E f : Prefix(n, f) /\ f = [i \in 0..n |-> f[i]]}
<1>1. Missing = {}
  <2> SUFFICES ASSUME Missing # {} PROVE FALSE
    OBVIOUS
  <2>1. Min(Missing) \in Missing /\ \A i \in Missing : Min(Missing) <= i
    BY LeastPlace
  <2> DEFINE n == Min(Missing)
  <2>2. n \in Nat /\ n <= Len(s)
    BY <2>1
  <2>3. CASE n = 0
    <3> DEFINE f == [i \in 0..0 |-> <<>>]
    <3>1. Prefix(0, f) /\ f = [i \in 0..0 |-> f[i]]
      OBVIOUS
    <3> QED
      BY <2>1, <2>3, <3>1
  <2>4. CASE n > 0
    <3>1. n - 1 \in Nat /\ n - 1 <= Len(s) /\ n - 1 \notin Missing
      <4> HIDE DEF Missing
      <4>1. n - 1 \in Nat /\ ~ (n <= n - 1) /\ n - 1 <= Len(s)
        BY <2>2, <2>4
      <4> QED
        BY <2>1, <4>1
    <3>2. PICK f : Prefix(n - 1, f)
      BY <3>1
    <3> DEFINE h == [i \in 0..n |-> IF i < n THEN f[i] ELSE
                                   IF s[n] \in S THEN f[n - 1] ELSE Append(f[n - 1], s[n])]
    <3>3. \A i \in 0..(n - 1) : h[i] = f[i]
      BY <2>2
    <3>4. h[n] = IF s[n] \in S THEN h[n - 1] ELSE Append(h[n - 1], s[n])
      BY <2>2, <2>4, <3>3
    <3>5. Prefix(n, h)
      <4>1. DOMAIN h = 0..n /\ h[0] = <<>>
        BY <2>2, <2>4, <3>2, <3>3
      <4>2. ASSUME NEW i \in 1..n PROVE h[i] = IF s[i] \in S THEN h[i - 1] ELSE Append(h[i - 1], s[i])
        <5>1. CASE i = n
          <6> HIDE DEF h, n
          <6> QED
            BY <3>4, <5>1
        <5>2. CASE i < n
          <6>1. i \in 1..(n - 1) /\ i \in 0..(n - 1) /\ i - 1 \in 0..(n - 1)
            BY <2>2, <5>2
          <6> QED
            BY <6>1, <3>2, <3>3
        <5> QED
          BY <2>2, <5>1, <5>2
      <4> QED
        BY <4>1, <4>2
    <3>6. h = [i \in 0..n |-> h[i]]
      OBVIOUS
    <3> HIDE DEF h
    <3> QED
      BY <2>1, <3>5, <3>6
  <2> QED
    BY <2>2, <2>3, <2>4
<1>2. PICK f : Prefix(Len(s), f) /\ f = [i \in 0..Len(s) |-> f[i]]
  <2>1. Len(s) \in Nat /\ Len(s) \notin Missing
    BY <1>1
  <2> QED
    BY <2>1
<1> DEFINE Kept(k) == k = [i \in 0..Len(s) |-> IF i = 0 THEN <<>> ELSE
                                              IF s[i] \in S THEN k[i - 1] ELSE Append(k[i - 1], s[i])]
<1>3. Kept(f)
  <2>1. \A i \in 0..Len(s) : f[i] = IF i = 0 THEN <<>> ELSE
                                  IF s[i] \in S THEN f[i - 1] ELSE Append(f[i - 1], s[i])
    BY <1>2
  <2> QED
    BY <1>2, <2>1
<1> DEFINE kept == CHOOSE k : Kept(k)
<1>4. Kept(kept)
  BY <1>3
<1>5. Without(s, S) = kept[Len(s)]
  BY DEF Without
<1> HIDE DEF kept
<1>6. \A n \in 0..Len(s) : kept[n] = IF n = 0 THEN <<>> ELSE
                                     IF s[n] \in S THEN kept[n - 1] ELSE Append(kept[n - 1], s[n])
  BY <1>4
<1> DEFINE Right(n) == kept[n] \in Seq(T) /\ Range(kept[n]) = {s[i] : i \in 1..n} \ S
           Wrong == {n \in Nat : n <= Len(s) /\ ~ Right(n)}
<1>7. Wrong = {}
  <2> SUFFICES ASSUME Wrong # {} PROVE FALSE
    OBVIOUS
  <2> DEFINE n == Min(Wrong)
  <2>1. n \in Wrong /\ \A i \in Wrong : n <= i
    BY LeastPlace
  <2>2. n \in Nat /\ n <= Len(s) /\ ~ Right(n)
    BY <2>1
  <2> HIDE DEF n
  <2>3. CASE n = 0
    <3>1. kept[0] = <<>>
      BY <1>6
    <3> QED
      BY <2>2, <2>3, <3>1 DEF Range
  <2>4. CASE n > 0
    <3>1. Right(n - 1)
      <4>1. n - 1 \in Nat /\ ~ (n <= n - 1) /\ n - 1 <= Len(s)
        BY <2>2, <2>4
      <4>2. n - 1 \notin Wrong
        <5> HIDE DEF Wrong
        <5> QED
          BY <2>1, <4>1
      <4> QED
        BY <4>1, <4>2
    <3>2. n \in 1..Len(s) /\ s[n] \in T
      BY <2>2, <2>4
    <3>3. kept[n] = IF s[n] \in S THEN kept[n - 1] ELSE Append(kept[n - 1], s[n])
      BY <1>6, <2>2, <2>4
    <3>4. {s[i] : i \in 1..n} = {s[i] : i \in 1..(n - 1)} \cup {s[n]}
      BY <2>2, <2>4
    <3>5. CASE s[n] \in S
      <4>1. kept[n] = kept[n - 1]
        BY <3>5, <3>3
      <4> QED
        BY <2>2, <3>1, <3>4, <3>5, <4>1
    <3>6. CASE s[n] \notin S
      <4>1. kept[n] = Append(kept[n - 1], s[n])
        BY <3>6, <3>3
      <4>2. kept[n] \in Seq(T) /\ Range(kept[n]) = Range(kept[n - 1]) \cup {s[n]}
        BY <3>1, <3>2, <4>1, AppendRange
      <4> QED
        BY <2>2, <3>1, <3>4, <3>6, <4>2
    <3> QED
      BY <3>5, <3>6
  <2> QED
    BY <2>2, <2>3, <2>4
<1>8. Right(Len(s))
  <2>1. Len(s) \notin Wrong
    BY <1>7, Zenon
  <2>2. Len(s) \in Nat /\ Len(s) <= Len(s)
    OBVIOUS
  <2> QED
    BY <2>1, <2>2, Zenon
<1>9. Range(s) = {s[i] : i \in 1..Len(s)}
  BY DEF Range
<1> QED
  BY <1>5, <1>8, <1>9

(* The range of a concatenation, and of a sequence split at its head.      *)
LEMMA RangesOf ==
  ASSUME NEW T, NEW s \in Seq(T)
  PROVE  /\ \A u \in Seq(T) : s \o u \in Seq(T) /\ Range(s \o u) = Range(s) \cup Range(u)
         /\ s # <<>> => /\ Tail(s) \in Seq(T) /\ Head(s) \in T
                        /\ Range(s) = {Head(s)} \cup Range(Tail(s))
         /\ Range(s) \subseteq T
<1>1. ASSUME NEW u \in Seq(T) PROVE s \o u \in Seq(T) /\ Range(s \o u) = Range(s) \cup Range(u)
  <2>1. /\ s \o u \in Seq(T) /\ Len(s \o u) = Len(s) + Len(u)
        /\ \A i \in 1..(Len(s) + Len(u)) : (s \o u)[i] = IF i <= Len(s) THEN s[i] ELSE u[i - Len(s)]
    BY ConcatProperties
  <2>2. Len(s) \in Nat /\ Len(u) \in Nat /\ DOMAIN s = 1..Len(s) /\ DOMAIN u = 1..Len(u)
        /\ DOMAIN (s \o u) = 1..Len(s \o u)
    BY <2>1
  <2> DEFINE su == s \o u
  <2>3. \A i \in 1..Len(s) : i \in DOMAIN su /\ su[i] = s[i]
    BY <2>1, <2>2
  <2>4. \A i \in 1..Len(u) : i + Len(s) \in DOMAIN su /\ su[i + Len(s)] = u[i]
    BY <2>1, <2>2
  <2>5. \A i \in DOMAIN su :
           \/ i \in 1..Len(s) /\ su[i] = s[i]
           \/ i - Len(s) \in 1..Len(u) /\ su[i] = u[i - Len(s)]
    <3> TAKE i \in DOMAIN su
    <3>1. i \in 1..(Len(s) + Len(u)) /\ su[i] = IF i <= Len(s) THEN s[i] ELSE u[i - Len(s)]
      BY <2>1, <2>2
    <3> HIDE DEF su
    <3>2. CASE i <= Len(s)
      <4>1. i \in 1..Len(s)
        BY <3>1, <3>2, <2>2
      <4>2. su[i] = s[i]
        BY <3>1, <3>2
      <4> QED
        BY <4>1, <4>2
    <3>3. CASE ~ (i <= Len(s))
      BY <3>1, <3>3, <2>2
    <3> QED
      BY <3>2, <3>3
  <2> HIDE DEF su
  <2>6. Range(su) \subseteq Range(s) \cup Range(u)
    BY <2>2, <2>5 DEF Range
  <2>7. Range(s) \subseteq Range(su)
    BY <2>2, <2>3 DEF Range
  <2>8. Range(u) \subseteq Range(su)
    BY <2>2, <2>4 DEF Range
  <2> QED
    BY <2>1, <2>6, <2>7, <2>8 DEF su
<1>2. ASSUME s # <<>> PROVE Tail(s) \in Seq(T) /\ Head(s) \in T /\ Range(s) = {Head(s)} \cup Range(Tail(s))
  <2>1. /\ Head(s) = s[1] /\ Tail(s) \in Seq(T) /\ Len(Tail(s)) = Len(s) - 1
        /\ \A i \in 1..Len(Tail(s)) : Tail(s)[i] = s[i + 1]
        /\ Len(s) \in Nat \ {0} /\ DOMAIN s = 1..Len(s) /\ s[1] \in T
    BY <1>2, HeadTailProperties
  <2>2. \A i \in 1..Len(s) : i = 1 \/ (i - 1 \in 1..Len(Tail(s)) /\ s[i] = Tail(s)[i - 1])
    BY <2>1
  <2>3. \A i \in 1..Len(Tail(s)) : i + 1 \in 1..Len(s)
    BY <2>1
  <2>4. DOMAIN Tail(s) = 1..Len(Tail(s))
    BY <2>1
  <2>5. Range(s) \subseteq {Head(s)} \cup Range(Tail(s))
    <3> SUFFICES ASSUME NEW i \in 1..Len(s) PROVE s[i] \in {Head(s)} \cup Range(Tail(s))
      BY <2>1 DEF Range
    <3>1. CASE i = 1
      BY <2>1, <3>1
    <3>2. CASE i - 1 \in 1..Len(Tail(s)) /\ s[i] = Tail(s)[i - 1]
      BY <2>4, <3>2 DEF Range
    <3> QED
      BY <2>2, <3>1, <3>2
  <2>6. {Head(s)} \cup Range(Tail(s)) \subseteq Range(s)
    <3>1. 1 \in DOMAIN s
      BY <2>1
    <3> QED
      BY <2>1, <2>3, <2>4, <3>1 DEF Range
  <2> QED
    BY <2>1, <2>5, <2>6
<1>3. Range(s) \subseteq T
  BY DEF Range
<1> QED
  BY <1>1, <1>2, <1>3

(* A sequence has no more members than places.                             *)
LEMMA RangeIsSmall ==
  ASSUME NEW T, NEW s \in Seq(T)
  PROVE  IsFiniteSet(Range(s)) /\ Cardinality(Range(s)) <= Len(s) /\ Cardinality(Range(s)) \in Nat
<1> DEFINE f == [i \in 1..Len(s) |-> s[i]]
<1>1. IsFiniteSet(1..Len(s)) /\ Cardinality(1..Len(s)) = Len(s)
  <2>1. Len(s) \in Nat
    OBVIOUS
  <2>2. IsFiniteSet(1..Len(s)) /\ Cardinality(1..Len(s)) = IF 1 > Len(s) THEN 0 ELSE Len(s) - 1 + 1
    BY <2>1, FS_Interval
  <2> QED
    BY <2>1, <2>2
<1>2. f \in Surjection(1..Len(s), Range(s))
  BY DEF Surjection, Range
<1> QED
  BY <1>1, <1>2, FS_Surjection, FS_CardinalityType

(* What is left when the first n places are cut off.                       *)
LEMMA Suffix ==
  ASSUME NEW T, NEW s \in Seq(T), NEW n \in 0..Len(s)
  PROVE  LET kept == SubSeq(s, n + 1, Len(s))
         IN  /\ kept \in Seq(T) /\ Range(kept) \subseteq Range(s) /\ DOMAIN kept = 1..(Len(s) - n)
             /\ \A i \in 1..(Len(s) - n) : kept[i] = s[n + i]
<1> DEFINE len == Len(s)
           kept == SubSeq(s, n + 1, len)
<1>1. n + 1 \in Int /\ len \in Nat /\ n \in Nat /\ n <= len
  OBVIOUS
<1>2. \A i \in (n + 1)..len : s[i] \in T
  BY <1>1
<1> HIDE DEF kept, len
<1>3. /\ kept \in Seq(T)
      /\ Len(kept) = IF n + 1 <= len THEN len - (n + 1) + 1 ELSE 0
      /\ \A i \in 1..(len - (n + 1) + 1) : kept[i] = s[(n + 1) + i - 1]
  BY <1>1, <1>2, SubSeqProperties DEF kept, len
<1>4. DOMAIN kept = 1..(len - n) /\ DOMAIN s = 1..len
  BY <1>1, <1>3 DEF len
<1>5. \A i \in 1..(len - n) : n + i \in 1..len /\ kept[i] = s[n + i]
  BY <1>1, <1>3
<1> QED
  BY <1>3, <1>4, <1>5 DEF Range, kept, len

(* The blobs that a requeue drops are no more than it counts.              *)
LEMMA Cut ==
  ASSUME NEW merged \in Seq(Blobs)
  PROVE  LET n == BlobOverflow(merged)
             kept == SubSeq(merged, n + 1, Len(merged))
         IN /\ n \in Nat /\ kept \in Seq(Blobs) /\ Range(kept) \subseteq Range(merged)
            /\ \E cut : /\ IsFiniteSet(cut) /\ Cardinality(cut) \in Nat /\ Cardinality(cut) <= n
                        /\ Range(merged) \subseteq Range(kept) \cup cut
<1> DEFINE n == BlobOverflow(merged)
           kept == SubSeq(merged, n + 1, Len(merged))
           first == SubSeq(merged, 1, n)
           len == Len(merged)
<1>1. n \in 0..len /\ len \in Nat
  <2> DEFINE places == {k \in 0..len : \/ k = len
                                     \/ Bytes(SubSeq(merged, k + 1, len)) <= BlobFlushBytes * CapMultiple}
  <2>1. n = Min(places)
    BY DEF BlobOverflow
  <2>2. places \subseteq 0..len /\ len \in places /\ places \subseteq Nat
    OBVIOUS
  <2> HIDE DEF places, n
  <2>3. Min(places) \in places
    BY <2>2, LeastPlace
  <2> QED
    BY <2>1, <2>2, <2>3
<1> HIDE DEF n
<1>2. /\ kept \in Seq(Blobs) /\ Range(kept) \subseteq Range(merged) /\ DOMAIN kept = 1..(len - n)
      /\ \A i \in 1..(len - n) : kept[i] = merged[n + i]
  BY <1>1, Suffix
<1>3. /\ first \in Seq(Blobs) /\ Len(first) = n /\ \A i \in 1..n : first[i] = merged[i]
  <2>1. \A i \in 1..n : merged[i] \in Blobs
    BY <1>1
  <2>2. 1 \in Int /\ n \in Int
    BY <1>1
  <2> HIDE DEF first
  <2>3. /\ first \in Seq(Blobs)
        /\ Len(first) = IF 1 <= n THEN n - 1 + 1 ELSE 0
        /\ \A i \in 1..(n - 1 + 1) : first[i] = merged[1 + i - 1]
    BY <2>1, <2>2, SubSeqProperties DEF first
  <2> QED
    BY <1>1, <2>3
<1>4. DOMAIN first = 1..n /\ DOMAIN merged = 1..len
  BY <1>1, <1>3
<1> HIDE DEF kept, first, len
<1>5. Range(merged) \subseteq Range(kept) \cup Range(first)
  <2>1. \A i \in 1..len : i \in 1..n \/ (i - n \in 1..(len - n) /\ n + (i - n) = i)
    BY <1>1
  <2>2. \A i \in 1..len : merged[i] \in Range(kept) \cup Range(first)
    <3> TAKE i \in 1..len
    <3>1. CASE i \in 1..n
      BY <1>3, <1>4, <3>1 DEF Range
    <3>2. CASE i - n \in 1..(len - n) /\ n + (i - n) = i
      <4>1. kept[i - n] = merged[i]
        BY <1>2, <3>2
      <4> QED
        BY <1>2, <3>2, <4>1 DEF Range
    <3> QED
      BY <2>1, <3>1, <3>2
  <2> QED
    BY <1>4, <2>2 DEF Range
<1>6. IsFiniteSet(Range(first)) /\ Cardinality(Range(first)) <= n /\ Cardinality(Range(first)) \in Nat
  BY <1>3, RangeIsSmall
<1> QED
  BY <1>1, <1>2, <1>5, <1>6 DEF n, kept, len
-----------------------------------------------------------------------------
(* The inductive invariant.                                                *)

Stops == {"idle", "flush", "take blobs", "put blob", "mark", "take rows", "put rows", "advance",
          "status", "close", "close status"}
Jobs == [pending : Seq(Blobs), failed : Seq(Blobs), flushing : BOOLEAN,
         rows : [Groups -> Seq(Rows)], seqs : [Groups -> Nat],
         todo : SUBSET Groups, sent : SUBSET Groups, work : BOOLEAN, closing : BOOLEAN]
TraceTyped ==
    /\ rows \in [Groups -> Seq(Rows)] /\ seq \in [Groups -> Nat]
    /\ blobs \in Seq(Blobs) /\ dropped \in [rows : Nat, blobs : Nat]
    /\ at \in [Threads -> Stops] /\ job \in [Threads -> Jobs]
    /\ accepted \subseteq Rows /\ IsFiniteSet(accepted)
    /\ interleaved \in BOOLEAN /\ statusLost \in BOOLEAN

(* A buffer holds accepted rows of its group.                              *)
Buffered(buffers) == \A g \in Groups : \A r \in Range(buffers[g]) : r \in accepted /\ GroupOf[r] = g

(* What a thread holds at each of its steps.                               *)
ThreadOK(t) ==
    /\ at[t] \notin {"put blob", "mark"} => job[t].pending = <<>> /\ job[t].failed = <<>>
    /\ at[t] = "mark" => job[t].pending # <<>> /\ Head(job[t].pending) \in blobObjects
    /\ Range(job[t].failed) \subseteq raised
    /\ at[t] \notin {"put rows", "advance"} => job[t].rows = NoRows
    /\ ~ job[t].work => job[t].rows = NoRows
    /\ Buffered(job[t].rows)

(* As long as calls come one after the other: the blobs of a buffered row  *)
(* are in the bucket or held, or their PUT raised; those of a row that a   *)
(* flush has taken are not merely held.                                    *)
Settled(r) == Range(BlobsOf[r]) \subseteq blobObjects \cup raised
InOrderInv ==
    ~ interleaved =>
        /\ \A t, u \in Threads : t # u => at[t] = "idle" \/ at[u] = "idle"
        /\ \A g \in Groups : \A r \in Range(rows[g]) :
              Range(BlobsOf[r]) \subseteq blobObjects \cup raised \cup HeldBlobs
        /\ \A t \in Threads, g \in Groups : \A r \in Range(job[t].rows[g]) : Settled(r)
        /\ \A t \in Threads : at[t] \in {"put blob", "mark"} => blobs = <<>>
        /\ \A t \in Threads : at[t] = "take rows" => Range(blobs) \subseteq raised
        /\ \A r \in Readable : Settled(r)

(* The pointer is behind only while it is about to be written.             *)
PointerInv ==
    ~ interleaved /\ ~ statusLost /\ (\A t \in Threads : at[t] \notin {"status", "close status"})
        => status.rows = dropped.rows

TraceInv ==
    /\ TraceTyped /\ stored \subseteq blobObjects /\ Buffered(rows)
    /\ \A t \in Threads : ThreadOK(t)
    /\ BlobLossIsCounted /\ InOrderInv /\ PointerInv

(* The three unions of the properties, member by member.                   *)
LEMMA HeldIs ==
  /\ \A b : b \in HeldBlobs <=>
         b \in Range(blobs) \/ \E t \in Threads : b \in Range(job[t].pending) \cup Range(job[t].failed)
  /\ \A b : b \in HeldBlobs' <=>
         b \in Range(blobs') \/ \E t \in Threads : b \in Range(job'[t].pending) \cup Range(job'[t].failed)
BY DEF HeldBlobs

LEMMA ReferencedIs ==
  ASSUME NEW set
  PROVE  \A b : b \in Referenced(set) <=> \E r \in set : b \in Range(BlobsOf[r])
BY DEF Referenced

LEMMA ReadableIs ==
  /\ \A r : r \in Readable <=> \E o \in rowObjects : r \in Range(o.rows)
  /\ \A r : r \in Readable' <=> \E o \in rowObjects' : r \in Range(o.rows)
BY DEF Readable

(* The invariant implies the two properties of calls in order.             *)
LEMMA BlobsFirstFollows == TraceInv => BlobsGoFirst
  BY ReferencedIs DEF TraceInv, InOrderInv, BlobsGoFirst, Settled

LEMMA PointerFollows == TraceInv => PointerShowsLoss
  BY DEF TraceInv, PointerInv, PointerShowsLoss

LEMMA InitTrace == TraceInit => TraceInv
<1> SUFFICES ASSUME TraceInit PROVE TraceInv
  OBVIOUS
<1> USE DEF TraceInit, NoJob, NoRows
<1>1. TraceTyped
  <2>1. job \in [Threads -> Jobs]
    BY DEF Jobs
  <2>2. IsFiniteSet(accepted) /\ accepted \subseteq Rows
    BY FS_EmptySet
  <2>3. at \in [Threads -> Stops]
    BY DEF Stops
  <2>4. rows \in [Groups -> Seq(Rows)] /\ blobs \in Seq(Blobs)
    OBVIOUS
  <2> QED
    BY <2>1, <2>2, <2>3, <2>4 DEF TraceTyped
<1>2. stored \subseteq blobObjects /\ Buffered(rows)
  BY DEF Buffered, Range
<1>3. ASSUME NEW t \in Threads PROVE ThreadOK(t)
  BY DEF ThreadOK, Buffered, Range
<1>4. BlobLossIsCounted
  <2>1. Referenced(accepted) = {}
    BY ReferencedIs
  <2>2. Cardinality(Referenced(accepted) \ (blobObjects \cup HeldBlobs)) = 0
    BY <2>1, FS_EmptySet
  <2> QED
    BY <2>2 DEF BlobLossIsCounted
<1>5. InOrderInv
  <2>1. \A r : r \notin Readable
    BY ReadableIs
  <2> QED
    BY <2>1 DEF InOrderInv, Range
<1>6. PointerInv
  BY DEF PointerInv
<1> QED
  BY <1>1, <1>2, <1>3, <1>4, <1>5, <1>6 DEF TraceInv

(* A step that loses at most a set of blobs that is counted.               *)
LEMMA LossStep ==
  ASSUME TraceInv, NEW cut, IsFiniteSet(cut), Cardinality(cut) \in Nat,
         dropped'.blobs \in Nat, dropped.blobs + Cardinality(cut) <= dropped'.blobs,
         \A b \in Referenced(accepted') : b \in Referenced(accepted) \/ b \in blobObjects' \cup HeldBlobs',
         blobObjects \cup HeldBlobs \subseteq blobObjects' \cup HeldBlobs' \cup cut
  PROVE  BlobLossIsCounted'
<1> DEFINE lost == Referenced(accepted) \ (blobObjects \cup HeldBlobs)
           now  == Referenced(accepted') \ (blobObjects' \cup HeldBlobs')
<1>1. IsFiniteSet(lost)
  <2> DEFINE ranges == {Range(BlobsOf[r]) : r \in accepted}
             f == [r \in accepted |-> Range(BlobsOf[r])]
  <2>1. IsFiniteSet(accepted) /\ accepted \subseteq Rows
    BY DEF TraceInv, TraceTyped
  <2>2. f \in Surjection(accepted, ranges)
    BY DEF Surjection
  <2>3. IsFiniteSet(ranges)
    BY <2>1, <2>2, FS_Surjection
  <2>4. \A r \in accepted : IsFiniteSet(Range(BlobsOf[r]))
    <3> TAKE r \in accepted
    <3>1. BlobsOf[r] \in Seq(Blobs)
      BY <2>1, ConstantsAssumption
    <3> QED
      BY <3>1, RangeIsSmall
  <2>5. \A S \in ranges : IsFiniteSet(S)
    BY <2>4
  <2>6. IsFiniteSet(UNION ranges)
    BY <2>3, <2>5, FS_UNION
  <2>7. UNION ranges = Referenced(accepted)
    BY DEF Referenced
  <2> QED
    BY <2>6, <2>7, FS_Subset
<1>2. now \subseteq lost \cup cut
  OBVIOUS
<1>3. /\ IsFiniteSet(lost \cup cut)
      /\ Cardinality(lost \cup cut) = Cardinality(lost) + Cardinality(cut) - Cardinality(lost \cap cut)
  BY <1>1, FS_Union
<1>4. Cardinality(lost \cap cut) \in Nat
  BY <1>1, FS_Subset, FS_CardinalityType
<1>5. Cardinality(now) <= Cardinality(lost \cup cut) /\ IsFiniteSet(now)
  BY <1>2, <1>3, FS_Subset
<1>6. Cardinality(now) \in Nat /\ Cardinality(lost) \in Nat /\ Cardinality(lost \cup cut) \in Nat
  BY <1>1, <1>3, <1>5, FS_CardinalityType
<1>7. Cardinality(lost) <= dropped.blobs /\ dropped.blobs \in Nat
  BY DEF TraceInv, TraceTyped, BlobLossIsCounted
<1>8. Cardinality(now) <= dropped'.blobs
  <2> HIDE DEF lost, now
  <2> QED
    BY <1>3, <1>4, <1>5, <1>6, <1>7
<1> QED
  BY <1>8 DEF BlobLossIsCounted

(* A step that holds on to every blob.                                     *)
LEMMA NoLoss ==
  ASSUME TraceInv, dropped'.blobs = dropped.blobs, accepted' = accepted,
         blobObjects \cup HeldBlobs \subseteq blobObjects' \cup HeldBlobs'
  PROVE  BlobLossIsCounted'
<1>1. IsFiniteSet({}) /\ Cardinality({}) = 0
  BY FS_EmptySet
<1>2. dropped.blobs \in Nat
  BY DEF TraceInv, TraceTyped
<1> QED
  BY <1>1, <1>2, LossStep

-----------------------------------------------------------------------------
(* What a step of one thread leaves to the others.                         *)
Untouched(t) == \A u \in Threads \ {t} : at'[u] = at[u] /\ job'[u] = job[u]
Grown == blobObjects \subseteq blobObjects' /\ raised \subseteq raised' /\ accepted \subseteq accepted'

(* A thread that is alone in the sink holds the only blobs on their way.   *)
LEMMA Turn ==
  ASSUME TraceInv, NEW t \in Threads, Moves(t), ~ interleaved'
  PROVE  /\ ~ interleaved
         /\ \A u \in Threads \ {t} : at[u] = "idle" /\ job[u].rows = NoRows
         /\ \A b : b \in HeldBlobs => b \in Range(blobs) \cup Range(job[t].pending) \cup Range(job[t].failed)
<1>1. ~ interleaved /\ \A u \in Threads \ {t} : at[u] = "idle"
  BY DEF Moves
<1>2. \A u \in Threads \ {t} : job[u].pending = <<>> /\ job[u].failed = <<>> /\ job[u].rows = NoRows
  BY <1>1 DEF TraceInv, ThreadOK
<1>3. Range(<<>>) = {}
  BY DEF Range
<1> QED
  BY <1>1, <1>2, <1>3, HeldIs

LEMMA ThreadsStay ==
  ASSUME TraceInv, NEW t \in Threads, Untouched(t), Grown, ThreadOK(t)'
  PROVE  \A u \in Threads : ThreadOK(u)'
<1> SUFFICES ASSUME NEW u \in Threads, u # t PROVE ThreadOK(u)'
  OBVIOUS
<1>1. at'[u] = at[u] /\ job'[u] = job[u]
  BY DEF Untouched
<1>2. ThreadOK(u)
  BY DEF TraceInv
<1> QED
  BY <1>1, <1>2 DEF ThreadOK, Grown, Buffered

(* What is left to show of a step of t, when t is alone.                   *)
OrderedAfter(t) ==
    ~ interleaved' =>
        /\ \A g \in Groups : \A r \in Range(rows'[g]) :
              Range(BlobsOf[r]) \subseteq blobObjects' \cup raised' \cup HeldBlobs'
        /\ \A g \in Groups : \A r \in Range(job'[t].rows[g]) : Settled(r)'
        /\ at'[t] \in {"put blob", "mark"} => blobs' = <<>>
        /\ at'[t] = "take rows" => Range(blobs') \subseteq raised'
        /\ \A r \in Readable' : r \in Readable \/ Settled(r)'
PointsAfter(t) ==
    /\ statusLost => statusLost'
    /\ ~ interleaved' /\ ~ statusLost' /\ at'[t] \notin {"status", "close status"} =>
         \/ status'.rows = dropped'.rows
         \/ /\ at[t] \notin {"status", "close status"}
            /\ status'.rows = status.rows /\ dropped'.rows = dropped.rows

LEMMA OrderStays ==
  ASSUME TraceInv, NEW t \in Threads, Moves(t), Untouched(t), Grown, OrderedAfter(t)
  PROVE  InOrderInv'
<1> SUFFICES ASSUME ~ interleaved'
             PROVE  /\ \A u, v \in Threads : u # v => at'[u] = "idle" \/ at'[v] = "idle"
                    /\ \A g \in Groups : \A r \in Range(rows'[g]) :
                          Range(BlobsOf[r]) \subseteq blobObjects' \cup raised' \cup HeldBlobs'
                    /\ \A u \in Threads, g \in Groups : \A r \in Range(job'[u].rows[g]) : Settled(r)'
                    /\ \A u \in Threads : at'[u] \in {"put blob", "mark"} => blobs' = <<>>
                    /\ \A u \in Threads : at'[u] = "take rows" => Range(blobs') \subseteq raised'
                    /\ \A r \in Readable' : Settled(r)'
  BY DEF InOrderInv
<1>1. \A u \in Threads \ {t} : at'[u] = "idle" /\ job'[u].rows = NoRows
  BY Turn DEF Untouched
<1>2. ~ interleaved
  BY Turn
<1>3. \A u \in Threads, g \in Groups : \A r \in Range(job'[u].rows[g]) : Settled(r)'
  <2>1. \A u \in Threads \ {t}, g \in Groups : Range(job'[u].rows[g]) = {}
    BY <1>1 DEF NoRows, Range
  <2> QED
    BY <2>1 DEF OrderedAfter
<1>4. \A r : Settled(r) => Settled(r)'
  BY DEF Settled, Grown
<1>5. \A r \in Readable : Settled(r)
  BY <1>2 DEF TraceInv, InOrderInv
<1> QED
  BY <1>1, <1>3, <1>4, <1>5 DEF OrderedAfter

LEMMA PointerStays ==
  ASSUME TraceInv, NEW t \in Threads, Moves(t), Untouched(t), PointsAfter(t)
  PROVE  PointerInv'
<1> SUFFICES ASSUME ~ interleaved', ~ statusLost', \A u \in Threads : at'[u] \notin {"status", "close status"}
             PROVE  status'.rows = dropped'.rows
  BY DEF PointerInv
<1>1. ~ interleaved /\ \A u \in Threads \ {t} : at[u] = "idle"
  BY Turn
<1>2. CASE at[t] \notin {"status", "close status"} /\ status'.rows = status.rows /\ dropped'.rows = dropped.rows
  BY <1>1, <1>2 DEF TraceInv, PointerInv, PointsAfter
<1> QED
  BY <1>2 DEF PointsAfter

LEMMA Together ==
  ASSUME TraceInv, NEW t \in Threads, Moves(t), Untouched(t), Grown,
         TraceTyped', stored' \subseteq blobObjects', Buffered(rows)', ThreadOK(t)',
         BlobLossIsCounted', OrderedAfter(t), PointsAfter(t)
  PROVE  TraceInv'
  BY ThreadsStay, OrderStays, PointerStays DEF TraceInv

(* A step that only moves blobs.                                           *)
LEMMA BlobStep ==
  ASSUME TraceInv, NEW t \in Threads, Moves(t), Untouched(t), Grown,
         TraceTyped', stored' \subseteq blobObjects', ThreadOK(t)',
         UNCHANGED <<rows, rowObjects, dropped, status, statusLost, accepted>>,
         blobObjects \cup HeldBlobs \subseteq blobObjects' \cup HeldBlobs',
         job'[t].rows = job[t].rows,
         at[t] \notin {"status", "close status"}, at'[t] # "take rows",
         ~ interleaved' /\ at'[t] \in {"put blob", "mark"} => blobs' = <<>>
  PROVE  TraceInv'
<1>1. BlobLossIsCounted'
  BY NoLoss
<1>2. Buffered(rows)'
  BY DEF TraceInv, Buffered
<1>3. OrderedAfter(t)
  <2> SUFFICES ASSUME ~ interleaved'
               PROVE  /\ \A g \in Groups : \A r \in Range(rows'[g]) :
                            Range(BlobsOf[r]) \subseteq blobObjects' \cup raised' \cup HeldBlobs'
                      /\ \A g \in Groups : \A r \in Range(job'[t].rows[g]) : Settled(r)'
                      /\ \A r \in Readable' : r \in Readable
    BY DEF OrderedAfter
  <2>1. ~ interleaved
    BY Turn
  <2>2. \A g \in Groups : \A r \in Range(rows'[g]) :
                            Range(BlobsOf[r]) \subseteq blobObjects' \cup raised' \cup HeldBlobs'
    BY <2>1 DEF TraceInv, InOrderInv, Grown
  <2>3. \A g \in Groups : \A r \in Range(job'[t].rows[g]) : Settled(r)'
    BY <2>1 DEF TraceInv, InOrderInv, Grown, Settled
  <2> QED
    BY <2>2, <2>3, ReadableIs
<1>4. PointsAfter(t)
  BY DEF PointsAfter
<1> QED
  BY <1>1, <1>2, <1>3, <1>4, Together

(* What a step of t moves between the buffer and its job stays held,       *)
(* except for what is named as extra.                                      *)
LEMMA HeldStays ==
  ASSUME NEW t \in Threads, Untouched(t), NEW extra,
         Range(blobs) \cup Range(job[t].pending) \cup Range(job[t].failed)
            \subseteq Range(blobs') \cup Range(job'[t].pending) \cup Range(job'[t].failed) \cup extra
  PROVE  HeldBlobs \subseteq HeldBlobs' \cup extra
<1> SUFFICES ASSUME NEW b, b \in HeldBlobs, b \notin extra PROVE b \in HeldBlobs'
  OBVIOUS
<1>1. CASE b \in Range(blobs) \cup Range(job[t].pending) \cup Range(job[t].failed)
  BY <1>1, HeldIs
<1>2. CASE \E u \in Threads \ {t} : b \in Range(job[u].pending) \cup Range(job[u].failed)
  BY <1>2, HeldIs DEF Untouched
<1> QED
  BY <1>1, <1>2, HeldIs

(* The types of a thread and what it holds.                                *)
LEMMA Here ==
  ASSUME TraceInv, NEW t \in Threads
  PROVE  /\ job[t] \in Jobs /\ job[t].pending \in Seq(Blobs) /\ job[t].failed \in Seq(Blobs)
         /\ job[t].rows \in [Groups -> Seq(Rows)] /\ job[t].seqs \in [Groups -> Nat]
         /\ job[t].todo \subseteq Groups /\ job[t].work \in BOOLEAN /\ job[t].closing \in BOOLEAN
         /\ ThreadOK(t) /\ Range(<<>>) = {}
         /\ at \in [Threads -> Stops] /\ job \in [Threads -> Jobs]
  BY DEF TraceInv, TraceTyped, Jobs, Range

(* A step of t writes its place and its job, and nobody else's.            *)
LEMMA NewJob ==
  ASSUME TraceInv, NEW t \in Threads, NEW j \in Jobs, NEW s \in Stops,
         at' = [at EXCEPT ![t] = s], job' = [job EXCEPT ![t] = j]
  PROVE  /\ at' \in [Threads -> Stops] /\ job' \in [Threads -> Jobs] /\ Untouched(t)
         /\ at'[t] = s /\ job'[t] = j
  BY Here DEF Untouched

LEMMA CallFlushStep ==
  ASSUME TraceInv, NEW t \in Threads, Moves(t), NEW closing \in BOOLEAN, CallFlush(t, closing)
  PROVE  TraceInv'
<1>j. job[t] \in Jobs /\ ThreadOK(t)
  BY Here
<1> DEFINE j == [job[t] EXCEPT !.closing = closing]
<1>1. at[t] = "idle" /\ at' = [at EXCEPT ![t] = "flush"] /\ job' = [job EXCEPT ![t] = j]
  BY Here DEF CallFlush, Goto
<1>2. /\ at' \in [Threads -> Stops] /\ job' \in [Threads -> Jobs] /\ Untouched(t)
      /\ at'[t] = "flush" /\ job'[t] = j
  <2>1. j \in Jobs
    BY <1>j DEF Jobs
  <2>2. "flush" \in Stops
    BY DEF Stops
  <2> HIDE DEF j
  <2> QED
    BY <1>1, <2>1, <2>2, NewJob
<1>3. j.pending = job[t].pending /\ j.failed = job[t].failed /\ j.rows = job[t].rows /\ j.work = job[t].work
  BY <1>j DEF Jobs
<1> HIDE DEF j
<1>4. UNCHANGED <<rows, seq, blobs, stored, dropped, rowObjects, blobObjects, status, accepted, raised, statusLost>>
  BY DEF CallFlush, sink, bucket, history
<1>5. TraceTyped'
  BY <1>2, <1>4 DEF TraceInv, TraceTyped, Moves
<1>6. ThreadOK(t)'
  BY <1>1, <1>2, <1>3, <1>4, <1>j DEF ThreadOK, Buffered
<1>7. HeldBlobs \subseteq HeldBlobs' \cup {}
  BY <1>2, <1>3, <1>4, HeldStays
<1> QED
  BY <1>1, <1>2, <1>3, <1>4, <1>5, <1>6, <1>7, BlobStep DEF TraceInv, Grown

LEMMA CountBlobsStep ==
  ASSUME TraceInv, NEW t \in Threads, Moves(t), CountBlobs(t)
  PROVE  TraceInv'
<1>j. job[t] \in Jobs /\ ThreadOK(t)
  BY Here
<1> DEFINE j == [job[t] EXCEPT !.flushing = TRUE, !.work = (blobs # <<>>)]
<1>1. at[t] = "flush" /\ at' = [at EXCEPT ![t] = "take blobs"] /\ job' = [job EXCEPT ![t] = j]
  BY Here DEF CountBlobs, Goto
<1>2. /\ j \in Jobs
      /\ j.pending = job[t].pending /\ j.failed = job[t].failed /\ j.rows = job[t].rows
  <2>1. (blobs # <<>>) \in BOOLEAN
    OBVIOUS
  <2> QED
    BY <2>1, <1>j DEF Jobs
<1> HIDE DEF j
<1>3. /\ at' \in [Threads -> Stops] /\ job' \in [Threads -> Jobs] /\ Untouched(t)
      /\ at'[t] = "take blobs" /\ job'[t] = j
  <2>1. "take blobs" \in Stops
    BY DEF Stops
  <2> QED
    BY <1>1, <1>2, <2>1, NewJob
<1>4. UNCHANGED <<rows, seq, blobs, stored, dropped, rowObjects, blobObjects, status, accepted, raised, statusLost>>
  BY DEF CountBlobs, sink, bucket, history
<1>5. TraceTyped'
  BY <1>3, <1>4 DEF TraceInv, TraceTyped, Moves
<1>6. ThreadOK(t)'
  BY <1>1, <1>2, <1>3, <1>4, <1>j DEF ThreadOK, Buffered
<1>7. HeldBlobs \subseteq HeldBlobs' \cup {}
  BY <1>2, <1>3, <1>4, HeldStays
<1> QED
  BY <1>1, <1>2, <1>3, <1>4, <1>5, <1>6, <1>7, BlobStep DEF TraceInv, Grown

LEMMA TakeBlobsStep ==
  ASSUME TraceInv, NEW t \in Threads, Moves(t), TakeBlobs(t)
  PROVE  TraceInv'
<1>j. job[t] \in Jobs /\ ThreadOK(t)
  BY Here
<1> DEFINE j == [job[t] EXCEPT !.pending = blobs]
<1>1. /\ at[t] = "take blobs" /\ at' = [at EXCEPT ![t] = "put blob"] /\ job' = [job EXCEPT ![t] = j]
      /\ blobs' = <<>> /\ blobs \in Seq(Blobs)
  BY Here DEF TakeBlobs, Goto, TraceInv, TraceTyped
<1>2. /\ j \in Jobs
      /\ j.pending = blobs /\ j.failed = job[t].failed /\ j.rows = job[t].rows /\ j.work = job[t].work
  BY <1>1, <1>j DEF Jobs
<1> HIDE DEF j
<1>3. /\ at' \in [Threads -> Stops] /\ job' \in [Threads -> Jobs] /\ Untouched(t)
      /\ at'[t] = "put blob" /\ job'[t] = j
  <2>1. "put blob" \in Stops
    BY DEF Stops
  <2> QED
    BY <1>1, <1>2, <2>1, NewJob
<1>4. UNCHANGED <<rows, seq, stored, dropped, rowObjects, blobObjects, status, accepted, raised, statusLost>>
  BY DEF TakeBlobs, bucket, history
<1>5. TraceTyped'
  <2>1. <<>> \in Seq(Blobs)
    OBVIOUS
  <2>2. blobs' \in Seq(Blobs)
    BY <1>1, <2>1, Zenon
  <2> QED
    BY <1>3, <1>4, <2>2 DEF TraceInv, TraceTyped, Moves
<1>6. ThreadOK(t)'
  BY <1>1, <1>2, <1>3, <1>4, <1>j DEF ThreadOK, Buffered
<1>7. HeldBlobs \subseteq HeldBlobs' \cup {}
  <2>1. job[t].pending = <<>> /\ job[t].failed = <<>>
    BY <1>1, Here DEF ThreadOK
  <2> QED
    BY <1>2, <1>3, <2>1, Here, HeldStays
<1> QED
  BY <1>1, <1>2, <1>3, <1>4, <1>5, <1>6, <1>7, BlobStep DEF TraceInv, Grown

LEMMA MarkStoredStep ==
  ASSUME TraceInv, NEW t \in Threads, Moves(t), MarkStored(t)
  PROVE  TraceInv'
<1>j. job[t] \in Jobs /\ ThreadOK(t)
  BY Here
<1> DEFINE j == [job[t] EXCEPT !.pending = Tail(job[t].pending)]
           b == Head(job[t].pending)
<1>1. at[t] = "mark" /\ at' = [at EXCEPT ![t] = "put blob"] /\ job' = [job EXCEPT ![t] = j]
  BY Here DEF MarkStored, Goto
<1>2. /\ b \in blobObjects /\ Tail(job[t].pending) \in Seq(Blobs)
      /\ Range(job[t].pending) = {b} \cup Range(Tail(job[t].pending))
  BY <1>1, Here, RangesOf DEF ThreadOK
<1>3. /\ j \in Jobs /\ j.pending = Tail(job[t].pending)
      /\ j.failed = job[t].failed /\ j.rows = job[t].rows /\ j.work = job[t].work
  BY <1>2, <1>j DEF Jobs
<1> HIDE DEF j
<1>4. /\ at' \in [Threads -> Stops] /\ job' \in [Threads -> Jobs] /\ Untouched(t)
      /\ at'[t] = "put blob" /\ job'[t] = j
  <2>1. "put blob" \in Stops
    BY DEF Stops
  <2> QED
    BY <1>1, <1>3, <2>1, NewJob
<1>5. /\ UNCHANGED <<rows, seq, blobs, dropped, rowObjects, blobObjects, status, accepted, raised, statusLost>>
      /\ stored' = stored \cup {b}
  BY DEF MarkStored, bucket, history
<1>6. TraceTyped'
  BY <1>4, <1>5 DEF TraceInv, TraceTyped, Moves
<1>7. ThreadOK(t)'
  BY <1>1, <1>3, <1>4, <1>5, <1>j DEF ThreadOK, Buffered
<1> HIDE DEF b
<1>8. HeldBlobs \subseteq HeldBlobs' \cup {b}
  BY <1>2, <1>3, <1>4, <1>5, HeldStays
<1>9. ~ interleaved' => blobs' = <<>>
  BY <1>1, <1>5, Turn DEF TraceInv, InOrderInv
<1>10. stored' \subseteq blobObjects'
  BY <1>2, <1>5 DEF TraceInv
<1> QED
  BY <1>1, <1>2, <1>3, <1>4, <1>5, <1>6, <1>7, <1>8, <1>9, <1>10, BlobStep DEF Grown

LEMMA PutBlobStep ==
  ASSUME TraceInv, NEW t \in Threads, Moves(t), PutBlob(t)
  PROVE  TraceInv'
<1>j. job[t] \in Jobs /\ ThreadOK(t)
  BY Here
<1> DEFINE b == Head(job[t].pending)
           stays == UNCHANGED <<rows, seq, blobs, stored, dropped, rowObjects, status, accepted, statusLost>>
<1>1. at[t] = "put blob" /\ job[t].pending # <<>> /\ stays
  BY DEF PutBlob, sink
<1>2. /\ b \in Blobs /\ Tail(job[t].pending) \in Seq(Blobs)
      /\ Range(job[t].pending) = {b} \cup Range(Tail(job[t].pending))
  BY <1>1, Here, RangesOf
<1>3. ~ interleaved' => blobs' = <<>>
  BY <1>1, Turn DEF TraceInv, InOrderInv
<1>4. CASE blobObjects' = blobObjects \cup {b} /\ Goto(t, "mark") /\ UNCHANGED <<job, raised>>
  <2>1. at' = [at EXCEPT ![t] = "mark"] /\ job' = [job EXCEPT ![t] = job[t]] /\ job[t] \in Jobs
    BY <1>4, Here DEF Goto
  <2>2. /\ at' \in [Threads -> Stops] /\ job' \in [Threads -> Jobs] /\ Untouched(t)
        /\ at'[t] = "mark" /\ job'[t] = job[t]
    <3>1. "mark" \in Stops
      BY DEF Stops
    <3> QED
      BY <2>1, <3>1, NewJob
  <2>3. TraceTyped'
    BY <1>1, <2>2 DEF TraceInv, TraceTyped, Moves
  <2>4. ThreadOK(t)'
    BY <1>1, <1>4, <2>2, <1>j DEF ThreadOK, Buffered
  <2>5. HeldBlobs \subseteq HeldBlobs' \cup {}
    BY <1>1, <2>2, HeldStays
  <2> HIDE DEF b
  <2> QED
    BY <1>1, <1>3, <1>4, <2>2, <2>3, <2>4, <2>5, BlobStep DEF TraceInv, Grown
<1>5. CASE /\ blobObjects' \in {blobObjects, blobObjects \cup {b}}
           /\ job' = [job EXCEPT ![t].pending = Tail(@), ![t].failed = Append(@, b)]
           /\ raised' = raised \cup {b}
           /\ UNCHANGED at
  <2> DEFINE j == [job[t] EXCEPT !.pending = Tail(job[t].pending), !.failed = Append(job[t].failed, b)]
  <2>1. at' = [at EXCEPT ![t] = "put blob"] /\ job' = [job EXCEPT ![t] = j]
    BY <1>1, <1>5, Here
  <2>2. Append(job[t].failed, b) \in Seq(Blobs) /\ Range(Append(job[t].failed, b)) = Range(job[t].failed) \cup {b}
    BY <1>2, Here, AppendRange
  <2>3. /\ j \in Jobs /\ j.pending = Tail(job[t].pending) /\ j.failed = Append(job[t].failed, b)
        /\ j.rows = job[t].rows /\ j.work = job[t].work
    BY <1>2, <2>2, <1>j DEF Jobs
  <2> HIDE DEF j
  <2>4. /\ at' \in [Threads -> Stops] /\ job' \in [Threads -> Jobs] /\ Untouched(t)
        /\ at'[t] = "put blob" /\ job'[t] = j
    <3>1. "put blob" \in Stops
      BY DEF Stops
    <3> QED
      BY <2>1, <2>3, <3>1, NewJob
  <2> HIDE DEF b
  <2>5. TraceTyped'
    BY <1>1, <2>4 DEF TraceInv, TraceTyped, Moves
  <2>6. ThreadOK(t)'
    BY <1>1, <1>5, <2>2, <2>3, <2>4, <1>j DEF ThreadOK, Buffered
  <2>7. HeldBlobs \subseteq HeldBlobs' \cup {}
    BY <1>1, <1>2, <2>2, <2>3, <2>4, HeldStays
  <2> QED
    BY <1>1, <1>3, <1>5, <2>3, <2>4, <2>5, <2>6, <2>7, BlobStep DEF TraceInv, Grown
<1> QED
  BY <1>4, <1>5 DEF PutBlob

LEMMA AdvanceStep ==
  ASSUME TraceInv, NEW t \in Threads, Moves(t), Advance(t)
  PROVE  TraceInv'
<1>j. job[t] \in Jobs /\ ThreadOK(t)
  BY Here
<1> DEFINE j == [job[t] EXCEPT !.sent = {}]
<1>1. at[t] = "advance" /\ at' = [at EXCEPT ![t] = "put rows"] /\ job' = [job EXCEPT ![t] = j]
  BY Here DEF Advance, Goto
<1>2. /\ j \in Jobs /\ j.pending = job[t].pending
      /\ j.failed = job[t].failed /\ j.rows = job[t].rows /\ j.work = job[t].work
  BY <1>j DEF Jobs
<1> HIDE DEF j
<1>3. /\ at' \in [Threads -> Stops] /\ job' \in [Threads -> Jobs] /\ Untouched(t)
      /\ at'[t] = "put rows" /\ job'[t] = j
  <2>1. "put rows" \in Stops
    BY DEF Stops
  <2> QED
    BY <1>1, <1>2, <2>1, NewJob
<1>4. UNCHANGED <<rows, blobs, stored, dropped, rowObjects, blobObjects, status, accepted, raised, statusLost>>
  BY DEF Advance, bucket, history
<1>5. seq' \in [Groups -> Nat]
  <2>1. \A g \in Groups : job[t].seqs[g] + 1 \in Nat /\ seq[g] \in Nat
    BY Here DEF TraceInv, TraceTyped
  <2> QED
    BY <2>1 DEF Advance
<1>6. TraceTyped'
  BY <1>3, <1>4, <1>5 DEF TraceInv, TraceTyped, Moves
<1>7. ThreadOK(t)'
  BY <1>1, <1>2, <1>3, <1>4, <1>j DEF ThreadOK, Buffered
<1>8. HeldBlobs \subseteq HeldBlobs' \cup {}
  BY <1>2, <1>3, <1>4, HeldStays
<1> QED
  BY <1>1, <1>2, <1>3, <1>4, <1>6, <1>7, <1>8, BlobStep DEF TraceInv, Grown

(* What a step leaves of the order when it touches no row.                 *)
LEMMA RowsStay ==
  ASSUME TraceInv, NEW t \in Threads, Moves(t), Grown, UNCHANGED <<rows, rowObjects>>,
         blobObjects \cup HeldBlobs \subseteq blobObjects' \cup HeldBlobs',
         job'[t].rows = job[t].rows,
         ~ interleaved' /\ at'[t] \in {"put blob", "mark"} => blobs' = <<>>,
         ~ interleaved' /\ at'[t] = "take rows" => Range(blobs') \subseteq raised'
  PROVE  OrderedAfter(t)
<1> SUFFICES ASSUME ~ interleaved'
             PROVE  /\ \A g \in Groups : \A r \in Range(rows'[g]) :
                          Range(BlobsOf[r]) \subseteq blobObjects' \cup raised' \cup HeldBlobs'
                    /\ \A g \in Groups : \A r \in Range(job'[t].rows[g]) : Settled(r)'
                    /\ \A r \in Readable' : r \in Readable
  BY DEF OrderedAfter
<1>1. ~ interleaved
  BY Turn
<1>2. \A g \in Groups : \A r \in Range(rows'[g]) :
         Range(BlobsOf[r]) \subseteq blobObjects' \cup raised' \cup HeldBlobs'
  BY <1>1 DEF TraceInv, InOrderInv, Grown
<1>3. \A g \in Groups : \A r \in Range(job'[t].rows[g]) : Settled(r)'
  BY <1>1 DEF TraceInv, InOrderInv, Grown, Settled
<1> QED
  BY <1>2, <1>3, ReadableIs

(* A step that writes the pointer.                                         *)
LEMMA StatusStep ==
  ASSUME TraceInv, NEW t \in Threads, Moves(t), PutStatus(t),
         at[t] \in {"status", "close status"},
         NEW s \in {"idle", "close"}, at' = [at EXCEPT ![t] = s],
         UNCHANGED <<rows, seq, blobs, stored, dropped, rowObjects, blobObjects, job, accepted, raised>>
  PROVE  TraceInv'
<1>1. /\ at' \in [Threads -> Stops] /\ job' \in [Threads -> Jobs] /\ Untouched(t)
      /\ at'[t] = s /\ job'[t] = job[t]
  <2>1. s \in Stops /\ job' = [job EXCEPT ![t] = job[t]] /\ job[t] \in Jobs
    BY Here DEF Stops
  <2> QED
    BY <2>1, NewJob
<1>2. statusLost' \in BOOLEAN /\ (statusLost => statusLost') /\ (~ statusLost' => status' = dropped)
  BY DEF PutStatus, TraceInv, TraceTyped
<1>3. TraceTyped'
  BY <1>1, <1>2 DEF TraceInv, TraceTyped, Moves
<1>4. ThreadOK(t)'
  <2>1. ThreadOK(t)
    BY Here
  <2> QED
    BY <1>1, <2>1 DEF ThreadOK, Buffered
<1>5. HeldBlobs \subseteq HeldBlobs' \cup {}
  BY <1>1, HeldStays
<1>6. BlobLossIsCounted'
  BY <1>5, NoLoss
<1>7. Grown
  BY DEF Grown
<1>8. OrderedAfter(t)
  BY <1>1, <1>5, <1>7, RowsStay
<1>9. PointsAfter(t)
  BY <1>2 DEF PointsAfter
<1>10. stored' \subseteq blobObjects' /\ Buffered(rows)'
  BY DEF TraceInv, Buffered
<1> QED
  BY <1>1, <1>3, <1>4, <1>6, <1>7, <1>8, <1>9, <1>10, Together

LEMMA PointerSteps ==
  ASSUME TraceInv, NEW t \in Threads, Moves(t), FlushStatus(t) \/ CloseStatus(t)
  PROVE  TraceInv'
<1> DEFINE s == IF FlushStatus(t) THEN AfterFlush(t) ELSE "idle"
<1>1. s \in {"idle", "close"}
  BY DEF AfterFlush
<1>2. /\ PutStatus(t) /\ at[t] \in {"status", "close status"} /\ at' = [at EXCEPT ![t] = s]
      /\ UNCHANGED <<rows, seq, blobs, stored, dropped, rowObjects, blobObjects, job, accepted, raised>>
  BY DEF FlushStatus, CloseStatus, Goto, sink
<1> HIDE DEF s
<1> QED
  BY <1>1, <1>2, StatusStep

LEMMA CallStep ==
  ASSUME TraceInv, NEW t \in Threads, Moves(t), NEW r \in Rows, Call(t, r)
  PROVE  TraceInv'
<1> DEFINE g == GroupOf[r]
           new == Without(BlobsOf[r], stored \cup Range(blobs))
           s == IF Len(rows[g]) + 1 >= Threshold THEN "flush"
                ELSE IF blob_bytes + Bytes(new) >= BlobFlushBytes THEN "take blobs" ELSE "idle"
<1>1. /\ at[t] = "idle" /\ rows' = [rows EXCEPT ![g] = Append(rows[g], r)] /\ blobs' = blobs \o new
      /\ accepted' = accepted \cup {r} /\ at' = [at EXCEPT ![t] = s]
      /\ UNCHANGED <<seq, stored, dropped, rowObjects, blobObjects, status, job, raised, statusLost>>
  BY DEF Call, Goto, bucket, TraceInv, TraceTyped
<1>2. s \in {"flush", "take blobs", "idle"} /\ g \in Groups /\ BlobsOf[r] \in Seq(Blobs)
  BY ConstantsAssumption
<1> HIDE DEF s
<1>3. new \in Seq(Blobs) /\ Range(new) = Range(BlobsOf[r]) \ (stored \cup Range(blobs))
  BY <1>2, WithoutFacts
<1> HIDE DEF new
<1>4. blobs' \in Seq(Blobs) /\ Range(blobs') = Range(blobs) \cup Range(new)
  BY <1>1, <1>3, RangesOf DEF TraceInv, TraceTyped
<1>5. /\ at' \in [Threads -> Stops] /\ job' \in [Threads -> Jobs] /\ Untouched(t)
      /\ at'[t] = s /\ job'[t] = job[t]
  <2>1. s \in Stops /\ job' = [job EXCEPT ![t] = job[t]] /\ job[t] \in Jobs
    BY <1>1, <1>2, Here DEF Stops
  <2> QED
    BY <1>1, <2>1, NewJob
<1>6. /\ rows' \in [Groups -> Seq(Rows)]
      /\ \A h \in Groups : Range(rows'[h]) \subseteq Range(rows[h]) \cup (IF h = g THEN {r} ELSE {})
  <2>1. rows \in [Groups -> Seq(Rows)] /\ rows[g] \in Seq(Rows)
    BY <1>2 DEF TraceInv, TraceTyped
  <2>2. Append(rows[g], r) \in Seq(Rows) /\ Range(Append(rows[g], r)) = Range(rows[g]) \cup {r}
    BY <2>1, AppendRange
  <2> HIDE DEF g
  <2>3. \A h \in Groups : rows'[h] = IF h = g THEN Append(rows[g], r) ELSE rows[h]
    BY <1>1, <2>1
  <2>4. rows' \in [Groups -> Seq(Rows)]
    BY <1>1, <2>1, <2>2
  <2> QED
    BY <2>2, <2>3, <2>4
<1>7. TraceTyped'
  <2>1. accepted' \subseteq Rows /\ IsFiniteSet(accepted')
    BY <1>1, FS_AddElement DEF TraceInv, TraceTyped
  <2> QED
    BY <1>1, <1>4, <1>5, <1>6, <2>1 DEF TraceInv, TraceTyped, Moves
<1>8. Grown
  BY <1>1 DEF Grown
<1>9. Buffered(rows)'
  BY <1>1, <1>6 DEF TraceInv, Buffered
<1>10. ThreadOK(t)'
  <2>1. ThreadOK(t)
    BY Here
  <2> QED
    BY <1>1, <1>2, <1>5, <2>1 DEF ThreadOK, Buffered
<1>11. HeldBlobs \subseteq HeldBlobs' \cup {}
  BY <1>4, <1>5, HeldStays
<1>12. Range(BlobsOf[r]) \subseteq blobObjects' \cup HeldBlobs'
  <2>1. Range(BlobsOf[r]) \subseteq Range(blobs') \cup stored
    BY <1>3, <1>4
  <2>2. Range(blobs') \subseteq HeldBlobs' /\ stored \subseteq blobObjects'
    BY <1>1, HeldIs DEF TraceInv
  <2> QED
    BY <2>1, <2>2
<1>13. BlobLossIsCounted'
  <2>1. \A b \in Referenced(accepted') : b \in Referenced(accepted) \/ b \in blobObjects' \cup HeldBlobs'
    BY <1>1, <1>12, ReferencedIs
  <2>2. IsFiniteSet({}) /\ Cardinality({}) = 0
    BY FS_EmptySet
  <2>3. dropped'.blobs \in Nat /\ dropped.blobs + Cardinality({}) <= dropped'.blobs /\ Cardinality({}) \in Nat
    BY <1>1, <2>2 DEF TraceInv, TraceTyped
  <2> QED
    BY <1>1, <1>11, <2>1, <2>2, <2>3, LossStep
<1>14. OrderedAfter(t)
  <2> SUFFICES ASSUME ~ interleaved'
               PROVE  /\ \A h \in Groups : \A q \in Range(rows'[h]) :
                            Range(BlobsOf[q]) \subseteq blobObjects' \cup raised' \cup HeldBlobs'
                      /\ \A h \in Groups : \A q \in Range(job'[t].rows[h]) : Settled(q)'
                      /\ \A q \in Readable' : q \in Readable
    BY <1>2, <1>5 DEF OrderedAfter
  <2>1. ~ interleaved
    BY Turn
  <2>2. ASSUME NEW h \in Groups, NEW q \in Range(rows'[h])
        PROVE  Range(BlobsOf[q]) \subseteq blobObjects' \cup raised' \cup HeldBlobs'
    <3>1. CASE q = r
      BY <1>12, <3>1
    <3>2. CASE q \in Range(rows[h])
      BY <1>1, <1>11, <2>1, <3>2 DEF TraceInv, InOrderInv
    <3> QED
      BY <1>6, <3>1, <3>2
  <2>3. \A h \in Groups : \A q \in Range(job'[t].rows[h]) : Settled(q)'
    BY <1>1, <1>5, <2>1 DEF TraceInv, InOrderInv, Settled
  <2> QED
    BY <1>1, <2>2, <2>3, ReadableIs
<1>15. PointsAfter(t)
  BY <1>1 DEF PointsAfter
<1>16. stored' \subseteq blobObjects'
  BY <1>1 DEF TraceInv
<1> QED
  BY <1>5, <1>7, <1>8, <1>9, <1>10, <1>13, <1>14, <1>15, <1>16, Together

LEMMA RequeueBlobsStep ==
  ASSUME TraceInv, NEW t \in Threads, Moves(t), RequeueBlobs(t)
  PROVE  TraceInv'
<1> DEFINE j == [job[t] EXCEPT !.failed = <<>>]
           failed == job[t].failed
           merged == MergeBlobs(failed)
           n == BlobOverflow(merged)
           kept == SubSeq(merged, n + 1, Len(merged))
           s == IF job[t].flushing THEN "take rows" ELSE "idle"
<1>j. job[t] \in Jobs /\ ThreadOK(t) /\ failed \in Seq(Blobs) /\ Range(<<>>) = {}
  BY Here
<1>1. /\ at[t] = "put blob" /\ job[t].pending = <<>> /\ at' = [at EXCEPT ![t] = s]
      /\ job' = [job EXCEPT ![t] = j]
      /\ UNCHANGED <<rows, seq, stored, rowObjects, blobObjects, status, accepted, raised, statusLost>>
  BY Here DEF RequeueBlobs, Goto, bucket, history
<1>2. IF failed = <<>> THEN UNCHANGED <<blobs, dropped>>
      ELSE blobs' = kept /\ dropped' = [dropped EXCEPT !.blobs = @ + n]
  BY DEF RequeueBlobs
<1>3. merged \in Seq(Blobs) /\ Range(merged) = Range(failed) \cup Range(blobs)
  <2>1. blobs \in Seq(Blobs)
    BY DEF TraceInv, TraceTyped
  <2>2. Without(blobs, Range(failed)) \in Seq(Blobs)
        /\ Range(Without(blobs, Range(failed))) = Range(blobs) \ Range(failed)
    BY <2>1, WithoutFacts
  <2> QED
    BY <1>j, <2>2, RangesOf DEF MergeBlobs
<1> HIDE DEF merged
<1>4. /\ n \in Nat /\ kept \in Seq(Blobs) /\ Range(kept) \subseteq Range(merged)
      /\ \E cut : /\ IsFiniteSet(cut) /\ Cardinality(cut) \in Nat /\ Cardinality(cut) <= n
                  /\ Range(merged) \subseteq Range(kept) \cup cut
  BY <1>3, Cut
<1> HIDE DEF n, kept
<1>5. /\ j \in Jobs /\ j.pending = <<>> /\ j.failed = <<>>
      /\ j.rows = job[t].rows /\ j.work = job[t].work
  BY <1>1, <1>j DEF Jobs
<1> HIDE DEF j
<1>6. s \in {"take rows", "idle"}
  OBVIOUS
<1> HIDE DEF s
<1>7. /\ at' \in [Threads -> Stops] /\ job' \in [Threads -> Jobs] /\ Untouched(t)
      /\ at'[t] = s /\ job'[t] = j
  <2>1. s \in Stops
    BY <1>6 DEF Stops
  <2> QED
    BY <1>1, <1>5, <2>1, NewJob
<1> HIDE DEF failed
<1>8. /\ blobs' \in Seq(Blobs) /\ dropped' \in [rows : Nat, blobs : Nat] /\ dropped'.rows = dropped.rows
      /\ Range(blobs') \subseteq Range(merged)
      /\ \E cut : /\ IsFiniteSet(cut) /\ Cardinality(cut) \in Nat
                  /\ dropped.blobs + Cardinality(cut) <= dropped'.blobs
                  /\ Range(merged) \subseteq Range(blobs') \cup cut
  <2>1. blobs \in Seq(Blobs) /\ dropped \in [rows : Nat, blobs : Nat]
    BY DEF TraceInv, TraceTyped
  <2>2. CASE failed = <<>>
    <3>1. IsFiniteSet({}) /\ Cardinality({}) = 0
      BY FS_EmptySet
    <3>2. Range(merged) = Range(blobs)
      BY <1>3, <1>j, <2>2
    <3>3. dropped.blobs + Cardinality({}) <= dropped'.blobs
      BY <1>2, <2>1, <2>2, <3>1
    <3>4. Range(merged) \subseteq Range(blobs') \cup {} /\ Cardinality({}) \in Nat
      BY <1>2, <2>2, <3>1, <3>2
    <3>5. blobs' = blobs /\ dropped' = dropped
      BY <1>2, <2>2
    <3> QED
      BY <2>1, <3>1, <3>2, <3>3, <3>4, <3>5
  <2>3. CASE failed # <<>>
    <3>1. blobs' = kept /\ dropped' = [dropped EXCEPT !.blobs = @ + n]
      BY <1>2, <2>3
    <3>2. dropped' \in [rows : Nat, blobs : Nat] /\ dropped'.rows = dropped.rows /\ dropped'.blobs = dropped.blobs + n
      BY <1>4, <2>1, <3>1
    <3>3. PICK cut : /\ IsFiniteSet(cut) /\ Cardinality(cut) \in Nat /\ Cardinality(cut) <= n
                     /\ Range(merged) \subseteq Range(kept) \cup cut
      BY <1>4
    <3>4. dropped.blobs + Cardinality(cut) <= dropped'.blobs
      BY <1>4, <2>1, <3>2, <3>3
    <3> QED
      BY <1>4, <3>1, <3>2, <3>3, <3>4
  <2> QED
    BY <2>2, <2>3
<1>9. PICK cut : /\ IsFiniteSet(cut) /\ Cardinality(cut) \in Nat
                 /\ dropped.blobs + Cardinality(cut) <= dropped'.blobs
                 /\ Range(merged) \subseteq Range(blobs') \cup cut
  BY <1>8
<1>10. TraceTyped'
  BY <1>1, <1>7, <1>8 DEF TraceInv, TraceTyped, Moves
<1>11. ThreadOK(t)'
  BY <1>1, <1>5, <1>6, <1>7, <1>j DEF ThreadOK, Buffered
<1>12. HeldBlobs \subseteq HeldBlobs' \cup cut
  BY <1>1, <1>3, <1>7, <1>9, <1>j, HeldStays DEF failed
<1>13. BlobLossIsCounted'
  <2>1. dropped'.blobs \in Nat
    BY <1>8
  <2> QED
    BY <1>1, <1>9, <1>12, <2>1, LossStep
<1>14. Grown /\ stored' \subseteq blobObjects' /\ Buffered(rows)'
  BY <1>1 DEF Grown, TraceInv, Buffered
<1>15. OrderedAfter(t)
  <2> SUFFICES ASSUME ~ interleaved'
               PROVE  /\ \A g \in Groups : \A r \in Range(rows'[g]) :
                            Range(BlobsOf[r]) \subseteq blobObjects' \cup raised'
                      /\ \A g \in Groups : \A r \in Range(job'[t].rows[g]) : Settled(r)'
                      /\ Range(blobs') \subseteq raised'
                      /\ \A r \in Readable' : r \in Readable
    BY <1>6, <1>7 DEF OrderedAfter
  <2>1. ~ interleaved /\ \A b : b \in HeldBlobs => b \in Range(blobs) \cup Range(job[t].pending) \cup Range(failed)
    BY Turn DEF failed
  <2>2. blobs = <<>>
    BY <1>1, <2>1 DEF TraceInv, InOrderInv
  <2>3. Range(failed) \subseteq raised
    BY <1>j DEF ThreadOK, failed
  <2>4. HeldBlobs \subseteq raised /\ Range(blobs') \subseteq raised
    BY <1>1, <1>3, <1>8, <1>j, <2>1, <2>2, <2>3
  <2>5. \A g \in Groups : \A r \in Range(rows'[g]) : Range(BlobsOf[r]) \subseteq blobObjects' \cup raised'
    BY <1>1, <2>1, <2>4 DEF TraceInv, InOrderInv
  <2>6. \A g \in Groups : \A r \in Range(job'[t].rows[g]) : Settled(r)'
    BY <1>1, <1>5, <1>7, <2>1 DEF TraceInv, InOrderInv, Settled
  <2> QED
    BY <1>1, <2>4, <2>5, <2>6, ReadableIs
<1>16. PointsAfter(t)
  BY <1>1, <1>8 DEF PointsAfter
<1> QED
  BY <1>7, <1>10, <1>11, <1>13, <1>14, <1>15, <1>16, Together

LEMMA TakeRowsStep ==
  ASSUME TraceInv, NEW t \in Threads, Moves(t), TakeRows(t)
  PROVE  TraceInv'
<1> DEFINE taken == {g \in Groups : rows[g] # <<>>}
           seqs == [g \in Groups |-> IF g \in taken THEN seq[g] ELSE 0]
           j == [job[t] EXCEPT !.rows = rows, !.seqs = seqs, !.todo = taken, !.work = (@ \/ taken # {})]
<1>j. job[t] \in Jobs /\ ThreadOK(t) /\ Range(<<>>) = {} /\ job \in [Threads -> Jobs]
  BY Here
<1>1. /\ at[t] = "take rows" /\ at' = [at EXCEPT ![t] = "put rows"] /\ job' = [job EXCEPT ![t] = j]
      /\ rows' = NoRows
      /\ UNCHANGED <<seq, blobs, stored, dropped, rowObjects, blobObjects, status, accepted, raised, statusLost>>
  BY <1>j DEF TakeRows, Goto, bucket, history
<1>2. /\ j \in Jobs /\ j.pending = job[t].pending /\ j.failed = job[t].failed
      /\ j.rows = rows /\ (~ j.work => taken = {})
  <2>1. rows \in [Groups -> Seq(Rows)] /\ seq \in [Groups -> Nat]
    BY DEF TraceInv, TraceTyped
  <2>2. seqs \in [Groups -> Nat] /\ taken \subseteq Groups
    BY <2>1
  <2> HIDE DEF seqs, taken
  <2>3. (job[t].work \/ taken # {}) \in BOOLEAN
    OBVIOUS
  <2> QED
    BY <2>1, <2>2, <2>3, <1>j DEF Jobs
<1> HIDE DEF j
<1>3. /\ at' \in [Threads -> Stops] /\ job' \in [Threads -> Jobs] /\ Untouched(t)
      /\ at'[t] = "put rows" /\ job'[t] = j
  <2>1. "put rows" \in Stops
    BY DEF Stops
  <2> QED
    BY <1>1, <1>2, <2>1, NewJob
<1>4. rows' \in [Groups -> Seq(Rows)] /\ \A g \in Groups : Range(rows'[g]) = {}
  <2>1. \A g \in Groups : rows'[g] = <<>>
    BY <1>1 DEF NoRows
  <2>2. <<>> \in Seq(Rows)
    OBVIOUS
  <2> QED
    BY <1>1, <1>j, <2>1, <2>2 DEF NoRows
<1>5. TraceTyped'
  BY <1>1, <1>3, <1>4 DEF TraceInv, TraceTyped, Moves
<1>6. Grown /\ stored' \subseteq blobObjects' /\ Buffered(rows)'
  BY <1>1, <1>4 DEF Grown, TraceInv, Buffered
<1>7. ThreadOK(t)'
  <2>1. ~ j.work => rows = NoRows
    BY <1>2 DEF NoRows, TraceInv, TraceTyped
  <2>2. Buffered(rows)
    BY DEF TraceInv
  <2> QED
    BY <1>1, <1>2, <1>3, <1>j, <2>1, <2>2 DEF ThreadOK, Buffered
<1>8. HeldBlobs \subseteq HeldBlobs' \cup {}
  BY <1>1, <1>2, <1>3, HeldStays
<1>9. BlobLossIsCounted'
  BY <1>1, <1>8, NoLoss
<1>10. OrderedAfter(t)
  <2> SUFFICES ASSUME ~ interleaved'
               PROVE  /\ \A g \in Groups : \A r \in Range(rows[g]) : Settled(r)'
                      /\ \A r \in Readable' : r \in Readable
    BY <1>2, <1>3, <1>4 DEF OrderedAfter
  <2>1. ~ interleaved /\ \A b : b \in HeldBlobs => b \in Range(blobs) \cup Range(job[t].pending) \cup Range(job[t].failed)
    BY Turn
  <2>2. Range(blobs) \subseteq raised /\ job[t].pending = <<>> /\ job[t].failed = <<>>
    BY <1>1, <1>j, <2>1 DEF TraceInv, InOrderInv, ThreadOK
  <2>3. HeldBlobs \subseteq raised
    BY <1>j, <2>1, <2>2
  <2>4. \A g \in Groups : \A r \in Range(rows[g]) : Settled(r)'
    BY <1>1, <2>1, <2>3 DEF TraceInv, InOrderInv, Settled
  <2> QED
    BY <1>1, <2>4, ReadableIs
<1>11. PointsAfter(t)
  BY <1>1 DEF PointsAfter
<1> QED
  BY <1>3, <1>5, <1>6, <1>7, <1>9, <1>10, <1>11, Together

LEMMA PutRowsStep ==
  ASSUME TraceInv, NEW t \in Threads, Moves(t), NEW g \in Groups, PutRows(t, g)
  PROVE  TraceInv'
<1> DEFINE written == PutRowObject(g, job[t].seqs[g], job[t].rows[g])
           done == [job[t] EXCEPT !.rows = [job[t].rows EXCEPT ![g] = <<>>],
                                  !.todo = job[t].todo \ {g}, !.sent = {g}]
           gaveUp == [job[t] EXCEPT !.todo = job[t].todo \ {g}]
<1>j. /\ job[t] \in Jobs /\ ThreadOK(t) /\ Range(<<>>) = {} /\ job \in [Threads -> Jobs]
      /\ at \in [Threads -> Stops] /\ job[t].rows \in [Groups -> Seq(Rows)]
  BY Here
<1>1. /\ at[t] = "put rows" /\ rowObjects' \in {rowObjects, written}
      /\ UNCHANGED <<rows, seq, blobs, stored, dropped, blobObjects, status, accepted, raised, statusLost>>
  BY DEF PutRows, sink, history
<1>2. PICK s \in {"advance", "put rows"}, j \in {done, gaveUp} :
         at' = [at EXCEPT ![t] = s] /\ job' = [job EXCEPT ![t] = j]
  <2>1. CASE job' = [job EXCEPT ![t].rows[g] = <<>>, ![t].todo = @ \ {g}, ![t].sent = {g}] /\ Goto(t, "advance")
    BY <1>j, <2>1 DEF Goto
  <2>2. CASE job' = [job EXCEPT ![t].todo = @ \ {g}] /\ UNCHANGED at
    BY <1>1, <1>j, <2>2
  <2> QED
    BY <2>1, <2>2 DEF PutRows
<1>3. /\ j \in Jobs /\ j.pending = job[t].pending /\ j.failed = job[t].failed /\ j.work = job[t].work
      /\ j.rows \in {job[t].rows, [job[t].rows EXCEPT ![g] = <<>>]}
  <2>1. [job[t].rows EXCEPT ![g] = <<>>] \in [Groups -> Seq(Rows)]
    <3>1. <<>> \in Seq(Rows)
      BY EmptySeq
    <3> QED
      BY <1>j, <3>1
  <2>2. CASE j = done
    BY <1>j, <2>1, <2>2 DEF Jobs
  <2>3. CASE j = gaveUp
    BY <1>j, <2>3 DEF Jobs
  <2> QED
    BY <2>2, <2>3
<1> HIDE DEF done, gaveUp
<1>4. \A h \in Groups : j.rows[h] = job[t].rows[h] \/ (h = g /\ j.rows[h] = <<>>)
  BY <1>3, <1>j
<1>5. /\ at' \in [Threads -> Stops] /\ job' \in [Threads -> Jobs] /\ Untouched(t)
      /\ at'[t] = s /\ job'[t] = j
  <2>1. s \in Stops
    BY DEF Stops
  <2> QED
    BY <1>2, <1>3, <2>1, NewJob
<1>6. TraceTyped'
  BY <1>1, <1>5 DEF TraceInv, TraceTyped, Moves
<1>7. Grown /\ stored' \subseteq blobObjects' /\ Buffered(rows)'
  BY <1>1 DEF Grown, TraceInv, Buffered
<1>8. \A h \in Groups : Range(j.rows[h]) \subseteq Range(job[t].rows[h])
  BY <1>4, <1>j
<1>9. ThreadOK(t)'
  <2>1. ~ j.work => j.rows = NoRows
    <3> SUFFICES ASSUME ~ j.work PROVE j.rows = NoRows
      OBVIOUS
    <3>1. job[t].rows = NoRows
      BY <1>3, <1>j DEF ThreadOK
    <3>2. j.rows \in [Groups -> Seq(Rows)] /\ \A h \in Groups : j.rows[h] = <<>>
      BY <1>3, <1>4, <3>1 DEF NoRows, Jobs
    <3> QED
      BY <3>2 DEF NoRows
  <2>2. Buffered(j.rows)
    BY <1>8, <1>j DEF ThreadOK, Buffered
  <2> QED
    BY <1>1, <1>3, <1>5, <1>j, <2>1, <2>2 DEF ThreadOK, Buffered
<1>10. HeldBlobs \subseteq HeldBlobs' \cup {}
  BY <1>1, <1>3, <1>5, HeldStays
<1>11. BlobLossIsCounted'
  BY <1>1, <1>10, NoLoss
<1>12. OrderedAfter(t)
  <2> SUFFICES ASSUME ~ interleaved'
               PROVE  /\ \A h \in Groups : \A r \in Range(rows'[h]) :
                            Range(BlobsOf[r]) \subseteq blobObjects' \cup raised' \cup HeldBlobs'
                      /\ \A h \in Groups : \A r \in Range(job'[t].rows[h]) : Settled(r)'
                      /\ \A r \in Readable' : r \in Readable \/ Settled(r)'
    BY <1>5 DEF OrderedAfter
  <2>1. ~ interleaved
    BY Turn
  <2>2. \A h \in Groups : \A r \in Range(rows'[h]) :
           Range(BlobsOf[r]) \subseteq blobObjects' \cup raised' \cup HeldBlobs'
    BY <1>1, <1>10, <2>1 DEF TraceInv, InOrderInv
  <2>3. \A h \in Groups : \A r \in Range(job[t].rows[h]) : Settled(r)'
    BY <1>1, <2>1 DEF TraceInv, InOrderInv, Settled
  <2>4. \A o \in rowObjects' : o \in rowObjects \/ o.rows = job[t].rows[g]
    <3> TAKE o \in rowObjects'
    <3>1. o \in rowObjects \/ o \in written
      BY <1>1
    <3>2. ASSUME o = [group |-> g, seq |-> job[t].seqs[g], rows |-> job[t].rows[g]]
          PROVE  o.rows = job[t].rows[g]
      BY <3>2
    <3> QED
      BY <3>1, <3>2, Zenon DEF PutRowObject
  <2> QED
    BY <1>5, <1>8, <2>2, <2>3, <2>4, ReadableIs
<1>13. PointsAfter(t)
  BY <1>1 DEF PointsAfter
<1> QED
  BY <1>5, <1>6, <1>7, <1>9, <1>11, <1>12, <1>13, Together

(* Only the groups of accepted rows have a buffer.                         *)
LEMMA GroupsFew ==
  ASSUME TraceInv, NEW buffers \in [Groups -> Seq(Rows)], Buffered(buffers)
  PROVE  IsFiniteSet({g \in Groups : buffers[g] # <<>>})
<1> DEFINE used == {GroupOf[r] : r \in accepted}
           f == [r \in accepted |-> GroupOf[r]]
<1>1. f \in Surjection(accepted, used)
  BY DEF Surjection
<1>2. IsFiniteSet(used)
  BY <1>1, FS_Surjection DEF TraceInv, TraceTyped
<1>3. ASSUME NEW g \in Groups, buffers[g] # <<>> PROVE g \in used
  <2>1. buffers[g][1] \in Range(buffers[g])
    <3>1. buffers[g] \in Seq(Rows) /\ Len(buffers[g]) \in Nat \ {0} /\ DOMAIN buffers[g] = 1..Len(buffers[g])
      BY <1>3, EmptySeq
    <3>2. 1 \in DOMAIN buffers[g]
      BY <3>1
    <3> QED
      BY <3>2 DEF Range
  <2> QED
    BY <2>1 DEF Buffered
<1> QED
  BY <1>2, <1>3, FS_Subset

(* A finite sum of lengths, as the model counts dropped rows.              *)
LEMMA CountIs ==
  ASSUME NEW S, IsFiniteSet(S), NEW len \in [S -> Nat]
  PROVE  /\ Cardinality(UNION {{g} \X (1..len[g]) : g \in S}) \in Nat
         /\ S = {} => Cardinality(UNION {{g} \X (1..len[g]) : g \in S}) = 0
<1> DEFINE places == {{g} \X (1..len[g]) : g \in S}
           f == [g \in S |-> {g} \X (1..len[g])]
<1>1. f \in Surjection(S, places)
  BY DEF Surjection
<1>2. IsFiniteSet(places)
  BY <1>1, FS_Surjection
<1>3. ASSUME NEW g \in S PROVE IsFiniteSet({g} \X (1..len[g]))
  <2>1. IsFiniteSet({g})
    BY FS_Singleton
  <2>2. 1 \in Int /\ len[g] \in Int
    OBVIOUS
  <2>3. IsFiniteSet(1..len[g])
    BY <2>2, FS_Interval
  <2> QED
    BY <2>1, <2>3, FS_Product
<1>4. IsFiniteSet(UNION places)
  BY <1>2, <1>3, FS_UNION
<1>5. S = {} => UNION places = {}
  OBVIOUS
<1> QED
  BY <1>4, <1>5, FS_CardinalityType, FS_EmptySet

(* A thread that holds nothing.                                            *)
LEMMA NoJobTyped ==
  /\ NoRows \in [Groups -> Seq(Rows)] /\ NoJob \in Jobs
  /\ NoJob.pending = <<>> /\ NoJob.failed = <<>> /\ NoJob.rows = NoRows
<1>1. NoRows \in [Groups -> Seq(Rows)]
  BY EmptySeq DEF NoRows
<1> QED
  BY <1>1, EmptySeq DEF Jobs, NoJob

LEMMA RequeueRowsStep ==
  ASSUME TraceInv, NEW t \in Threads, Moves(t), RequeueRows(t)
  PROVE  TraceInv'
<1> DEFINE failed == {g \in Groups : job[t].rows[g] # <<>>}
           merged == [g \in failed |-> job[t].rows[g] \o rows[g]]
           over == [g \in failed |-> RowOverflow(merged[g])]
           lost == Cardinality(UNION {{g} \X (1..over[g]) : g \in failed})
           j == [NoJob EXCEPT !.closing = job[t].closing]
           s == IF job[t].work THEN "status" ELSE AfterFlush(t)
<1>j. /\ job[t] \in Jobs /\ ThreadOK(t) /\ Range(<<>>) = {} /\ job \in [Threads -> Jobs]
      /\ job[t].rows \in [Groups -> Seq(Rows)] /\ job[t].closing \in BOOLEAN /\ job[t].work \in BOOLEAN
  BY Here
<1>t. rows \in [Groups -> Seq(Rows)] /\ dropped \in [rows : Nat, blobs : Nat]
  BY DEF TraceInv, TraceTyped
<1>1. /\ at[t] = "put rows" /\ at' = [at EXCEPT ![t] = s] /\ job' = [job EXCEPT ![t] = j]
      /\ rows' = [g \in Groups |-> IF g \in failed
                                     THEN SubSeq(merged[g], RowOverflow(merged[g]) + 1, Len(merged[g]))
                                     ELSE rows[g]]
      /\ UNCHANGED <<seq, blobs, stored, rowObjects, blobObjects, status, accepted, raised, statusLost>>
  BY DEF RequeueRows, Goto, bucket, history
<1>2. dropped' = [dropped EXCEPT !.rows = @ + lost]
  <2>1. {{g} \X (1..over[g]) : g \in failed} = {{g} \X (1..RowOverflow(merged[g])) : g \in failed}
    OBVIOUS
  <2> QED
    BY <2>1 DEF RequeueRows
<1>3. \A g \in failed : /\ merged[g] \in Seq(Rows)
                        /\ Range(merged[g]) = Range(job[t].rows[g]) \cup Range(rows[g])
  <2> TAKE g \in failed
  <2>1. job[t].rows[g] \in Seq(Rows) /\ rows[g] \in Seq(Rows)
    BY <1>j, <1>t
  <2>2. merged[g] = job[t].rows[g] \o rows[g]
    OBVIOUS
  <2> HIDE DEF merged
  <2> QED
    BY <2>1, <2>2, RangesOf
<1>4. \A g \in failed : over[g] = RowOverflow(merged[g]) /\ over[g] \in 0..Len(merged[g])
  <2> TAKE g \in failed
  <2>1. RowCap \in Nat
    BY ConstantsAssumption DEF RowCap
  <2>2. over[g] = RowOverflow(merged[g])
    OBVIOUS
  <2> HIDE DEF merged, over
  <2>3. merged[g] \in Seq(Rows)
    BY <1>3
  <2>4. Len(merged[g]) \in Nat
    BY <2>3
  <2> QED
    BY <2>1, <2>2, <2>4 DEF RowOverflow
<1>5. lost \in Nat /\ (failed = {} => lost = 0)
  <2>1. IsFiniteSet(failed)
    BY <1>j, GroupsFew DEF ThreadOK
  <2>2. over \in [failed -> Nat]
    <3>1. DOMAIN over = failed /\ over = [g \in failed |-> over[g]]
      OBVIOUS
    <3> HIDE DEF merged, over, failed
    <3>2. \A g \in failed : over[g] \in Nat
      BY <1>3, <1>4
    <3> QED
      BY <3>1, <3>2
  <2> HIDE DEF over, failed
  <2> QED
    BY <2>1, <2>2, CountIs
<1> HIDE DEF lost
<1>6. /\ rows' \in [Groups -> Seq(Rows)]
      /\ \A g \in Groups : Range(rows'[g]) \subseteq Range(job[t].rows[g]) \cup Range(rows[g])
  <2>1. \A g \in failed :
           LET kept == SubSeq(merged[g], over[g] + 1, Len(merged[g]))
           IN  kept \in Seq(Rows) /\ Range(kept) \subseteq Range(merged[g])
    BY <1>3, <1>4, Suffix
  <2>2. \A g \in Groups : rows'[g] = IF g \in failed THEN SubSeq(merged[g], over[g] + 1, Len(merged[g])) ELSE rows[g]
    BY <1>1, <1>4
  <2> HIDE DEF merged, over, failed
  <2>3. \A g \in Groups : rows'[g] \in Seq(Rows)
    BY <1>t, <2>1, <2>2
  <2>4. rows' \in [Groups -> Seq(Rows)]
    BY <1>1, <2>3
  <2> QED
    BY <1>3, <2>1, <2>2, <2>4
<1>7. /\ j \in Jobs /\ j.pending = <<>> /\ j.failed = <<>> /\ j.rows = NoRows
  <2>1. NoJob \in Jobs
    BY NoJobTyped
  <2>2. j \in Jobs /\ j.pending = NoJob.pending /\ j.failed = NoJob.failed /\ j.rows = NoJob.rows
    BY <1>j, <2>1 DEF Jobs
  <2> QED
    BY <2>2, NoJobTyped
<1>8. s \in {"status", "idle", "close"} /\ (~ job[t].work => failed = {}) /\ (job[t].work => s = "status")
  BY <1>j DEF AfterFlush, ThreadOK, NoRows
<1>9. Buffered(rows)'
  BY <1>1, <1>6, <1>j DEF TraceInv, ThreadOK, Buffered
<1> HIDE DEF j, s, failed, merged, over
<1>10. /\ at' \in [Threads -> Stops] /\ job' \in [Threads -> Jobs] /\ Untouched(t)
       /\ at'[t] = s /\ job'[t] = j
  <2>1. s \in Stops
    BY <1>8 DEF Stops
  <2> QED
    BY <1>1, <1>7, <2>1, NewJob
<1>11. /\ dropped' \in [rows : Nat, blobs : Nat] /\ dropped'.blobs = dropped.blobs
       /\ dropped'.rows = dropped.rows + lost
  BY <1>2, <1>5, <1>t
<1>12. TraceTyped'
  BY <1>1, <1>6, <1>10, <1>11 DEF TraceInv, TraceTyped, Moves
<1>13. Grown /\ stored' \subseteq blobObjects'
  BY <1>1 DEF Grown, TraceInv
<1>14. ThreadOK(t)'
  <2>1. \A g \in Groups : Range(j.rows[g]) = {}
    BY <1>7, <1>j DEF NoRows
  <2> QED
    BY <1>7, <1>8, <1>10, <1>j, <2>1 DEF ThreadOK, Buffered
<1>15. HeldBlobs \subseteq HeldBlobs' \cup {} /\ job[t].pending = <<>> /\ job[t].failed = <<>>
  <2>1. job[t].pending = <<>> /\ job[t].failed = <<>>
    BY <1>1, <1>j DEF ThreadOK
  <2> QED
    BY <1>1, <1>7, <1>10, <2>1, HeldStays
<1>16. BlobLossIsCounted'
  BY <1>1, <1>11, <1>15, NoLoss
<1>17. OrderedAfter(t)
  <2> SUFFICES ASSUME ~ interleaved'
               PROVE  /\ \A g \in Groups : \A r \in Range(rows'[g]) :
                            Range(BlobsOf[r]) \subseteq blobObjects' \cup raised' \cup HeldBlobs'
                      /\ \A g \in Groups : \A r \in Range(job'[t].rows[g]) : Settled(r)'
                      /\ \A r \in Readable' : r \in Readable
    BY <1>8, <1>10 DEF OrderedAfter
  <2>1. ~ interleaved
    BY Turn
  <2>2. \A g \in Groups : \A r \in Range(rows[g]) :
           Range(BlobsOf[r]) \subseteq blobObjects' \cup raised' \cup HeldBlobs'
    BY <1>1, <1>15, <2>1 DEF TraceInv, InOrderInv
  <2>3. \A g \in Groups : \A r \in Range(job[t].rows[g]) :
           Range(BlobsOf[r]) \subseteq blobObjects' \cup raised' \cup HeldBlobs'
    BY <1>1, <2>1 DEF TraceInv, InOrderInv, Settled
  <2>4. \A g \in Groups : Range(job'[t].rows[g]) = {}
    BY <1>7, <1>10, <1>j DEF NoRows
  <2> QED
    BY <1>1, <1>6, <2>2, <2>3, <2>4, ReadableIs
<1>18. PointsAfter(t)
  <2>1. CASE job[t].work
    BY <1>1, <1>8, <1>10, <2>1 DEF PointsAfter
  <2>2. CASE ~ job[t].work
    <3>1. dropped'.rows = dropped.rows
      BY <1>5, <1>8, <1>11, <1>t, <2>2
    <3> QED
      BY <1>1, <3>1 DEF PointsAfter
  <2> QED
    BY <2>1, <2>2
<1> QED
  BY <1>9, <1>10, <1>12, <1>13, <1>14, <1>16, <1>17, <1>18, Together

LEMMA CloseStep ==
  ASSUME TraceInv, NEW t \in Threads, Moves(t), Close(t)
  PROVE  TraceInv'
<1> DEFINE count == Cardinality(UNION {{g} \X DOMAIN rows[g] : g \in Groups})
           s == IF count + Len(blobs) > 0 THEN "close status" ELSE "idle"
<1>j. ThreadOK(t) /\ Range(<<>>) = {} /\ NoRows \in [Groups -> Seq(Rows)] /\ NoJob \in Jobs
  BY Here, NoJobTyped
<1>t. rows \in [Groups -> Seq(Rows)] /\ blobs \in Seq(Blobs) /\ dropped \in [rows : Nat, blobs : Nat]
  BY DEF TraceInv, TraceTyped
<1>1. /\ at[t] = "close" /\ at' = [at EXCEPT ![t] = s] /\ job' = [job EXCEPT ![t] = NoJob]
      /\ rows' = NoRows /\ blobs' = <<>>
      /\ dropped' = [rows |-> dropped.rows + count, blobs |-> dropped.blobs + Len(blobs)]
      /\ UNCHANGED <<seq, stored, rowObjects, blobObjects, status, accepted, raised, statusLost>>
  BY DEF Close, Goto, bucket, history
<1>2. count \in Nat /\ Len(blobs) \in Nat
  <2> DEFINE some == {g \in Groups : rows[g] # <<>>}
             len == [g \in some |-> Len(rows[g])]
  <2>1. IsFiniteSet(some)
    BY <1>t, GroupsFew DEF TraceInv
  <2>2. len \in [some -> Nat]
    BY <1>t
  <2>3. UNION {{g} \X DOMAIN rows[g] : g \in Groups} = UNION {{g} \X (1..len[g]) : g \in some}
    <3>1. \A g \in some : DOMAIN rows[g] = 1..len[g]
      BY <1>t
    <3>2. \A g \in Groups \ some : DOMAIN rows[g] = {}
      BY <1>t
    <3> HIDE DEF len
    <3> QED
      BY <3>1, <3>2
  <2>4. Cardinality(UNION {{g} \X (1..len[g]) : g \in some}) \in Nat
    <3> HIDE DEF some, len
    <3> QED
      BY <2>1, <2>2, CountIs
  <2>5. Len(blobs) \in Nat
    BY <1>t
  <2> QED
    BY <2>3, <2>4, <2>5, Zenon
<1> HIDE DEF count
<1>3. s \in {"close status", "idle"} /\ (s = "idle" => count = 0)
  BY <1>2
<1> HIDE DEF s
<1>4. /\ at' \in [Threads -> Stops] /\ job' \in [Threads -> Jobs] /\ Untouched(t)
      /\ at'[t] = s /\ job'[t] = NoJob
  <2>1. s \in Stops
    BY <1>3 DEF Stops
  <2> QED
    BY <1>1, <1>j, <2>1, NewJob
<1>5. /\ dropped' \in [rows : Nat, blobs : Nat] /\ dropped'.rows = dropped.rows + count
      /\ dropped'.blobs = dropped.blobs + Len(blobs)
  BY <1>1, <1>2, <1>t
<1>6. TraceTyped'
  <2>1. blobs' \in Seq(Blobs) /\ rows' \in [Groups -> Seq(Rows)]
    BY <1>1, <1>j, EmptySeq
  <2> QED
    BY <1>1, <1>4, <1>5, <2>1 DEF TraceInv, TraceTyped, Moves
<1>7. \A g \in Groups : Range(NoRows[g]) = {}
  BY <1>j DEF NoRows
<1>8. Grown /\ stored' \subseteq blobObjects' /\ Buffered(rows)'
  BY <1>1, <1>7 DEF Grown, TraceInv, Buffered
<1>9. NoJob.pending = <<>> /\ NoJob.failed = <<>> /\ NoJob.rows = NoRows
  BY NoJobTyped
<1>10. ThreadOK(t)'
  BY <1>3, <1>4, <1>7, <1>9, <1>j DEF ThreadOK, Buffered
<1>11. HeldBlobs \subseteq HeldBlobs' \cup Range(blobs)
  <2>1. job[t].pending = <<>> /\ job[t].failed = <<>>
    BY <1>1, <1>j DEF ThreadOK
  <2> QED
    BY <1>4, <1>j, <2>1, HeldStays
<1>12. BlobLossIsCounted'
  <2>1. /\ IsFiniteSet(Range(blobs)) /\ Cardinality(Range(blobs)) <= Len(blobs)
        /\ Cardinality(Range(blobs)) \in Nat
    BY <1>t, RangeIsSmall
  <2>2. dropped'.blobs \in Nat /\ dropped.blobs + Cardinality(Range(blobs)) <= dropped'.blobs
    BY <1>2, <1>5, <1>t, <2>1
  <2> QED
    BY <1>1, <1>11, <2>1, <2>2, LossStep
<1>13. OrderedAfter(t)
  <2>1. \A r \in Readable' : r \in Readable
    BY <1>1, ReadableIs
  <2> QED
    BY <1>1, <1>3, <1>4, <1>7, <1>9, <2>1 DEF OrderedAfter
<1>14. PointsAfter(t)
  <2>1. CASE s = "close status"
    BY <1>1, <1>4, <2>1 DEF PointsAfter
  <2>2. CASE s = "idle"
    <3>1. dropped'.rows = dropped.rows
      BY <1>3, <1>5, <1>t, <2>2
    <3> QED
      BY <1>1, <3>1 DEF PointsAfter
  <2> QED
    BY <1>3, <2>1, <2>2
<1> QED
  BY <1>4, <1>6, <1>8, <1>10, <1>12, <1>13, <1>14, Together

LEMMA TraceStep == TraceInv /\ [TraceNext]_traceVars => TraceInv'
<1> SUFFICES ASSUME TraceInv, [TraceNext]_traceVars PROVE TraceInv'
  OBVIOUS
<1>1. ASSUME NEW t \in Threads, Step(t), Moves(t) PROVE TraceInv'
  <2>1. CASE \E r \in Rows : Call(t, r)
    BY <1>1, <2>1, CallStep
  <2>2. CASE \E closing \in BOOLEAN : CallFlush(t, closing)
    BY <1>1, <2>2, CallFlushStep
  <2>3. CASE CountBlobs(t)
    BY <1>1, <2>3, CountBlobsStep
  <2>4. CASE TakeBlobs(t)
    BY <1>1, <2>4, TakeBlobsStep
  <2>5. CASE PutBlob(t)
    BY <1>1, <2>5, PutBlobStep
  <2>6. CASE MarkStored(t)
    BY <1>1, <2>6, MarkStoredStep
  <2>7. CASE RequeueBlobs(t)
    BY <1>1, <2>7, RequeueBlobsStep
  <2>8. CASE TakeRows(t)
    BY <1>1, <2>8, TakeRowsStep
  <2>9. CASE \E g \in Groups : PutRows(t, g)
    BY <1>1, <2>9, PutRowsStep
  <2>10. CASE Advance(t)
    BY <1>1, <2>10, AdvanceStep
  <2>11. CASE RequeueRows(t)
    BY <1>1, <2>11, RequeueRowsStep
  <2>12. CASE FlushStatus(t) \/ CloseStatus(t)
    BY <1>1, <2>12, PointerSteps
  <2>13. CASE Close(t)
    BY <1>1, <2>13, CloseStep
  <2> QED
    BY <1>1, <2>1, <2>2, <2>3, <2>4, <2>5, <2>6, <2>7, <2>8, <2>9, <2>10, <2>11, <2>12, <2>13 DEF Step
<1>2. CASE UNCHANGED traceVars
  <2> USE <1>2 DEF traceVars, sink, bucket, history
  <2>1. TraceTyped' /\ stored' \subseteq blobObjects' /\ Buffered(rows)'
    BY DEF TraceInv, TraceTyped, Buffered
  <2>2. ASSUME NEW t \in Threads PROVE ThreadOK(t)'
    <3>1. ThreadOK(t)
      BY DEF TraceInv
    <3> QED
      BY <3>1 DEF ThreadOK, Buffered
  <2>3. HeldBlobs' = HeldBlobs /\ Readable' = Readable /\ Referenced(accepted)' = Referenced(accepted)
    BY DEF HeldBlobs, Readable, Referenced
  <2>4. BlobLossIsCounted'
    BY <2>3 DEF TraceInv, BlobLossIsCounted
  <2>5. InOrderInv' /\ PointerInv'
    BY <2>3 DEF TraceInv, InOrderInv, PointerInv, Settled
  <2> QED
    BY <2>1, <2>4, <2>5, <2>2 DEF TraceInv
<1> QED
  BY <1>1, <1>2 DEF TraceNext

(* The inductive invariant, for any threads, rows, groups, blobs, sizes,   *)
(* thresholds and faults of the trace sink.                                *)
THEOREM TraceInvariant == TraceSpec => []TraceInv
  BY InitTrace, TraceStep, PTL DEF TraceSpec

(* However the calls, flushes and closes of any number of threads          *)
(* interleave, a blob of an accepted row is in the bucket, held, or        *)
(* counted as dropped: _stored and _blobs never make __call__ skip a blob  *)
(* that is neither.                                                        *)
THEOREM BlobLossesAreCounted == TraceSpec => []BlobLossIsCounted
<1>1. TraceInv => BlobLossIsCounted
  BY DEF TraceInv
<1> QED
  BY <1>1, TraceInvariant, PTL

(* Calls that do not overlap write the blobs of a row before the row can   *)
(* be read (flush: "blobs go first"), unless a PUT of the blob raised.     *)
THEOREM BlobsLeadRows == TraceSpec => []BlobsGoFirst
  BY BlobsFirstFollows, TraceInvariant, PTL

(* Calls that do not overlap leave the status pointer with the rows that   *)
(* were dropped, by flush's requeue and by close alike, unless a PUT of    *)
(* the pointer itself raised.                                              *)
THEOREM PointersShowLosses == TraceSpec => []PointerShowsLoss
  BY PointerFollows, TraceInvariant, PTL
=============================================================================
