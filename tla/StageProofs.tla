----------------------------- MODULE StageProofs -----------------------------
(***************************************************************************)
(* Work on a box: how the box is launched, and how a command is run on it. *)
(*                                                                         *)
(* The first half is about RemoteCommand: a stage that succeeds has run    *)
(* its script to a Success, its log has all that its launcher printed, and *)
(* a kill is named, for any script and codes and whatever is left behind.  *)
(* The invariant says what the capture, the launcher and the dispatcher    *)
(* know of one another; the pipe is why each of its parts is needed.       *)
(*                                                                         *)
(* The second half is about SpotLaunch: launch_self_starting's guarantees  *)
(* for any number of deliveries and of pools.  Its invariant says that     *)
(* while the lookups are sound nobody launches next to an existing box,    *)
(* how far a rotation has come, and which boxes an invocation can own.     *)
(***************************************************************************)
EXTENDS SpotLaunch, RemoteCommand, WellFoundedInduction, SequenceTheorems, TLAPS

\* What is read and printed is made of pieces, what the script wrote of lines.
StageTypeOK ==
  /\ pipe \in Seq(Piece) /\ log \in Seq(Piece) /\ printed \in Seq(Piece)
  /\ remote \in Seq(Lines) /\ remote_tail \in Seq(Lines) /\ reply.std_out \in Seq(Lines)
  /\ last_out_len \in Nat

\* The launcher exits once its dispatcher has returned, with its answer.
LauncherInv ==
  /\ child \in {"none", "running", "exited"}
  /\ child = "running" => "child" \in holders
  /\ child = "none" => cpc \in {"start", "report", "ship", "done"} /\ dpc = "send" /\ verdict = "none" /\ printed = <<>>
  /\ child = "exited" => dpc = "done" /\ child_code = answer
  /\ cpc = "start" => child = "none"

\* A piece that ends a line naming a kill that is not the workload's own logger's.
NamesKill(pieces, i) ==
  pieces[i].ends /\ "timeout" \in pieces[i].text /\ "logger" \notin LineSoFar(pieces, i)

\* A dispatcher answers 0 only for a Success, and 1 for a kill, which its
\* output names.
DispatchInv ==
  /\ dpc = "send" => status = "none"
  /\ dpc = "recover" => status = "Success"
  /\ status = "Success" => code = 0
  /\ answer = 0 => status = "Success" /\ dpc = "done"
  /\ verdict # "none" => answer = 1 /\ dpc = "done"
  /\ verdict # "none" /\ ~ glued => \E i \in DOMAIN printed : NamesKill(printed, i)

\* What was printed has been read or is in the pipe; the capture goes on from
\* its reading only when the pipe is drained and nobody will print any more.
Over == {"wait", "kill", "report", "ship", "done"}
CaptureInv ==
  /\ ~ faulted => log \o pipe = printed
  /\ quiet # NotQuiet => child = "exited"
  /\ cpc = "poll" /\ quiet # NotQuiet => pipe = <<>>
  /\ cpc \in Over /\ ~ faulted => pipe = <<>> /\ child # "running"
  /\ exit_code = 0 => child = "exited" /\ child_code = 0
  /\ cpc \in Over \ {"wait"} /\ ~ faulted /\ child = "exited" => exit_code = child_code

\* What the stage says of a failure is what its code and its log say.
Verdict == Classify(exit_code, "", FindKillLine(LinesOf(log)), Reading(LinesOf(log)))
NamedInv == cpc \in {"ship", "done"} /\ exit_code # 0 => named = Verdict

StageInv == StageTypeOK /\ LauncherInv /\ DispatchInv /\ CaptureInv /\ NamedInv
\* A set of places in a text has a last one, and Max is it.
LEMMA LastPlace ==
  ASSUME NEW n \in Nat, NEW places \in SUBSET (1..n), places # {}
  PROVE  Max(places) \in places /\ \A i \in places : Max(places) >= i
<1> DEFINE fromEnd == {m \in Nat : n - m \in places}
<1>1. PICK i \in places : TRUE
  OBVIOUS
<1>2. n - i \in fromEnd
  BY <1>1
<1>3. PICK m \in fromEnd : \A k \in fromEnd : ~ (<<k, m>> \in OpToRel(<, Nat))
  BY <1>2, WFMin, NatLessThanWellFounded, Zenon
<1>4. \A k \in fromEnd : ~ (k < m)
  BY <1>3, Zenon DEF OpToRel
<1>5. ASSUME NEW j \in places PROVE n - m >= j
  <2>1. n - j \in fromEnd
    OBVIOUS
  <2> QED
    BY <1>4, <2>1
<1>6. n - m \in places
  OBVIOUS
<1> QED
  BY <1>5, <1>6 DEF Max

LEMMA KillLineShaped ==
  ASSUME NEW text \in Seq(Lines), NEW i \in DOMAIN text, KillShaped(text[i])
  PROVE  FindKillLine(text) \in Lines /\ KillShaped(FindKillLine(text))
<1> DEFINE places == {j \in DOMAIN text : KillShaped(text[j])}
<1>1. places \in SUBSET (1..Len(text)) /\ places # {} /\ Len(text) \in Nat
  OBVIOUS
<1>2. Max(places) \in places
  BY <1>1, LastPlace
<1> HIDE DEF places
<1>3. FindKillLine(text) = text[Max(places)]
  BY <1>1 DEF FindKillLine, Latest, places
<1> QED
  BY <1>2, <1>3 DEF places

-----------------------------------------------------------------------------
LEMMA Regroup ==
  ASSUME NEW a \in Seq(Piece), NEW b \in Seq(Piece), NEW c \in Seq(Piece)
  PROVE  a \o (b \o c) = (a \o b) \o c
  OBVIOUS
LEMMA Prefixed ==
  ASSUME NEW first \in Lines, NEW rest \in Seq(Lines)
  PROVE  LET text == <<first>> \o rest IN text \in Seq(Lines) /\ Len(text) \in Nat \ {0} /\ text[1] = first
  OBVIOUS

\* The lines of a stream, one for each of its pieces.
LEMMA LinesTyped ==
  ASSUME NEW pieces \in Seq(Piece)
  PROVE  LinesOf(pieces) \in Seq(Lines) /\ DOMAIN LinesOf(pieces) = DOMAIN pieces
<1>1. ASSUME NEW i \in DOMAIN pieces PROVE LinesOf(pieces)[i] \in Lines
  <2>1. \A j \in SameLine(pieces, i) : pieces[j].text \subseteq Tokens
    <3> SUFFICES ASSUME NEW j \in SameLine(pieces, i) PROVE pieces[j].text \subseteq Tokens
      OBVIOUS
    <3>1. j \in 1..Len(pieces)
      BY DEF SameLine
    <3>2. pieces[j] \in Piece
      BY <3>1
    <3> QED
      BY <3>2 DEF Piece, Lines
  <2>2. LineSoFar(pieces, i) \subseteq Tokens
    BY <2>1, Zenon DEF LineSoFar
  <2> QED
    BY <2>2 DEF LinesOf, Lines
<1>2. LinesOf(pieces) \in [1..Len(pieces) -> Lines]
  BY <1>1 DEF LinesOf
<1> QED
  BY <1>2 DEF LinesOf

LEMMA NamedLine ==
  ASSUME NEW pieces \in Seq(Piece), NEW i \in DOMAIN pieces, NamesKill(pieces, i)
  PROVE  KillShaped(LinesOf(pieces)[i])
<1>1. i \in SameLine(pieces, i)
  BY DEF SameLine
<1>2. "timeout" \in LineSoFar(pieces, i)
  BY <1>1, Zenon DEF LineSoFar, NamesKill
<1>3. LinesOf(pieces)[i] = LineSoFar(pieces, i)
  BY DEF LinesOf, NamesKill
<1> QED
  BY <1>2, <1>3 DEF KillShaped, NamesKill

\* The dispatcher's instance has its own copy of what is said of lines.
LEMMA SameWords ==
  /\ Dispatch!Lines = Lines
  /\ \A pieces, i : Dispatch!LineSoFar(pieces, i) = LineSoFar(pieces, i)
  BY Zenon DEF Dispatch!Lines, Dispatch!Tokens, Lines, Tokens, Dispatch!LineSoFar, LineSoFar, Dispatch!SameLine, SameLine

LEMMA PiecesTyped ==
  ASSUME NEW lines \in Seq(Lines)
  PROVE  /\ Dispatch!AsPieces(lines) \in Seq(Piece)
         /\ Len(Dispatch!AsPieces(lines)) = Len(lines)
         /\ \A i \in 1..Len(lines) : Dispatch!AsPieces(lines)[i] = [text |-> lines[i], ends |-> TRUE]
<1>1. Dispatch!AsPieces(lines) \in [1..Len(lines) -> Piece]
  BY DEF Dispatch!AsPieces, Piece
<1> QED
  BY <1>1 DEF Dispatch!AsPieces

LEMMA OnePiece ==
  ASSUME NEW line \in Lines, NEW ends \in BOOLEAN
  PROVE  <<[text |-> line, ends |-> ends]>> \in Seq(Piece)
  BY DEF Piece

LEMMA NoLines == <<>> \in Seq(Lines) /\ <<>> \in Seq(Piece) /\ Dispatch!NoReply.std_out \in Seq(Lines)
  BY DEF Dispatch!NoReply

LEMMA InitStage == StageInit => StageInv
<1> SUFFICES ASSUME StageInit PROVE StageInv
  OBVIOUS
<1> USE DEF StageInit, CaptureInit, Dispatch!DispatchInit
<1>1. StageTypeOK
  BY NoLines DEF StageTypeOK
<1>2. LauncherInv /\ DispatchInv
  BY DEF LauncherInv, DispatchInv, Dispatch!NoCode
<1>3. CaptureInv
  BY DEF CaptureInv, NotQuiet, Over
<1>4. NamedInv
  BY DEF NamedInv
<1> QED
  BY <1>1, <1>2, <1>3, <1>4 DEF StageInv

LEMMA VerdictStays == ASSUME UNCHANGED <<exit_code, log>> PROVE Verdict' = Verdict
  BY DEF Verdict
LEMMA NamedStays ==
  ASSUME NamedInv, UNCHANGED <<exit_code, log, named>>, cpc' \in {"ship", "done"} => cpc \in {"ship", "done"}
  PROVE  NamedInv'
  BY VerdictStays DEF NamedInv

\* What a step of the dispatcher prints is in the pipe behind the rest.
LEMMA PrintedIsPiped ==
  ASSUME StageTypeOK, log \o pipe = printed, NEW pieces \in Seq(Piece), Dispatch!Write(pieces)
  PROVE  log \o pipe' = printed' /\ pipe' \in Seq(Piece) /\ printed' \in Seq(Piece)
<1>1. pipe \in Seq(Piece) /\ log \in Seq(Piece) /\ printed \in Seq(Piece)
  BY DEF StageTypeOK
<1>2. log \o (pipe \o pieces) = (log \o pipe) \o pieces
  BY <1>1, Regroup
<1>3. pipe' = pipe \o pieces /\ printed' = printed \o pieces
  BY DEF Dispatch!Write
<1>4. pipe \o pieces \in Seq(Piece) /\ printed \o pieces \in Seq(Piece)
  BY <1>1, ConcatProperties
<1> QED
  BY <1>2, <1>3, <1>4

\* A step of the dispatcher, which runs while its launcher does, leaves the
\* launcher and the capture as they are.
LEMMA DispatcherStep ==
  ASSUME StageInv, child = "running", UNCHANGED <<noise, holders, child, child_code, capture, beats>>,
         StageTypeOK', DispatchInv',
         \/ UNCHANGED <<pipe, printed>>
         \/ \E pieces \in Seq(Piece) : Dispatch!Write(pieces)
  PROVE  StageInv'
<1>1. LauncherInv'
  BY DEF StageInv, LauncherInv, capture
<1>2. ~ faulted => log \o pipe' = printed'
  BY PrintedIsPiped DEF StageInv, CaptureInv
<1>3. CaptureInv'
  BY <1>2 DEF StageInv, CaptureInv, capture, result, Over
<1>4. NamedInv'
  BY NamedStays DEF StageInv, capture, result
<1> QED
  BY <1>1, <1>3, <1>4 DEF StageInv

\* What a step that prints nothing and takes no output in leaves behind.
LEMMA QuietTypes ==
  ASSUME StageTypeOK, UNCHANGED <<capture, remote, pipe, printed>>, reply' \in {reply, Dispatch!NoReply},
         remote_tail' \in Seq(Lines), last_out_len' \in {last_out_len, 0}
  PROVE  StageTypeOK'
<1>1. CASE reply' = reply
  BY <1>1 DEF StageTypeOK, capture
<1>2. CASE reply' = Dispatch!NoReply
  BY <1>2, NoLines DEF StageTypeOK, capture
<1> QED
  BY <1>1, <1>2

LEMMA SendCommandStage == ASSUME StageInv, SendCommand PROVE StageInv'
<1> USE DEF SendCommand, DispatcherRuns, Dispatch!SendCommand, Dispatch!Return, Dispatch!GoOn, Dispatch!output
<1>1. remote_tail' \in Seq(Lines)
  BY NoLines DEF StageInv, StageTypeOK
<1>2. StageTypeOK'
  BY <1>1, QuietTypes DEF StageInv
<1>3. DispatchInv'
  BY DEF StageInv, DispatchInv
<1> QED
  BY <1>2, <1>3, DispatcherStep

LEMMA PollFailsStage == ASSUME StageInv, PollFails PROVE StageInv'
<1> USE DEF PollFails, DispatcherRuns, Dispatch!PollFails, Dispatch!Return, Dispatch!GoOn, Dispatch!output,
            Dispatch!box
<1>1. remote_tail' \in Seq(Lines)
  BY NoLines DEF StageInv, StageTypeOK
<1>2. StageTypeOK'
  BY <1>1, QuietTypes DEF StageInv
<1>3. DispatchInv'
  BY DEF StageInv, DispatchInv
<1> QED
  BY <1>2, <1>3, DispatcherStep

\* What a reply may have passed on.
LEMMA StreamTyped ==
  ASSUME StageTypeOK, NEW n \in 0..Dispatch!Shown, NEW part \in Dispatch!Parts(n)
  PROVE  Dispatch!StdOut(n, part) \in Seq(Lines) /\ \A pieces \in Dispatch!Streamed(n, part) : pieces \in Seq(Piece)
<1>1. remote \in Seq(Lines) /\ last_out_len \in Nat /\ InlineCap \in Nat
  BY ScriptAssumption DEF StageTypeOK, Dispatch!DispatchConstants
<1>2. n \in Nat /\ n <= 2 * Len(remote)
  BY <1>1 DEF Dispatch!Shown, Dispatch!Written
<1>3. \A k \in Nat : Dispatch!InLine(k) /\ k <= 2 * Len(remote) => k \div 2 + 1 \in 1..Len(remote)
  BY <1>1 DEF Dispatch!InLine
<1>4. \A k \in 1..Len(remote) : \A s \in SUBSET remote[k] : s \in Lines
  <2> SUFFICES ASSUME NEW k \in 1..Len(remote) PROVE \A s \in SUBSET remote[k] : s \in Lines
    OBVIOUS
  <2>1. remote[k] \in Lines
    BY <1>1
  <2> QED
    BY <2>1 DEF Lines
<1>5. part \in Lines
  <2>1. CASE Dispatch!InLine(n)
    BY <1>2, <1>3, <1>4, <2>1 DEF Dispatch!Parts
  <2>2. CASE ~ Dispatch!InLine(n)
    BY <2>2 DEF Dispatch!Parts, Lines
  <2> QED
    BY <2>1, <2>2
<1>6. \A a, b \in Nat : b <= Len(remote) => SubSeq(remote, a + 1, b) \in Seq(Lines)
  BY <1>1, SubSeqProperties
<1>7. n \div 2 \in Nat /\ n \div 2 <= Len(remote)
  BY <1>1, <1>2
<1>8. Dispatch!StdOut(n, part) \in Seq(Lines)
  <2>1. SubSeq(remote, 1, n \div 2) \in Seq(Lines)
    BY <1>6, <1>7
  <2>2. (IF Dispatch!InLine(n) THEN <<part>> ELSE <<>>) \in Seq(Lines)
    BY <1>5
  <2> QED
    BY <2>1, <2>2, ConcatProperties DEF Dispatch!StdOut
<1>9. ASSUME n > last_out_len, NEW rest \in Dispatch!Rests(last_out_len)
      PROVE  Dispatch!Delta(last_out_len, n, rest, part) \in Seq(Piece)
  <2>1. rest \in Lines
    <3>1. CASE Dispatch!InLine(last_out_len)
      <4>1. last_out_len \div 2 + 1 \in 1..Len(remote)
        BY <1>1, <1>2, <1>3, <1>9, <3>1
      <4>2. rest \in SUBSET remote[last_out_len \div 2 + 1]
        BY <1>9, <3>1 DEF Dispatch!Rests
      <4> QED
        BY <1>4, <4>1, <4>2
    <3>2. CASE ~ Dispatch!InLine(last_out_len)
      BY <1>9, <3>2 DEF Dispatch!Rests, Lines
    <3> QED
      BY <3>1, <3>2
  <2>2. (IF Dispatch!InLine(last_out_len) THEN <<[text |-> rest, ends |-> TRUE]>> ELSE <<>>) \in Seq(Piece)
    BY <2>1, OnePiece, NoLines
  <2>3. (IF Dispatch!InLine(n) THEN <<[text |-> part, ends |-> FALSE]>> ELSE <<>>) \in Seq(Piece)
    BY <1>5, OnePiece, NoLines
  <2>4. Dispatch!AsPieces(SubSeq(remote, (last_out_len + 1) \div 2 + 1, n \div 2)) \in Seq(Piece)
    <3>1. (last_out_len + 1) \div 2 \in Nat
      BY <1>1
    <3>2. SubSeq(remote, (last_out_len + 1) \div 2 + 1, n \div 2) \in Seq(Lines)
      BY <1>6, <1>7, <3>1
    <3> QED
      BY <3>2, PiecesTyped
  <2> QED
    BY <2>2, <2>3, <2>4, ConcatProperties DEF Dispatch!Delta
<1>10. Dispatch!CapNote \in Seq(Piece)
  <2>1. {} \in Lines
    BY DEF Lines
  <2> QED
    BY <2>1, OnePiece DEF Dispatch!CapNote
<1> QED
  BY <1>8, <1>9, <1>10, NoLines DEF Dispatch!Streamed

LEMMA PollAnswersStage == ASSUME StageInv, PollAnswers PROVE StageInv'
<1> DEFINE next(n, part) == Dispatch!NextStep(status, Dispatch!StdOut(n, part))
<1>1. PICK n \in 0..Dispatch!Shown : \E part \in Dispatch!Parts(n) :
        /\ \E pieces \in Dispatch!Streamed(n, part) : Dispatch!Write(pieces)
        /\ IF next(n, part) = "done" THEN Dispatch!Return(IF status = "Success" THEN 0 ELSE 1)
           ELSE /\ Dispatch!GoOn(next(n, part))
                /\ last_out_len' = n
                /\ reply' = IF next(n, part) # "tail" THEN Dispatch!NoReply
                            ELSE [status |-> status, code |-> code, std_out |-> Dispatch!StdOut(n, part)]
                /\ UNCHANGED <<tries, remote_tail>>
  BY DEF PollAnswers, DispatcherRuns, Dispatch!PollAnswers
<1>2. PICK part \in Dispatch!Parts(n) : \E pieces \in Dispatch!Streamed(n, part) :
        /\ Dispatch!Write(pieces)
        /\ IF next(n, part) = "done" THEN Dispatch!Return(IF status = "Success" THEN 0 ELSE 1)
           ELSE /\ Dispatch!GoOn(next(n, part))
                /\ last_out_len' = n
                /\ reply' = IF next(n, part) # "tail" THEN Dispatch!NoReply
                            ELSE [status |-> status, code |-> code, std_out |-> Dispatch!StdOut(n, part)]
                /\ UNCHANGED <<tries, remote_tail>>
  BY <1>1
<1>3. PICK pieces \in Dispatch!Streamed(n, part) : Dispatch!Write(pieces)
  BY <1>2
<1>4. /\ UNCHANGED <<remote, code, status, registered, uploaded, verdict, glued>>
      /\ UNCHANGED <<noise, holders, child, child_code, capture, beats>>
      /\ child = "running" /\ dpc = "poll"
  BY DEF PollAnswers, DispatcherRuns, Dispatch!PollAnswers, Dispatch!box
<1>5. /\ Dispatch!StdOut(n, part) \in Seq(Lines)
      /\ pieces \in Seq(Piece)
  BY StreamTyped DEF StageInv
<1>6. n \in Nat
  OBVIOUS
<1>7. StageTypeOK'
  <2>1. reply' = Dispatch!NoReply \/ reply'.std_out = Dispatch!StdOut(n, part)
    BY <1>2 DEF Dispatch!Return
  <2>2. reply'.std_out \in Seq(Lines)
    BY <1>5, <2>1, NoLines
  <2>3. (remote_tail' = remote_tail \/ remote_tail' = <<>>) /\ last_out_len' \in {0, n}
    BY <1>2 DEF Dispatch!Return
  <2>4. remote_tail' \in Seq(Lines)
    BY <2>3, NoLines DEF StageInv, StageTypeOK
  <2>5. last_out_len' \in Nat
    BY <1>6, <2>3
  <2>6. pipe' \in Seq(Piece) /\ printed' \in Seq(Piece)
    BY <1>3, <1>5, ConcatProperties DEF StageInv, StageTypeOK, Dispatch!Write
  <2> QED
    BY <1>4, <2>2, <2>6, <2>4, <2>5 DEF StageInv, StageTypeOK, capture
<1>8. DispatchInv'
  BY <1>2, <1>4 DEF StageInv, DispatchInv, Dispatch!Return, Dispatch!GoOn, Dispatch!NextStep,
     Dispatch!TERMINAL_NON_SUCCESS, Dispatch!PENDING_STATUSES
<1> QED
  BY <1>3, <1>4, <1>5, <1>7, <1>8, DispatcherStep

LEMMA FetchTailStage == ASSUME StageInv, FetchTail PROVE StageInv'
<1> USE DEF FetchTail, DispatcherRuns, Dispatch!FetchTail, Dispatch!Return, Dispatch!GoOn, Dispatch!output,
            Dispatch!box
<1>1. remote \in Seq(Lines) /\ TailLines \in Nat \ {0}
  BY ScriptAssumption DEF StageInv, StageTypeOK, Dispatch!DispatchConstants
<1>2. Dispatch!Tail32(remote) \in Seq(Lines)
  BY <1>1, SubSeqProperties DEF Dispatch!Tail32
<1>3. StageTypeOK'
  <2>1. remote_tail' \in Seq(Lines)
    BY <1>2, NoLines DEF StageInv, StageTypeOK
  <2> QED
    BY <2>1, QuietTypes DEF StageInv
<1>4. DispatchInv'
  BY DEF StageInv, DispatchInv
<1> QED
  BY <1>3, <1>4, DispatcherStep

\* What is printed about a kill begins with a line that looks like one, if
\* what it is glued to lets it.
LEMMA ReportFailureStage == ASSUME StageInv, ReportFailure PROVE StageInv'
<1> DEFINE v == Dispatch!Classify(reply.code, reply.status, Dispatch!KillLine, {})
           block == Dispatch!Block(v, Dispatch!KillLine)
           pieces == Dispatch!AsPieces(block)
           place == Len(printed) + 1
<1>1. /\ dpc = "report" /\ child = "running" /\ verdict' = v
      /\ Dispatch!Write(pieces) /\ Dispatch!Return(1)
      /\ glued' = (v # "none" /\ "logger" \in Dispatch!LineSoFar(printed', place))
      /\ UNCHANGED <<remote, code, status, registered, uploaded>>
      /\ UNCHANGED <<noise, holders, child, child_code, capture, beats>>
  BY DEF ReportFailure, DispatcherRuns, Dispatch!ReportFailure, Dispatch!box
<1>2. \A line : Dispatch!Cause(line) \in Lines /\ "timeout" \in Dispatch!Cause(line)
  BY DEF Dispatch!Cause, Lines, Tokens
<1>3. remote_tail \in Seq(Lines) /\ printed \in Seq(Piece) /\ pipe \in Seq(Piece)
  BY DEF StageInv, StageTypeOK
<1> DEFINE first == IF v = "none" THEN {} ELSE Dispatch!Cause(Dispatch!KillLine)
<1>4. first \in Lines /\ block = <<first>> \o remote_tail /\ (v # "none" => "timeout" \in first)
  <2>1. {} \in Lines
    BY DEF Lines
  <2>2. block = <<first>> \o remote_tail
    BY DEF Dispatch!Block
  <2> HIDE DEF v, block
  <2> QED
    BY <1>2, <2>1, <2>2
<1>5. block \in Seq(Lines) /\ Len(block) \in Nat \ {0} /\ block[1] = first
  <2> HIDE DEF block, first
  <2> QED
    BY <1>3, <1>4, Prefixed
<1> HIDE DEF block, v, first
<1>6. pieces \in Seq(Piece) /\ Len(pieces) \in Nat \ {0} /\ pieces[1] = [text |-> first, ends |-> TRUE]
  <2>1. /\ pieces \in Seq(Piece) /\ Len(pieces) = Len(block)
        /\ \A i \in 1..Len(block) : pieces[i] = [text |-> block[i], ends |-> TRUE]
    BY <1>5, PiecesTyped, Zenon
  <2>2. 1 \in 1..Len(block)
    BY <1>5
  <2> HIDE DEF pieces
  <2> QED
    BY <1>5, <2>1, <2>2
<1> HIDE DEF pieces
<1>7. StageTypeOK'
  BY <1>1, <1>3, <1>6, ConcatProperties, NoLines
  DEF StageInv, StageTypeOK, Dispatch!Write, Dispatch!Return, capture
<1>8. v # "none" /\ ~ glued' => \E i \in DOMAIN printed' : NamesKill(printed', i)
  <2>1. printed' = printed \o pieces
    BY <1>1 DEF Dispatch!Write
  <2>2. place \in DOMAIN printed' /\ printed'[place] = [text |-> first, ends |-> TRUE]
    BY <1>3, <1>6, <2>1, ConcatProperties
  <2>3. v # "none" /\ ~ glued' => "logger" \notin LineSoFar(printed', place)
    BY <1>1, SameWords
  <2> QED
    BY <1>4, <2>2, <2>3 DEF NamesKill
<1>9. DispatchInv'
  BY <1>1, <1>8 DEF StageInv, DispatchInv, Dispatch!Return
<1> QED
  BY <1>1, <1>6, <1>7, <1>9, DispatcherStep

-----------------------------------------------------------------------------
LEMMA BoxStage == ASSUME StageInv, BoxRuns PROVE StageInv'
<1>1. UNCHANGED <<noise, holders, child, child_code, capture, beats, dpc, last_out_len, reply, remote_tail, verdict,
                  answer, pipe, printed, glued>>
  BY DEF BoxRuns, Dispatch!BoxStep, Dispatch!Register, Dispatch!Deliver, Dispatch!ScriptWrites, Dispatch!ScriptEnds,
     Dispatch!Cancel, Dispatch!Upload, Dispatch!dispatcher, Dispatch!output
<1>2. remote' \in Seq(Lines)
  <2>1. CASE remote' = remote
    BY <2>1 DEF StageInv, StageTypeOK
  <2>2. CASE \E l \in ScriptLines : remote' = Append(remote, l)
    <3>1. PICK l \in ScriptLines : remote' = Append(remote, l)
      BY <2>2
    <3> QED
      BY <3>1, ScriptAssumption, AppendProperties DEF StageInv, StageTypeOK, Dispatch!DispatchConstants, Lines, Tokens,
         Dispatch!Lines, Dispatch!Tokens
  <2> QED
    BY <2>1, <2>2 DEF BoxRuns, Dispatch!BoxStep, Dispatch!Register, Dispatch!Deliver, Dispatch!ScriptWrites,
       Dispatch!ScriptEnds, Dispatch!Cancel, Dispatch!Upload
<1>3. /\ status = "none" => status' = "none"
      /\ status = "Success" => status' = "Success" /\ code' = code
      /\ status' = "Success" => status = "Success" \/ code' = 0
  BY DEF BoxRuns, Dispatch!BoxStep, Dispatch!Register, Dispatch!Deliver, Dispatch!ScriptWrites, Dispatch!ScriptEnds,
     Dispatch!Cancel, Dispatch!Upload, Dispatch!Ended
<1>4. StageTypeOK'
  BY <1>1, <1>2 DEF StageInv, StageTypeOK, capture
<1>5. DispatchInv'
  BY <1>1, <1>3 DEF StageInv, DispatchInv
<1>6. LauncherInv' /\ CaptureInv'
  BY <1>1 DEF StageInv, LauncherInv, CaptureInv, capture, result, Over
<1>7. NamedInv'
  BY <1>1, NamedStays DEF StageInv, capture, result
<1> QED
  BY <1>4, <1>5, <1>6, <1>7 DEF StageInv

\* What the launcher leaves behind neither prints for it nor is its child.
LEMMA LeftBehindStage == ASSUME StageInv, Leak \/ Beat \/ Stop PROVE StageInv'
<1>1. UNCHANGED <<pipe, child, child_code, capture, dispatch>> /\ ("child" \in holders => "child" \in holders')
  BY DEF Leak, Beat, Stop
<1>2. StageTypeOK' /\ DispatchInv'
  BY <1>1 DEF StageInv, StageTypeOK, DispatchInv, capture, dispatch
<1>3. LauncherInv' /\ CaptureInv'
  BY <1>1 DEF StageInv, LauncherInv, CaptureInv, capture, result, dispatch, Over
<1>4. NamedInv'
  BY <1>1, NamedStays DEF StageInv, capture, result
<1> QED
  BY <1>2, <1>3, <1>4 DEF StageInv

LEMMA LauncherExitsStage == ASSUME StageInv, LauncherExits PROVE StageInv'
<1> USE DEF LauncherExits
<1>1. StageTypeOK' /\ DispatchInv'
  BY DEF StageInv, StageTypeOK, DispatchInv, capture, dispatch
<1>2. LauncherInv'
  BY DEF StageInv, LauncherInv, capture, dispatch
<1>3. CaptureInv'
  BY DEF StageInv, LauncherInv, CaptureInv, capture, result, dispatch, Over
<1>4. NamedInv'
  BY NamedStays DEF StageInv, capture, result
<1> QED
  BY <1>1, <1>2, <1>3, <1>4 DEF StageInv

-----------------------------------------------------------------------------
\* A step of the capture that reads nothing.
LEMMA CaptureTypes ==
  ASSUME StageInv, UNCHANGED <<pipe, log, dispatch>> PROVE StageTypeOK' /\ DispatchInv'
  BY DEF StageInv, StageTypeOK, DispatchInv, dispatch

LEMMA StartStage == ASSUME StageInv, Start, UNCHANGED <<dispatch, beats>> PROVE StageInv'
<1>1. StageTypeOK' /\ DispatchInv'
  BY CaptureTypes DEF Start
<1>2. LauncherInv' /\ CaptureInv'
  BY DEF Start, StageInv, LauncherInv, CaptureInv, dispatch, Over
<1>3. NamedInv'
  BY DEF Start, NamedInv
<1> QED
  BY <1>1, <1>2, <1>3 DEF StageInv

LEMMA ReadStage == ASSUME StageInv, Read, UNCHANGED <<dispatch, beats>> PROVE StageInv'
<1>1. pipe \in Seq(Piece) /\ log \in Seq(Piece) /\ pipe' = <<>> /\ log' \in {log, log \o pipe}
  BY DEF Read, StageInv, StageTypeOK
<1>2. log \o pipe \in Seq(Piece) /\ <<>> \in Seq(Piece) /\ (log \o pipe) \o <<>> = log \o pipe
  BY <1>1, ConcatProperties, ConcatEmptySeq, NoLines
<1>3. StageTypeOK' /\ DispatchInv'
  BY <1>1, <1>2 DEF Read, StageInv, StageTypeOK, DispatchInv, dispatch
<1>4. ~ faulted' => log' = log \o pipe /\ ~ faulted
  BY DEF Read
<1>5. LauncherInv'
  BY DEF Read, StageInv, LauncherInv, dispatch
<1>6. ~ faulted' => log' \o pipe' = printed'
  BY <1>1, <1>2, <1>4 DEF StageInv, CaptureInv, dispatch
<1>7. CaptureInv'
  BY <1>1, <1>6 DEF Read, StageInv, CaptureInv, Over
<1>8. NamedInv'
  BY DEF Read, NamedInv
<1> QED
  BY <1>3, <1>5, <1>7, <1>8 DEF StageInv

LEMMA WatchStage == ASSUME StageInv, Eof \/ Silence \/ Poll, UNCHANGED <<dispatch, beats>> PROVE StageInv'
<1>1. UNCHANGED <<pipe, child, child_code, log, exit_code, faulted, named>>
  BY DEF Eof, Silence, Poll, workload, result
<1>2. StageTypeOK' /\ DispatchInv'
  BY <1>1, CaptureTypes
<1>3. LauncherInv'
  BY <1>1 DEF Eof, Silence, Poll, workload, StageInv, LauncherInv, dispatch
<1>4. cpc' = "wait" => pipe = <<>> /\ child # "running"
  BY DEF Eof, Poll, Silence, Unread, StageInv, LauncherInv, CaptureInv
<1>5. cpc' = "poll" => pipe = <<>>
  BY DEF Eof, Poll, Silence, Unread
<1>6. quiet' # NotQuiet => child = "exited"
  BY DEF Eof, Silence, Poll, StageInv, CaptureInv
<1>7. cpc' \in {"wait", "poll", "select"}
  BY DEF Eof, Silence, Poll
<1>8. CaptureInv'
  BY <1>1, <1>4, <1>5, <1>6, <1>7 DEF StageInv, CaptureInv, dispatch, Over
<1>9. NamedInv'
  BY <1>7 DEF NamedInv
<1> QED
  BY <1>2, <1>3, <1>8, <1>9 DEF StageInv

LEMMA EndStage == ASSUME StageInv, Wait \/ KillOrphans \/ Report \/ Ship, UNCHANGED <<dispatch, beats>> PROVE StageInv'
<1>1. UNCHANGED <<pipe, child, child_code, log, quiet>>
  BY DEF Wait, KillOrphans, Report, Ship, workload
<1>2. StageTypeOK' /\ DispatchInv'
  BY <1>1, CaptureTypes
<1>3. LauncherInv'
  BY <1>1 DEF Wait, KillOrphans, Report, Ship, workload, StageInv, LauncherInv, dispatch
<1>4. CaptureInv'
  <2>1. CASE Wait
    BY <1>1, <2>1 DEF Wait, StageInv, LauncherInv, CaptureInv, dispatch, Over
  <2>2. CASE KillOrphans
    BY <1>1, <2>2 DEF KillOrphans, StageInv, CaptureInv, dispatch, Over
  <2>3. CASE Report
    BY <1>1, <2>3 DEF Report, StageInv, CaptureInv, dispatch, Over
  <2>4. CASE Ship
    BY <1>1, <2>4 DEF Ship, StageInv, CaptureInv, dispatch, Over
  <2> QED
    BY <2>1, <2>2, <2>3, <2>4
<1>5. NamedInv'
  <2>1. CASE Wait \/ KillOrphans
    BY <2>1 DEF Wait, KillOrphans, NamedInv
  <2>2. CASE Report
    BY <1>1, <2>2, VerdictStays DEF Report, NamedInv, Verdict
  <2>3. CASE Ship
    BY <1>1, <2>3, NamedStays DEF Ship, StageInv
  <2> QED
    BY <2>1, <2>2, <2>3
<1> QED
  BY <1>2, <1>3, <1>4, <1>5 DEF StageInv

LEMMA StepStage == StageInv /\ [StageNext]_stageVars => StageInv'
<1> SUFFICES ASSUME StageInv, [StageNext]_stageVars PROVE StageInv'
  OBVIOUS
<1>1. CASE Capture
  BY <1>1, StartStage, ReadStage, WatchStage, EndStage DEF Capture, CaptureStep
<1>2. CASE SendCommand \/ PollFails \/ PollAnswers \/ FetchTail \/ ReportFailure
  BY <1>2, SendCommandStage, PollFailsStage, PollAnswersStage, FetchTailStage, ReportFailureStage
<1>3. CASE LauncherExits \/ BoxRuns \/ Leak \/ Beat \/ Stop
  BY <1>3, LauncherExitsStage, BoxStage, LeftBehindStage
<1>4. CASE UNCHANGED stageVars
  <2>1. NamedInv'
    BY <1>4, NamedStays DEF StageInv, stageVars, capture, result
  <2> QED
    BY <1>4, <2>1 DEF stageVars, workload, capture, result, dispatch, StageInv, StageTypeOK, LauncherInv, DispatchInv,
       CaptureInv, Over
<1> QED
  BY <1>1, <1>2, <1>3, <1>4 DEF StageNext

(***************************************************************************)
(* What the capture, the launcher and the dispatcher know of one another   *)
(* at every moment of a stage.                                             *)
(***************************************************************************)
THEOREM StageInvariant == StageSpec => []StageInv
  BY InitStage, StepStage, PTL DEF StageSpec

(***************************************************************************)
(* A stage that exits with 0 has run its script to a Success.              *)
(***************************************************************************)
THEOREM StageSuccessIsReal == StageSpec => []SuccessIsReal
<1>1. StageInv => SuccessIsReal
  BY DEF StageInv, LauncherInv, DispatchInv, CaptureInv, SuccessIsReal
<1> QED
  BY <1>1, StageInvariant, PTL

(***************************************************************************)
(* All that the launcher printed is in the captured log, whoever holds the *)
(* pipe and writes to it, however many polls the drain takes.              *)
(***************************************************************************)
THEOREM StageLosesNothing == StageSpec => []NothingIsLost
<1>1. StageInv => NothingIsLost
  <2> SUFFICES ASSUME StageInv, cpc = "done", ~ faulted PROVE log = printed
    BY DEF NothingIsLost
  <2>1. pipe = <<>> /\ log \in Seq(Piece) /\ log \o pipe = printed
    BY DEF StageInv, StageTypeOK, CaptureInv, Over
  <2> QED
    BY <2>1, ConcatEmptySeq
<1> QED
  BY <1>1, StageInvariant, PTL

(***************************************************************************)
(* A kill that the dispatcher recognised is named by the capture, from the *)
(* log alone, whatever else the script wrote and wherever SSM cut it, but  *)
(* for a cause that goes on with a cut line of the workload's own logger.  *)
(***************************************************************************)
THEOREM StageNamesKills == StageSpec => []KillIsNamed
<1>1. StageInv => KillIsNamed
  <2> SUFFICES ASSUME StageInv, cpc = "done", ~ faulted, verdict # "none", ~ glued,
                      "ample" \notin Reading(LinesOf(log))
               PROVE  named # "none"
    BY DEF KillIsNamed
  <2>1. child = "exited" /\ child_code = answer /\ answer = 1 /\ exit_code = 1
    BY DEF StageInv, LauncherInv, DispatchInv, CaptureInv, Over
  <2>2. log = printed /\ log \in Seq(Piece)
    <3>1. pipe = <<>> /\ log \in Seq(Piece) /\ log \o pipe = printed
      BY DEF StageInv, StageTypeOK, CaptureInv, Over
    <3> QED
      BY <3>1, ConcatEmptySeq
  <2>3. PICK i \in DOMAIN log : NamesKill(log, i)
    BY <2>2 DEF StageInv, DispatchInv
  <2>4. KillShaped(FindKillLine(LinesOf(log)))
    BY <2>2, <2>3, NamedLine, LinesTyped, KillLineShaped
  <2>5. named = Classify(exit_code, "", FindKillLine(LinesOf(log)), Reading(LinesOf(log)))
    <3>1. named = Verdict
      BY <2>1 DEF StageInv, NamedInv
    <3> QED
      BY <3>1 DEF Verdict
  <2> QED
    BY <2>1, <2>4, <2>5 DEF Classify, KillShaped, OomCodes, TimeoutCodes
<1> QED
  BY <1>1, StageInvariant, PTL

-----------------------------------------------------------------------------
(* The launch of a box.                                                   *)

Launching(i) == pc[i] \in {"spot", "page", "on-demand"}

OneAtATime ==
    ~overlapped => \A i, j \in Invocations :
        pc[i] \in Running /\ pc[j] \in Running => i = j

NoBoxWhileLaunching ==
    Sound => \A i \in Invocations : Launching(i) => boxes = {}

SpotPool(p) == [market |-> "spot", pool |-> p]

RotationCovers ==
    \A i \in Invocations :
        /\ pc[i] = "spot" =>
              /\ reason[i] = "spot_ok"
              /\ \A p \in 1..Pools : p < pool[i] => SpotPool(p) \in tried[i]
        /\ pc[i] = "page" => reason[i] = "spot_ok"
        /\ pc[i] = "on-demand" /\ reason[i] = "capacity_exhausted" =>
              \A p \in 1..Pools : SpotPool(p) \in tried[i]

(* A box belongs to an invocation that has ended.                          *)
OwnersEnded == \A b \in boxes : pc[b.by] = "ended"

(* An outcome other than None belongs to an invocation that has ended, and *)
(* the box it names exists.                                                *)
OutcomeHasBox ==
    \A i \in Invocations :
        /\ outcome[i] # None => pc[i] = "ended"
        /\ \A k \in {"launched", "replayed"}, t \in Token :
              outcome[i] = [kind |-> k, token |-> t] =>
                  \E b \in boxes : b.token = t

LaunchInv ==
    /\ TypeOK
    /\ OneAtATime
    /\ NoBoxWhileLaunching
    /\ RotationCovers
    /\ OwnersEnded
    /\ OutcomeHasBox
    /\ OneBoxPerKey
    /\ OneBoxPerDelivery
    /\ ReplayIsTruthful
    /\ OnDemandIsLastResort

-----------------------------------------------------------------------------

LEMMA InitLaunch == Init => LaunchInv
<1> SUFFICES ASSUME Init PROVE LaunchInv
  OBVIOUS
<1> USE ConstantsAssumption DEF Init
<1>1. TypeOK
  <2>1. pool \in [Invocations -> 1..Pools]
    OBVIOUS
  <2>2. tried \in [Invocations -> SUBSET Token]
    OBVIOUS
  <2>3. outcome \in [Invocations -> Outcome]
    BY DEF Outcome
  <2> QED
    BY <2>1, <2>2, <2>3 DEF TypeOK, Labels, Reasons
<1>2. OneAtATime /\ NoBoxWhileLaunching /\ RotationCovers
  BY DEF OneAtATime, NoBoxWhileLaunching, RotationCovers, Running, Launching
<1>3. OwnersEnded /\ OneBoxPerKey /\ OneBoxPerDelivery
  BY DEF OwnersEnded, OneBoxPerKey, OneBoxPerDelivery
<1>4. OutcomeHasBox
  BY DEF OutcomeHasBox, None
<1>5. ReplayIsTruthful /\ OnDemandIsLastResort
  BY DEF ReplayIsTruthful, OnDemandIsLastResort
<1> QED
  BY <1>1, <1>2, <1>3, <1>4, <1>5 DEF LaunchInv

(* What a step can do to the outcomes when it leaves the boxes alone.      *)
LEMMA TruthWithoutLaunch ==
    ASSUME LaunchInv, UNCHANGED boxes, NEW i \in Invocations,
           Sound' => Sound,
           \/ UNCHANGED outcome
           \/ \E e \in Exceptions : outcome' = [outcome EXCEPT ![i] = Raise(e)]
           \/ /\ pc[i] # "ended"
              /\ \E b \in boxes : outcome' =
                    [outcome EXCEPT ![i] = [kind |-> "replayed",
                                            token |-> b.token]]
    PROVE  ReplayIsTruthful'
<1> SUFFICES ASSUME NEW j \in Invocations, NEW b \in boxes
             PROVE  /\ outcome'[j] = [kind |-> "replayed", token |-> b.token]
                          => b.by # j
                    /\ Sound' /\ outcome'[j] = [kind |-> "launched",
                                                token |-> b.token]
                          => b.by = j
  BY DEF ReplayIsTruthful
<1>1. CASE outcome'[j] = outcome[j]
  BY <1>1 DEF LaunchInv, ReplayIsTruthful
<1>2. CASE j = i /\ \E e \in Exceptions : outcome'[j] = Raise(e)
  BY <1>2 DEF Raise
<1>3. CASE /\ j = i /\ pc[i] # "ended"
           /\ \E c \in boxes :
                 outcome'[j] = [kind |-> "replayed", token |-> c.token]
  BY <1>3 DEF LaunchInv, OwnersEnded
<1> QED
  BY <1>1, <1>2, <1>3 DEF LaunchInv, TypeOK
(* Fewer histories are sound after a step than before it.                  *)
LEMMA SoundOnlyFades ==
    ASSUME TypeOK,
           overlapped => overlapped', missed => missed',
           \A i \in Invocations : degraded[i] => degraded'[i]
    PROVE  Sound' => Sound
  BY DEF Sound, TypeOK

-----------------------------------------------------------------------------
(* One lemma per action.                                                   *)

LEMMA DeliverPreserves ==
    ASSUME LaunchInv, NEW i \in Invocations, Deliver(i)
    PROVE  LaunchInv'
<1> USE DEF LaunchInv, Deliver, Goto
<1>1. TypeOK'
  BY DEF TypeOK, Labels, Running
<1>2. Sound' => Sound
  BY SoundOnlyFades, <1>1 DEF TypeOK
<1>3. OneAtATime'
  BY DEF OneAtATime, Running, TypeOK
<1>4. NoBoxWhileLaunching' /\ RotationCovers'
  BY <1>2 DEF NoBoxWhileLaunching, RotationCovers, Launching, TypeOK
<1>5. OwnersEnded' /\ OutcomeHasBox'
  BY DEF OwnersEnded, OutcomeHasBox, TypeOK, Box
<1>6. OneBoxPerKey' /\ OneBoxPerDelivery' /\ OnDemandIsLastResort'
  BY <1>2 DEF OneBoxPerKey, OneBoxPerDelivery, OnDemandIsLastResort
<1>7. ReplayIsTruthful'
  BY <1>2, TruthWithoutLaunch
<1> QED
  BY <1>1, <1>3, <1>4, <1>5, <1>6, <1>7

(* An empty and up-to-date lookup means that there is no box, because the  *)
(* lookup covers every token a box can carry.                              *)
LEMMA ProbePreserves ==
    ASSUME LaunchInv, NEW i \in Invocations, Probe(i)
    PROVE  LaunchInv'
<1> USE ConstantsAssumption DEF LaunchInv, Probe, Replay, Goto, End, BeginLaunch, Rotate, Stay
<1>1. TypeOK'
  <2>1. ASSUME NEW b \in Found
        PROVE  [kind |-> "replayed", token |-> b.token] \in Outcome
    BY DEF Found, TypeOK, Box, Outcome
  <2>2. outcome' \in [Invocations -> Outcome]
    BY <2>1 DEF TypeOK
  <2>3. pc' \in [Invocations -> Labels]
    BY DEF TypeOK, Labels, Running
  <2>4. pool' \in [Invocations -> 1..Pools]
    BY DEF TypeOK
  <2>5. reason' \in [Invocations -> Reasons]
    BY DEF TypeOK, Reasons
  <2> QED
    BY <2>2, <2>3, <2>4, <2>5 DEF TypeOK
<1>2. Sound' => Sound
  BY SoundOnlyFades, <1>1 DEF TypeOK
<1>3. OneAtATime'
  BY DEF OneAtATime, Running, TypeOK
<1>4. NoBoxWhileLaunching'
  <2> SUFFICES ASSUME Sound', NEW j \in Invocations, Launching(j)'
               PROVE  boxes = {}
    BY DEF NoBoxWhileLaunching
  <2>1. CASE j # i
    BY <2>1, <1>2 DEF NoBoxWhileLaunching, Launching, TypeOK
  <2>2. CASE j = i
    <3>1. Found = {} /\ ~(\E b \in boxes : ~b.shown)
      BY <2>2 DEF Launching, Sound, TypeOK
    <3> QED
      BY <3>1 DEF Found, AllTokens, TypeOK, Box
  <2> QED
    BY <2>1, <2>2
<1>5. RotationCovers'
  BY DEF RotationCovers, TypeOK
<1>6. OwnersEnded'
  BY DEF OwnersEnded, TypeOK, Box
<1>7. OutcomeHasBox'
  BY DEF OutcomeHasBox, TypeOK, Found
<1>8. OneBoxPerKey' /\ OneBoxPerDelivery' /\ OnDemandIsLastResort'
  BY <1>2 DEF OneBoxPerKey, OneBoxPerDelivery, OnDemandIsLastResort
<1>9. ReplayIsTruthful'
  BY <1>2, TruthWithoutLaunch DEF Found
<1> QED
  BY <1>1, <1>3, <1>4, <1>5, <1>6, <1>7, <1>8, <1>9

(* A rotation reaches on-demand for capacity only past the last pool.      *)
LEMMA NextPoolCovers ==
    ASSUME TypeOK, RotationCovers, NEW i \in Invocations, pc[i] \in Markets,
           tried' = [tried EXCEPT ![i] =
                        @ \cup {[market |-> pc[i], pool |-> pool[i]]}],
           NextPool(i)
    PROVE  RotationCovers'
<1> USE ConstantsAssumption
<1> SUFFICES ASSUME NEW j \in Invocations
             PROVE  /\ pc'[j] = "spot" =>
                          /\ reason'[j] = "spot_ok"
                          /\ \A p \in 1..Pools :
                                p < pool'[j] => SpotPool(p) \in tried'[j]
                    /\ pc'[j] = "page" => reason'[j] = "spot_ok"
                    /\ pc'[j] = "on-demand"
                          /\ reason'[j] = "capacity_exhausted" =>
                          \A p \in 1..Pools : SpotPool(p) \in tried'[j]
  BY DEF RotationCovers, SpotPool
<1>1. tried[j] \subseteq tried'[j]
  BY DEF TypeOK
<1>2. CASE j # i
  BY <1>1, <1>2 DEF NextPool, Rotate, End, Goto, Stay, RotationCovers, TypeOK
<1>3. CASE j = i /\ pc[i] = "spot"
  <2>1. \A p \in 1..Pools : p <= pool[i] => SpotPool(p) \in tried'[i]
    BY <1>3 DEF RotationCovers, SpotPool, TypeOK
  <2> QED
    BY <1>3, <2>1 DEF NextPool, Rotate, Goto, RotationCovers, TypeOK
<1>4. CASE j = i /\ pc[i] = "on-demand"
  BY <1>1, <1>4 DEF NextPool, End, Goto, Stay, RotationCovers, TypeOK
<1> QED
  BY <1>2, <1>3, <1>4 DEF Markets

LEMMA NextPoolPreserves ==
    ASSUME LaunchInv, NEW i \in Invocations, pc[i] \in Markets,
           tried' = [tried EXCEPT ![i] =
                        @ \cup {[market |-> pc[i], pool |-> pool[i]]}],
           NextPool(i), UNCHANGED <<boxes, degraded, overlapped, missed>>
    PROVE  LaunchInv'
<1> USE ConstantsAssumption DEF LaunchInv, NextPool, Goto, End, Rotate, Stay, Markets
<1>1. TypeOK'
  <2>1. pool' \in [Invocations -> 1..Pools]
    BY DEF TypeOK
  <2>2. tried' \in [Invocations -> SUBSET Token]
    BY DEF TypeOK, Token
  <2>3. outcome' \in [Invocations -> Outcome]
    BY DEF TypeOK, Outcome, Exceptions
  <2>4. pc' \in [Invocations -> Labels] /\ reason' \in [Invocations -> Reasons]
    BY DEF TypeOK, Labels, Running, Reasons
  <2> QED
    BY <2>1, <2>2, <2>3, <2>4 DEF TypeOK
<1>2. Sound' => Sound
  BY DEF Sound
<1>3. OneAtATime'
  BY DEF OneAtATime, Running, TypeOK
<1>4. NoBoxWhileLaunching'
  BY <1>2 DEF NoBoxWhileLaunching, Launching, TypeOK
<1>5. RotationCovers'
  BY NextPoolCovers
<1>6. OwnersEnded'
  BY DEF OwnersEnded, TypeOK, Box
<1>7. OutcomeHasBox'
  BY DEF OutcomeHasBox, TypeOK, Raise
<1>8. OneBoxPerKey' /\ OneBoxPerDelivery'
  BY <1>2 DEF OneBoxPerKey, OneBoxPerDelivery
<1>9. OnDemandIsLastResort'
  BY DEF OnDemandIsLastResort, TypeOK, Box
<1>10. ReplayIsTruthful'
  <2>1. \/ UNCHANGED outcome
        \/ \E e \in Exceptions : outcome' = [outcome EXCEPT ![i] = Raise(e)]
    BY DEF Exceptions
  <2> QED
    BY <1>2, <2>1, TruthWithoutLaunch
<1> QED
  BY <1>1, <1>3, <1>4, <1>5, <1>6, <1>7, <1>8, <1>9, <1>10
(* The steps that neither launch nor rotate: they leave the boxes and the  *)
(* rotation alone, and either stop at `page` or `resolve`, or end with a   *)
(* replayed box or an exception.                                           *)
LEMMA QuietStepPreserves ==
    ASSUME LaunchInv, NEW i \in Invocations, pc[i] \in Running,
           NEW token \in Token, tried' \in {tried, [tried EXCEPT ![i] = @ \cup {token}]},
           UNCHANGED <<boxes, pool, reason, degraded, overlapped, missed>>,
           \/ /\ pc[i] = "spot" /\ Goto(i, "page") /\ UNCHANGED outcome
           \/ /\ Goto(i, "resolve") /\ UNCHANGED outcome
           \/ /\ Goto(i, "ended") /\ UNCHANGED outcome
           \/ \E e \in Exceptions : End(i, Raise(e))
           \/ \E b \in boxes : End(i, [kind |-> "replayed", token |-> b.token])
    PROVE  LaunchInv'
<1> USE DEF LaunchInv, Goto, End
<1>1. TypeOK'
  <2>1. tried' \in [Invocations -> SUBSET Token]
    BY DEF TypeOK
  <2>2. outcome' \in [Invocations -> Outcome]
    BY DEF TypeOK, Outcome, Box
  <2>3. pc' \in [Invocations -> Labels]
    BY DEF TypeOK, Labels, Running
  <2> QED
    BY <2>1, <2>2, <2>3 DEF TypeOK
<1>2. Sound' => Sound
  BY DEF Sound
<1>3. OneAtATime'
  BY DEF OneAtATime, Running, TypeOK
<1>4. NoBoxWhileLaunching'
  BY <1>2 DEF NoBoxWhileLaunching, Launching, TypeOK
<1>5. RotationCovers'
  BY DEF RotationCovers, TypeOK
<1>6. OwnersEnded'
  BY DEF OwnersEnded, TypeOK, Box, Running
<1>7. OutcomeHasBox'
  <2> SUFFICES ASSUME NEW j \in Invocations
               PROVE  /\ outcome'[j] # None => pc'[j] = "ended"
                      /\ \A k \in {"launched", "replayed"}, t \in Token :
                            outcome'[j] = [kind |-> k, token |-> t] =>
                                \E b \in boxes : b.token = t
    BY DEF OutcomeHasBox
  <2>1. CASE outcome'[j] = outcome[j]
    BY <2>1 DEF OutcomeHasBox, TypeOK, Running
  <2>2. CASE j = i /\ \E e \in Exceptions : End(i, Raise(e))
    BY <2>2 DEF TypeOK, Raise
  <2>3. CASE j = i /\ \E b \in boxes :
                 End(i, [kind |-> "replayed", token |-> b.token])
    BY <2>3 DEF TypeOK
  <2> QED
    BY <2>1, <2>2, <2>3 DEF TypeOK
<1>8. OneBoxPerKey' /\ OneBoxPerDelivery'
  BY <1>2 DEF OneBoxPerKey, OneBoxPerDelivery
<1>9. OnDemandIsLastResort'
  BY DEF OnDemandIsLastResort, TypeOK, Box
<1>10. ReplayIsTruthful'
  <2>1. pc[i] # "ended"
    BY DEF Running
  <2> QED
    BY <1>2, <2>1, TruthWithoutLaunch
<1> QED
  BY <1>1, <1>3, <1>4, <1>5, <1>6, <1>7, <1>8, <1>9, <1>10

(* A launch ends its invocation and needs a token that has no box; when    *)
(* the lookups were sound there was no box at all.                         *)
LEMMA LaunchPreserves ==
    ASSUME LaunchInv, NEW i \in Invocations, pc[i] \in Markets,
           NEW token \in Token, token = [market |-> pc[i], pool |-> pool[i]],
           tried' = [tried EXCEPT ![i] = @ \cup {token}],
           ~(\E b \in boxes : b.token = token),
           NEW shown \in BOOLEAN,
           boxes' = boxes \cup {[token |-> token, reason |-> reason[i],
                                 by |-> i, live |-> TRUE, shown |-> shown]},
           UNCHANGED <<pool, reason, degraded, overlapped, missed>>,
           \/ End(i, [kind |-> "launched", token |-> token])
           \/ \E e \in Exceptions : End(i, Raise(e))
    PROVE  LaunchInv'
<1> DEFINE new == [token |-> token, reason |-> reason[i], by |-> i,
                   live |-> TRUE, shown |-> shown]
<1> USE DEF LaunchInv, Goto, End
<1>1. TypeOK'
  <2>1. new \in Box
    BY DEF Box, TypeOK
  <2>2. tried' \in [Invocations -> SUBSET Token]
    BY DEF TypeOK
  <2>3. outcome' \in [Invocations -> Outcome]
    BY DEF TypeOK, Outcome
  <2>4. pc' \in [Invocations -> Labels]
    BY DEF TypeOK, Labels
  <2> QED
    BY <2>1, <2>2, <2>3, <2>4 DEF TypeOK
<1>2. Sound' => Sound /\ boxes = {}
  BY DEF Sound, NoBoxWhileLaunching, Launching, Markets
<1>3. OneAtATime'
  BY DEF OneAtATime, Running, TypeOK
<1>4. NoBoxWhileLaunching'
  <2> SUFFICES ASSUME Sound', NEW j \in Invocations, Launching(j)' PROVE FALSE
    BY DEF NoBoxWhileLaunching
  <2>1. j # i /\ pc[j] \in Running /\ pc[i] \in Running
    BY DEF Launching, TypeOK, Running, Markets
  <2> QED
    BY <2>1, <1>2 DEF OneAtATime, Sound
<1>5. RotationCovers'
  BY DEF RotationCovers, TypeOK
<1>6. OwnersEnded'
  BY DEF OwnersEnded, TypeOK, Box
<1>7. OutcomeHasBox'
  <2> SUFFICES ASSUME NEW j \in Invocations
               PROVE  /\ outcome'[j] # None => pc'[j] = "ended"
                      /\ \A k \in {"launched", "replayed"}, t \in Token :
                            outcome'[j] = [kind |-> k, token |-> t] =>
                                \E b \in boxes' : b.token = t
    BY DEF OutcomeHasBox
  <2>1. CASE j # i
    BY <2>1 DEF OutcomeHasBox, TypeOK
  <2>2. CASE j = i /\ \E e \in Exceptions : End(i, Raise(e))
    BY <2>2 DEF TypeOK, Raise
  <2>3. CASE j = i /\ End(i, [kind |-> "launched", token |-> token])
    <3>1. new \in boxes' /\ new.token = token
      OBVIOUS
    <3>2. outcome'[i] = [kind |-> "launched", token |-> token]
          /\ pc'[i] = "ended"
      BY <2>3 DEF TypeOK
    <3>3. \A k \in {"launched", "replayed"}, t \in Token :
             outcome'[i] = [kind |-> k, token |-> t] => t = token
      BY <3>2
    <3> QED
      BY <2>3, <3>1, <3>2, <3>3
  <2> QED
    BY <2>1, <2>2, <2>3
<1>8. OneBoxPerKey' /\ OneBoxPerDelivery'
  <2>1. ASSUME Sound' PROVE boxes' = {new}
    BY <1>2, <2>1
  <2>2. \A b \in boxes : b.by # i
    BY DEF OwnersEnded, Markets
  <2>3. OneBoxPerKey'
    BY <2>1 DEF OneBoxPerKey
  <2>4. OneBoxPerDelivery'
    <3> SUFFICES ASSUME NEW b \in boxes', NEW c \in boxes', b.by = c.by
                 PROVE  b = c
      BY DEF OneBoxPerDelivery
    <3>1. new.by = i /\ b \in boxes \cup {new} /\ c \in boxes \cup {new}
      OBVIOUS
    <3>2. CASE b \in boxes /\ c \in boxes
      BY <3>2 DEF OneBoxPerDelivery
    <3> QED
      BY <2>2, <3>1, <3>2
  <2> QED
    BY <2>3, <2>4
<1>9. OnDemandIsLastResort'
  <2>1. reason[i] = "capacity_exhausted" =>
           /\ pc[i] = "on-demand"
           /\ \A p \in 1..Pools : SpotPool(p) \in tried[i]
    BY DEF RotationCovers, Markets
  <2>2. \A j \in Invocations : tried[j] \subseteq tried'[j]
    BY DEF TypeOK
  <2> QED
    BY <2>1, <2>2 DEF OnDemandIsLastResort, SpotPool, TypeOK, Box
<1>10. ReplayIsTruthful'
  <2> SUFFICES ASSUME NEW j \in Invocations, NEW b \in boxes'
               PROVE  /\ outcome'[j] = [kind |-> "replayed", token |-> b.token]
                            => b.by # j
                      /\ Sound' /\ outcome'[j] = [kind |-> "launched",
                                                  token |-> b.token]
                            => b.by = j
    BY DEF ReplayIsTruthful
  <2>1. CASE j # i /\ b \in boxes
    BY <2>1, <1>2 DEF ReplayIsTruthful, TypeOK
  <2>2. CASE j # i /\ b = new
    BY <2>2 DEF OutcomeHasBox, TypeOK
  <2>3. CASE j = i /\ b \in boxes
    BY <2>3, <1>2 DEF TypeOK, Raise
  <2>4. CASE j = i /\ b = new
    BY <2>4 DEF TypeOK, Raise
  <2> QED
    BY <2>1, <2>2, <2>3, <2>4
<1> QED
  BY <1>1, <1>3, <1>4, <1>5, <1>6, <1>7, <1>8, <1>9, <1>10
(* Boxes come and go and show up late, but they keep token, tag and owner. *)
LEMMA ChangePreserves ==
    ASSUME LaunchInv, NEW b \in boxes, NEW c \in Box, Change(b, c),
           c.token = b.token, c.reason = b.reason, c.by = b.by
    PROVE  LaunchInv'
<1> USE DEF LaunchInv, Change
<1>1. TypeOK'
  BY DEF TypeOK
<1>2. Sound' => Sound
  BY DEF Sound
<1>3. OneAtATime' /\ RotationCovers'
  BY DEF OneAtATime, RotationCovers
<1>4. NoBoxWhileLaunching'
  BY <1>2 DEF NoBoxWhileLaunching, Launching
<1>5. OwnersEnded'
  BY DEF OwnersEnded
<1>6. OutcomeHasBox'
  BY DEF OutcomeHasBox
<1>7. OneBoxPerKey' /\ OneBoxPerDelivery'
  BY <1>2 DEF OneBoxPerKey, OneBoxPerDelivery
<1>8. OnDemandIsLastResort'
  BY DEF OnDemandIsLastResort
<1>9. ReplayIsTruthful'
  <2> SUFFICES ASSUME NEW j \in Invocations, NEW d \in boxes'
               PROVE  /\ outcome'[j] = [kind |-> "replayed", token |-> d.token]
                            => d.by # j
                      /\ Sound' /\ outcome'[j] = [kind |-> "launched",
                                                  token |-> d.token]
                            => d.by = j
    BY DEF ReplayIsTruthful
  <2>1. PICK e \in boxes : d.token = e.token /\ d.by = e.by
    OBVIOUS
  <2> QED
    BY <1>2, <2>1 DEF ReplayIsTruthful
<1> QED
  BY <1>1, <1>3, <1>4, <1>5, <1>6, <1>7, <1>8, <1>9

LEMMA RotateFromPagePreserves ==
    ASSUME LaunchInv, NEW i \in Invocations, pc[i] = "page",
           Rotate(i, "on-demand", "quota_exceeded"),
           UNCHANGED <<boxes, degraded, tried, overlapped, missed>>
    PROVE  LaunchInv'
<1> USE ConstantsAssumption DEF LaunchInv, Rotate, Goto
<1>1. TypeOK'
  BY DEF TypeOK, Labels, Running, Reasons
<1>2. Sound' => Sound
  BY DEF Sound
<1>3. OneAtATime'
  BY DEF OneAtATime, Running, TypeOK
<1>4. NoBoxWhileLaunching'
  BY <1>2 DEF NoBoxWhileLaunching, Launching, TypeOK
<1>5. RotationCovers'
  BY DEF RotationCovers, TypeOK
<1>6. OwnersEnded' /\ OutcomeHasBox'
  BY DEF OwnersEnded, OutcomeHasBox, TypeOK, Box
<1>7. OneBoxPerKey' /\ OneBoxPerDelivery' /\ OnDemandIsLastResort'
  BY <1>2 DEF OneBoxPerKey, OneBoxPerDelivery, OnDemandIsLastResort
<1>8. ReplayIsTruthful'
  BY <1>2, TruthWithoutLaunch
<1> QED
  BY <1>1, <1>3, <1>4, <1>5, <1>6, <1>7, <1>8

(* The known box is another invocation's: the lookups were not sound.      *)
LEMMA KnownTokenReturned ==
    ASSUME LaunchInv, NEW i \in Invocations, pc[i] \in Markets,
           NEW token \in Token,
           tried' = [tried EXCEPT ![i] = @ \cup {token}],
           NEW b \in boxes, b.token = token,
           End(i, [kind |-> "launched", token |-> token]),
           UNCHANGED <<boxes, pool, reason, degraded, overlapped, missed>>
    PROVE  LaunchInv'
<1> USE DEF LaunchInv, Goto, End
<1>1. TypeOK'
  <2>1. tried' \in [Invocations -> SUBSET Token]
    BY DEF TypeOK
  <2>2. outcome' \in [Invocations -> Outcome]
    BY DEF TypeOK, Outcome
  <2>3. pc' \in [Invocations -> Labels]
    BY DEF TypeOK, Labels
  <2> QED
    BY <2>1, <2>2, <2>3 DEF TypeOK
<1>2. ~Sound /\ ~Sound'
  BY DEF Sound, NoBoxWhileLaunching, Launching, Markets
<1>3. OneAtATime'
  BY DEF OneAtATime, Running, TypeOK
<1>4. NoBoxWhileLaunching' /\ OneBoxPerKey' /\ OneBoxPerDelivery'
  BY <1>2 DEF NoBoxWhileLaunching, OneBoxPerKey, OneBoxPerDelivery
<1>5. RotationCovers'
  BY DEF RotationCovers, TypeOK
<1>6. OwnersEnded'
  BY DEF OwnersEnded, TypeOK, Box
<1>7. OutcomeHasBox'
  <2>1. outcome'[i] = [kind |-> "launched", token |-> token]
        /\ pc'[i] = "ended"
    BY DEF TypeOK
  <2>2. \A k \in {"launched", "replayed"}, t \in Token :
           outcome'[i] = [kind |-> k, token |-> t] => t = token
    BY <2>1
  <2>3. \A j \in Invocations : j # i => outcome'[j] = outcome[j] /\ pc'[j] = pc[j]
    BY DEF TypeOK
  <2> QED
    BY <2>1, <2>2, <2>3 DEF OutcomeHasBox
<1>8. OnDemandIsLastResort'
  BY DEF OnDemandIsLastResort, TypeOK, Box
<1>9. ReplayIsTruthful'
  BY <1>2 DEF ReplayIsTruthful, TypeOK
<1> QED
  BY <1>1, <1>3, <1>4, <1>5, <1>6, <1>7, <1>8, <1>9

LEMMA RunInstancesPreserves ==
    ASSUME LaunchInv, NEW i \in Invocations, RunInstances(i)
    PROVE  LaunchInv'
<1> DEFINE token == [market |-> pc[i], pool |-> pool[i]]
           known == {b \in boxes : b.token = token}
<1> USE DEF RunInstances
<1>1. token \in Token
  BY DEF LaunchInv, TypeOK, Token
<1>2. pc[i] \in Running
  BY DEF Markets, Running
<1>3. ASSUME NEW b \in known, KnownToken(i, b) PROVE LaunchInv'
  <2>1. ASSUME b.live, b.reason = reason[i],
               End(i, [kind |-> "launched", token |-> b.token])
        PROVE  LaunchInv'
    BY <1>1, <1>2, <2>1, <1>3, KnownTokenReturned DEF KnownToken, Stay
  <2>2. CASE Goto(i, "resolve") /\ UNCHANGED outcome
    BY <1>1, <1>2, <1>3, <2>2, QuietStepPreserves DEF KnownToken, Stay
  <2>3. CASE End(i, Raise("SpotLaunchError"))
    BY <1>1, <1>2, <1>3, <2>3, QuietStepPreserves
    DEF KnownToken, Stay, Exceptions
  <2> QED
    BY <1>3, <2>1, <2>2, <2>3 DEF KnownToken, Launched
<1>4. ASSUME known = {}, NewToken(i, token) PROVE LaunchInv'
  <2> DEFINE new(s) == [token |-> token, reason |-> reason[i], by |-> i,
                        live |-> TRUE, shown |-> s]
  <2>1. ASSUME NEW s \in BOOLEAN, boxes' = boxes \cup {new(s)},
               \/ End(i, [kind |-> "launched", token |-> token])
               \/ \E e \in Exceptions : End(i, Raise(e)),
               Stay(i)
        PROVE  LaunchInv'
    BY <1>1, <1>4, <2>1, LaunchPreserves DEF Stay
  <2>2. CASE NextPool(i) /\ UNCHANGED boxes
    BY <2>2, NextPoolPreserves
  <2>3. CASE /\ pc[i] = "spot" /\ Goto(i, "page") /\ Stay(i)
             /\ UNCHANGED <<boxes, outcome>>
    BY <1>1, <1>2, <2>3, QuietStepPreserves DEF Stay
  <2>4. CASE /\ UNCHANGED boxes /\ Stay(i)
             /\ \E e \in Exceptions : End(i, Raise(e))
    BY <1>1, <1>2, <2>4, QuietStepPreserves DEF Stay
  <2> QED
    BY <1>4, <2>1, <2>2, <2>3, <2>4 DEF NewToken, Launched, Exceptions
<1> QED
  BY <1>3, <1>4

LEMMA StepLaunch == LaunchInv /\ [Next]_vars => LaunchInv'
<1> SUFFICES ASSUME LaunchInv, [Next]_vars PROVE LaunchInv'
  OBVIOUS
<1>1. ASSUME NEW i \in Invocations, Deliver(i) PROVE LaunchInv'
  BY <1>1, DeliverPreserves
<1>2. ASSUME NEW i \in Invocations, Probe(i) PROVE LaunchInv'
  BY <1>2, ProbePreserves
<1>3. ASSUME NEW i \in Invocations, RunInstances(i) PROVE LaunchInv'
  BY <1>3, RunInstancesPreserves
<1>4. PICK token : token \in Token
  <2>1. [market |-> "spot", pool |-> 1] \in Token
    BY ConstantsAssumption DEF Token, Markets
  <2> QED
    BY <2>1
<1>5. ASSUME NEW i \in Invocations, PageQuota(i) PROVE LaunchInv'
  <2>1. CASE Rotate(i, "on-demand", "quota_exceeded")
    BY <1>5, <2>1, RotateFromPagePreserves DEF PageQuota
  <2>2. CASE End(i, Raise("AlertDeliveryError")) /\ Stay(i)
    BY <1>4, <1>5, <2>2, QuietStepPreserves
    DEF PageQuota, Stay, Running, Exceptions
  <2> QED
    BY <1>5, <2>1, <2>2 DEF PageQuota
<1>6. ASSUME NEW i \in Invocations, Resolve(i) PROVE LaunchInv'
  BY <1>4, <1>6, QuietStepPreserves
     DEF Resolve, Replay, Running, Exceptions, Found
<1>7. ASSUME NEW i \in Invocations, Kill(i) PROVE LaunchInv'
  BY <1>4, <1>7, QuietStepPreserves DEF Kill
<1>8. ASSUME NEW b \in boxes, Terminate(b) \/ Appear(b) PROVE LaunchInv'
  <2>1. b \in Box
    BY DEF LaunchInv, TypeOK
  <2>2. CASE Terminate(b)
    BY <2>1, <2>2, ChangePreserves DEF Terminate, Box
  <2>3. CASE Appear(b)
    BY <2>1, <2>3, ChangePreserves DEF Appear, Box
  <2> QED
    BY <1>8, <2>2, <2>3
<1>9. CASE UNCHANGED vars
  BY <1>9 DEF vars, LaunchInv, TypeOK, OneAtATime, NoBoxWhileLaunching, Launching,
              RotationCovers, OwnersEnded, OutcomeHasBox, OneBoxPerKey, Sound,
              OneBoxPerDelivery, ReplayIsTruthful, OnDemandIsLastResort
<1> QED
  BY <1>1, <1>2, <1>3, <1>5, <1>6, <1>7, <1>8, <1>9 DEF Next, Step

-----------------------------------------------------------------------------

(* The inductive invariant holds in every state of every behaviour.        *)
THEOREM LaunchInvariant == Spec => []LaunchInv
  BY InitLaunch, StepLaunch, PTL DEF Spec

(* launch_self_starting keeps its state well typed.                        *)
THEOREM LaunchTypeOK == Spec => []TypeOK
<1>1. LaunchInv => TypeOK
  BY DEF LaunchInv
<1> QED
  BY <1>1, LaunchInvariant, PTL

(* However often the event is retried, whatever the capacity of each pool  *)
(* at each attempt and wherever an invocation is killed, sound lookups     *)
(* leave the key with at most one box.                                     *)
THEOREM LaunchOnce == Spec => []OneBoxPerKey
<1>1. LaunchInv => OneBoxPerKey
  BY DEF LaunchInv
<1> QED
  BY <1>1, LaunchInvariant, PTL

(* No delivery launches a second box, whatever it is told of the first,    *)
(* so that overlapping deliveries leave no more boxes than there were.     *)
THEOREM LaunchOncePerDelivery == Spec => []OneBoxPerDelivery
<1>1. LaunchInv => OneBoxPerDelivery
  BY DEF LaunchInv
<1> QED
  BY <1>1, LaunchInvariant, PTL

(* What an invocation reports about a box, launched or replayed, is true.  *)
THEOREM LaunchTruth == Spec => []ReplayIsTruthful
<1>1. LaunchInv => ReplayIsTruthful
  BY DEF LaunchInv
<1> QED
  BY <1>1, LaunchInvariant, PTL

(* Nobody pays on-demand prices for capacity before every spot pool was    *)
(* asked.                                                                  *)
THEOREM LaunchLastResort == Spec => []OnDemandIsLastResort
<1>1. LaunchInv => OnDemandIsLastResort
  BY DEF LaunchInv
<1> QED
  BY <1>1, LaunchInvariant, PTL
=============================================================================
