---------------------------- MODULE ResourceKill ----------------------------
(***************************************************************************)
(* krepis.resource_kill: was a failure a kill for memory or for time?      *)
(*                                                                         *)
(* A line of output is the set of what its text matches: "oom"             *)
(* (OOM_LINE_RE), "timeout" (TIMEOUT_LINE_RE), "logger" (a record of the   *)
(* workload's own logger, STRUCTURED_LOG_LINE_RE), "ample" and "tight" (an *)
(* RSS reading above or below HARD_HEADROOM_FLOOR).                        *)
(***************************************************************************)
EXTENDS Integers, Sequences, FiniteSetsExt

Tokens == {"oom", "timeout", "logger", "ample", "tight"}
Lines == SUBSET Tokens

(* A stream is written in pieces, each a line or, if it does not end one, a*)
(* part of the line that the next piece goes on with.                      *)
Piece == [text : Lines, ends : BOOLEAN]
AsPieces(lines) == [i \in DOMAIN lines |-> [text |-> lines[i], ends |-> TRUE]]

(* What a line has by its i-th piece, and the lines in all: one that is not*)
(* ended is none yet.                                                      *)
SameLine(pieces, i) == {j \in 1..i : \A k \in j..(i - 1) : ~pieces[k].ends}
LineSoFar(pieces, i) == UNION {pieces[j].text : j \in SameLine(pieces, i)}
LinesOf(pieces) ==
    [i \in DOMAIN pieces |->
        IF pieces[i].ends THEN LineSoFar(pieces, i) ELSE {}]

OomCodes == {137, -9}
TimeoutCodes == {124, 143, -14, -15}

(* A killer never writes through the workload's own logger.                *)
KillShaped(line) == "logger" \notin line /\ line \cap {"oom", "timeout"} # {}

(* The last line of the text among those at the given places; {} is None.  *)
Latest(text, places) == IF places = {} THEN {} ELSE text[Max(places)]

(* find_kill_line: the last line that looks like a kill.                   *)
FindKillLine(text) == Latest(text, {i \in DOMAIN text : KillShaped(text[i])})

(* parse_reading over the lines, as the capture keeps it: the last one.    *)
IsReading(line) == line \cap {"ample", "tight"} # {}
Reading(text) == Latest(text, {i \in DOMAIN text : IsReading(text[i])})

(* classify: a line that speaks of memory counts unless a reading with room*)
(* to spare contradicts it; memory wins over time.                         *)
Classify(code, status, line, reading) ==
    IF code \in OomCodes \/ ("oom" \in line /\ "ample" \notin reading)
      THEN "OOM"
    ELSE IF code \in TimeoutCodes \/ status = "TimedOut" \/ "timeout" \in line
      THEN "TIMEOUT"
    ELSE "none"
=============================================================================
