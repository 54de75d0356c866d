---------------------------- MODULE SsmDispatch ----------------------------
(***************************************************************************)
(* krepis.ssm_dispatcher.run: a script sent to a box through SSM, polled   *)
(* until it ends.                                                          *)
(*                                                                         *)
(* SSM registers the command some time after it accepted it, throttles,    *)
(* shows the head of the output, and uploads the whole of it to S3 around  *)
(* the time the command ends.  The dispatcher writes to out, which is the  *)
(* output of the launcher that calls it.                                   *)
(***************************************************************************)
EXTENDS ResourceKill

CONSTANTS
    ScriptLines,      \* lines the script may write
    ScriptCodes,      \* its exit codes
    MaxLines,         \* bound on what it writes
    MaxStreamed,      \* bound on what is streamed before a reply shows less
    InlineCap,        \* half-lines in StandardOutputContent
    TailLines,        \* lines in REMOTE_TAIL_BYTES
    Attempts,         \* REMOTE_TAIL_ATTEMPTS
    Grace             \* polls within REGISTRATION_GRACE_SECONDS

(* What the module that composes the dispatcher assumes of the constants.  *)
DispatchConstants ==
    /\ ScriptLines \subseteq Lines
    /\ ScriptCodes \subseteq Int
    /\ MaxLines \in Nat
    /\ MaxStreamed \in Nat
    /\ InlineCap \in Nat \ {0}
    /\ TailLines \in Nat \ {0}
    /\ Attempts \in Nat \ {0}
    /\ Grace \in Nat

VARIABLES
    remote,           \* lines the script wrote, its errors among them
    code,             \* ResponseCode; NoCode before the script has ended
    status,           \* the invocation's status
    registered,       \* GetCommandInvocation knows the command
    uploaded,         \* the output is in S3
    dpc,              \* where the dispatcher stands
    elapsed,          \* polls since SendCommand, up to Grace + 1
    last_out_len,     \* last_out_len
    tries,            \* attempts to list the upload
    reply,            \* the reply being acted upon
    remote_tail,      \* remote_tail
    verdict,          \* its classification
    answer,           \* what run returns
    out,              \* the launcher's output, not yet read by anyone
    printed,          \* history: all of it
    glued             \* history: the cause went on a line of the workload's
                      \* own logger

box == <<remote, code, status, registered, uploaded>>
dispatcher == <<dpc, elapsed, last_out_len, tries, reply, remote_tail, verdict,
                answer>>
output == <<out, printed, glued>>

NoCode == -1
PENDING_STATUSES == {"Pending", "InProgress", "Delayed"}
TERMINAL_NON_SUCCESS ==
    {"Cancelled", "Failed", "TimedOut", "Cancelling", "TerminalError"}
Ended == {"Success", "Failed", "TimedOut", "Cancelled"}
NoReply == [status |-> "none", code |-> NoCode, std_out |-> <<>>]

DispatchInit ==
    /\ remote = <<>>
    /\ code = NoCode
    /\ status = "none"
    /\ registered = FALSE
    /\ uploaded = FALSE
    /\ dpc = "send"
    /\ elapsed = 0
    /\ last_out_len = 0
    /\ tries = 0
    /\ reply = NoReply
    /\ remote_tail = <<>>
    /\ verdict = "none"
    /\ answer = NoCode
    /\ out = <<>>
    /\ printed = <<>>
    /\ glued = FALSE

Tail32(text) == SubSeq(text, IF Len(text) > TailLines
                               THEN Len(text) - TailLines + 1 ELSE 1, Len(text))

Write(pieces) ==
    /\ out' = out \o pieces
    /\ printed' = printed \o pieces

(* The reply's stdout is measured in half-lines: an odd number ends within *)
(* a line, where SSM's capture happened to stop, or the script has yet to  *)
(* write the newline.  `part` is what the reply has of that line.          *)
InLine(n) == n % 2 = 1
Written == 2 * Len(remote)
Shown == IF Written < InlineCap THEN Written ELSE InlineCap
Parts(n) == IF InLine(n) THEN SUBSET remote[n \div 2 + 1] ELSE {{}}
StdOut(n, part) ==
    SubSeq(remote, 1, n \div 2) \o (IF InLine(n) THEN <<part>> ELSE <<>>)

(* std_out[last_out_len:] is passed on as it is.  It begins with the rest  *)
(* of a line that the last one was cut in: of one that stands open in the  *)
(* output, or, after a note in between, of any part of it.                 *)
Open == printed # <<>> /\ ~printed[Len(printed)].ends
Rests(from) ==
    IF ~InLine(from) THEN {{}}
    ELSE IF Open THEN {remote[from \div 2 + 1]}
    ELSE SUBSET remote[from \div 2 + 1]

Delta(from, n, rest, part) ==
    (IF InLine(from) THEN <<[text |-> rest, ends |-> TRUE]>> ELSE <<>>)
        \o AsPieces(SubSeq(remote, (from + 1) \div 2 + 1, n \div 2))
        \o (IF InLine(n) THEN <<[text |-> part, ends |-> FALSE]>> ELSE <<>>)

(* A reply that shows less than an earlier one is noted, on a line, and the*)
(* length starts from there.                                               *)
CapNote == <<[text |-> {}, ends |-> TRUE]>>
Streamed(n, part) ==
    IF n > last_out_len
      THEN {Delta(last_out_len, n, rest, part) : rest \in Rests(last_out_len)}
    ELSE {IF n < last_out_len THEN CapNote ELSE <<>>}

(* run returns, and with it go its local variables.                        *)
Return(n) ==
    /\ answer' = n
    /\ dpc' = "done"
    /\ elapsed' = 0
    /\ last_out_len' = 0
    /\ tries' = 0
    /\ reply' = NoReply
    /\ remote_tail' = <<>>

GoOn(label) == dpc' = label /\ UNCHANGED answer

-----------------------------------------------------------------------------
(* SSM and the box.                                                        *)

Register ==
    /\ status # "none"
    /\ ~registered
    /\ registered' = TRUE
    /\ UNCHANGED <<remote, code, status, uploaded, dispatcher, output>>

(* The agent takes the command, at once or later, or the delivery times    *)
(* out.                                                                    *)
Deliver ==
    /\ status \in {"Pending", "Delayed"}
    /\ status' \in {"InProgress", "Delayed", "TimedOut"}
    /\ UNCHANGED <<remote, code, registered, uploaded, dispatcher, output>>

ScriptWrites ==
    /\ status \in {"InProgress", "Cancelling"}
    /\ Len(remote) < MaxLines
    /\ \E l \in ScriptLines : remote' = Append(remote, l)
    /\ UNCHANGED <<code, status, registered, uploaded, dispatcher, output>>

(* The script exits, or the agent kills it at executionTimeout.            *)
ScriptEnds ==
    /\ status = "InProgress"
    /\ \/ \E c \in ScriptCodes :
             /\ code' = c
             /\ status' = IF c = 0 THEN "Success" ELSE "Failed"
       \/ /\ status' = "TimedOut"
          /\ UNCHANGED code
    /\ UNCHANGED <<remote, registered, uploaded, dispatcher, output>>

(* An operator cancels the command; the script goes on until it is killed. *)
Cancel ==
    /\ \/ status \in {"Pending", "InProgress", "Delayed"}
            /\ status' = "Cancelling"
       \/ status = "Cancelling" /\ status' = "Cancelled"
    /\ UNCHANGED <<remote, code, registered, uploaded, dispatcher, output>>

Upload ==
    /\ status \in Ended
    /\ ~uploaded
    /\ uploaded' = TRUE
    /\ UNCHANGED <<remote, code, status, registered, dispatcher, output>>

-----------------------------------------------------------------------------
(* The dispatcher.                                                         *)

(* send_command is accepted; or it raises, and whether the script runs is  *)
(* not known.                                                              *)
SendCommand ==
    /\ dpc = "send"
    /\ \/ /\ status' = "Pending"
          /\ GoOn("poll")
          /\ UNCHANGED <<elapsed, last_out_len, tries, reply, remote_tail>>
       \/ /\ status' \in {"none", "Pending"}
          /\ Return(1)
    /\ UNCHANGED <<remote, code, registered, uploaded, verdict,
                   output>>

Slept ==
    IF registered \/ elapsed > Grace THEN elapsed ELSE elapsed + 1

(* sleep, then get_command_invocation: InvocationDoesNotExist is excused   *)
(* for a while, throttling always, and any other error ends the dispatch.  *)
PollErrors == {"InvocationDoesNotExist", "ThrottlingException", "other"}
Excused(e) == \/ e = "InvocationDoesNotExist" /\ Slept <= Grace
              \/ e = "ThrottlingException"

PollFails ==
    /\ dpc = "poll"
    /\ \E e \in PollErrors :
          /\ e = "InvocationDoesNotExist" => ~registered
          /\ IF Excused(e)
               THEN /\ GoOn("poll")
                    /\ elapsed' = Slept
                    /\ UNCHANGED <<last_out_len, tries, reply, remote_tail>>
               ELSE Return(1)
    /\ UNCHANGED <<box, verdict, output>>

(* The sentinel of the RSS harness need not be looked for in the upload.   *)
HasReading(std_out) == Reading(std_out) # {} /\ Written <= InlineCap

(* Mutant of NextStep: no status is unknown.                               *)
TakeForDone(s, std_out) ==
    CASE s \in PENDING_STATUSES -> "poll"
      [] s = "Failed" -> "tail"
      [] OTHER -> "recover"

(* Where a reply leads: on a Success to the reading, which is published    *)
(* whatever comes of it; on a failure to the remote tail.                  *)
NextStep(s, std_out) ==
    CASE s = "Success" -> IF HasReading(std_out) THEN "done" ELSE "recover"
      [] s \in TERMINAL_NON_SUCCESS -> "tail"
      [] s \in PENDING_STATUSES -> "poll"
      [] OTHER -> "done"

(* A reply: what is new on its stdout is passed on.                        *)
PollAnswers ==
    /\ dpc = "poll"
    /\ registered
    /\ \E n \in 0..Shown : \E part \in Parts(n) :
          LET std_out == StdOut(n, part)
              next == NextStep(status, std_out)
          IN  /\ status \in Ended => n + 1 >= Shown
              /\ n < last_out_len => /\ last_out_len = InlineCap
                                     /\ Len(printed) <= MaxStreamed
              /\ \E pieces \in Streamed(n, part) : Write(pieces)
              /\ IF next = "done"
                   THEN Return(IF status = "Success" THEN 0 ELSE 1)
                   ELSE /\ GoOn(next)
                        /\ elapsed' = 0
                        /\ last_out_len' = n
                        /\ reply' = IF next # "tail" THEN NoReply
                                    ELSE [status |-> status, code |-> code,
                                          std_out |-> std_out]
                        /\ UNCHANGED <<tries, remote_tail>>
    /\ UNCHANGED <<box, verdict, glued>>

(* _fetch_remote_output_tail: the list may come before the upload, and then*)
(* is repeated; what else goes wrong leaves the tail empty.                *)
FetchTail ==
    /\ dpc \in {"tail", "recover"}
    /\ \/ /\ ~uploaded
          /\ tries + 1 < Attempts
          /\ tries' = tries + 1
          /\ UNCHANGED <<dpc, answer, elapsed, last_out_len, reply, remote_tail>>
       \/ /\ dpc = "recover"
          /\ Return(0)
       \/ /\ dpc = "tail"
          /\ remote_tail' \in
                {<<>>} \cup (IF uploaded THEN {Tail32(remote)} ELSE {})
          /\ GoOn("report")
          /\ UNCHANGED <<elapsed, last_out_len, tries, reply>>
    /\ UNCHANGED <<box, verdict, output>>

(* The kill line comes from the uploaded tail first, else from the reply.  *)
KillLine ==
    IF FindKillLine(remote_tail) # {} THEN FindKillLine(remote_tail)
                                      ELSE FindKillLine(reply.std_out)

(* format_cause always names executionTimeout as the limit, and appends the*)
(* kill line.                                                              *)
Cause(line) == {"timeout"} \cup (line \cap {"oom"})

(* Mutant of Block: the cause is not printed.                              *)
BlockUnnamed(v, line) == <<{}>> \o remote_tail

(* What is printed about a failure: the cause or a plain error, wherever   *)
(* the output has come to, then the tail.                                  *)
Block(v, line) ==
    <<IF v = "none" THEN {} ELSE Cause(line)>> \o remote_tail

ReportFailure ==
    LET v == Classify(reply.code, reply.status, KillLine, {})
        first == Len(printed) + 1
    IN  /\ dpc = "report"
        /\ verdict' = v
        /\ Write(AsPieces(Block(v, KillLine)))
        /\ glued' = (v # "none" /\ "logger" \in LineSoFar(printed', first))
        /\ Return(1)
        /\ UNCHANGED box

BoxStep == Register \/ Deliver \/ ScriptWrites \/ ScriptEnds \/ Cancel \/ Upload
=============================================================================

