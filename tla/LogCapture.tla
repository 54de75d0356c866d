----------------------------- MODULE LogCapture -----------------------------
(***************************************************************************)
(* krepis.ssm_log_capture.run: a command with its output teed to a log     *)
(* that is shipped when the command ends.                                  *)
(*                                                                         *)
(* The command may leave processes behind that hold its output pipe, so the*)
(* end of the pipe says nothing about the end of the command: the capture  *)
(* alternates between select on the pipe and poll of the child.  What the  *)
(* child does - writing, forking, exiting - is left to the module that     *)
(* composes the capture with its command.                                  *)
(***************************************************************************)
EXTENDS ResourceKill

CONSTANTS
    Codes,            \* exit codes of the child
    Drain,            \* quiet polls within ORPHAN_DRAIN_SECONDS
    Faults            \* TRUE: Popen, log writes and uploads may raise

ASSUME CaptureAssumption ==
    /\ Codes \subseteq Int
    /\ Drain \in Nat \ {0}
    /\ Faults \in BOOLEAN

VARIABLES
    pipe,             \* what the command wrote to the output pipe
    noise,            \* and lines of processes it left behind are in it too
    holders,          \* who holds its write end
    child,            \* the direct child
    child_code,       \* its exit code, once it has exited
    cpc,              \* where the capture stands
    quiet,            \* polls since quiet_since; NotQuiet is None
    log,              \* the captured output of the command (not those of the
                      \* processes it left behind), in log_path and on stdout
    exit_code,        \* exit_code
    orphan_note,      \* orphan_note is not None
    faulted,          \* history: a write to the log raised
    named,            \* the verdict in the failure message
    shipped           \* the log is in S3

workload == <<pipe, noise, holders, child, child_code>>
result == <<exit_code, orphan_note, faulted, named, shipped>>
capture == <<cpc, quiet, log, result>>

(* The child, and what it may leave behind: a process of its own group, or *)
(* one that has left it for a session of its own.                          *)
Holders == {"child", "group", "session"}
NotQuiet == -1

CaptureInit ==
    /\ pipe = <<>>
    /\ noise = FALSE
    /\ holders = {}
    /\ child = "none"
    /\ child_code = 0
    /\ cpc = "start"
    /\ quiet = NotQuiet
    /\ log = <<>>
    /\ exit_code = 1
    /\ orphan_note = FALSE
    /\ faulted = FALSE
    /\ named = "none"
    /\ shipped = FALSE

-----------------------------------------------------------------------------
(* The capture.                                                            *)

(* Popen, or the handlers around it.                                       *)
Start ==
    /\ cpc = "start"
    /\ \/ /\ child' = "running"
          /\ holders' = {"child"}
          /\ cpc' = "select"
          /\ UNCHANGED exit_code
       \/ /\ Faults
          /\ exit_code' = 127
          /\ cpc' = "report"
          /\ UNCHANGED <<child, holders>>
    /\ UNCHANGED <<pipe, noise, child_code, quiet, log, orphan_note, faulted, named,
                   shipped>>

Unread == pipe # <<>> \/ noise

(* select finds the pipe readable: what is there is read and teed.  The    *)
(* write to the log may raise; the child is then left as it is.            *)
Read ==
    /\ cpc = "select"
    /\ Unread
    /\ pipe' = <<>>
    /\ noise' = FALSE
    /\ quiet' = NotQuiet
    /\ \/ /\ log' = log \o pipe
          /\ UNCHANGED <<cpc, exit_code, faulted>>
       \/ /\ Faults
          /\ exit_code' = 127
          /\ faulted' = TRUE
          /\ cpc' = "report"
          /\ UNCHANGED log
    /\ UNCHANGED <<holders, child, child_code, orphan_note, named, shipped>>

(* select finds the pipe closed by every writer.                           *)
Eof ==
    /\ cpc = "select"
    /\ ~Unread
    /\ holders = {}
    /\ cpc' = "wait"
    /\ UNCHANGED <<workload, quiet, log, result>>

(* select times out.                                                       *)
Silence ==
    /\ cpc = "select"
    /\ ~Unread
    /\ holders # {}
    /\ cpc' = "poll"
    /\ UNCHANGED <<workload, quiet, log, result>>

(* Mutant of Poll: the child's exit ends the capture, without a drain.     *)
PollNoDrain ==
    /\ cpc = "poll"
    /\ orphan_note' = (child = "exited")
    /\ cpc' = IF child = "exited" THEN "wait" ELSE "select"
    /\ UNCHANGED <<workload, quiet, log, exit_code, faulted, named, shipped>>

(* Mutant of Poll: every pass starts the silence anew.                     *)
PollForgets ==
    /\ cpc = "poll"
    /\ quiet' = IF child = "running" THEN NotQuiet ELSE 0
    /\ cpc' = "select"
    /\ UNCHANGED <<workload, log, result>>

(* A child that lives is merely slow.  One that has exited left someone    *)
(* with the pipe, who may be silent as long as the budget lasts.           *)
Poll ==
    /\ cpc = "poll"
    /\ \/ /\ child = "running"
          /\ quiet' = NotQuiet
          /\ cpc' = "select"
          /\ UNCHANGED orphan_note
       \/ /\ child = "exited"
          /\ quiet + 1 < Drain \/ quiet = NotQuiet
          /\ quiet' = quiet + 1
          /\ cpc' = "select"
          /\ UNCHANGED orphan_note
       \/ /\ child = "exited"
          /\ quiet + 1 >= Drain /\ quiet # NotQuiet
          /\ orphan_note' = TRUE
          /\ cpc' = "wait"
          /\ UNCHANGED quiet
    /\ UNCHANGED <<workload, log, exit_code, faulted, named, shipped>>

(* proc.wait(): the child need not have exited when the pipe is closed.    *)
Wait ==
    /\ cpc = "wait"
    /\ child = "exited"
    /\ exit_code' = child_code
    /\ cpc' = IF orphan_note THEN "kill" ELSE "report"
    /\ UNCHANGED <<workload, quiet, log, orphan_note, faulted, named, shipped>>

(* _kill_orphan_group reaches the child's group, not who has left it.  The *)
(* note about it is the last write to the log.                             *)
KillOrphans ==
    /\ cpc = "kill"
    /\ holders' = holders \ {"group"}
    /\ cpc' = "report"
    /\ \/ UNCHANGED <<exit_code, faulted>>
       \/ /\ Faults
          /\ exit_code' = 127
          /\ faulted' = TRUE
    /\ UNCHANGED <<pipe, noise, child, child_code, quiet, log, orphan_note, named,
                   shipped>>

(* format_subprocess_failure, from the lines seen while reading: a line is *)
(* looked at when its newline has come, whatever chunks it came in.        *)
Report ==
    /\ cpc = "report"
    /\ named' = IF exit_code = 0 THEN "none"
                ELSE Classify(exit_code, "", FindKillLine(LinesOf(log)),
                              Reading(LinesOf(log)))
    /\ cpc' = "ship"
    /\ UNCHANGED <<workload, quiet, log, exit_code, orphan_note, faulted,
                   shipped>>

(* _ship_log_to_s3 never raises; then run returns.                         *)
Ship ==
    /\ cpc = "ship"
    /\ shipped' \in {TRUE, ~Faults}
    /\ cpc' = "done"
    /\ UNCHANGED <<workload, quiet, log, exit_code, orphan_note, faulted,
                   named>>

CaptureStep ==
    \/ Start \/ Read \/ Eof \/ Silence \/ Poll \/ Wait \/ KillOrphans
    \/ Report \/ Ship
=============================================================================

