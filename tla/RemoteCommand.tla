--------------------------- MODULE RemoteCommand ---------------------------
(***************************************************************************)
(* A stage of the pipeline: the capture runs a launcher, the launcher calls*)
(* the dispatcher, the dispatcher runs a script on a box.  What the        *)
(* dispatcher prints goes through the pipe the capture reads; what it      *)
(* returns is the exit code of the launcher (set -e).  A launcher may leave*)
(* a heartbeat behind that holds the pipe, and writes to it.               *)
(***************************************************************************)
EXTENDS LogCapture

CONSTANTS
    ScriptLines, ScriptCodes, MaxLines, MaxStreamed, InlineCap, TailLines,
    Attempts, Grace,
    LeftBehind,       \* what a launcher may leave behind
    MaxBeats          \* bound on the lines a process left behind writes

ASSUME LauncherAssumption ==
    /\ LeftBehind \subseteq Holders \ {"child"}
    /\ MaxBeats \in Nat
    /\ {0, 1} \subseteq Codes

VARIABLES
    remote, code, status, registered, uploaded,
    dpc, elapsed, last_out_len, tries, reply, remote_tail, verdict,
    answer, printed, glued,
    beats             \* lines processes left behind have written

Dispatch == INSTANCE SsmDispatch WITH out <- pipe

ASSUME ScriptAssumption == Dispatch!DispatchConstants

dispatch == <<remote, code, status, registered, uploaded, dpc, elapsed,
              last_out_len, tries, reply, remote_tail, verdict,
              answer, printed, glued>>
stageVars == <<workload, capture, dispatch, beats>>

StageInit == CaptureInit /\ Dispatch!DispatchInit /\ beats = 0

(* Bounded by the return of the dispatcher: nobody asks the box any more.  *)
BoxRuns ==
    /\ dpc # "done"
    /\ Dispatch!BoxStep
    /\ UNCHANGED <<noise, holders, child, child_code, capture, beats>>

DispatcherRuns(step) ==
    /\ child = "running"
    /\ step
    /\ UNCHANGED <<noise, holders, child, child_code, capture, beats>>

(* The launcher starts a process in the background.                        *)
Leak ==
    /\ child = "running"
    /\ \E p \in LeftBehind \ holders : holders' = holders \cup {p}
    /\ UNCHANGED <<pipe, noise, child, child_code, capture, dispatch, beats>>

(* What is left behind writes.  Bounded by the launcher's exit: as long as  *)
(* it lives, more output in the pipe is nothing new to the capture.        *)
Beat ==
    /\ child = "exited"
    /\ holders \cap LeftBehind # {}
    /\ beats < MaxBeats
    /\ beats' = beats + 1
    /\ noise' = TRUE
    /\ UNCHANGED <<pipe, holders, child, child_code, capture, dispatch>>

Stop ==
    /\ \E p \in holders \ {"child"} : holders' = holders \ {p}
    /\ UNCHANGED <<pipe, noise, child, child_code, capture, dispatch, beats>>

LauncherExits ==
    /\ child = "running"
    /\ dpc = "done"
    /\ child' = "exited"
    /\ child_code' = answer
    /\ holders' = holders \ {"child"}
    /\ UNCHANGED <<pipe, noise, capture, dispatch, beats>>

Capture == CaptureStep /\ UNCHANGED <<dispatch, beats>>

SendCommand == DispatcherRuns(Dispatch!SendCommand)
PollFails == DispatcherRuns(Dispatch!PollFails)
PollAnswers == DispatcherRuns(Dispatch!PollAnswers)
FetchTail == DispatcherRuns(Dispatch!FetchTail)
ReportFailure == DispatcherRuns(Dispatch!ReportFailure)

(* Bounded by the return of the capture: nothing after it is of interest.  *)
StageNext ==
    /\ cpc # "done"
    /\ \/ Capture
       \/ SendCommand \/ PollFails \/ PollAnswers \/ FetchTail \/ ReportFailure
       \/ LauncherExits
       \/ BoxRuns
       \/ Leak \/ Beat \/ Stop

(* The capture and the dispatcher run.  Every step of the box brings the   *)
(* script nearer to its end, which executionTimeout sets; and a registered *)
(* command is not throttled for ever.                                      *)
StageFairness ==
    /\ WF_stageVars(Capture)
    /\ WF_stageVars(SendCommand \/ FetchTail \/ ReportFailure \/ LauncherExits)
    /\ WF_stageVars(PollAnswers)
    /\ WF_stageVars(BoxRuns)

StageSpec == StageInit /\ [][StageNext]_stageVars /\ StageFairness

-----------------------------------------------------------------------------
(* Properties.                                                             *)

(* A stage that exits with 0 has run its script to the end, and the script *)
(* exited with 0: no hop between the two turns a failure, a timeout, a     *)
(* cancellation or a lost poll into a success.                             *)
SuccessIsReal ==
    cpc = "done" /\ exit_code = 0 => status = "Success" /\ code = 0

(* All that the launcher printed is in the captured log when the capture   *)
(* ends, also when a process left behind keeps the pipe open and writes to *)
(* it: the silence that ends the capture is only spent on a drained pipe.  *)
NothingIsLost ==
    cpc = "done" /\ ~faulted => log = printed

(* What the dispatcher took for a resource kill is named one in the        *)
(* message of the stage, although the launcher's exit code is 1 by then and*)
(* the cause may have been written behind half a line of the script's -    *)
(* unless that half is of the workload's own logger, or a measured reading *)
(* with room to spare speaks against it.                                   *)
KillIsNamed ==
    cpc = "done" /\ ~faulted /\ verdict # "none" /\ ~glued
        /\ "ample" \notin Reading(LinesOf(log)) => named # "none"

(* The stage ends, with whatever the launcher left behind: a process that  *)
(* holds the pipe for ever does not hold the capture, once it is silent.   *)
StageEnds == <>(cpc = "done")
=============================================================================
