------------------------------- MODULE SpotRun -------------------------------
(***************************************************************************)
(* A spot run: the launcher watches a box, tears its staging area down,    *)
(* asks krepis/ec2_spot.py whether AWS took the box and whether to launch  *)
(* another, which then runs as the first one did: a behaviour of this      *)
(* module is one attempt.                                                  *)
(***************************************************************************)
EXTENDS SpotBox, SpotEvidence

CONSTANTS MaxAttempts, PerAttempt, \* --max-attempts, --per-attempt-seconds
          Budgets \* the values of --sf-execution-timeout, None where it is not given
ASSUME AttemptsAssumption == MaxAttempts \in Nat \ {0}

VARIABLES attempt, \* the attempt under way
          budget,  \* the time the outer state machine has, if the launcher was told
          launcher, \* "watching", "teardown", "held" or "relaunched"
          code      \* the status the launcher has of it
launcherVars == <<attempt, budget, launcher, code>>
vars == <<boxVars, evidenceVars, launcherVars>>

Init ==
  /\ \E f \in Specs : BoxStart(f)
  /\ EvidenceInit /\ attempt = None /\ budget = None /\ launcher = "watching" /\ code = None

(***************************************************************************)
(* classify_termination: what EC2 answers of the spot request and of the   *)
(* instance, each possibly unreadable or behind.                           *)
(***************************************************************************)
Answers == {"unread", "other"} \cup (IF taken THEN {"reclaim"} ELSE {})
Classification(sir, instance) ==
  CASE sir = "unread" /\ instance = "unread" -> "unknown"
    [] "reclaim" \in {sir, instance} -> "reclaim"
    [] OTHER -> "other"
Remaining == MaxAttempts - attempt
\* Optional: without the two options only the attempts are counted.
Affords(n, limit) == limit = None \/ n * PerAttempt <= limit
Fits == Affords(attempt + 1, budget)
RelaunchesUnlessOther(classification) == classification # "other" /\ Remaining > 0 /\ Fits
Relaunches(classification) == classification = "reclaim" /\ Remaining > 0 /\ Fits

-----------------------------------------------------------------------------
Status == IF rc = None THEN 1 ELSE rc
(* The launcher reads the command's status, or finds the box gone, and has *)
(* the box terminated; then its teardown begins.  It is on one of the      *)
(* attempts that there may be, with a budget or without.                   *)
AttemptsSoFar(limit) == {n \in 1..MaxAttempts : n = 1 \/ Affords(n, limit)}
Terminate ==
  /\ launcher = "watching" /\ ~ Has("selfstart") /\ pc = "ended" /\ launcher' = "teardown" /\ code' = Status
  /\ power' = IF power = "on" THEN "stopping" ELSE power
  /\ budget' \in Budgets /\ attempt' \in AttemptsSoFar(budget')
  /\ UNCHANGED <<spec, taken, pc, rc, timers, recorder, logVars, evidenceVars>>
TearDown ==
  /\ launcher = "teardown" /\ At("idle") /\ ~ Running /\ Has("staged") /\ Teardown(1, code)
  /\ UNCHANGED <<boxVars, launcherVars>>
Verdict(again) ==
  /\ launcher = "teardown" /\ ~ Running /\ (Has("staged") => At("done"))
  /\ \E sir, instance \in Answers : again = (code # 0 /\ Relaunches(Classification(sir, instance)))
Holds ==
  /\ Verdict(FALSE) /\ launcher' = "held"
  /\ UNCHANGED <<boxVars, evidenceVars, attempt, budget, code>>
Relaunch ==
  /\ Verdict(TRUE) /\ launcher' = "relaunched" /\ attempt' = attempt + 1
  /\ UNCHANGED <<boxVars, evidenceVars, budget, code>>

-----------------------------------------------------------------------------
BoxSteps == BoxNext /\ UNCHANGED <<evidenceVars, launcherVars>>
TeardownSteps == launcher = "teardown" /\ TeardownStep /\ UNCHANGED <<boxVars, launcherVars>>
\* The command's output, also when it is still on its way as the box goes.
Uploads ==
  /\ launcher = "teardown" /\ ~ Running /\ Has("staged") /\ ~ At("done") /\ Upload(1)
  /\ UNCHANGED <<boxVars, launcherVars>>
Next == BoxSteps \/ TeardownSteps \/ Uploads \/ Terminate \/ TearDown \/ Holds \/ Relaunch
Spec == Init /\ [][Next]_vars /\ BoxFairness

-----------------------------------------------------------------------------
(***************************************************************************)
(* A box that something guards powers off: its cap or its unit's time-out  *)
(* once armed, and its dead-man and its exit trap unless the workload's    *)
(* hook in the trap, which runs with the dead-man cancelled, never         *)
(* returns, whatever hangs or fails: a block, the workload or the shipper. *)
(***************************************************************************)
Guarded ==
  \/ DOMAIN timers \cap {"cap", "unit", "delayed"} # {}
  \/ ~ Has("hook") /\ "deadman" \in DOMAIN timers
  \/ ~ Has("hook") /\ Traps /\ pc \in {"stopdeadman", "stopshipper", "ship", "remove", "finishhook", "schedule"}
  \/ Has("selfstart") /\ rc # None
BoxEnds == Guarded ~> ~ Running

(***************************************************************************)
(* What S3 holds of the run's log never shrinks as long as its writers do  *)
(* not overlap, whichever upload fails and however the box ends: the plain *)
(* object goes only once the compressed one is there.                      *)
(***************************************************************************)
Lines(object) == IF object = None THEN 0 ELSE object.lines
Kept == {Lines(plain), Lines(gz)}
LogNeverShrinks == [][clash' \/ \A n \in Kept : \E m \in Kept' : m >= n]_vars

(***************************************************************************)
(* A log a terminating timer has pushed says in S3 that the timer ended    *)
(* it, also after the exit trap has shipped the log again, unless an       *)
(* upload begun before overlapped.                                         *)
(***************************************************************************)
Stamps(object) == IF object = None THEN {} ELSE object.stamps
KillIsNamed == ~ clash => told \subseteq Stamps(plain) \cup Stamps(gz)

(***************************************************************************)
(* A failed run's evidence that was there when its teardown began stays    *)
(* in staging or in the durable tree, whatever S3 answers and wherever the *)
(* launcher dies; an earlier run's goes only past the retention.           *)
(***************************************************************************)
EvidenceSurvives ==
  /\ \A r \in Runs : seen[r] \subseteq staging[r] \cup durable[r]
  /\ day <= StagingDays => staging[0] = Objects
  /\ day <= EvidenceDays => durable[0] = Objects

(***************************************************************************)
(* A fresh box is launched only after one AWS took, and never past the     *)
(* attempts, nor past the time of the outer state machine, if that was     *)
(* given.                                                                  *)
(***************************************************************************)
RelaunchIsEarned ==
  [][launcher # "relaunched" /\ launcher' = "relaunched" =>
       taken /\ code # 0 /\ attempt' <= MaxAttempts /\ Affords(attempt', budget)]_vars
=============================================================================
