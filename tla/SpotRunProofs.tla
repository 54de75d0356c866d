---------------------------- MODULE SpotRunProofs ----------------------------
(***************************************************************************)
(* Proofs about SpotRun: a failed run's evidence survives its teardown,    *)
(* for every set of objects and every retention, a fresh box is launched   *)
(* only after one that AWS took, and what S3 has of the run's log stays,   *)
(* the name of the timer that ended the box above all.                     *)
(***************************************************************************)
EXTENDS SpotRun, WellFoundedInduction, TLAPS

Phases == {"idle", "list", "copy", "listagain", "delete", "sweep", "sweepdurable", "done", "dead"}
EvidenceTypeOK ==
  /\ staging \in [Runs -> SUBSET Objects]
  /\ durable \in [Runs -> SUBSET Objects]
  /\ seen \in [Runs -> SUBSET Objects]
  /\ day \in Nat
  /\ td \in [phase : Phases, run : Runs, keys : SUBSET Objects]

\* No retention has run out before the teardown begins.
NotYet == At("idle") => day = 0
\* The teardown is of run 1, and only its evidence is watched.
OwnRun == (~ At("idle") => td.run = 1) /\ seen[0] = {}
\* Until the copy has ended nothing has left staging, and what has left
\* the list of what is to be copied is durable.
Copied ==
  /\ At("list") => seen[1] \subseteq staging[1]
  /\ At("copy") => seen[1] \subseteq staging[1] /\ seen[1] \subseteq td.keys \cup durable[1]
\* The deletion begins, and goes on, only with everything durable.
Durable == td.phase \in {"listagain", "delete", "sweep", "sweepdurable"} => seen[1] \subseteq durable[1]
EvidenceInv == EvidenceTypeOK /\ NotYet /\ OwnRun /\ Copied /\ Durable /\ EvidenceSurvives

LEMMA InitEvidence == Init => EvidenceInv
  BY RetentionAssumption
  DEF Init, EvidenceInit, Idle, EvidenceInv, EvidenceTypeOK, Phases, Runs, NotYet, OwnRun, Copied, Durable,
      EvidenceSurvives, At

\* The box's own steps, and the launcher's watching, touch no evidence.
LEMMA ElsewhereEvidence ==
  ASSUME EvidenceInv, UNCHANGED evidenceVars PROVE EvidenceInv'
  BY DEF evidenceVars, EvidenceInv, EvidenceTypeOK, NotYet, OwnRun, Copied, Durable, EvidenceSurvives, At

LEMMA TearDownEvidence ==
  ASSUME EvidenceInv, TearDown PROVE EvidenceInv'
<1>1. At("idle") /\ td.phase = "idle" /\ day = 0 /\ UNCHANGED <<staging, durable>>
  BY DEF TearDown, Teardown, EvidenceInv, NotYet, At
<1>2. day' \in Nat
  BY RetentionAssumption DEF TearDown, Teardown
<1>3. td' = [phase |-> FirstPhase(code), run |-> 1, keys |-> {}] /\ FirstPhase(code) \in {"list", "listagain"}
  BY DEF TearDown, Teardown, FirstPhase
<1>4. seen' = [seen EXCEPT ![1] = IF code = 0 THEN {} ELSE staging[1]]
  BY DEF TearDown, Teardown
<1>5. seen' \in [Runs -> SUBSET Objects] /\ seen'[0] = seen[0] /\ seen'[1] \subseteq staging[1]
  BY <1>4 DEF EvidenceInv, EvidenceTypeOK, Runs
<1>6. FirstPhase(code) = "listagain" => seen'[1] = {}
  BY <1>4 DEF FirstPhase, EvidenceInv, EvidenceTypeOK, Runs
<1>7. EvidenceTypeOK'
  BY <1>1, <1>2, <1>3, <1>5 DEF EvidenceInv, EvidenceTypeOK, Phases, Runs
<1>8. NotYet' /\ OwnRun' /\ Copied' /\ Durable'
  BY <1>1, <1>3, <1>5, <1>6 DEF EvidenceInv, NotYet, OwnRun, Copied, Durable, At
<1>9. EvidenceSurvives'
  BY <1>1, <1>5, RetentionAssumption DEF EvidenceInv, EvidenceSurvives, EvidenceTypeOK, OwnRun, Runs
<1> QED
  BY <1>7, <1>8, <1>9 DEF EvidenceInv

LEMMA UploadEvidence ==
  ASSUME EvidenceInv, Upload(1) PROVE EvidenceInv'
<1>1. UNCHANGED <<durable, day, td, seen>>
  BY DEF Upload
<1>2. staging' \in [Runs -> SUBSET Objects] /\ staging'[0] = staging[0] /\ staging[1] \subseteq staging'[1]
  BY DEF Upload, EvidenceInv, EvidenceTypeOK, Runs
<1> QED
  BY <1>1, <1>2 DEF EvidenceInv, EvidenceTypeOK, NotYet, OwnRun, Copied, Durable, EvidenceSurvives, At, Runs

\* Every step of the teardown leads to a phase whose obligation it has met.
LEMMA TeardownStepEvidence ==
  ASSUME EvidenceInv, TeardownStep PROVE EvidenceInv'
<1> USE DEF At
<1>0. /\ staging \in [Runs -> SUBSET Objects] /\ durable \in [Runs -> SUBSET Objects]
      /\ seen \in [Runs -> SUBSET Objects] /\ day \in Nat
      /\ td \in [phase : Phases, run : Runs, keys : SUBSET Objects]
  BY DEF EvidenceInv, EvidenceTypeOK
<1>1. ASSUME NEW p \in Phases \ {"idle"}, NEW k \in SUBSET Objects, GoTo(p, k), ~ At("idle")
      PROVE td' \in [phase : Phases, run : Runs, keys : SUBSET Objects] /\ td'.phase = p /\ td'.keys = k
            /\ td'.run = 1 /\ td.run = 1
  BY <1>0, <1>1 DEF GoTo, EvidenceInv, OwnRun
<1>2. CASE List
  BY <1>0, <1>1, <1>2 DEF List, EvidenceInv, EvidenceTypeOK, NotYet, OwnRun, Copied, Durable, EvidenceSurvives,
     Phases, Runs
<1>3. CASE Copy
  <2>1. PICK key \in td.keys :
          durable' = [durable EXCEPT ![td.run] = @ \cup {key}] /\ GoTo("copy", td.keys \ {key})
    BY <1>3 DEF Copy
  <2>2. td.run = 1 /\ td'.phase = "copy" /\ td'.keys = td.keys \ {key} /\ td'.run = 1
        /\ td' \in [phase : Phases, run : Runs, keys : SUBSET Objects]
    BY <1>0, <1>1, <1>3, <2>1 DEF Copy, Phases
  <2>3. durable' \in [Runs -> SUBSET Objects] /\ durable'[0] = durable[0] /\ durable'[1] = durable[1] \cup {key}
    BY <1>0, <2>1, <2>2 DEF Runs
  <2>4. UNCHANGED <<staging, day, seen>> /\ At("copy")
    BY <1>3 DEF Copy
  <2> QED
    BY <1>0, <2>2, <2>3, <2>4 DEF EvidenceInv, EvidenceTypeOK, NotYet, OwnRun, Copied, Durable, EvidenceSurvives, Runs
<1>4. CASE PreserveFails
  BY <1>0, <1>1, <1>4 DEF PreserveFails, Unpreserved, EvidenceInv, EvidenceTypeOK, NotYet, OwnRun, Copied, Durable,
     EvidenceSurvives, Phases, Runs
<1>5. CASE Preserved
  BY <1>0, <1>1, <1>5 DEF Preserved, EvidenceInv, EvidenceTypeOK, NotYet, OwnRun, Copied, Durable,
     EvidenceSurvives, Phases, Runs
<1>6. CASE ListAgain
  BY <1>0, <1>1, <1>6 DEF ListAgain, EvidenceInv, EvidenceTypeOK, NotYet, OwnRun, Copied, Durable,
     EvidenceSurvives, Phases, Runs
<1>7. CASE Delete
  <2>1. PICK deleted \in SUBSET td.keys : staging' = [staging EXCEPT ![td.run] = @ \ deleted]
    BY <1>7 DEF Delete
  <2>2. td.run = 1 /\ td'.phase = "sweep" /\ td'.run = 1
        /\ td' \in [phase : Phases, run : Runs, keys : SUBSET Objects]
    BY <1>0, <1>1, <1>7 DEF Delete, Phases
  <2>3. staging' \in [Runs -> SUBSET Objects] /\ staging'[0] = staging[0]
    BY <1>0, <2>1, <2>2 DEF Runs
  <2>4. UNCHANGED <<durable, day, seen>> /\ seen[1] \subseteq durable[1]
    BY <1>7 DEF Delete, EvidenceInv, Durable
  <2> QED
    BY <1>0, <2>2, <2>3, <2>4 DEF EvidenceInv, EvidenceTypeOK, NotYet, OwnRun, Copied, Durable, EvidenceSurvives, Runs
<1>8. CASE SweepStaging
  <2>1. PICK deleted \in SweptOf(staging[0], StagingDays) : staging' = [staging EXCEPT ![0] = @ \ deleted]
    BY <1>8 DEF SweepStaging
  <2>2. td'.phase = "sweepdurable" /\ td'.run = 1
        /\ td' \in [phase : Phases, run : Runs, keys : SUBSET Objects]
    BY <1>0, <1>1, <1>8 DEF SweepStaging, Phases
  <2>3. staging' \in [Runs -> SUBSET Objects] /\ staging'[1] = staging[1]
    BY <1>0, <2>1 DEF Runs
  <2>4. day <= StagingDays => staging'[0] = staging[0]
    BY <1>0, <2>1, RetentionAssumption DEF SweptOf, Expired, Runs
  <2>5. UNCHANGED <<durable, day, seen>> /\ seen[1] \subseteq durable[1]
    BY <1>8 DEF SweepStaging, EvidenceInv, Durable
  <2> QED
    BY <1>0, <2>2, <2>3, <2>4, <2>5 DEF EvidenceInv, EvidenceTypeOK, NotYet, OwnRun, Copied, Durable, EvidenceSurvives,
       Runs
<1>9. CASE SweepDurable
  <2>1. PICK deleted \in SweptOf(durable[0], EvidenceDays) : durable' = [durable EXCEPT ![0] = @ \ deleted]
    BY <1>9 DEF SweepDurable
  <2>2. td'.phase = "done" /\ td'.run = 1
        /\ td' \in [phase : Phases, run : Runs, keys : SUBSET Objects]
    BY <1>0, <1>1, <1>9 DEF SweepDurable, Phases
  <2>3. durable' \in [Runs -> SUBSET Objects] /\ durable'[1] = durable[1]
    BY <1>0, <2>1 DEF Runs
  <2>4. day <= EvidenceDays => durable'[0] = durable[0]
    BY <1>0, <2>1, RetentionAssumption DEF SweptOf, Expired, Runs
  <2>5. UNCHANGED <<staging, day, seen>>
    BY <1>9 DEF SweepDurable
  <2> QED
    BY <1>0, <2>2, <2>3, <2>4, <2>5 DEF EvidenceInv, EvidenceTypeOK, NotYet, OwnRun, Copied, Durable, EvidenceSurvives,
       Runs
<1>10. CASE Dies
  BY <1>0, <1>1, <1>10 DEF Dies, EvidenceInv, EvidenceTypeOK, NotYet, OwnRun, Copied, Durable, EvidenceSurvives,
     Phases, Runs
<1> QED
  BY <1>2, <1>3, <1>4, <1>5, <1>6, <1>7, <1>8, <1>9, <1>10 DEF TeardownStep

LEMMA StepEvidence == EvidenceInv /\ [Next]_vars => EvidenceInv'
<1> SUFFICES ASSUME EvidenceInv, [Next]_vars PROVE EvidenceInv'
  OBVIOUS
<1>1. CASE TearDown
  BY <1>1, TearDownEvidence
<1>2. CASE TeardownSteps
  BY <1>2, TeardownStepEvidence DEF TeardownSteps
<1>3. CASE Uploads
  BY <1>3, UploadEvidence DEF Uploads
<1>4. CASE BoxSteps \/ Terminate \/ Holds \/ Relaunch \/ UNCHANGED vars
  <2>1. UNCHANGED evidenceVars
    BY <1>4 DEF BoxSteps, Terminate, Holds, Relaunch, vars, evidenceVars
  <2> QED
    BY <2>1, ElsewhereEvidence
<1> QED
  BY <1>1, <1>2, <1>3, <1>4 DEF Next

(***************************************************************************)
(* The teardown of spot_evidence.py keeps to what each of its phases has   *)
(* to rely on: nothing leaves staging before everything is durable.        *)
(***************************************************************************)
THEOREM EvidenceInvariant == Spec => []EvidenceInv
  BY InitEvidence, StepEvidence, PTL DEF Spec

(***************************************************************************)
(* A failed run's evidence stays in staging or in the durable tree, and an *)
(* earlier run's until its retention is over, whatever fails and whenever  *)
(* the teardown dies.                                                      *)
(***************************************************************************)
THEOREM EvidenceIsKept == Spec => []EvidenceSurvives
<1>1. EvidenceInv => EvidenceSurvives
  BY DEF EvidenceInv
<1> QED
  BY <1>1, EvidenceInvariant, PTL

-----------------------------------------------------------------------------
\* A launcher that is tearing down is on one of the attempts there may be.
OnAnAttempt == launcher = "teardown" => attempt \in 1..MaxAttempts

LEMMA InitAttempt == Init => OnAnAttempt
  BY DEF Init, OnAnAttempt
LEMMA StepAttempt == OnAnAttempt /\ [Next]_vars => OnAnAttempt'
<1> SUFFICES ASSUME OnAnAttempt, [Next]_vars PROVE OnAnAttempt'
  OBVIOUS
<1>1. CASE Terminate
  BY <1>1 DEF Terminate, AttemptsSoFar, OnAnAttempt
<1>2. CASE Holds \/ Relaunch
  BY <1>2 DEF Holds, Relaunch, OnAnAttempt
<1>3. CASE BoxSteps \/ TeardownSteps \/ Uploads \/ TearDown \/ UNCHANGED vars
  BY <1>3 DEF BoxSteps, TeardownSteps, Uploads, TearDown, vars, launcherVars, OnAnAttempt
<1> QED
  BY <1>1, <1>2, <1>3 DEF Next

LEMMA RelaunchEarned ==
  ASSUME OnAnAttempt, Relaunch
  PROVE  taken /\ code # 0 /\ attempt' <= MaxAttempts /\ Affords(attempt', budget)
<1>1. PICK sir \in Answers, instance \in Answers : code # 0 /\ Relaunches(Classification(sir, instance))
  BY DEF Relaunch, Verdict
<1>2. Classification(sir, instance) = "reclaim" /\ Remaining > 0 /\ Fits
  BY <1>1 DEF Relaunches
<1>3. "reclaim" \in {sir, instance}
  BY <1>2 DEF Classification
<1>4. taken
  BY <1>3 DEF Answers
<1>5. attempt \in 1..MaxAttempts /\ attempt' = attempt + 1
  BY DEF Relaunch, Verdict, OnAnAttempt
<1>6. attempt' <= MaxAttempts
  BY <1>2, <1>5, AttemptsAssumption DEF Remaining
<1>7. Affords(attempt', budget)
  BY <1>2, <1>5 DEF Fits
<1> QED
  BY <1>1, <1>4, <1>6, <1>7

(***************************************************************************)
(* relaunch_decision: a fresh box only after one AWS took, and within the  *)
(* attempts and the time there are, if that was given, whatever EC2        *)
(* answers.                                                                *)
(***************************************************************************)
THEOREM RelaunchesAreEarned == Spec => RelaunchIsEarned
<1>1. Spec => []OnAnAttempt
  BY InitAttempt, StepAttempt, PTL DEF Spec
<1>2. ASSUME OnAnAttempt, [Next]_vars
      PROVE [launcher # "relaunched" /\ launcher' = "relaunched" =>
               taken /\ code # 0 /\ attempt' <= MaxAttempts /\ Affords(attempt', budget)]_vars
  <2>1. CASE Relaunch
    BY <1>2, <2>1, RelaunchEarned
  <2>2. CASE Terminate \/ Holds
    BY <2>2 DEF Terminate, Holds
  <2>3. CASE BoxSteps \/ TeardownSteps \/ Uploads \/ TearDown \/ UNCHANGED vars
    BY <2>3 DEF BoxSteps, TeardownSteps, Uploads, TearDown, vars, launcherVars
  <2> QED
    BY <1>2, <2>1, <2>2, <2>3 DEF Next
<1> QED
  BY <1>1, <1>2, PTL DEF Spec, RelaunchIsEarned
-----------------------------------------------------------------------------
(***************************************************************************)
(* The run's log.  A block is followed by another block, or by the end of  *)
(* the script; never by a phase of the trap.                               *)
(***************************************************************************)
LEMMA FirstPlace ==
  ASSUME NEW places \in SUBSET Nat, places # {}
  PROVE  Min(places) \in places
<1>1. PICK i \in places : \A j \in places : ~ (<<j, i>> \in OpToRel(<, Nat))
  BY WFMin, NatLessThanWellFounded, Zenon
<1>2. \A j \in places : ~ (j < i)
  BY <1>1, Zenon DEF OpToRel
<1>3. \A j \in places : i <= j
  BY <1>2
<1> QED
  BY <1>3 DEF Min

BlockNames == {"recorder", "deadman", "runlog", "watchdog", "cap", "trap", "interpreter", "clone", "config", "secrets",
               "proxy", "setup", "drop", "unit", "record", "start"}
LEMMA OrderNames == ASSUME NEW f, NEW i \in DOMAIN Order(f) PROVE Order(f)[i] \in BlockNames
<1>1. CASE "selfstart" \in f
  BY <1>1 DEF Order, BlockNames
<1>2. CASE "selfstart" \notin f
  BY <1>2 DEF Order, BlockNames
<1> QED
  BY <1>1, <1>2
LEMMA OrderPlaces == ASSUME NEW f PROVE DOMAIN Order(f) \subseteq Nat
<1>1. CASE "selfstart" \in f
  BY <1>1 DEF Order
<1>2. CASE "selfstart" \notin f
  BY <1>2 DEF Order
<1> QED
  BY <1>1, <1>2
LEMMA FirstName == ASSUME NEW f, NEW places \in SUBSET Places(f) PROVE FirstOf(f, places) \in BlockNames \cup {"exit"}
<1>1. ASSUME places # {} PROVE Min(places) \in DOMAIN Order(f)
  BY <1>1, FirstPlace, OrderPlaces DEF Places
<1> QED
  BY <1>1, OrderNames DEF FirstOf
LEMMA SuccessorName == ASSUME NEW block PROVE Successor(block) \in BlockNames \cup {"exit"}
  BY FirstName DEF Successor

-----------------------------------------------------------------------------
LogTypeOK ==
  /\ log \in Snapshots /\ told \subseteq Guards /\ clash \in BOOLEAN
  /\ plain \in Snapshots \cup {None} /\ gz \in Snapshots \cup {None} /\ flight \in Snapshots \cup {None}
  /\ ship \in Shipments \cup {None}
\* A copy of the log that has all that S3 holds and that a timer has pushed.
Covers(content) ==
  /\ Lines(plain) <= content.lines /\ Lines(gz) <= content.lines
  /\ told \subseteq content.stamps

\* As long as no two writers have overlapped, the log has all that S3 holds, and
\* so has an upload, which then is the only one.
Pushing == \E unit \in DOMAIN recorder : recorder[unit] = "push"
LogCovers ==
  ~ clash =>
    /\ Running => Covers(log)
    /\ \A unit \in DOMAIN recorder : recorder[unit] = "push" => unit \in log.stamps
FlightCovers == ~ clash /\ flight # None => Covers(flight) /\ flight.lines <= log.lines /\ ship = None /\ ~ Pushing
ShipCovers == ~ clash /\ ship # None => Covers(ship.content) /\ ship.content.lines <= log.lines /\ flight = None /\ ~ Pushing
\* While the plain object may go, the compressed one has what it has.
RemoveIsSafe ==
  ~ clash /\ pc = "remove" =>
    flight = None /\ ~ Pushing /\ Lines(plain) <= Lines(gz) /\ told \subseteq Stamps(gz)
\* The trap uploads when it has stopped the loop.
TrapInv ==
  /\ ship # None => pc = "ship"
  /\ Running /\ pc \in {"ship", "remove"} => ~ shipper
LogInv == LogTypeOK /\ TrapInv /\ LogCovers /\ FlightCovers /\ ShipCovers /\ RemoveIsSafe /\ KillIsNamed

LEMMA OverlappedLog == ASSUME LogTypeOK', TrapInv', clash' PROVE LogInv'
  BY DEF LogInv, LogCovers, FlightCovers, ShipCovers, RemoveIsSafe, KillIsNamed

LEMMA InitLog == Init => LogInv
<1> SUFFICES ASSUME Init PROVE LogInv
  OBVIOUS
<1>1. PICK f : BoxStart(f)
  BY DEF Init
<1>2. pc \in BlockNames \cup {"exit"}
  BY <1>1, FirstName DEF BoxStart
<1>3. Empty \in Snapshots
  BY DEF Empty, Snapshots
<1>4. LogTypeOK /\ FlightCovers /\ ShipCovers /\ TrapInv
  BY <1>1, <1>3 DEF BoxStart, LogTypeOK, FlightCovers, ShipCovers, TrapInv
<1>5. LogCovers /\ KillIsNamed
  BY <1>1, <1>3 DEF BoxStart, LogCovers, Covers, Lines, KillIsNamed, Stamps, Empty
<1>6. RemoveIsSafe
  BY <1>1, <1>2 DEF BoxStart, RemoveIsSafe, BlockNames
<1> QED
  BY <1>4, <1>5, <1>6 DEF LogInv

\* A step that writes nothing, and does not bring the trap to its upload.
LEMMA ElsewhereLog ==
  ASSUME LogInv, UNCHANGED <<recorder, logVars>>, Running' => Running,
         pc' = pc \/ (pc # "ship" /\ pc' \notin {"ship", "remove"})
  PROVE  LogInv'
<1> USE DEF LogInv, logVars
<1>1. LogTypeOK' /\ KillIsNamed'
  BY DEF LogTypeOK, KillIsNamed, Stamps
<1>2. LogCovers' /\ FlightCovers' /\ ShipCovers'
  BY DEF LogCovers, FlightCovers, ShipCovers, Covers, Lines, Pushing
<1>3. RemoveIsSafe' /\ TrapInv'
  BY DEF RemoveIsSafe, TrapInv, Pushing, Lines, Stamps
<1> QED
  BY <1>1, <1>2, <1>3

LEMMA FiresLog == ASSUME LogInv, NEW unit \in Guards, Fires(unit) PROVE LogInv'
<1>1. UNCHANGED <<pc, logVars>> /\ (Running' => Running)
  BY DEF Fires, Running
<1>2. CASE UNCHANGED recorder
  BY <1>1, <1>2, ElsewhereLog
<1>3. CASE Step(unit, "stamp")
  <2>1. \A u \in DOMAIN recorder' : recorder'[u] = "push" => u \in DOMAIN recorder /\ recorder[u] = "push"
    BY <1>3 DEF Step
  <2>2. Pushing' => Pushing
    BY <2>1 DEF Pushing
  <2> USE DEF LogInv, logVars
  <2>3. LogTypeOK' /\ KillIsNamed' /\ TrapInv'
    BY <1>1 DEF LogTypeOK, KillIsNamed, Stamps, TrapInv
  <2>4. LogCovers'
    BY <1>1, <2>1 DEF LogCovers, Covers, Lines
  <2>5. FlightCovers' /\ ShipCovers' /\ RemoveIsSafe'
    BY <1>1, <2>2 DEF FlightCovers, ShipCovers, RemoveIsSafe, Covers, Lines, Stamps
  <2> QED
    BY <2>3, <2>4, <2>5
<1> QED
  BY <1>2, <1>3 DEF Fires

\* The log only grows.
LEMMA WriteLogLog == ASSUME LogInv, StartLog \/ WriteLog PROVE LogInv'
<1>1. UNCHANGED <<power, recorder, plain, gz, flight, ship, told, clash>> /\ Running /\ pc \notin {"ship", "remove"}
  BY DEF StartLog, WriteLog
<1>2. log \in Snapshots /\ log' = [log EXCEPT !.lines = @ + 1]
  BY DEF StartLog, WriteLog, LogInv, LogTypeOK
<1>3. log' \in Snapshots /\ log'.lines = log.lines + 1 /\ log'.stamps = log.stamps
  BY <1>2 DEF Snapshots
<1>4. pc' \notin {"ship", "remove"}
  BY <1>1, SuccessorName DEF StartLog, WriteLog, BlockNames
<1> USE DEF LogInv
<1>5. LogTypeOK' /\ KillIsNamed' /\ TrapInv' /\ RemoveIsSafe'
  BY <1>1, <1>3, <1>4 DEF LogTypeOK, KillIsNamed, Stamps, TrapInv, RemoveIsSafe
<1>6. FlightCovers' /\ ShipCovers'
  <2>1. log.lines \in Nat /\ (flight # None => flight.lines \in Nat) /\ (ship # None => ship.content.lines \in Nat)
    BY DEF LogTypeOK, Snapshots, Shipments
  <2> QED
    BY <1>1, <1>3, <2>1 DEF FlightCovers, ShipCovers, Covers, Lines, Pushing
<1>7. Covers(log) => Covers(log)'
  BY <1>1, <1>2, <1>3 DEF Covers, Lines, LogTypeOK, Snapshots
<1>8. LogCovers'
  BY <1>1, <1>3, <1>7 DEF LogCovers
<1> QED
  BY <1>5, <1>6, <1>8

LEMMA StopShipperLog == ASSUME LogInv, StopShipper PROVE LogInv'
<1>1. UNCHANGED <<power, recorder, log, plain, gz, flight, ship, told, clash>> /\ ~ shipper' /\ pc' = "ship" /\ pc = "stopshipper"
  BY DEF StopShipper, InTrap
<1> USE DEF LogInv
<1>2. LogTypeOK' /\ KillIsNamed' /\ TrapInv' /\ RemoveIsSafe'
  BY <1>1 DEF LogTypeOK, KillIsNamed, Stamps, TrapInv, RemoveIsSafe
<1>3. LogCovers' /\ FlightCovers' /\ ShipCovers'
  BY <1>1 DEF LogCovers, FlightCovers, ShipCovers, Covers, Lines, Pushing, Running
<1> QED
  BY <1>2, <1>3

\* An upload begins with the log as it is, which has everything.
LEMMA StartShipLog == ASSUME LogInv, StartShip PROVE LogInv'
<1>1. /\ UNCHANGED <<power, pc, recorder, log, plain, gz, shipper, flight, told>> /\ Running /\ pc = "ship"
      /\ clash' = (clash \/ Busy)
  BY DEF StartShip, InTrap
<1>2. PICK form \in {"gz", "plain"} : ship' = [form |-> form, content |-> log]
  BY DEF StartShip
<1>3. ship' \in Shipments /\ ship'.content = log
  BY <1>2 DEF LogInv, LogTypeOK, Shipments
<1> USE DEF LogInv
<1>4. LogTypeOK' /\ KillIsNamed' /\ TrapInv' /\ RemoveIsSafe'
  BY <1>1, <1>3 DEF LogTypeOK, KillIsNamed, Stamps, TrapInv, RemoveIsSafe, Busy, Running
<1>5. LogCovers' /\ FlightCovers'
  BY <1>1 DEF LogCovers, FlightCovers, Covers, Lines, Pushing, Busy, Running
<1>6. ~ clash => Covers(ship.content)' /\ ship'.content.lines <= log'.lines
  BY <1>1, <1>3 DEF LogCovers, Covers, Lines, LogTypeOK, Snapshots
<1>7. ShipCovers'
  BY <1>1, <1>6 DEF ShipCovers, Busy, Pushing
<1> QED
  BY <1>4, <1>5, <1>7

LEMMA StartFlightLog == ASSUME LogInv, StartFlight PROVE LogInv'
<1>1. /\ UNCHANGED <<power, pc, recorder, log, plain, gz, shipper, ship, told>> /\ Running /\ shipper
      /\ clash' = (clash \/ Busy) /\ flight' = log
  BY DEF StartFlight
<1> USE DEF LogInv
<1>2. LogTypeOK' /\ KillIsNamed' /\ TrapInv' /\ RemoveIsSafe'
  BY <1>1 DEF LogTypeOK, KillIsNamed, Stamps, TrapInv, RemoveIsSafe, Busy, Running
<1>3. LogCovers' /\ ShipCovers'
  BY <1>1 DEF LogCovers, ShipCovers, Covers, Lines, Pushing, Busy, Running
<1>4. ~ clash => Covers(flight)' /\ flight'.lines <= log'.lines
  BY <1>1 DEF LogCovers, Covers, Lines, LogTypeOK, Snapshots
<1>5. FlightCovers'
  BY <1>1, <1>4 DEF FlightCovers, Busy, Pushing
<1> QED
  BY <1>2, <1>3, <1>5

-----------------------------------------------------------------------------
\* An upload that lands replaces an object by one with no less.
LEMMA LandsLog ==
  ASSUME LogInv, NEW content \in Snapshots,
         (plain' = content /\ gz' = gz) \/ (gz' = content /\ plain' = plain), told' = told, Covers(content)
  PROVE  /\ Lines(plain)' \in Nat /\ Lines(gz)' \in Nat
         /\ Lines(plain)' <= content.lines /\ Lines(gz)' <= content.lines
         /\ told' \subseteq Stamps(plain)' \cup Stamps(gz)'
         /\ \A n \in Kept : \E m \in Kept' : m >= n
<1>1. content.lines \in Nat /\ content # None
  BY NoneAssumption DEF Snapshots
<1>2. Lines(plain) \in Nat /\ Lines(gz) \in Nat
  BY DEF Lines, LogInv, LogTypeOK, Snapshots
<1>3. CASE plain' = content /\ gz' = gz
  BY <1>1, <1>2, <1>3 DEF Covers, Lines, Stamps, Kept
<1>4. CASE gz' = content /\ plain' = plain
  BY <1>1, <1>2, <1>4 DEF Covers, Lines, Stamps, Kept
<1> QED
  BY <1>3, <1>4

KeepsLines == \A n \in Kept : \E m \in Kept' : m >= n
LEMMA ShipLandsLog == ASSUME LogInv, ShipLands PROVE LogInv' /\ (clash' \/ KeepsLines)
<1>1. /\ UNCHANGED <<power, recorder, log, shipper, flight, told, clash>> /\ Running /\ ship # None /\ ship' = None
      /\ pc = "ship" /\ pc' # "ship"
      /\ \/ gz' = ship.content /\ plain' = plain
         \/ plain' = ship.content /\ gz' = gz /\ pc' # "remove"
  BY DEF ShipLands, InTrap, AfterShip
<1>2. ship.content \in Snapshots
  BY <1>1 DEF LogInv, LogTypeOK, Shipments
<1>3. LogTypeOK' /\ TrapInv'
  BY <1>1, <1>2 DEF LogInv, LogTypeOK, TrapInv, Running
<1>4. CASE clash
  BY <1>1, <1>3, <1>4, OverlappedLog
<1>5. CASE ~ clash
  <2>1. /\ Covers(ship.content) /\ ship.content.lines <= log.lines /\ flight = None /\ ~ Pushing
        /\ \A unit \in DOMAIN recorder : recorder[unit] = "push" => unit \in log.stamps
        /\ told \subseteq log.stamps
    BY <1>1, <1>5 DEF LogInv, ShipCovers, LogCovers, Covers
  <2>2. /\ Lines(plain)' \in Nat /\ Lines(gz)' \in Nat
        /\ Lines(plain)' <= ship.content.lines /\ Lines(gz)' <= ship.content.lines
        /\ told' \subseteq Stamps(plain)' \cup Stamps(gz)'
        /\ KeepsLines
    BY <1>1, <1>2, <2>1, LandsLog DEF KeepsLines
  <2>3. LogCovers'
    <3>1. log \in Snapshots /\ log.lines \in Nat /\ ship.content.lines \in Nat
      BY <1>2 DEF LogInv, LogTypeOK, Snapshots
    <3> QED
      BY <1>1, <2>1, <2>2, <3>1 DEF LogCovers, Covers
  <2>4. FlightCovers' /\ ShipCovers' /\ KillIsNamed'
    BY <1>1, <2>1, <2>2 DEF FlightCovers, ShipCovers, KillIsNamed
  <2>5. RemoveIsSafe'
    <3>1. CASE gz' = ship.content /\ plain' = plain
      <4>1. Lines(gz)' = ship.content.lines /\ Stamps(gz)' = ship.content.stamps
        BY <1>2, <3>1, NoneAssumption DEF Lines, Stamps
      <4>2. ~ Pushing'
        BY <1>1, <2>1 DEF Pushing
      <4>3. told' \subseteq Stamps(gz)' /\ Lines(plain)' <= Lines(gz)'
        BY <1>1, <2>1, <2>2, <4>1 DEF Covers
      <4> QED
        BY <1>1, <2>1, <4>2, <4>3 DEF RemoveIsSafe
    <3>2. CASE pc' # "remove"
      BY <3>2 DEF RemoveIsSafe
    <3> QED
      BY <1>1, <3>1, <3>2
  <2> QED
    BY <1>3, <2>2, <2>3, <2>4, <2>5 DEF LogInv
<1> QED
  BY <1>4, <1>5, <1>1

LEMMA ShipFailsLog == ASSUME LogInv, ShipFails PROVE LogInv'
<1>1. /\ UNCHANGED <<power, recorder, log, plain, gz, shipper, flight, told, clash>> /\ ship' = None
      /\ pc' \notin {"ship", "remove"} /\ (Running' = Running)
  BY DEF ShipFails, AfterFailure, AfterShip, Running
<1> USE DEF LogInv
<1>2. LogTypeOK' /\ KillIsNamed' /\ TrapInv' /\ RemoveIsSafe'
  BY <1>1 DEF LogTypeOK, KillIsNamed, Stamps, TrapInv, RemoveIsSafe
<1>3. LogCovers' /\ FlightCovers' /\ ShipCovers'
  BY <1>1 DEF LogCovers, FlightCovers, ShipCovers, Covers, Lines, Pushing
<1> QED
  BY <1>2, <1>3

LEMMA RemovePlainLog == ASSUME LogInv, RemovePlain PROVE LogInv' /\ (clash' \/ KeepsLines)
<1>1. /\ UNCHANGED <<power, recorder, log, gz, shipper, flight, ship, told>> /\ Running
      /\ pc = "remove" /\ pc' \notin {"ship", "remove"} /\ plain' \in {plain, None} /\ clash' = (clash \/ Busy)
  BY DEF RemovePlain, InTrap, AfterShip
<1>2. LogTypeOK' /\ TrapInv'
  BY <1>1 DEF LogInv, LogTypeOK, TrapInv, Running
<1>3. CASE clash'
  BY <1>2, <1>3, OverlappedLog
<1>4. CASE ~ clash'
  <2>1. ~ clash /\ flight = None /\ ~ Pushing /\ Lines(plain) <= Lines(gz) /\ told \subseteq Stamps(gz)
    BY <1>1, <1>4 DEF LogInv, RemoveIsSafe
  <2>2. Lines(plain) \in Nat /\ Lines(gz) \in Nat /\ log.lines \in Nat
    BY DEF Lines, LogInv, LogTypeOK, Snapshots
  <2>3. Lines(plain)' \in {Lines(plain), 0} /\ Lines(gz)' = Lines(gz) /\ Stamps(gz)' = Stamps(gz)
    BY <1>1 DEF Lines, Stamps
  <2>4. KeepsLines
    BY <2>1, <2>2, <2>3 DEF KeepsLines, Kept
  <2>5. LogCovers'
    <3>1. Covers(log) /\ \A unit \in DOMAIN recorder : recorder[unit] = "push" => unit \in log.stamps
      BY <1>1, <2>1 DEF LogInv, LogCovers
    <3> QED
      BY <1>1, <2>2, <2>3, <3>1 DEF LogCovers, Covers
  <2>6. FlightCovers' /\ ShipCovers' /\ RemoveIsSafe'
    BY <1>1, <1>4, <2>1 DEF FlightCovers, ShipCovers, RemoveIsSafe, Busy
  <2>7. KillIsNamed'
    BY <1>1, <2>1, <2>3 DEF KillIsNamed
  <2> QED
    BY <1>2, <2>4, <2>5, <2>6, <2>7 DEF LogInv
<1> QED
  BY <1>3, <1>4

LEMMA FlightEndsLog == ASSUME LogInv, FlightEnds PROVE LogInv' /\ (clash' \/ KeepsLines)
<1>1. /\ UNCHANGED <<power, pc, recorder, log, gz, shipper, ship, told, clash>> /\ flight # None /\ flight' = None
      /\ plain' \in {plain, flight} /\ Running
  BY DEF FlightEnds
<1>2. flight \in Snapshots
  BY <1>1 DEF LogInv, LogTypeOK
<1>3. LogTypeOK' /\ TrapInv'
  BY <1>1 DEF LogInv, LogTypeOK, TrapInv, Running
<1>4. CASE clash
  BY <1>1, <1>3, <1>4, OverlappedLog
<1>5. CASE ~ clash /\ plain' = plain
  <2>1. KeepsLines
    <3>1. Lines(plain) \in Nat /\ Lines(gz) \in Nat /\ Kept' = Kept
      BY <1>1, <1>5 DEF Lines, LogInv, LogTypeOK, Snapshots, Kept
    <3> QED
      BY <3>1 DEF KeepsLines, Kept
  <2>2. LogCovers' /\ FlightCovers' /\ ShipCovers' /\ RemoveIsSafe' /\ KillIsNamed'
    BY <1>1, <1>5 DEF LogInv, LogCovers, FlightCovers, ShipCovers, RemoveIsSafe, KillIsNamed, Covers, Lines, Stamps, Pushing
  <2> QED
    BY <1>3, <2>1, <2>2 DEF LogInv
<1>6. CASE ~ clash /\ plain' = flight
  <2>1. /\ Covers(flight) /\ flight.lines <= log.lines /\ ship = None /\ ~ Pushing
        /\ told \subseteq log.stamps
        /\ \A unit \in DOMAIN recorder : recorder[unit] = "push" => unit \in log.stamps
    BY <1>1, <1>6 DEF LogInv, FlightCovers, LogCovers, Covers
  <2>2. /\ Lines(plain)' \in Nat /\ Lines(gz)' \in Nat
        /\ Lines(plain)' <= flight.lines /\ Lines(gz)' <= flight.lines
        /\ told' \subseteq Stamps(plain)' \cup Stamps(gz)'
        /\ KeepsLines
    BY <1>1, <1>2, <1>6, <2>1, LandsLog DEF KeepsLines
  <2>3. LogCovers'
    <3>1. log.lines \in Nat /\ flight.lines \in Nat
      BY <1>2 DEF LogInv, LogTypeOK, Snapshots
    <3> QED
      BY <1>1, <2>1, <2>2, <3>1 DEF LogCovers, Covers
  <2>4. pc # "remove"
    BY <1>1, <1>6 DEF LogInv, RemoveIsSafe
  <2>5. FlightCovers' /\ ShipCovers' /\ RemoveIsSafe' /\ KillIsNamed'
    BY <1>1, <2>1, <2>2, <2>4 DEF FlightCovers, ShipCovers, RemoveIsSafe, KillIsNamed
  <2> QED
    BY <1>3, <2>2, <2>3, <2>5 DEF LogInv
<1> QED
  BY <1>1, <1>4, <1>5, <1>6

LEMMA RecordStampsLog == ASSUME LogInv, NEW unit \in Guards, RecordStamps(unit) PROVE LogInv'
<1>1. /\ UNCHANGED <<power, pc, plain, gz, shipper, flight, ship, told>> /\ Running
      /\ log' = [log EXCEPT !.stamps = @ \cup {unit}]
      /\ clash' = (clash \/ flight # None \/ ship # None \/ pc = "remove" \/ Cardinality(DOMAIN recorder) > 1)
  BY DEF RecordStamps, StampLog
<1>2. log' \in Snapshots /\ log'.lines = log.lines /\ log'.stamps = log.stamps \cup {unit}
  BY <1>1 DEF LogInv, LogTypeOK, Snapshots
<1>3. LogTypeOK' /\ TrapInv'
  BY <1>1, <1>2 DEF LogInv, LogTypeOK, TrapInv, Running
<1>4. CASE clash'
  BY <1>3, <1>4, OverlappedLog
<1>5. CASE ~ clash'
  <2>1. ~ clash /\ flight = None /\ ship = None /\ pc # "remove"
    BY <1>1, <1>5
  <2>2. recorder' = [u \in DOMAIN recorder \cup {unit} |-> IF u = unit THEN "push" ELSE recorder[u]]
    BY DEF RecordStamps, Step
  <2>3. \A u \in DOMAIN recorder' : recorder'[u] = "push" => u \in log'.stamps
    BY <1>2, <2>1, <2>2 DEF LogInv, LogCovers
  <2>4. LogCovers'
    BY <1>1, <1>2, <2>1, <2>3 DEF LogInv, LogCovers, Covers, Lines
  <2>5. FlightCovers' /\ ShipCovers' /\ RemoveIsSafe' /\ KillIsNamed'
    BY <1>1, <2>1 DEF LogInv, FlightCovers, ShipCovers, RemoveIsSafe, KillIsNamed, Stamps
  <2> QED
    BY <1>3, <2>4, <2>5 DEF LogInv
<1> QED
  BY <1>4, <1>5

\* The recorder pushes the log as it is by then.
LEMMA RecordPushesLog ==
  ASSUME LogInv, NEW unit \in Guards, RecordPushes(unit) PROVE LogInv' /\ (clash' \/ KeepsLines)
<1>1. /\ UNCHANGED <<pc, log, gz, shipper, flight, ship, clash>> /\ Running /\ Running'
      /\ unit \in DOMAIN recorder /\ recorder[unit] = "push"
      /\ \/ plain' = log /\ told' = told \cup {unit}
         \/ UNCHANGED <<plain, told>>
  BY DEF RecordPushes, Running
<1>2. recorder' = [u \in DOMAIN recorder \ {unit} |-> recorder[u]]
  BY DEF RecordPushes
<1>3. LogTypeOK' /\ TrapInv'
  BY <1>1 DEF LogInv, LogTypeOK, TrapInv, Running
<1>4. CASE clash
  BY <1>1, <1>3, <1>4, OverlappedLog
<1>5. CASE ~ clash
  <2>1. Pushing /\ flight = None /\ ship = None /\ pc # "remove"
    BY <1>1, <1>5 DEF Pushing, LogInv, FlightCovers, ShipCovers, RemoveIsSafe
  <2>2. /\ Covers(log) /\ unit \in log.stamps
        /\ \A u \in DOMAIN recorder' : recorder'[u] = "push" => u \in log'.stamps
    BY <1>1, <1>2, <1>5 DEF LogInv, LogCovers
  <2>3. log \in Snapshots /\ log # None /\ log.lines \in Nat /\ Lines(plain) \in Nat /\ Lines(gz) \in Nat
    BY NoneAssumption DEF LogInv, LogTypeOK, Lines, Snapshots
  <2>4. LogCovers' /\ KillIsNamed' /\ KeepsLines
    <3>1. CASE UNCHANGED <<plain, told>>
      BY <1>1, <2>2, <2>3, <3>1 DEF LogInv, LogCovers, KillIsNamed, KeepsLines, Kept, Covers, Lines, Stamps
    <3>2. CASE plain' = log /\ told' = told \cup {unit}
      <4>1. Lines(plain)' = log.lines /\ Lines(gz)' = Lines(gz) /\ Stamps(plain)' = log.stamps
        BY <1>1, <2>3, <3>2 DEF Lines, Stamps
      <4>2. told' \subseteq log.stamps
        BY <2>2, <3>2 DEF Covers
      <4>3. LogCovers' /\ KillIsNamed'
        BY <1>1, <2>2, <2>3, <4>1, <4>2 DEF LogCovers, KillIsNamed, Covers
      <4>4. KeepsLines
        BY <2>2, <2>3, <4>1 DEF KeepsLines, Kept, Covers
      <4> QED
        BY <4>3, <4>4
    <3> QED
      BY <1>1, <3>1, <3>2
  <2>5. FlightCovers' /\ ShipCovers' /\ RemoveIsSafe'
    BY <1>1, <2>1 DEF FlightCovers, ShipCovers, RemoveIsSafe
  <2> QED
    BY <1>3, <2>4, <2>5 DEF LogInv
<1> QED
  BY <1>1, <1>4, <1>5

LEMMA LostLog == ASSUME LogInv, Lost PROVE LogInv'
<1>1. /\ UNCHANGED <<plain, gz, told, clash>> /\ ~ Running' /\ log' = Empty /\ flight' = None /\ ship' = None
      /\ recorder' = <<>> /\ pc' = "ended"
  BY DEF Lost, Running
<1>2. Empty \in Snapshots
  BY DEF Empty, Snapshots
<1>3. LogTypeOK' /\ TrapInv'
  BY <1>1, <1>2 DEF LogInv, LogTypeOK, TrapInv
<1>4. LogCovers' /\ FlightCovers' /\ ShipCovers' /\ RemoveIsSafe' /\ KillIsNamed'
  BY <1>1 DEF LogInv, LogCovers, FlightCovers, ShipCovers, RemoveIsSafe, KillIsNamed, Stamps
<1> QED
  BY <1>3, <1>4 DEF LogInv

\* Every other step of the box.
LEMMA QuietBox ==
  ASSUME LogInv,
         \/ BlockDone \/ BlockFails \/ ArmTimer \/ ScriptEnds \/ UserDataFails \/ StartUnit \/ JobEnds \/ Terminated
         \/ StopDeadman \/ Schedule \/ FinishHook \/ JobIsCapped \/ JobIsKilled \/ WatchdogFires \/ Tick
  PROVE  LogInv' /\ UNCHANGED <<plain, gz>>
<1>1. UNCHANGED <<recorder, logVars>> /\ (Running' => Running)
  BY DEF BlockDone, BlockFails, ArmTimer, ScriptEnds, UserDataFails, StartUnit, JobEnds, Terminated, StopDeadman,
     Schedule, FinishHook, JobIsCapped, JobIsKilled, WatchdogFires, Tick, Running, InTrap, StopPost
<1>2. pc' = pc \/ (pc # "ship" /\ pc' \notin {"ship", "remove"})
  <2>1. CASE BlockDone \/ ArmTimer
    BY <2>1, SuccessorName DEF BlockDone, ArmTimer, BlockNames, Simple, Checkout, Gates
  <2>2. CASE BlockFails \/ ScriptEnds
    BY <2>2 DEF BlockFails, ScriptEnds, Exit, Fatal, Checkout, Gates
  <2>3. CASE Terminated
    <3>1. Blocks(spec) \subseteq BlockNames
      BY OrderNames DEF Blocks, Places
    <3> QED
      BY <2>3, <3>1 DEF Terminated, BlockNames
  <2>4. CASE UserDataFails \/ StartUnit \/ JobEnds \/ StopDeadman \/ Schedule \/ FinishHook \/ JobIsCapped \/ JobIsKilled
             \/ WatchdogFires \/ Tick
    BY <2>4 DEF UserDataFails, StartUnit, JobEnds, StopDeadman, Schedule, FinishHook, JobIsCapped, JobIsKilled,
       WatchdogFires, Tick, InTrap
  <2> QED
    BY <2>1, <2>2, <2>3, <2>4
<1> QED
  BY <1>1, <1>2, ElsewhereLog DEF logVars

LEMMA KeptStays == ASSUME LogInv, UNCHANGED <<plain, gz>> PROVE KeepsLines
<1>1. Lines(plain) \in Nat /\ Lines(gz) \in Nat /\ Kept' = Kept
  BY DEF LogInv, LogTypeOK, Lines, Snapshots, Kept
<1> QED
  BY <1>1 DEF KeepsLines, Kept

LEMMA BoxLog == ASSUME LogInv, BoxNext PROVE LogInv' /\ (clash' \/ KeepsLines)
<1>1. CASE ShipLands \/ RemovePlain \/ FlightEnds \/ \E unit \in Guards : RecordPushes(unit)
  BY <1>1, ShipLandsLog, RemovePlainLog, FlightEndsLog, RecordPushesLog
<1>2. CASE \/ StartLog \/ WriteLog \/ StopShipper \/ StartShip \/ ShipFails \/ StartFlight
           \/ \E unit \in Guards : RecordStamps(unit) \/ Fires(unit)
  <2>1. LogInv'
    BY <1>2, WriteLogLog, StopShipperLog, StartShipLog, ShipFailsLog, StartFlightLog, RecordStampsLog, FiresLog
  <2>2. UNCHANGED <<plain, gz>>
    BY <1>2 DEF StartLog, WriteLog, StopShipper, StartShip, ShipFails, StartFlight, RecordStamps, Fires, logVars
  <2> QED
    BY <2>1, <2>2, KeptStays
<1>3. CASE PowerOff \/ Reclaim
  <2>1. CASE Lost
    BY <2>1, LostLog, KeptStays DEF Lost
  <2>2. CASE Reclaim /\ UNCHANGED <<pc, recorder, logVars>>
    <3>1. Running' => Running
      BY <2>2 DEF Reclaim, Running
    <3> QED
      BY <2>2, <3>1, ElsewhereLog, KeptStays DEF logVars
  <2> QED
    BY <1>3, <2>1, <2>2 DEF PowerOff, Reclaim
<1>4. CASE \/ BlockDone \/ BlockFails \/ ArmTimer \/ ScriptEnds \/ UserDataFails \/ StartUnit \/ JobEnds \/ Terminated
           \/ StopDeadman \/ Schedule \/ FinishHook \/ JobIsCapped \/ JobIsKilled \/ WatchdogFires \/ Tick
  BY <1>4, QuietBox, KeptStays
<1> QED
  BY <1>1, <1>2, <1>3, <1>4 DEF BoxNext, Script, Trap, Aws, Recorder, Systemd

LEMMA StepLog == ASSUME LogInv, [Next]_vars PROVE LogInv' /\ (clash' \/ KeepsLines)
<1>1. CASE BoxSteps
  BY <1>1, BoxLog DEF BoxSteps
<1>2. CASE TeardownSteps \/ Uploads \/ Terminate \/ TearDown \/ Holds \/ Relaunch \/ UNCHANGED vars
  <2>1. UNCHANGED <<pc, recorder, logVars>>
    BY <1>2 DEF TeardownSteps, Uploads, Terminate, TearDown, Holds, Relaunch, vars, boxVars, logVars
  <2>2. Running' => Running
    BY <1>2 DEF TeardownSteps, Uploads, Terminate, TearDown, Holds, Relaunch, vars, boxVars, Running
  <2> QED
    BY <2>1, <2>2, ElsewhereLog, KeptStays DEF logVars
<1> QED
  BY <1>1, <1>2 DEF Next

(***************************************************************************)
(* The run's log, its two objects in S3 and the writers of either agree    *)
(* about what there is, as long as no two of them have overlapped.         *)
(***************************************************************************)
THEOREM LogInvariant == Spec => []LogInv
<1>1. LogInv /\ [Next]_vars => LogInv'
  BY StepLog
<1> QED
  BY <1>1, InitLog, PTL DEF Spec

(***************************************************************************)
(* A log that a terminating timer has pushed goes on saying so in S3,      *)
(* whichever upload fails, whatever AWS does and however the box ends.     *)
(***************************************************************************)
THEOREM KillsStayNamed == Spec => []KillIsNamed
<1>1. LogInv => KillIsNamed
  BY DEF LogInv
<1> QED
  BY <1>1, LogInvariant, PTL

(***************************************************************************)
(* What S3 holds of the run's log never shrinks while its writers do not   *)
(* overlap: no upload and no removal loses a line another has brought.     *)
(***************************************************************************)
THEOREM LogsNeverShrink == Spec => LogNeverShrinks
<1>1. LogInv /\ [Next]_vars => [clash' \/ \A n \in Kept : \E m \in Kept' : m >= n]_vars
  BY StepLog DEF KeepsLines
<1> QED
  BY <1>1, LogInvariant, PTL DEF Spec, LogNeverShrinks
=============================================================================
