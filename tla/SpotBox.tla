------------------------------- MODULE SpotBox -------------------------------
(***************************************************************************)
(* One spot box: the script that krepis/spot_bootstrap.py renders, block   *)
(* by block under `set -e`, its exit trap, the shipper of its run log, the *)
(* timers that power the box off and the recorder they run first; and the  *)
(* self-starting box, whose job is a systemd unit.  A block succeeds,      *)
(* fails or never ends; AWS may take the box at any moment.                *)
(***************************************************************************)
EXTENDS Integers, Sequences, FiniteSets, FiniteSetsExt

CONSTANTS Specs,      \* the specs rendered: sets of the features below
          Cap,        \* max_runtime_seconds, or the unit's timeout
          Deadman,    \* deadman_seconds
          Delay,      \* shutdown_delay_seconds, or the unit's stop grace
          MaxLines,   \* bound: lines the run writes to its log
          None

Features == {"deadman", "cap", "log", "gzip", "delay", "staged", "setup", "drop", "hook", "selfstart"}
(* What SpotBootstrapSpec.__post_init__ and render_self_starting_user_data *)
(* refuse does not arise.                                                  *)
SpecIsValid(f) ==
  /\ f \subseteq Features
  /\ "gzip" \in f => "log" \in f
  /\ "hook" \in f => "delay" \in f
  /\ {"deadman", "cap"} \subseteq f => Deadman > Cap
  /\ "selfstart" \in f => f = {"selfstart"}
ASSUME SpecsAssumption == \A f \in Specs : SpecIsValid(f)
ASSUME DurationsAssumption == Cap \in Nat \ {0} /\ Deadman \in Nat \ {0} /\ Delay \in Nat \ {0}

(* The log at a moment, and the trap's upload of it.                       *)
Guards == {"deadman", "cap", "delayed"}
Snapshots == [lines : Nat, stamps : SUBSET Guards]
Shipments == [form : {"gz", "plain"}, content : Snapshots]
ASSUME NoneAssumption == None \notin Snapshots \cup Shipments

VARIABLES
  spec,     \* the features of this box
  power,    \* "on", "stopping" or "off"
  taken,    \* AWS has marked the box for termination
  pc,       \* the script: the block it is in, a phase of its trap, or ended
  rc,       \* its status, once it has one
  timers,   \* [unit -> seconds left]; a unit that is not armed is absent
  log,      \* the run log on disk
  plain, gz, \* the log's two objects in S3
  shipper,  \* the periodic loop runs
  flight,   \* its upload in progress, or None
  ship,     \* the upload of the trap in progress, or None
  recorder, \* [timer -> step] of the recorders that run
  told,     \* the timers whose recorder has pushed the log
  clash     \* two writers of the log's objects have overlapped
boxVars == <<spec, power, taken, pc, rc, timers, log, plain, gz, shipper, flight, ship, recorder, told, clash>>

Empty == [lines |-> 0, stamps |-> {}]
Has(feature) == feature \in spec
Traps == Has("delay")     \* the script has an exit trap
WantsRecord == Has("log") \* _wants_kill_record

(***************************************************************************)
(* The blocks in the order render_bootstrap joins them, and the steps of a *)
(* self-starting box's user-data.                                          *)
(***************************************************************************)
Wanted(f, block) ==
  CASE block \in {"deadman", "cap", "setup", "drop"} -> block \in f
    [] block \in {"recorder", "runlog"} -> "log" \in f
    [] block = "trap" -> "delay" \in f
    [] block = "config" -> "staged" \in f
    [] OTHER -> TRUE
Order(f) ==
  IF "selfstart" \in f THEN <<"unit", "record", "start">>
  ELSE <<"recorder", "deadman", "runlog", "watchdog", "cap", "trap", "interpreter", "clone", "config", "secrets",
         "proxy", "setup", "drop">>
Places(f) == {i \in DOMAIN Order(f) : Wanted(f, Order(f)[i])}
Blocks(f) == {Order(f)[i] : i \in Places(f)}
FirstOf(f, places) == IF places = {} THEN "exit" ELSE Order(f)[Min(places)]
Successor(block) == FirstOf(spec, {i \in Places(spec) : \E j \in 1..(i - 1) : Order(spec)[j] = block})
Running == power # "off"

BoxStart(f) ==
  /\ spec = f /\ power = "on" /\ taken = FALSE /\ rc = None /\ pc = FirstOf(f, Places(f))
  /\ timers = <<>> /\ log = Empty /\ plain = None /\ gz = None /\ shipper = FALSE
  /\ flight = None /\ ship = None /\ recorder = <<>> /\ told = {} /\ clash = FALSE

-----------------------------------------------------------------------------
(***************************************************************************)
(* The script.  A block that fails ends it, through the trap once that is  *)
(* set; the dead-man and the launch record only warn.                      *)
(***************************************************************************)
Before(block) == pc \in {"recorder", "deadman", "runlog"} \cup (IF block = "runlog" THEN {} ELSE {"watchdog", "cap", "trap"})
Exit(status) == rc' = status /\ pc' = IF Traps /\ ~ Before("trap") THEN "stopdeadman" ELSE "ended"
Arm(unit, seconds) == timers' = [u \in DOMAIN timers \cup {unit} |-> IF u = unit THEN seconds ELSE timers[u]]
Disarm(unit) == timers' = [u \in DOMAIN timers \ {unit} |-> timers[u]]
DisarmAll == timers' = <<>>
Checkout == {"interpreter", "clone", "config"}
Gates == {"secrets", "proxy", "setup"}
Fatal == {"watchdog", "cap"} \cup Checkout \cup Gates
Simple == {"recorder", "watchdog", "trap", "unit", "record"} \cup Checkout \cup Gates
logVars == <<log, plain, gz, shipper, flight, ship, told, clash>>

BlockDone ==
  /\ Running /\ pc \in Simple \cup {"deadman"} /\ pc' = Successor(pc)
  /\ UNCHANGED <<spec, power, taken, rc, timers, recorder, logVars>>
BlockFails ==
  /\ Running /\ pc \in Fatal /\ Exit(1)
  /\ UNCHANGED <<spec, power, taken, timers, recorder, logVars>>
\* A cap that cannot be armed fails its block, a dead-man only warns.
ArmTimer ==
  /\ Running /\ pc \in {"deadman", "cap"} /\ pc' = Successor(pc)
  /\ Arm(pc, IF pc = "cap" THEN Cap ELSE Deadman)
  /\ UNCHANGED <<spec, power, taken, rc, recorder, logVars>>
StartLog ==
  /\ Running /\ pc = "runlog" /\ shipper' = TRUE /\ log' = [log EXCEPT !.lines = @ + 1] /\ pc' = Successor(pc)
  /\ UNCHANGED <<spec, power, taken, rc, timers, recorder, plain, gz, flight, ship, told, clash>>
WriteLog ==
  /\ Running /\ Has("log") /\ pc = "drop" /\ log.lines < MaxLines
  /\ log' = [log EXCEPT !.lines = @ + 1]
  /\ UNCHANGED <<spec, power, taken, pc, rc, timers, recorder, plain, gz, shipper, flight, ship, told, clash>>
\* The dropped user's workload ends; or, without one, the bootstrap does.
ScriptEnds ==
  /\ Running /\ pc \in {"drop", "exit"} /\ \E status \in (IF pc = "drop" THEN {0, 1} ELSE {0}) : Exit(status)
  /\ UNCHANGED <<spec, power, taken, timers, recorder, logVars>>

-----------------------------------------------------------------------------
(***************************************************************************)
(* finish, the exit trap: the dead-man is cancelled, the loop is killed,   *)
(* though not an upload it has begun, the log is shipped, compressed if so *)
(* specified, the workload's hook runs, and the shutdown is scheduled.     *)
(***************************************************************************)
InTrap(phase) == Running /\ pc = phase
Cancel == Disarm("deadman")
StopDeadman ==
  /\ InTrap("stopdeadman") /\ Cancel
  /\ pc' = IF Has("log") THEN "stopshipper" ELSE "finishhook"
  /\ UNCHANGED <<spec, power, taken, rc, recorder, logVars>>
StopShipper ==
  /\ InTrap("stopshipper") /\ shipper' = FALSE /\ pc' = "ship"
  /\ UNCHANGED <<spec, power, taken, rc, timers, recorder, log, plain, gz, flight, ship, told, clash>>
Busy == flight # None \/ ship # None \/ DOMAIN recorder # {}
AfterShip == IF Traps THEN "finishhook" ELSE "ended"
\* gzip may fail, and then the plain log is shipped.
StartShip ==
  /\ InTrap("ship") /\ ship = None
  /\ \E form \in (IF Has("gzip") THEN {"gz", "plain"} ELSE {"plain"}) :
       ship' = [form |-> form, content |-> log]
  /\ clash' = (clash \/ Busy)
  /\ UNCHANGED <<spec, power, taken, pc, rc, timers, recorder, log, plain, gz, shipper, flight, told>>
ShipLands ==
  /\ InTrap("ship") /\ ship # None /\ ship' = None
  /\ IF ship.form = "gz" THEN gz' = ship.content /\ UNCHANGED plain /\ pc' = "remove"
     ELSE plain' = ship.content /\ UNCHANGED gz /\ pc' = AfterShip
  /\ UNCHANGED <<spec, power, taken, rc, timers, recorder, log, shipper, flight, told, clash>>
AfterFailureRemoves == IF ship.form = "gz" THEN "remove" ELSE AfterShip
AfterFailure == AfterShip
ShipFails ==
  /\ InTrap("ship") /\ ship # None /\ ship' = None /\ pc' = AfterFailure
  /\ UNCHANGED <<spec, power, taken, rc, timers, recorder, log, plain, gz, shipper, flight, told, clash>>
\* Best effort: the plain object may stay.
RemovePlain ==
  /\ InTrap("remove") /\ plain' \in {plain, None} /\ pc' = AfterShip
  /\ clash' = (clash \/ Busy)
  /\ UNCHANGED <<spec, power, taken, rc, timers, recorder, log, gz, shipper, flight, ship, told>>
FinishHook ==
  /\ InTrap("finishhook") /\ pc' = "schedule"
  /\ UNCHANGED <<spec, power, taken, rc, timers, recorder, logVars>>
Schedule ==
  /\ InTrap("schedule") /\ pc' = "ended"
  /\ \/ Arm("delayed", Delay) /\ UNCHANGED power
     \/ power' = "stopping" /\ UNCHANGED timers
  /\ UNCHANGED <<spec, taken, rc, recorder, logVars>>

-----------------------------------------------------------------------------
(* The periodic loop: the log as it is at the start of an upload.          *)
StartFlight ==
  /\ Running /\ shipper /\ flight = None /\ log.lines > 0
  /\ flight' = log /\ clash' = (clash \/ Busy)
  /\ UNCHANGED <<spec, power, taken, pc, rc, timers, recorder, log, plain, gz, shipper, ship, told>>
FlightEnds ==
  /\ Running /\ flight # None /\ flight' = None /\ plain' \in {plain, flight}
  /\ UNCHANGED <<spec, power, taken, pc, rc, timers, recorder, log, gz, shipper, ship, told, clash>>

-----------------------------------------------------------------------------
(***************************************************************************)
(* The timers.  Each runs the recorder, where there is one, and then       *)
(* shutdown, whatever the recorder's status.  The recorder stamps the log  *)
(* and pushes it.                                                          *)
(***************************************************************************)
Due(unit) == unit \in DOMAIN timers /\ timers[unit] = 0
Step(unit, step) == recorder' = [u \in DOMAIN recorder \cup {unit} |-> IF u = unit THEN step ELSE recorder[u]]
Fires(unit) ==
  /\ power = "on" /\ Due(unit) /\ Disarm(unit)
  /\ IF unit # "delayed" /\ WantsRecord THEN Step(unit, "stamp") /\ UNCHANGED power
     ELSE power' = "stopping" /\ UNCHANGED recorder
  /\ UNCHANGED <<spec, taken, pc, rc, logVars>>
StampNothing(unit) == log' = log
StampLog(unit) == log' = [log EXCEPT !.stamps = @ \cup {unit}]
RecordStamps(unit) ==
  /\ Running /\ unit \in DOMAIN recorder /\ recorder[unit] = "stamp" /\ Step(unit, "push") /\ StampLog(unit)
  /\ clash' = (clash \/ flight # None \/ ship # None \/ pc = "remove" \/ Cardinality(DOMAIN recorder) > 1)
  /\ UNCHANGED <<spec, power, taken, pc, rc, timers, plain, gz, shipper, flight, ship, told>>
RecordPushes(unit) ==
  /\ Running /\ unit \in DOMAIN recorder /\ recorder[unit] = "push"
  /\ recorder' = [u \in DOMAIN recorder \ {unit} |-> recorder[u]]
  /\ \/ plain' = log /\ told' = told \cup {unit}
     \/ UNCHANGED <<plain, told>>
  /\ power' = "stopping"
  /\ UNCHANGED <<spec, taken, pc, rc, timers, log, gz, shipper, flight, ship, clash>>

(* The watchdog unit: the SSM agent is gone.                               *)
WatchdogFires ==
  /\ power = "on" /\ ~ Has("selfstart") /\ ~ Before("runlog") /\ pc # "watchdog"
  /\ power' = "stopping"
  /\ UNCHANGED <<spec, taken, pc, rc, timers, recorder, logVars>>
(* A shutdown ends the foreground command; the trap on TERM ships the log, *)
(* and the failed command ends the script.                                 *)
Terminated ==
  /\ power = "stopping" /\ pc \in Blocks(spec) \cup {"exit"} /\ rc' = 1
  /\ pc' = IF Traps /\ ~ Before("trap") THEN "stopdeadman"
           ELSE IF Has("log") /\ ~ Before("runlog") THEN "stopshipper" ELSE "ended"
  /\ UNCHANGED <<spec, power, taken, timers, recorder, logVars>>
(* What was on the box goes with it.                                       *)
Lost ==
  /\ power' = "off" /\ timers' = <<>> /\ log' = Empty /\ shipper' = FALSE /\ flight' = None
  /\ ship' = None /\ recorder' = <<>> /\ pc' = "ended" /\ UNCHANGED <<spec, rc, plain, gz, told, clash>>
PowerOff == power = "stopping" /\ Lost /\ UNCHANGED taken
(* AWS takes the box: it is marked and told to shut down, or simply gone.  *)
Reclaim ==
  /\ power = "on" /\ taken' = TRUE
  /\ \/ Lost
     \/ power' = "stopping" /\ UNCHANGED <<spec, pc, rc, timers, recorder, logVars>>
Tick ==
  /\ power = "on" /\ DOMAIN timers # {} /\ \A unit \in DOMAIN timers : timers[unit] > 0
  /\ timers' = [unit \in DOMAIN timers |-> timers[unit] - 1]
  /\ UNCHANGED <<spec, power, taken, pc, rc, recorder, logVars>>

-----------------------------------------------------------------------------
(***************************************************************************)
(* The self-starting box.  A failure before the start powers it off; the   *)
(* unit has its own cap, after which the job has the grace to report, and  *)
(* ExecStopPost powers the box off however the job ended.                  *)
(***************************************************************************)
UserDataFails ==
  /\ Running /\ pc \in {"unit", "start"} /\ pc' = "ended" /\ rc' = 1 /\ power' = "stopping"
  /\ UNCHANGED <<spec, taken, timers, recorder, logVars>>
StartUnit ==
  /\ Running /\ pc = "start" /\ pc' = "job" /\ Arm("unit", Cap)
  /\ UNCHANGED <<spec, power, taken, rc, recorder, logVars>>
StopPost == power' = "stopping"
JobEnds ==
  /\ Running /\ pc \in {"job", "grace"} /\ pc' = "ended" /\ rc' \in {0, 1} /\ timers' = <<>> /\ StopPost
  /\ UNCHANGED <<spec, taken, recorder, logVars>>
JobIsCapped ==
  /\ power = "on" /\ pc = "job" /\ Due("unit") /\ Arm("unit", Delay) /\ pc' = "grace"
  /\ UNCHANGED <<spec, power, taken, rc, recorder, logVars>>
JobIsKilled ==
  /\ power = "on" /\ pc = "grace" /\ Due("unit") /\ timers' = <<>> /\ pc' = "ended" /\ rc' = 1 /\ StopPost
  /\ UNCHANGED <<spec, taken, recorder, logVars>>

Aws == StartShip \/ ShipLands \/ ShipFails \/ RemovePlain \/ FlightEnds
Recorder == \E unit \in Guards : RecordStamps(unit) \/ RecordPushes(unit)
Systemd == (\E unit \in Guards : Fires(unit)) \/ JobIsCapped \/ JobIsKilled \/ PowerOff
Script ==
  \/ BlockDone \/ BlockFails \/ ArmTimer \/ StartLog \/ WriteLog \/ ScriptEnds
  \/ UserDataFails \/ StartUnit \/ JobEnds \/ Terminated
Trap == StopDeadman \/ StopShipper \/ Schedule \/ (FinishHook /\ ~ Has("hook"))
BoxNext ==
  Script \/ Trap \/ Aws \/ Recorder \/ Systemd \/ FinishHook \/ StartFlight \/ WatchdogFires \/ Reclaim \/ Tick
(***************************************************************************)
(* systemd, the shell between two commands and the AWS client, which has   *)
(* timeouts, go on; a block, the workload and its hook need not.           *)
(***************************************************************************)
BoxFairness ==
  WF_boxVars(Trap) /\ WF_boxVars(Aws) /\ WF_boxVars(Recorder) /\ WF_boxVars(Systemd) /\ WF_boxVars(Tick)
=============================================================================
