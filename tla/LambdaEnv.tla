------------------------------ MODULE LambdaEnv ------------------------------
(***************************************************************************)
(* Deploy scripts that edit the environment of one Lambda function through *)
(* krepis/aws.py: merge_lambda_environment and                             *)
(* remove_lambda_environment_keys.  An edit reads $LATEST, writes all of   *)
(* it back and, for a function that is served through aliases, publishes a *)
(* version and moves them.  Every call may fail, and an edit that failed   *)
(* may be made again.                                                      *)
(***************************************************************************)
EXTENDS Integers, Sequences, FiniteSets

CONSTANTS Editors, Keys, Aliases,
          FirstPage,   \* the aliases on the first page of list_aliases, the only one that is read
          Edits,       \* what a script may ask: see EditIsValid
          MaxTries     \* bound: how often a script makes its edit
Modes == {"plain", "promote", "defer", "unaliased"}
(* promote_aliases, defer_publish and assert_unaliased exclude each other; *)
(* promote_aliases may be given and empty.                                 *)
EditIsValid(e) ==
  /\ e.kind \in {"merge", "remove"} /\ e.keys \subseteq Keys /\ e.keys # {} /\ e.missingOk \in BOOLEAN
  /\ e.mode \in Modes /\ e.wanted \subseteq Aliases /\ (e.wanted # {} => e.mode = "promote")
ASSUME EditsAssumption == \A e \in Edits : EditIsValid(e)
ASSUME PageAssumption == FirstPage \subseteq Aliases
ASSUME BoundsAssumption == MaxTries \in Nat \ {0}

VARIABLES
  latest,   \* [key -> value or "absent"], the environment of $LATEST
  busy,     \* an update of the function is under way
  versions, \* the environments published
  alias,    \* [alias -> version it serves], 0 for $LATEST
  edit, pc, tries, \* [editor -> its edit, where it is in it, how often it began]
  base,     \* [editor -> the environment it read]
  todo,     \* [editor -> aliases it has still to move]
  version,  \* [editor -> the version it published]
  wrote,    \* the editors whose present try has written
  outdated, \* the editors whom another's write has crossed since they read
  overrun   \* the editors whom another's alias move has crossed
function == <<latest, busy, versions, alias>>
vars == <<function, edit, pc, tries, base, todo, version, wrote, outdated, overrun>>

Init ==
  /\ latest \in [Keys -> {"absent", "old"}] /\ busy = FALSE
  /\ versions = <<[k \in Keys |-> "old"]>> /\ alias \in [Aliases -> {0, 1}]
  /\ edit \in [Editors -> Edits] /\ pc = [e \in Editors |-> "read"] /\ tries = [e \in Editors |-> 1]
  /\ base = [e \in Editors |-> latest] /\ todo = [e \in Editors |-> {}] /\ version = [e \in Editors |-> 0]
  /\ wrote = {} /\ outdated = {} /\ overrun = {}

-----------------------------------------------------------------------------
Removes(e) == edit[e].kind = "remove"
Lists(e) == Removes(e) /\ edit[e].mode \in {"plain", "promote"}
(* The order of the steps: all that can refuse comes before the write.     *)
AfterSwapped(step, e) ==
  CASE step = "check" -> "update"
    [] step = "update" /\ Lists(e) -> "list"
    [] OTHER -> "settle"
After(step, e) ==
  CASE step = "check" /\ Lists(e) -> "list"
    [] step = "update" -> "settle"
    [] OTHER -> "update"
Goto(e, place) == pc' = [pc EXCEPT ![e] = place]
Local == <<edit, tries>>

(* The waiter before the read is passed over when it fails.                *)
Read(e) ==
  /\ pc[e] = "read" /\ base' = [base EXCEPT ![e] = latest] /\ outdated' = outdated \ {e} /\ overrun' = overrun \ {e}
  /\ Goto(e, "check")
  /\ UNCHANGED <<function, Local, todo, version, wrote>>
Present(e) == {k \in Keys : base[e][k] # "absent"}
Accepts(e) == Removes(e) => edit[e].missingOk \/ edit[e].keys \subseteq Present(e)
Check(e) ==
  /\ pc[e] = "check"
  /\ Goto(e, IF Accepts(e) THEN After("check", e) ELSE "refused")
  /\ UNCHANGED <<function, Local, base, todo, version, wrote, outdated, overrun>>
Pinned == {a \in FirstPage : alias[a] # 0}
ListAliases(e) ==
  /\ pc[e] = "list"
  /\ IF (edit[e].mode = "plain" /\ Pinned # {}) \/ ~ (edit[e].wanted \subseteq Pinned)
     THEN Goto(e, "refused") ELSE Goto(e, After("list", e))
  /\ UNCHANGED <<function, Local, base, todo, version, wrote, outdated, overrun>>

Started == {"check", "list", "update", "settle", "publish", "promote"}
Crossed(e) == {o \in Editors \ {e} : pc[o] \in Started}
EditedFresh(e) == [k \in Keys |-> IF k \in edit[e].keys /\ ~ Removes(e) THEN "new" ELSE "absent"]
Edited(e) == [k \in Keys |-> IF k \in edit[e].keys THEN (IF Removes(e) THEN "absent" ELSE "new") ELSE base[e][k]]
(* A function that is being updated refuses; else the write is made, and   *)
(* its answer may be lost.                                                 *)
Update(e) ==
  /\ pc[e] = "update" /\ ~ busy /\ latest' = Edited(e) /\ busy' = TRUE
  /\ Goto(e, After("update", e)) \/ Goto(e, "failed")
  /\ wrote' = wrote \cup {e} /\ outdated' = outdated \cup Crossed(e)
  /\ UNCHANGED <<overrun, versions, alias, Local, base, todo, version>>
Settle(e) ==
  /\ pc[e] = "settle"
  /\ Goto(e, IF edit[e].wanted = {} THEN "ok" ELSE "publish")
  /\ UNCHANGED <<function, Local, base, todo, version, wrote, outdated, overrun>>
Snapshot == latest
Publish(e) ==
  /\ pc[e] = "publish" /\ ~ busy
  /\ versions' = Append(versions, Snapshot) /\ version' = [version EXCEPT ![e] = Len(versions) + 1]
  /\ todo' = [todo EXCEPT ![e] = edit[e].wanted] /\ Goto(e, "promote")
  /\ UNCHANGED <<latest, busy, alias, Local, base, wrote, outdated, overrun>>
PromotedPrior(e) == version[e] - 1
PromotedVersion(e) == version[e]
MoveAlias(e) ==
  /\ pc[e] = "promote"
  /\ \E a \in todo[e] :
       /\ alias' = [alias EXCEPT ![a] = PromotedVersion(e)] /\ todo' = [todo EXCEPT ![e] = @ \ {a}]
       /\ Goto(e, IF todo[e] = {a} THEN "ok" ELSE "promote")
  /\ overrun' = overrun \cup Crossed(e)
  /\ UNCHANGED <<outdated, latest, busy, versions, Local, base, version, wrote>>
(* A call fails: it is refused, times out, or the function is busy.        *)
CallFails(e) ==
  /\ pc[e] \in {"read", "list", "update", "publish", "promote"} /\ Goto(e, "failed")
  /\ UNCHANGED <<function, Local, base, todo, version, wrote, outdated, overrun>>
(* The script is run again.                                                *)
Again(e) ==
  /\ pc[e] = "failed" /\ tries[e] < MaxTries /\ tries' = [tries EXCEPT ![e] = @ + 1] /\ Goto(e, "read")
  /\ wrote' = wrote \ {e}
  /\ UNCHANGED <<function, edit, base, todo, version, outdated, overrun>>
(* The update that is under way ends.                                      *)
FunctionUpdated ==
  /\ busy /\ busy' = FALSE
  /\ UNCHANGED <<latest, versions, alias, edit, pc, tries, base, todo, version, wrote, outdated, overrun>>

Next ==
  \/ \E e \in Editors : Read(e) \/ Check(e) \/ ListAliases(e) \/ Update(e) \/ Settle(e) \/ Publish(e)
                        \/ MoveAlias(e) \/ CallFails(e) \/ Again(e)
  \/ FunctionUpdated
Spec == Init /\ [][Next]_vars

-----------------------------------------------------------------------------
(***************************************************************************)
(* A write leaves every variable it does not name as it is on the          *)
(* function, unless another script wrote since the editor's reading.       *)
(***************************************************************************)
Writer(e) == e \in wrote' \ wrote
OthersSurvive ==
  [][\A e \in Editors : Writer(e) /\ e \notin outdated =>
       \A k \in Keys \ edit[e].keys : latest'[k] = latest[k]]_vars

(***************************************************************************)
(* A removal that is refused, for an absent key, a pinned alias or an      *)
(* alias that is none, has changed nothing.                                *)
(***************************************************************************)
RefusalIsFree == \A e \in Editors : pc[e] = "refused" => e \notin wrote

(***************************************************************************)
(* A removal that succeeds has reached the traffic of the aliases it       *)
(* names, or, where it names none and claims nothing, of all, whatever had *)
(* failed half way before it, unless another script wrote or moved an      *)
(* alias in the meantime.  Two cases are excepted, in which the code       *)
(* returns the "success that changed nothing" that its comment rules out   *)
(* (aws.py 372-379): promote_aliases given but empty, which passes for a   *)
(* promotion at the check and for none at the write (aws.py 480-481, 514); *)
(* and aliases behind the first page of the listing (aws.py 557).          *)
(***************************************************************************)
Serves(a) == IF alias[a] = 0 THEN latest ELSE versions[alias[a]]
Claims(e) == edit[e].mode \in {"defer", "unaliased"}
Reached(e) == IF edit[e].wanted = {} /\ ~ Claims(e) THEN FirstPage ELSE edit[e].wanted
PromotesNone(e) == edit[e].mode = "promote" /\ edit[e].wanted = {}
Gone(e) == \A a \in Reached(e), k \in edit[e].keys : Serves(a)[k] = "absent"
SuccessReachesTraffic ==
  [][\A e \in Editors :
       /\ Removes(e) /\ pc[e] # "ok" /\ pc'[e] = "ok"
       /\ e \notin outdated \cup overrun /\ ~ PromotesNone(e)
       => Gone(e)']_vars
=============================================================================
