----------------------------- MODULE SpotEvidence -----------------------------
(***************************************************************************)
(* The launcher's teardown of one run's staging area, krepis/              *)
(* spot_evidence.py: a failed run's objects are copied to a durable prefix *)
(* and only then deleted, and both trees are swept of what is past its     *)
(* retention.  Every call to S3 may fail, a deletion half way, and the     *)
(* process may die between any two.                                        *)
(***************************************************************************)
EXTENDS Integers, FiniteSets

CONSTANTS Objects,      \* what a staging area may hold
          StagingDays,  \* STAGING_RETENTION_DAYS
          EvidenceDays, \* EVIDENCE_RETENTION_DAYS
          Days          \* how many days ago run 0 failed, when a teardown runs: the cases considered
ASSUME RetentionAssumption == StagingDays \in Nat /\ EvidenceDays \in Nat /\ Days \subseteq Nat

Runs == {0, 1} \* the run torn down, 1, and an earlier one that failed
VARIABLES
  staging,  \* [run -> objects under its staging prefix]
  durable,  \* [run -> objects under its durable prefix]
  day,      \* the age of run 0
  td,       \* the teardown: phase, run, and the keys of its last listing
  seen      \* [run -> what a failed run's staging held when its teardown began]
evidenceVars == <<staging, durable, day, td, seen>>

Idle == [phase |-> "idle", run |-> 0, keys |-> {}]
EvidenceInit ==
  /\ day = 0
  /\ staging = [r \in Runs |-> IF r = 0 THEN Objects ELSE {}]
  /\ durable = [r \in Runs |-> IF r = 0 THEN Objects ELSE {}]
  /\ td = Idle /\ seen = [r \in Runs |-> {}]

At(phase) == td.phase = phase
GoTo(phase, keys) == td' = [td EXCEPT !.phase = phase, !.keys = keys]
FirstPhase(code) == IF code = 0 THEN "listagain" ELSE "list"
Teardown(r, code) ==
  /\ day' \in Days
  /\ td' = [phase |-> FirstPhase(code), run |-> r, keys |-> {}]
  /\ seen' = [seen EXCEPT ![r] = IF code = 0 THEN {} ELSE staging[r]]
  /\ UNCHANGED <<staging, durable>>

-----------------------------------------------------------------------------
(* _preserve: every key listed is copied, or staging is left in place.     *)
List ==
  /\ At("list") /\ GoTo("copy", staging[td.run])
  /\ UNCHANGED <<staging, durable, day, seen>>
Copy ==
  /\ At("copy") /\ \E key \in td.keys :
       /\ durable' = [durable EXCEPT ![td.run] = @ \cup {key}]
       /\ GoTo("copy", td.keys \ {key})
  /\ UNCHANGED <<staging, day, seen>>
UnpreservedGoesOn == "listagain"
Unpreserved == "done"
PreserveFails ==
  /\ At("list") \/ (At("copy") /\ td.keys # {})
  /\ GoTo(Unpreserved, {})
  /\ UNCHANGED <<staging, durable, day, seen>>
Preserved ==
  /\ At("copy") /\ td.keys = {} /\ GoTo("listagain", {})
  /\ UNCHANGED <<staging, durable, day, seen>>

(* _delete_prefix: a second listing, and deletion in chunks; a request     *)
(* fails, or some of its keys do.                                          *)
ListAgain ==
  /\ At("listagain")
  /\ GoTo("delete", staging[td.run]) \/ GoTo("sweep", {})
  /\ UNCHANGED <<staging, durable, day, seen>>
Delete ==
  /\ At("delete") /\ GoTo("sweep", {})
  /\ \E deleted \in SUBSET td.keys : staging' = [staging EXCEPT ![td.run] = @ \ deleted]
  /\ UNCHANGED <<durable, day, seen>>

(* _sweep: run 0's prefixes, by the date their names carry.                *)
Expired(age, limit) == age > limit
SweptOf(objects, limit) == IF Expired(day, limit) THEN SUBSET objects ELSE {{}}
SweepStaging ==
  /\ At("sweep") /\ GoTo("sweepdurable", {})
  /\ \E deleted \in SweptOf(staging[0], StagingDays) : staging' = [staging EXCEPT ![0] = @ \ deleted]
  /\ UNCHANGED <<durable, day, seen>>
SweepDurable ==
  /\ At("sweepdurable") /\ GoTo("done", {})
  /\ \E deleted \in SweptOf(durable[0], EvidenceDays) : durable' = [durable EXCEPT ![0] = @ \ deleted]
  /\ UNCHANGED <<staging, day, seen>>

\* The launcher is killed in the middle of it.
Dies ==
  /\ td.phase \notin {"idle", "done", "dead"} /\ GoTo("dead", {})
  /\ UNCHANGED <<staging, durable, day, seen>>
\* The SSM agent, or the launcher's staging step, uploads an object.
Upload(r) ==
  /\ \E o \in Objects \ staging[r] : staging' = [staging EXCEPT ![r] = @ \cup {o}]
  /\ UNCHANGED <<durable, day, td, seen>>

TeardownStep ==
  \/ List \/ Copy \/ PreserveFails \/ Preserved \/ ListAgain \/ Delete \/ SweepStaging \/ SweepDurable \/ Dies
=============================================================================
