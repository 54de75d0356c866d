----------------------------- MODULE WriterLock -----------------------------
(***************************************************************************)
(* The producer-side lock of krepis.locks: universe_writer_lock.           *)
(*                                                                         *)
(* Writers are processes on different hosts that share nothing but one S3  *)
(* object.  A writer creates the object with a conditional PUT             *)
(* (If-None-Match: * ); when the PUT is refused it reads the object,       *)
(* raises if the lock is live, and otherwise deletes it and tries the PUT  *)
(* once more.  Leaving the `with` block deletes the object, whatever it    *)
(* then holds.  Each request to S3 is an action of its own, since another  *)
(* writer may run between any two of them.                                 *)
(***************************************************************************)
EXTENDS Integers

CONSTANTS
    Writers,      \* processes that call universe_writer_lock
    TTL,          \* ttl_seconds
    Offset,       \* Offset[w]: how far the clock of w's host runs ahead
    Skew,         \* an upper bound of every Offset[w]
    NoLock,       \* the lock object is absent from the bucket
    Malformed,    \* the lock object has a body from_json cannot parse
    Faults,       \* TRUE: S3 requests may fail, processes may die, and a
                  \* malformed object may be there to begin with
    MaxClock      \* bound of the clock, for model checking

LockHolder == [owner : Writers, ttl : Nat]

ASSUME ConstantsAssumption ==
    /\ TTL \in Nat \ {0}
    /\ Skew \in Nat
    /\ Offset \in [Writers -> 0..Skew]
    /\ NoLock \notin LockHolder
    /\ Malformed \notin LockHolder
    /\ NoLock # Malformed
    /\ Faults \in BOOLEAN
    /\ MaxClock \in Nat

VARIABLES
    clock,        \* seconds on the slowest host
    lock,         \* the lock object in the bucket
    pc,           \* where each writer stands in universe_writer_lock
    holder,       \* the LockHolder each writer built on entry
    existing,     \* what each writer's last read of the object returned
    misdirected,  \* history: some delete removed a lock nobody aimed it at
    born,         \* history: when the object in the bucket was put there
    inTheWay,     \* history: `born` of the object each writer has just met
    undeleted     \* history: the writers whose recovery failed to delete

vars == <<clock, lock, pc, holder, existing, misdirected, born, inTheWay,
          undeleted>>

LockObject == LockHolder \cup {NoLock, Malformed}

Labels == {"idle", "refused", "put", "read", "judge", "delete", "retry",
           "reread", "critical", "release"}
Outside == {"idle", "refused"}

-----------------------------------------------------------------------------
(* Helpers of the code.                                                    *)

(* _now_epoch() on w's host.                                               *)
Now(w) == clock + Offset[w]

(* _build_holder: the expiry is fixed on entry, before the first PUT.      *)
BuildHolder(w) == [owner |-> w, ttl |-> Now(w) + TTL]

(* Mutant of HeldAt: whoever left a lock keeps it, expired or not.         *)
HeldForEver(object, now) == object \in LockHolder

(* The lock is "held by someone we know about" and its soft TTL is ahead.  *)
HeldAt(object, now) == object \in LockHolder /\ object.ttl > now

-----------------------------------------------------------------------------

(* `born` of an object that was there to begin with, and of none.          *)
LongAgo == -(TTL + Skew)

Init ==
    /\ clock = 0
    /\ lock \in {NoLock} \cup (IF Faults THEN {Malformed} ELSE {})
    /\ pc = [w \in Writers |-> "idle"]
    /\ holder = [w \in Writers |-> [owner |-> w, ttl |-> 0]]
    /\ existing = [w \in Writers |-> NoLock]
    /\ misdirected = FALSE
    /\ born = LongAgo
    /\ inTheWay = [w \in Writers |-> LongAgo]
    /\ undeleted = {}

Goto(w, label) == pc' = [pc EXCEPT ![w] = label]

(* The call returns, raises or dies: its locals go with it.                *)
Quit(w, label) ==
    /\ Goto(w, label)
    /\ holder' = [holder EXCEPT ![w] = [owner |-> w, ttl |-> 0]]
    /\ existing' = [existing EXCEPT ![w] = NoLock]
    /\ inTheWay' = [inTheWay EXCEPT ![w] = LongAgo]
    /\ undeleted' = undeleted \ {w}

locals == <<holder, existing, inTheWay, undeleted>>
bucket == <<lock, misdirected, born>>

(* A process enters universe_writer_lock.                                  *)
Enter(w) ==
    /\ pc[w] \in Outside
    /\ holder' = [holder EXCEPT ![w] = BuildHolder(w)]
    /\ Goto(w, "put")
    /\ UNCHANGED <<clock, bucket, existing, inTheWay, undeleted>>

(* Mutant of ConditionalPut: the PUT without If-None-Match.                *)
PlainPut(w, refused) ==
    /\ lock' = holder[w]
    /\ Goto(w, "critical")
    /\ UNCHANGED <<clock, misdirected, born, locals>>

(* _try_conditional_put: created, refused (412), or raised.  A PUT that    *)
(* raised may still have reached the bucket.                               *)
ConditionalPut(w, refused) ==
    /\ \/ /\ lock = NoLock
          /\ lock' = holder[w]
          /\ Goto(w, "critical")
          /\ UNCHANGED locals
       \/ /\ lock # NoLock
          /\ Goto(w, refused)
          /\ inTheWay' = [inTheWay EXCEPT ![w] = born]
          /\ UNCHANGED <<lock, holder, existing, undeleted>>
       \/ /\ Faults
          /\ lock' \in {lock, IF lock = NoLock THEN holder[w] ELSE lock}
          /\ Quit(w, "idle")
    /\ born' = IF lock' = lock THEN born ELSE clock
    /\ UNCHANGED <<clock, misdirected>>

Put(w) == pc[w] = "put" /\ ConditionalPut(w, "read")

(* _read_existing_holder: the GET; NoSuchKey is the answer NoLock, any     *)
(* other error leaves the function.                                        *)
Read(w) ==
    /\ pc[w] = "read"
    /\ \/ /\ existing' = [existing EXCEPT ![w] = lock]
          /\ inTheWay' = [inTheWay EXCEPT ![w] = born]
          /\ Goto(w, "judge")
          /\ UNCHANGED <<holder, undeleted>>
       \/ Faults /\ Quit(w, "idle")
    /\ UNCHANGED <<clock, bucket>>

(* The test that follows it: raise for a live lock, else recover.          *)
Judge(w) ==
    /\ pc[w] = "judge"
    /\ IF HeldAt(existing[w], Now(w))
       THEN Quit(w, "refused")
       ELSE Goto(w, "delete") /\ UNCHANGED locals
    /\ UNCHANGED <<clock, bucket>>

(* delete_object takes no condition: it removes whatever is there.  A      *)
(* failure is logged and swallowed.  `aimedAt` is what the caller means to *)
(* remove; it only feeds the history variable.                             *)
DeleteObject(aimedAt) ==
    \/ /\ lock' = NoLock
       /\ born' = LongAgo
       /\ misdirected' = (misdirected \/ lock \notin {NoLock, aimedAt})
    \/ Faults /\ UNCHANGED bucket

(* What was read is of no more use once the delete has been sent.          *)
DeleteStale(w) ==
    /\ pc[w] = "delete"
    /\ DeleteObject(existing[w])
    /\ existing' = [existing EXCEPT ![w] = NoLock]
    /\ inTheWay' = [inTheWay EXCEPT ![w] = LongAgo]
    /\ undeleted' = IF lock' = NoLock THEN undeleted ELSE undeleted \cup {w}
    /\ Goto(w, "retry")
    /\ UNCHANGED <<clock, holder>>

(* Mutant of Retry: a refusal starts the recovery over.                    *)
RetryForEver(w) == pc[w] = "retry" /\ ConditionalPut(w, "read")

(* The one retry, with the holder built on entry.                          *)
Retry(w) == pc[w] = "retry" /\ ConditionalPut(w, "reread")

(* A second refusal is final: the GET only fills the error's holder.       *)
Reread(w) ==
    /\ pc[w] = "reread"
    /\ Quit(w, "refused")
    /\ UNCHANGED <<clock, bucket>>

(* The body of the `with` block ends, normally or by an exception.         *)
Leave(w) ==
    /\ pc[w] = "critical"
    /\ Goto(w, "release")
    /\ UNCHANGED <<clock, bucket, locals>>

Release(w) ==
    /\ pc[w] = "release"
    /\ DeleteObject(holder[w])
    /\ Quit(w, "idle")
    /\ UNCHANGED clock

-----------------------------------------------------------------------------
(* The environment.                                                        *)

(* The process dies without running its finally block.                     *)
Crash(w) ==
    /\ Faults
    /\ pc[w] \notin Outside
    /\ Quit(w, "idle")
    /\ UNCHANGED <<clock, bucket>>

(* The bucket's lifecycle rule: a day is longer than any TTL in use.       *)
LifecyclePurge ==
    /\ lock # NoLock
    /\ ~HeldAt(lock, clock)
    /\ lock' = NoLock
    /\ born' = LongAgo
    /\ UNCHANGED <<clock, pc, misdirected, locals>>

Tick ==
    /\ clock < MaxClock
    /\ clock' = clock + 1
    /\ UNCHANGED <<bucket, pc, locals>>

Acquire(w) ==
    Put(w) \/ Read(w) \/ Judge(w) \/ DeleteStale(w) \/ Retry(w) \/ Reread(w)

Next ==
    \/ \E w \in Writers :
          Enter(w) \/ Acquire(w) \/ Leave(w) \/ Release(w) \/ Crash(w)
    \/ LifecyclePurge
    \/ Tick

Spec == Init /\ [][Next]_vars

(* A live process runs on: only the body of the block may take for ever.   *)
FairSpec == Spec /\ \A w \in Writers : WF_vars(Acquire(w))

-----------------------------------------------------------------------------
(* Properties.                                                             *)

TypeOK ==
    /\ clock \in Nat
    /\ lock \in LockObject
    /\ pc \in [Writers -> Labels]
    /\ holder \in [Writers -> LockHolder]
    /\ existing \in [Writers -> LockObject]
    /\ misdirected \in BOOLEAN
    /\ born \in Int
    /\ inTheWay \in [Writers -> Int]
    /\ undeleted \subseteq Writers

(* w is in its block and every host's clock says its lock has time left.   *)
Protected(w) == pc[w] = "critical" /\ HeldAt(holder[w], clock + Skew)

(* The lock of a writer still inside its block and its TTL is the one in   *)
(* the bucket, unless some delete hit a lock it was not aimed at (a fresh  *)
(* lock taken for the stale one, a successor's lock taken for one's own):  *)
(* neither recovery, nor a lost reply, nor the purge can take it away.     *)
(* OneProtectedWriter rests on it; WriterLockProofs proves both.           *)
ProtectedOwnsLock ==
    \A w \in Writers : Protected(w) /\ ~misdirected => lock = holder[w]

(* Two writers that are both inside their TTL are never both in the block, *)
(* with the same exception.  The TTL is what universe_writer_lock promises *)
(* instead of a heartbeat, and the exception is where it falls short.      *)
OneProtectedWriter ==
    \A u, w \in Writers :
        Protected(u) /\ Protected(w) /\ ~misdirected => u = w

(* A writer is turned away only for cause, however the owner of the object *)
(* ended: died, hung, lost the reply of its PUT or left a body no one can  *)
(* parse.  The lock it is refused for at once was put less than TTL        *)
(* seconds ago, give or take the skew; the one it is refused for after its *)
(* own recovery was put by another that was faster, since it entered -     *)
(* unless its delete failed, which the code passes over.                   *)
Entered(w) == holder[w].ttl - TTL - Offset[w]
TurnedAway(w, label) == pc[w] = label /\ pc'[w] = "refused"
EarnedBy(w) ==
    /\ TurnedAway(w, "judge") => clock < inTheWay[w] + TTL + Skew
    /\ TurnedAway(w, "reread") /\ w \notin undeleted
           => Entered(w) <= inTheWay[w]
RefusalIsEarned == [][\A w \in Writers : EarnedBy(w)]_vars

(* An attempt ends, in the block or with an exception: universe_writer_lock*)
(* never loops, however the other writers interfere.                       *)
AttemptEnds ==
    \A w \in Writers : pc[w] = "put" ~> pc[w] \in {"critical"} \cup Outside
=============================================================================
