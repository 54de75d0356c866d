-------------------------- MODULE WriterLockProofs --------------------------
(***************************************************************************)
(* What WriterLock guarantees for every set of writers, TTL and clock      *)
(* skew.  The inductive invariant adds to ProtectedOwnsLock the facts it   *)
(* rests on (a writer only ever builds a body with its own name, and one   *)
(* that is about to delete has seen no lock that is live for everyone) and *)
(* those RefusalIsEarned rests on: what a lock's expiry says of the time   *)
(* it was put, and what stands where a stale lock was deleted.             *)
(***************************************************************************)
EXTENDS WriterLock, TLAPS

(* The bodies the writers built name them and are not dated ahead.         *)
OwnHolder ==
    \A w \in Writers : holder[w].owner = w /\ Entered(w) <= clock

(* A writer about to delete judged what it read as absent or expired.      *)
JudgedStale ==
    \A w \in Writers :
        pc[w] = "delete" => ~HeldAt(existing[w], clock + Skew)

(* No lock is dated ahead of its PUT by more than the skew and the TTL:    *)
(* neither the one in the bucket nor the one a writer is judging.          *)
DatedByPut ==
    /\ lock \in LockHolder => lock.ttl <= born + Skew + TTL
    /\ \A w \in Writers :
          pc[w] = "judge" /\ existing[w] \in LockHolder
              => existing[w].ttl <= inTheWay[w] + Skew + TTL

(* Where a recovery deleted the stale lock, any other came later.          *)
ClearedBefore ==
    \A w \in Writers \ undeleted :
        /\ pc[w] = "retry" /\ lock # NoLock => Entered(w) <= born
        /\ pc[w] = "reread" => Entered(w) <= inTheWay[w]

IInv ==
    /\ TypeOK
    /\ OwnHolder
    /\ JudgedStale
    /\ ProtectedOwnsLock
    /\ DatedByPut
    /\ ClearedBefore

-----------------------------------------------------------------------------

LEMMA Clocks ==
    LongAgo \in Int /\ \A w \in Writers : Offset[w] \in Nat /\ Offset[w] <= Skew
  BY ConstantsAssumption DEF LongAgo

LEMMA ClockWithinSkew ==
    ASSUME NEW w \in Writers, clock \in Nat
    PROVE  Now(w) \in Nat /\ clock <= Now(w) /\ Now(w) <= clock + Skew
  BY ConstantsAssumption DEF Now

LEMMA InitIInv == Init => IInv
<1> SUFFICES ASSUME Init PROVE IInv
  OBVIOUS
<1> USE ConstantsAssumption, Clocks DEF Init
<1>1. TypeOK
  BY DEF TypeOK, LockObject, LockHolder, Labels
<1>2. OwnHolder
  <2> SUFFICES ASSUME NEW w \in Writers
               PROVE  holder[w].owner = w /\ Entered(w) <= clock
    BY DEF OwnHolder
  <2>1. holder[w].owner = w /\ holder[w].ttl = 0
    OBVIOUS
  <2> QED
    BY <2>1 DEF Entered
<1>3. JudgedStale
  BY DEF JudgedStale
<1>4. ProtectedOwnsLock
  BY DEF ProtectedOwnsLock, Protected
<1>5. DatedByPut /\ ClearedBefore
  BY DEF DatedByPut, ClearedBefore, LockHolder
<1> QED
  BY <1>1, <1>2, <1>3, <1>4, <1>5 DEF IInv

-----------------------------------------------------------------------------
(* One lemma per action, and one for the way they all end.                 *)

LEMMA QuitTyped ==
    ASSUME TypeOK, NEW w \in Writers, NEW label \in Labels, Quit(w, label)
    PROVE  /\ pc' \in [Writers -> Labels]
           /\ holder' \in [Writers -> LockHolder]
           /\ existing' \in [Writers -> LockObject]
           /\ inTheWay' \in [Writers -> Int]
           /\ undeleted' \subseteq Writers
  BY Clocks DEF TypeOK, Quit, Goto, LockObject, LockHolder

LEMMA EnterPreserves ==
    ASSUME IInv, NEW w \in Writers, Enter(w)
    PROVE  IInv'
<1> USE ConstantsAssumption, Clocks DEF IInv, Enter, Goto, Quit, locals,
           bucket, Outside
<1>1. Now(w) \in Nat /\ Now(w) <= clock + Skew
  BY ClockWithinSkew DEF TypeOK
<1>2. BuildHolder(w) \in LockHolder
  BY <1>1 DEF BuildHolder, LockHolder
<1>3. TypeOK'
  BY <1>2 DEF TypeOK, LockObject, Labels
<1>4. OwnHolder'
  BY DEF OwnHolder, Entered, BuildHolder, Now, TypeOK, LockHolder
<1>5. JudgedStale'
  BY DEF JudgedStale, HeldAt, TypeOK
<1>6. ProtectedOwnsLock'
  BY DEF ProtectedOwnsLock, Protected, HeldAt, TypeOK
<1>7. DatedByPut' /\ ClearedBefore'
  BY DEF DatedByPut, ClearedBefore, Entered, OwnHolder, TypeOK, LockHolder, LockObject
<1> QED
  BY <1>3, <1>4, <1>5, <1>6, <1>7

LEMMA ConditionalPutPreserves ==
    ASSUME IInv, NEW w \in Writers, NEW refused \in {"read", "reread"},
           pc[w] = IF refused = "read" THEN "put" ELSE "retry",
           ConditionalPut(w, refused)
    PROVE  IInv'
<1> USE ConstantsAssumption, Clocks DEF IInv, ConditionalPut, Goto, Quit, locals,
           bucket, Outside
<1>1. TypeOK'
  <2>1. CASE Quit(w, "idle")
    <3>1. /\ pc' \in [Writers -> Labels]
          /\ holder' \in [Writers -> LockHolder]
          /\ existing' \in [Writers -> LockObject]
          /\ inTheWay' \in [Writers -> Int]
          /\ undeleted' \subseteq Writers
      BY <2>1, QuitTyped DEF Labels
    <3>2. clock' = clock /\ misdirected' = misdirected
      OBVIOUS
    <3>3. lock' \in {lock, holder[w]} /\ born' \in {born, clock}
      OBVIOUS
    <3> QED
      BY <3>1, <3>2, <3>3 DEF TypeOK, LockObject
  <2>2. CASE lock = NoLock /\ lock' = holder[w] /\ Goto(w, "critical")
             /\ UNCHANGED locals
    BY <2>2 DEF TypeOK, LockObject, Labels
  <2>3. CASE lock # NoLock /\ Goto(w, refused)
             /\ inTheWay' = [inTheWay EXCEPT ![w] = born]
             /\ UNCHANGED <<lock, holder, existing, undeleted>>
    BY <2>3 DEF TypeOK, LockObject, Labels
  <2> QED
    BY <2>1, <2>2, <2>3
<1>2. OwnHolder'
  BY DEF OwnHolder, Entered, TypeOK, LockHolder
<1>3. JudgedStale'
  BY DEF JudgedStale, HeldAt, TypeOK
<1>4. ProtectedOwnsLock'
  BY DEF ProtectedOwnsLock, Protected, HeldAt, TypeOK
<1>5. DatedByPut'
  BY DEF DatedByPut, OwnHolder, Entered, TypeOK, LockHolder, LockObject
<1>6. ClearedBefore'
  <2> SUFFICES ASSUME NEW u \in Writers \ undeleted'
               PROVE  /\ pc'[u] = "retry" /\ lock' # NoLock => Entered(u)' <= born'
                      /\ pc'[u] = "reread" => Entered(u)' <= inTheWay'[u]
    BY DEF ClearedBefore
  <2>1. CASE u # w
    <3>1. /\ pc'[u] = pc[u] /\ holder'[u] = holder[u]
          /\ inTheWay'[u] = inTheWay[u] /\ u \notin undeleted
      BY <2>1 DEF TypeOK
    <3> QED
      BY <3>1 DEF ClearedBefore, OwnHolder, Entered
  <2>2. CASE u = w
    BY <2>2 DEF ClearedBefore, Entered, TypeOK
  <2> QED
    BY <2>1, <2>2
<1> QED
  BY <1>1, <1>2, <1>3, <1>4, <1>5, <1>6

LEMMA ReadPreserves ==
    ASSUME IInv, NEW w \in Writers, Read(w) \/ Reread(w)
    PROVE  IInv'
<1> USE ConstantsAssumption, Clocks DEF IInv, Read, Reread, Goto, Quit, locals,
           bucket, Outside
<1>1. TypeOK'
  <2>1. CASE Read(w) /\ ~Quit(w, "idle")
    BY <2>1 DEF TypeOK, LockObject, Labels
  <2>2. CASE Quit(w, "idle") \/ Quit(w, "refused")
    BY <2>2, QuitTyped DEF TypeOK, LockObject, Labels
  <2> QED
    BY <2>1, <2>2
<1>2. OwnHolder'
  BY DEF OwnHolder, Entered, TypeOK, LockHolder
<1>3. JudgedStale'
  BY DEF JudgedStale, HeldAt, TypeOK
<1>4. ProtectedOwnsLock'
  BY DEF ProtectedOwnsLock, Protected, HeldAt, TypeOK
<1>5. DatedByPut'
  BY DEF DatedByPut, TypeOK, LockHolder, LockObject
<1>6. ClearedBefore'
  BY DEF ClearedBefore, Entered, TypeOK
<1> QED
  BY <1>1, <1>2, <1>3, <1>4, <1>5, <1>6

LEMMA JudgePreserves ==
    ASSUME IInv, NEW w \in Writers, Judge(w)
    PROVE  IInv'
<1> USE ConstantsAssumption, Clocks DEF IInv, Judge, Goto, Quit, locals,
           bucket, Outside
<1>1. TypeOK'
  <2>1. CASE Quit(w, "refused")
    BY <2>1, QuitTyped DEF TypeOK, LockObject, Labels
  <2>2. CASE Goto(w, "delete") /\ UNCHANGED locals
    BY <2>2 DEF TypeOK, LockObject, Labels
  <2> QED
    BY <2>1, <2>2
<1>2. OwnHolder'
  BY DEF OwnHolder, Entered, TypeOK, LockHolder
<1>3. JudgedStale'
  <2>1. Now(w) \in Nat /\ Now(w) <= clock + Skew
    BY ClockWithinSkew DEF TypeOK
  <2>2. ~HeldAt(existing[w], Now(w)) => ~HeldAt(existing[w], clock + Skew)
    BY <2>1 DEF HeldAt, TypeOK, LockObject, LockHolder
  <2> QED
    BY <2>2 DEF JudgedStale, HeldAt, TypeOK
<1>4. ProtectedOwnsLock'
  BY DEF ProtectedOwnsLock, Protected, HeldAt, TypeOK
<1>5. DatedByPut' /\ ClearedBefore'
  BY DEF DatedByPut, ClearedBefore, Entered, OwnHolder, TypeOK, LockHolder, LockObject
<1> QED
  BY <1>1, <1>2, <1>3, <1>4, <1>5

(* What it read is not live for everyone, so if its delete was not         *)
(* misdirected, no protected writer's lock is the one it removed.          *)
LEMMA DeleteStalePreserves ==
    ASSUME IInv, NEW w \in Writers, DeleteStale(w)
    PROVE  IInv'
<1> USE ConstantsAssumption, Clocks DEF IInv, DeleteStale, DeleteObject, Goto, Quit, locals,
           bucket, Outside
<1>1. TypeOK'
  BY DEF TypeOK, LockObject, LockHolder, Labels
<1>2. OwnHolder'
  BY DEF OwnHolder, Entered, TypeOK, LockHolder
<1>3. JudgedStale'
  BY DEF JudgedStale, HeldAt, TypeOK
<1>4. ProtectedOwnsLock'
  <2> SUFFICES ASSUME NEW u \in Writers, Protected(u)', ~misdirected'
               PROVE  lock' = holder'[u]
    BY DEF ProtectedOwnsLock
  <2>1. Protected(u) /\ ~misdirected
    BY DEF Protected, HeldAt, TypeOK
  <2>2. lock = holder[u] /\ HeldAt(lock, clock + Skew)
    BY <2>1 DEF ProtectedOwnsLock, Protected
  <2>3. lock # existing[w] /\ lock # NoLock
    BY <2>2 DEF JudgedStale, HeldAt
  <2> QED
    BY <2>2, <2>3
<1>5. DatedByPut' /\ ClearedBefore'
  BY DEF DatedByPut, ClearedBefore, Entered, OwnHolder, TypeOK, LockHolder, LockObject
<1> QED
  BY <1>1, <1>2, <1>3, <1>4, <1>5

(* A protected writer's lock is not the releaser's: the names differ.      *)
LEMMA ReleasePreserves ==
    ASSUME IInv, NEW w \in Writers, Release(w)
    PROVE  IInv'
<1> USE ConstantsAssumption, Clocks DEF IInv, Release, DeleteObject, Goto, Quit, locals,
           bucket, Outside
<1>1. TypeOK'
  BY DEF TypeOK, LockObject, LockHolder, Labels
<1>2. OwnHolder'
  BY DEF OwnHolder, Entered, TypeOK, LockHolder
<1>3. JudgedStale'
  BY DEF JudgedStale, HeldAt, TypeOK
<1>4. ProtectedOwnsLock'
  <2> SUFFICES ASSUME NEW u \in Writers, Protected(u)', ~misdirected'
               PROVE  lock' = holder'[u]
    BY DEF ProtectedOwnsLock
  <2>1. Protected(u) /\ ~misdirected /\ u # w
    BY DEF Protected, HeldAt, TypeOK
  <2>2. lock = holder[u] /\ HeldAt(lock, clock + Skew)
    BY <2>1 DEF ProtectedOwnsLock, Protected
  <2>3. lock # holder[w] /\ lock # NoLock
    BY <2>1, <2>2 DEF OwnHolder, HeldAt
  <2> QED
    BY <2>1, <2>2, <2>3 DEF TypeOK
<1>5. DatedByPut' /\ ClearedBefore'
  BY DEF DatedByPut, ClearedBefore, Entered, OwnHolder, TypeOK, LockHolder, LockObject
<1> QED
  BY <1>1, <1>2, <1>3, <1>4, <1>5

LEMMA LeavePreserves ==
    ASSUME IInv, NEW w \in Writers, Leave(w) \/ Crash(w)
    PROVE  IInv'
<1> USE ConstantsAssumption, Clocks DEF IInv, Leave, Crash, Goto, Quit, locals,
           bucket, Outside
<1>1. TypeOK'
  BY DEF TypeOK, LockObject, LockHolder, Labels
<1>2. OwnHolder'
  BY DEF OwnHolder, Entered, TypeOK, LockHolder
<1>3. JudgedStale'
  BY DEF JudgedStale, HeldAt, TypeOK
<1>4. ProtectedOwnsLock'
  BY DEF ProtectedOwnsLock, Protected, HeldAt, TypeOK
<1>5. DatedByPut' /\ ClearedBefore'
  BY DEF DatedByPut, ClearedBefore, Entered, OwnHolder, TypeOK, LockHolder, LockObject
<1> QED
  BY <1>1, <1>2, <1>3, <1>4, <1>5

LEMMA PurgePreserves ==
    ASSUME IInv, LifecyclePurge
    PROVE  IInv'
<1> USE ConstantsAssumption, Clocks DEF IInv, LifecyclePurge, locals, bucket
<1>1. TypeOK'
  BY DEF TypeOK, LockObject
<1>2. OwnHolder' /\ JudgedStale' /\ DatedByPut' /\ ClearedBefore'
  BY DEF OwnHolder, JudgedStale, DatedByPut, ClearedBefore, HeldAt, Entered
<1>3. ProtectedOwnsLock'
  BY DEF ProtectedOwnsLock, Protected, HeldAt, TypeOK, LockHolder
<1> QED
  BY <1>1, <1>2, <1>3

(* Time only takes protection away.                                        *)
LEMMA TickPreserves ==
    ASSUME IInv, Tick
    PROVE  IInv'
<1> USE ConstantsAssumption, Clocks DEF IInv, Tick, locals, bucket
<1>1. TypeOK'
  BY DEF TypeOK
<1>2. OwnHolder'
  BY DEF OwnHolder, Entered, TypeOK, LockHolder
<1>3. JudgedStale'
  BY DEF JudgedStale, HeldAt, TypeOK, LockHolder
<1>4. ProtectedOwnsLock'
  BY DEF ProtectedOwnsLock, Protected, HeldAt, TypeOK, LockHolder
<1>5. DatedByPut' /\ ClearedBefore'
  BY DEF DatedByPut, ClearedBefore, Entered
<1> QED
  BY <1>1, <1>2, <1>3, <1>4, <1>5

LEMMA StepPreserves == IInv /\ [Next]_vars => IInv'
<1> SUFFICES ASSUME IInv, [Next]_vars PROVE IInv'
  OBVIOUS
<1>1. ASSUME NEW w \in Writers, Enter(w) PROVE IInv'
  BY <1>1, EnterPreserves
<1>2. ASSUME NEW w \in Writers, Put(w) \/ Retry(w) PROVE IInv'
  <2>1. \E refused \in {"read", "reread"} :
           /\ pc[w] = IF refused = "read" THEN "put" ELSE "retry"
           /\ ConditionalPut(w, refused)
    BY <1>2 DEF Put, Retry
  <2> QED
    BY <2>1, ConditionalPutPreserves
<1>3. ASSUME NEW w \in Writers, Read(w) \/ Reread(w) PROVE IInv'
  BY <1>3, ReadPreserves
<1>4. ASSUME NEW w \in Writers, Judge(w) PROVE IInv'
  BY <1>4, JudgePreserves
<1>5. ASSUME NEW w \in Writers, DeleteStale(w) PROVE IInv'
  BY <1>5, DeleteStalePreserves
<1>6. ASSUME NEW w \in Writers, Release(w) PROVE IInv'
  BY <1>6, ReleasePreserves
<1>7. ASSUME NEW w \in Writers, Leave(w) \/ Crash(w) PROVE IInv'
  BY <1>7, LeavePreserves
<1>8. CASE LifecyclePurge
  BY <1>8, PurgePreserves
<1>9. CASE Tick
  BY <1>9, TickPreserves
<1>10. CASE UNCHANGED vars
  BY <1>10 DEF vars, IInv, TypeOK, OwnHolder, JudgedStale, ProtectedOwnsLock,
               Protected, HeldAt, DatedByPut, ClearedBefore, Entered, locals,
               bucket
<1> QED
  BY <1>1, <1>2, <1>3, <1>4, <1>5, <1>6, <1>7, <1>8, <1>9, <1>10
  DEF Next, Acquire

-----------------------------------------------------------------------------

(* The inductive invariant holds in every state of every behaviour.        *)
THEOREM LockInvariant == Spec => []IInv
  BY InitIInv, StepPreserves, PTL DEF Spec

(* universe_writer_lock keeps its state well typed.                        *)
THEOREM LockTypeOK == Spec => []TypeOK
<1>1. IInv => TypeOK
  BY DEF IInv
<1> QED
  BY <1>1, LockInvariant, PTL

(* The lock a protected writer holds stays the one in the bucket until a   *)
(* delete hits a lock it was not aimed at, whatever fails meanwhile.       *)
THEOREM LockOwnership == Spec => []ProtectedOwnsLock
<1>1. IInv => ProtectedOwnsLock
  BY DEF IInv
<1> QED
  BY <1>1, LockInvariant, PTL

(* Mutual exclusion of writers inside their TTL, for any number of writers *)
(* and any clock skew, up to the first misdirected delete.                 *)
THEOREM LockExclusion == Spec => []OneProtectedWriter
<1>1. IInv => OneProtectedWriter
  BY DEF IInv, OneProtectedWriter, ProtectedOwnsLock, OwnHolder
<1> QED
  BY <1>1, LockInvariant, PTL

(* Whom universe_writer_lock turns away, it turns away for a lock put less *)
(* than TTL ago (and the skew), or, where its recovery deleted that lock,  *)
(* for one put since it came.                                              *)
THEOREM RefusalsAreEarned == Spec => RefusalIsEarned
<1>1. ASSUME IInv, Next, NEW w \in Writers PROVE EarnedBy(w)
  <2>1. CASE Judge(w)
    <3>1. ASSUME TurnedAway(w, "judge")
          PROVE  clock < inTheWay[w] + TTL + Skew
      <4>1. existing[w] \in LockHolder /\ existing[w].ttl > Now(w)
        BY <1>1, <2>1, <3>1
        DEF Judge, TurnedAway, HeldAt, Goto, Quit, IInv, TypeOK
      <4>2. existing[w].ttl <= inTheWay[w] + Skew + TTL
        BY <1>1, <2>1, <4>1 DEF Judge, IInv, DatedByPut
      <4>3. Now(w) \in Nat /\ clock <= Now(w)
        BY <1>1, ClockWithinSkew DEF IInv, TypeOK
      <4> QED
        BY <1>1, <4>1, <4>2, <4>3, ConstantsAssumption
        DEF IInv, TypeOK, LockHolder
    <3> QED
      BY <2>1, <3>1 DEF EarnedBy, TurnedAway, Judge
  <2>2. CASE Reread(w)
    BY <1>1, <2>2 DEF EarnedBy, TurnedAway, Reread, IInv, ClearedBefore
  <2>3. CASE ~Judge(w) /\ ~Reread(w)
    <3>1. pc'[w] = "refused" => pc[w] \notin {"judge", "reread"}
      BY <1>1, <2>3 DEF Next, Acquire, Enter, Put, Retry, ConditionalPut, Read,
         Judge, DeleteStale, Reread, Leave, Release, Crash, LifecyclePurge,
         Tick, Quit, Goto, IInv, TypeOK
    <3> QED
      BY <3>1 DEF EarnedBy, TurnedAway
  <2> QED
    BY <2>1, <2>2, <2>3
<1>2. IInv /\ [Next]_vars => [\A w \in Writers : EarnedBy(w)]_vars
  BY <1>1
<1> QED
  BY <1>2, LockInvariant, PTL DEF Spec, RefusalIsEarned
=============================================================================
