-------------------------- MODULE AlertPublishProofs --------------------------
(***************************************************************************)
(* What AlertPublish guarantees for any number of processes, any calls,    *)
(* registry and mute list.  A call that returns has reached something: the *)
(* proof follows its local variables.  The marker never counts more than   *)
(* was published: it counts the processes that have published and not yet  *)
(* read the marker.  And, where calls do not overlap, the streak is the    *)
(* condition's own, the gate opens and a window sees one publish.          *)
(***************************************************************************)
EXTENDS AlertPublish, FiniteSets, FiniteSetTheorems, TLAPS

Fields == {"call", "tier", "after", "seen", "sns_ok", "telegram_ok", "now", "count", "reached"}
Early == {"clear", "digest", "mute", "tier", "streak", "record", "dedup", "sns"}
Labels == Early \cup {"idle", "telegram", "prior", "mark", "event"}

(* The local variables of a call at a label: a channel that is ok has been *)
(* reached, unless it is the unsent Telegram leg of tracked-only; and none *)
(* is ok before it was asked.                                              *)
Shape(j) == DOMAIN j = Fields /\ j.sns_ok \in BOOLEAN /\ j.telegram_ok \in BOOLEAN /\ j.reached \in BOOLEAN
OkIsReached(j) ==
  /\ j.sns_ok => j.reached
  /\ j.telegram_ok /\ j.tier # "tracked-only" => j.reached
LocalOK(label, j) ==
  /\ Shape(j) /\ OkIsReached(j)
  /\ label \in Early => ~ j.sns_ok /\ ~ j.telegram_ok
Locals ==
  /\ pc \in [Processes -> Labels] /\ DOMAIN job = Processes
  /\ \A p \in Processes : LocalOK(pc[p], job[p])
LoudInv == Locals /\ LossIsLoud

-----------------------------------------------------------------------------
LEMMA NoJobIsOK == \A label : LocalOK(label, NoJob)
  BY DEF LocalOK, Shape, OkIsReached, NoJob, NewJob, Fields

LEMMA NewJobIsOK == \A label, c : LocalOK(label, NewJob(c)) /\ NewJob(c).call = c
  BY DEF LocalOK, Shape, OkIsReached, NewJob, Fields

(* A call that goes on leaves the outcome alone, and one that ends in an   *)
(* exception or a gate is not said to have returned.                       *)
LEMMA ContinueKeeps ==
  ASSUME LoudInv, NEW p \in Processes, NEW label \in Labels, NEW j, LocalOK(label, j), Continue(p, label, j)
  PROVE  LoudInv'
<1>1. Locals'
  BY DEF Continue, Goto, LoudInv, Locals
<1>2. LossIsLoud'
  BY DEF Continue, LoudInv, LossIsLoud
<1> QED
  BY <1>1, <1>2 DEF LoudInv

LEMMA LeaveKeeps ==
  ASSUME LoudInv, NEW p \in Processes, NEW how, NEW j, Leave(p, how, j),
         how = "returned" /\ Wanted(j.call) /\ j.tier # "tracked-only" => j.reached
  PROVE  LoudInv'
<1>1. "idle" \in Labels /\ LocalOK("idle", NoJob)
  BY NoJobIsOK DEF Labels
<1>2. Locals'
  BY <1>1 DEF Leave, Goto, LoudInv, Locals
<1>3. outcome' = PublishResult(how, j)
  BY DEF Leave
<1>4. LossIsLoud'
  BY <1>3 DEF PublishResult, LossIsLoud
<1> QED
  BY <1>2, <1>4 DEF LoudInv

LEMMA EndKeeps ==
  ASSUME LoudInv, NEW p \in Processes, NEW how, how # "returned", End(p, how)
  PROVE  LoudInv'
  BY LeaveKeeps DEF End

LEMMA EnterKeeps ==
  ASSUME LoudInv, NEW p \in Processes, NEW j, LocalOK("mute", j), Enter(p, j)
  PROVE  LoudInv'
<1>1. LocalOK("digest", j) /\ {"mute", "digest"} \subseteq Labels
  BY DEF LocalOK, Early, Labels
<1>2. CASE j.call.mode = "send"
  BY <1>1, <1>2, ContinueKeeps DEF Enter
<1>3. CASE j.call.mode = "digest"
  BY <1>1, <1>3, ContinueKeeps DEF Enter
<1>4. CASE j.call.mode \notin {"send", "digest"}
  BY <1>4, LeaveKeeps DEF Enter
<1> QED
  BY <1>2, <1>3, <1>4

LEMMA ReplyFacts == \A reply \in Replies : reply.ok \in BOOLEAN /\ reply.taken \in BOOLEAN /\ (reply.ok => reply.taken)
<1> SUFFICES ASSUME NEW reply \in Replies
             PROVE  reply.ok \in BOOLEAN /\ reply.taken \in BOOLEAN /\ (reply.ok => reply.taken)
  OBVIOUS
<1>1. CASE reply = [ok |-> TRUE, taken |-> TRUE]
  BY <1>1
<1>2. CASE reply \in [ok : {FALSE}, taken : BOOLEAN]
  <2>1. reply.ok = FALSE /\ reply.taken \in BOOLEAN
    BY <1>2
  <2> QED
    BY <2>1, Zenon
<1> QED
  BY <1>1, <1>2 DEF Replies

LEMMA SendMessageFacts == SendMessage \subseteq Replies
  BY DEF SendMessage

\* The locals of a process at an early label, and what they allow.
LEMMA EarlyLocals ==
  ASSUME LoudInv, NEW p \in Processes, pc[p] \in Early
  PROVE  LocalOK(pc[p], job[p]) /\ \A label : LocalOK(label, job[p])
  BY DEF LoudInv, Locals, LocalOK

LEMMA TierKeeps ==
  ASSUME NEW j, NEW label \in Early, LocalOK(label, j), NEW to, NEW tier, NEW after, NEW seen
  PROVE  /\ LocalOK(to, [j EXCEPT !.tier = tier, !.after = after])
         /\ LocalOK(to, [j EXCEPT !.tier = tier, !.after = after, !.seen = seen])
         /\ LocalOK(to, [j EXCEPT !.after = after])
         /\ LocalOK(to, [j EXCEPT !.seen = seen])
  BY DEF LocalOK, Shape, OkIsReached, Fields

LEMMA AfterTelegramKeeps ==
  ASSUME LoudInv, NEW p \in Processes, NEW j, LocalOK("telegram", j), AfterTelegram(p, j)
  PROVE  LoudInv'
<1>1. LocalOK("prior", j) /\ LocalOK("event", j)
  BY DEF LocalOK, Early
<1>2. {"prior", "event"} \subseteq Labels
  BY DEF Labels
<1> QED
  BY <1>1, <1>2, ContinueKeeps DEF AfterTelegram

-----------------------------------------------------------------------------
LEMMA StartLoud ==
  ASSUME LoudInv, NEW p \in Processes, NEW c \in Calls, Start(p, c)
  PROVE  LoudInv'
<1>1. LocalOK("clear", NewJob(c)) /\ LocalOK("mute", NewJob(c)) /\ "clear" \in Labels
  BY NewJobIsOK DEF Labels, Early
<1>2. Continue(p, "clear", NewJob(c)) \/ Enter(p, NewJob(c))
  BY DEF Start
<1> QED
  BY <1>1, <1>2, ContinueKeeps, EnterKeeps

LEMMA GateLoud ==
  ASSUME LoudInv, NEW p \in Processes,
         ClearStreak(p) \/ WriteDigest(p) \/ CheckMute(p) \/ ChooseTier(p) \/ ReadStreak(p) \/ RecordOpen(p)
           \/ CheckMarker(p)
  PROVE  LoudInv'
<1>1. pc[p] \in Early
  BY DEF ClearStreak, WriteDigest, CheckMute, ChooseTier, ReadStreak, RecordOpen, CheckMarker, Early
<1>2. LocalOK(pc[p], job[p]) /\ \A label : LocalOK(label, job[p])
  BY <1>1, EarlyLocals
<1>3. CASE ClearStreak(p)
  BY <1>2, <1>3, EnterKeeps DEF ClearStreak
<1>4. CASE WriteDigest(p)
  <2>1. Leave(p, "returned", [job[p] EXCEPT !.reached = TRUE]) \/ End(p, "AlertDeliveryError")
    BY <1>4 DEF WriteDigest
  <2>2. [job[p] EXCEPT !.reached = TRUE].reached
    BY <1>2 DEF LocalOK, Shape, Fields
  <2> QED
    BY <2>1, <2>2, LeaveKeeps, EndKeeps
<1>5. CASE CheckMute(p)
  <2>1. Continue(p, "tier", job[p]) \/ End(p, "muted") \/ End(p, "TypeError")
    BY <1>5, ConstantsAssumption DEF CheckMute
  <2>2. "tier" \in Labels
    BY DEF Labels, Early
  <2> QED
    BY <1>2, <2>1, <2>2, ContinueKeeps, EndKeeps
<1>6. CASE ChooseTier(p)
  <2>1. PICK label \in {"streak", "dedup", "sns"} :
          \E tier, after : Continue(p, label, [job[p] EXCEPT !.tier = tier, !.after = after])
    BY <1>6 DEF ChooseTier, Deliver
  <2>2. PICK tier, after : Continue(p, label, [job[p] EXCEPT !.tier = tier, !.after = after])
    BY <2>1
  <2>3. label \in Labels
    BY DEF Labels, Early
  <2>4. LocalOK(label, [job[p] EXCEPT !.tier = tier, !.after = after])
    BY <1>1, <1>2, TierKeeps
  <2> QED
    BY <2>1, <2>2, <2>3, <2>4, ContinueKeeps
<1>7. CASE ReadStreak(p)
  <2>1. \/ Continue(p, "record", [job[p] EXCEPT !.seen = streak])
        \/ Continue(p, Deliver(job[p].call), [job[p] EXCEPT !.after = 1])
    BY <1>7 DEF ReadStreak
  <2>2. {"record", Deliver(job[p].call)} \subseteq Labels
    BY DEF Labels, Early, Deliver
  <2>3. /\ LocalOK("record", [job[p] EXCEPT !.seen = streak])
        /\ LocalOK(Deliver(job[p].call), [job[p] EXCEPT !.after = 1])
    BY <1>1, <1>2, TierKeeps
  <2> QED
    BY <2>1, <2>2, <2>3, ContinueKeeps
<1>8. CASE RecordOpen(p)
  <2>1. PICK tier : Continue(p, Deliver(job[p].call),
                             [job[p] EXCEPT !.tier = tier, !.after = 1, !.seen = 0])
    BY <1>8 DEF RecordOpen
  <2>2. Deliver(job[p].call) \in Labels
    BY DEF Labels, Early, Deliver
  <2>3. LocalOK(Deliver(job[p].call), [job[p] EXCEPT !.tier = tier, !.after = 1, !.seen = 0])
    BY <1>1, <1>2, TierKeeps
  <2> QED
    BY <2>1, <2>2, <2>3, ContinueKeeps
<1>9. CASE CheckMarker(p)
  <2>1. End(p, "dedup_skipped") \/ Continue(p, "sns", job[p])
    BY <1>9 DEF CheckMarker
  <2>2. "sns" \in Labels
    BY DEF Labels, Early
  <2> QED
    BY <1>2, <2>1, <2>2, ContinueKeeps, EndKeeps
<1> QED
  BY <1>3, <1>4, <1>5, <1>6, <1>7, <1>8, <1>9

LEMMA SnsLoud ==
  ASSUME LoudInv, NEW p \in Processes, PublishSns(p) PROVE LoudInv'
<1>1. pc[p] = "sns" /\ "telegram" \in Labels /\ "sns" \in Early
  BY DEF PublishSns, Labels, Early
<1>2. LocalOK("sns", job[p]) /\ \A label : LocalOK(label, job[p])
  BY <1>1, EarlyLocals
<1>3. CASE Continue(p, "telegram", job[p])
  BY <1>1, <1>2, <1>3, ContinueKeeps
<1>4. CASE SendSns(p)
  <2>1. PICK reply \in Replies :
          Continue(p, "telegram", [job[p] EXCEPT !.sns_ok = reply.ok, !.reached = Reached(p, reply)])
    BY <1>4 DEF SendSns
  <2> DEFINE j == [job[p] EXCEPT !.sns_ok = reply.ok, !.reached = Reached(p, reply)]
  <2>2. DOMAIN j = Fields /\ j.sns_ok = reply.ok /\ j.reached = Reached(p, reply) /\ j.telegram_ok = job[p].telegram_ok
    BY <1>2 DEF LocalOK, Shape, Fields
  <2>3. Reached(p, reply) \in BOOLEAN /\ (reply.taken => Reached(p, reply))
    BY ReplyFacts DEF Reached
  <2>4. ~ job[p].telegram_ok /\ job[p].telegram_ok \in BOOLEAN
    BY <1>1, <1>2 DEF LocalOK, Shape
  <2>5. LocalOK("telegram", j)
    BY <2>2, <2>3, <2>4, ReplyFacts, Zenon DEF LocalOK, Shape, OkIsReached, Early
  <2> QED
    BY <1>1, <2>1, <2>5, ContinueKeeps
<1> QED
  BY <1>3, <1>4 DEF PublishSns

LEMMA TelegramLoud ==
  ASSUME LoudInv, NEW p \in Processes, PublishTelegram(p) PROVE LoudInv'
<1>1. pc[p] = "telegram"
  BY DEF PublishTelegram
<1>2. LocalOK("telegram", job[p])
  BY <1>1 DEF LoudInv, Locals
<1>3. job[p].sns_ok \in BOOLEAN /\ job[p].reached \in BOOLEAN /\ (job[p].sns_ok => job[p].reached)
      /\ DOMAIN job[p] = Fields
  BY <1>2 DEF LocalOK, Shape, OkIsReached
<1>4. CASE AfterTelegram(p, job[p])
  BY <1>2, <1>4, AfterTelegramKeeps
<1>5. CASE job[p].tier = "tracked-only" /\ AfterTelegram(p, [job[p] EXCEPT !.telegram_ok = TRUE])
  <2> DEFINE j == [job[p] EXCEPT !.telegram_ok = TRUE]
  <2>1. DOMAIN j = Fields /\ j.sns_ok = job[p].sns_ok /\ j.reached = job[p].reached /\ j.telegram_ok = TRUE
        /\ j.tier = "tracked-only"
    BY <1>3, <1>5 DEF Fields
  <2>2. LocalOK("telegram", j)
    BY <1>3, <2>1, Zenon DEF LocalOK, Shape, OkIsReached, Early
  <2> QED
    BY <1>5, <2>2, AfterTelegramKeeps
<1>6. CASE AfterTelegram(p, [job[p] EXCEPT !.telegram_ok = TRUE, !.reached = TRUE])
  <2> DEFINE j == [job[p] EXCEPT !.telegram_ok = TRUE, !.reached = TRUE]
  <2>1. DOMAIN j = Fields /\ j.sns_ok = job[p].sns_ok /\ j.reached = TRUE /\ j.telegram_ok = TRUE
    BY <1>3 DEF Fields
  <2>2. LocalOK("telegram", j)
    BY <1>3, <2>1, Zenon DEF LocalOK, Shape, OkIsReached, Early
  <2> QED
    BY <1>6, <2>2, AfterTelegramKeeps
<1>7. CASE SendTelegram(p)
  <2>1. PICK reply \in SendMessage :
          AfterTelegram(p, [job[p] EXCEPT !.telegram_ok = reply.ok, !.reached = Reached(p, reply)])
    BY <1>7 DEF SendTelegram
  <2>2. reply.ok \in BOOLEAN /\ reply.taken \in BOOLEAN /\ (reply.ok => reply.taken)
    BY <2>1, SendMessageFacts, ReplyFacts
  <2> DEFINE j == [job[p] EXCEPT !.telegram_ok = reply.ok, !.reached = Reached(p, reply)]
  <2>3. DOMAIN j = Fields /\ j.sns_ok = job[p].sns_ok /\ j.reached = Reached(p, reply) /\ j.telegram_ok = reply.ok
    BY <1>3 DEF Fields
  <2>4. Reached(p, reply) \in BOOLEAN /\ (job[p].reached \/ reply.taken => Reached(p, reply))
    BY DEF Reached
  <2>5. LocalOK("telegram", j)
    BY <1>3, <2>2, <2>3, <2>4, Zenon DEF LocalOK, Shape, OkIsReached, Early
  <2> QED
    BY <2>1, <2>5, AfterTelegramKeeps
<1> QED
  BY <1>4, <1>5, <1>6, <1>7 DEF PublishTelegram

LEMMA RestLoud ==
  ASSUME LoudInv, NEW p \in Processes, ReadPrior(p) \/ WriteMarker(p) \/ EmitEvent(p) \/ Kill(p)
  PROVE  LoudInv'
<1>1. LocalOK(pc[p], job[p])
  BY DEF LoudInv, Locals
<1>2. Shape(job[p]) /\ OkIsReached(job[p])
  BY <1>1 DEF LocalOK
<1>3. ASSUME NEW label \in {"mark", "event"}, NEW now, NEW count,
             Continue(p, label, [job[p] EXCEPT !.now = now, !.count = count])
      PROVE  LoudInv'
  <2>1. LocalOK(label, [job[p] EXCEPT !.now = now, !.count = count]) /\ label \in Labels
    BY <1>2 DEF LocalOK, Shape, OkIsReached, Fields, Early, Labels
  <2> QED
    BY <1>3, <2>1, ContinueKeeps
<1>4. CASE ReadPrior(p)
  BY <1>3, <1>4 DEF ReadPrior
<1>5. CASE WriteMarker(p)
  BY <1>3, <1>5 DEF WriteMarker
<1>6. CASE EmitEvent(p)
  <2>1. PICK reply \in Replies :
          Leave(p, IF TotalFailure(job[p].call, job[p], reply.ok) THEN "AlertDeliveryError" ELSE "returned",
                [job[p] EXCEPT !.reached = Reached(p, reply)])
    BY <1>6 DEF EmitEvent
  <2> DEFINE j == [job[p] EXCEPT !.reached = Reached(p, reply)]
  <2>2. j.call = job[p].call /\ j.tier = job[p].tier /\ j.reached = Reached(p, reply)
    BY <1>2 DEF Shape, Fields
  <2>3. ~ TotalFailure(job[p].call, job[p], reply.ok) /\ Wanted(j.call) /\ j.tier # "tracked-only" => j.reached
    BY <1>2, <2>2, ReplyFacts, Zenon DEF TotalFailure, AnyOk, OkIsReached, Reached
  <2> QED
    BY <2>1, <2>3, LeaveKeeps
<1>7. CASE Kill(p)
  BY <1>7, EndKeeps DEF Kill
<1> QED
  BY <1>4, <1>5, <1>6, <1>7

LEMMA InitLoud == Init => LoudInv
<1> SUFFICES ASSUME Init PROVE LoudInv
  OBVIOUS
<1>1. Locals
  BY NoJobIsOK DEF Init, Locals, Labels
<1> QED
  BY <1>1 DEF Init, LoudInv, LossIsLoud

LEMMA StepLoud == LoudInv /\ [Next]_vars => LoudInv'
<1> SUFFICES ASSUME LoudInv, [Next]_vars PROVE LoudInv'
  OBVIOUS
<1>1. ASSUME NEW p \in Processes, NEW c \in Calls, Start(p, c) PROVE LoudInv'
  BY <1>1, StartLoud
<1>2. ASSUME NEW p \in Processes, Step(p) PROVE LoudInv'
  BY <1>2, GateLoud, SnsLoud, TelegramLoud, RestLoud DEF Step
<1>3. ASSUME NEW p \in Processes, Kill(p) PROVE LoudInv'
  BY <1>3, RestLoud
<1>4. CASE Tick \/ UNCHANGED vars
  BY <1>4 DEF Tick, vars, LoudInv, Locals, LossIsLoud
<1> QED
  BY <1>1, <1>2, <1>3, <1>4 DEF Next

(***************************************************************************)
(* alerts.publish: a call that wanted a channel and returned has reached   *)
(* one, the console, the digest or the intake, for any number of           *)
(* processes and whatever fails.                                           *)
(***************************************************************************)
THEOREM ReturnedIsDelivered == Spec => []LossIsLoud
<1>1. LoudInv => LossIsLoud
  BY DEF LoudInv
<1> QED
  BY <1>1, InitLoud, StepLoud, PTL DEF Spec

-----------------------------------------------------------------------------
(* The processes that have published, which published counts, and have not *)
(* yet read the marker.                                                    *)
Unread == {p \in Processes : pc[p] = "prior"}
Covered(n) == n \in Nat /\ n + Cardinality(Unread) <= published
(* What is in the marker, and what is about to be written to it, leaves    *)
(* each of them its own publish.                                           *)
MarkerInv ==
  /\ pc \in [Processes -> Labels] /\ DOMAIN job = Processes
  /\ \A p \in Processes : DOMAIN job[p] = Fields
  /\ published \in Nat /\ IsFiniteSet(Unread)
  /\ Covered(marker.count)
  /\ \A p \in Processes : pc[p] = "mark" => Covered(job[p].count)

(* A process that goes anywhere else, from anywhere, owes no more than     *)
(* before.                                                                 *)
LEMMA MoveCovers ==
  ASSUME MarkerInv, NEW p \in Processes, NEW label \in Labels \ {"prior", "mark"}, NEW j, DOMAIN j = Fields,
         Goto(p, label), job' = [job EXCEPT ![p] = j], UNCHANGED published,
         marker' = marker \/ Covered(marker'.count)
  PROVE  MarkerInv'
<1>1. pc' \in [Processes -> Labels] /\ pc'[p] = label /\ \A q \in Processes \ {p} : pc'[q] = pc[q]
  BY DEF Goto, MarkerInv
<1>2. DOMAIN job' = Processes /\ job'[p] = j /\ \A q \in Processes \ {p} : job'[q] = job[q]
  BY DEF MarkerInv
<1>3. Unread' \in SUBSET Unread
  BY <1>1 DEF Unread
<1>4. IsFiniteSet(Unread) /\ IsFiniteSet(Unread') /\ Cardinality(Unread') <= Cardinality(Unread)
  BY <1>3, FS_Subset DEF MarkerInv
<1>5. Cardinality(Unread) \in Nat /\ Cardinality(Unread') \in Nat
  BY <1>4, FS_CardinalityType
<1>6. ASSUME NEW n, Covered(n) PROVE n \in Nat /\ n + Cardinality(Unread') <= published
  BY <1>4, <1>5, <1>6 DEF Covered, MarkerInv
<1>7. Covered(marker'.count)
  BY DEF MarkerInv
<1>8. \A q \in Processes : pc'[q] = "mark" => Covered(job'[q].count)
  BY <1>1, <1>2 DEF MarkerInv
<1>9. \A n : Covered(n) => n \in Nat /\ n + Cardinality(Unread') <= published'
  BY <1>6
<1>10. \A q \in Processes : DOMAIN job'[q] = Fields
  BY <1>2 DEF MarkerInv
<1>11. published' \in Nat
  BY DEF MarkerInv
<1>12. (marker.count)' \in Nat /\ (marker.count)' + Cardinality(Unread') <= published'
  BY <1>7, <1>9
<1>13. \A q \in Processes : pc'[q] = "mark" =>
         job'[q].count \in Nat /\ job'[q].count + Cardinality(Unread') <= published'
  BY <1>8, <1>9
<1> QED
  BY <1>1, <1>2, <1>4, <1>10, <1>11, <1>12, <1>13 DEF MarkerInv, Covered

(* One that has just published is counted on both sides.                   *)
LEMMA PublishCovers ==
  ASSUME MarkerInv, NEW p \in Processes, pc[p] = "telegram", NEW j, DOMAIN j = Fields,
         Goto(p, "prior"), job' = [job EXCEPT ![p] = j], published' = published + 1, UNCHANGED marker
  PROVE  MarkerInv'
<1>1. pc' \in [Processes -> Labels] /\ pc'[p] = "prior" /\ \A q \in Processes \ {p} : pc'[q] = pc[q]
  BY DEF Goto, MarkerInv, Labels
<1>2. DOMAIN job' = Processes /\ job'[p] = j /\ \A q \in Processes \ {p} : job'[q] = job[q]
  BY DEF MarkerInv
<1>3. Unread' = Unread \cup {p} /\ p \notin Unread
  BY <1>1 DEF Unread
<1>4. IsFiniteSet(Unread) /\ published \in Nat
  BY DEF MarkerInv
<1>5. IsFiniteSet(Unread') /\ Cardinality(Unread') = Cardinality(Unread) + 1 /\ Cardinality(Unread) \in Nat
  BY <1>3, <1>4, FS_AddElement, FS_CardinalityType
<1>6. \A n : Covered(n) => n \in Nat /\ n + Cardinality(Unread') <= published'
  BY <1>4, <1>5 DEF Covered
<1>7. \A q \in Processes : pc'[q] = "mark" => Covered(job'[q].count)
  BY <1>1, <1>2 DEF MarkerInv
<1>8. \A q \in Processes : DOMAIN job'[q] = Fields
  BY <1>2 DEF MarkerInv
<1>9. published' \in Nat
  BY <1>4
<1>10. (marker.count)' \in Nat /\ (marker.count)' + Cardinality(Unread') <= published'
  BY <1>6 DEF MarkerInv
<1>11. \A q \in Processes : pc'[q] = "mark" =>
         job'[q].count \in Nat /\ job'[q].count + Cardinality(Unread') <= published'
  BY <1>6, <1>7
<1> QED
  BY <1>1, <1>2, <1>5, <1>8, <1>9, <1>10, <1>11 DEF MarkerInv, Covered

(* One that reads the marker will write one more, which is its own.        *)
LEMMA ReadPriorCovers ==
  ASSUME MarkerInv, NEW p \in Processes, ReadPrior(p) PROVE MarkerInv'
<1>1. PICK prior \in {marker.count, 0} :
        Continue(p, "mark", [job[p] EXCEPT !.now = clock, !.count = prior + 1])
  BY DEF ReadPrior, Maybe
<1> DEFINE j == [job[p] EXCEPT !.now = clock, !.count = prior + 1]
<1>2. pc[p] = "prior" /\ UNCHANGED <<marker, published>>
  BY DEF ReadPrior, objects, dedup
<1>3. pc' \in [Processes -> Labels] /\ pc'[p] = "mark" /\ \A q \in Processes \ {p} : pc'[q] = pc[q]
  BY <1>1 DEF Continue, Goto, MarkerInv, Labels
<1>4. DOMAIN job' = Processes /\ job'[p] = j /\ \A q \in Processes \ {p} : job'[q] = job[q]
  BY <1>1 DEF Continue, MarkerInv
<1>5. DOMAIN j = Fields /\ j.count = prior + 1
  BY DEF MarkerInv, Fields
<1>6. Unread' = Unread \ {p} /\ p \in Unread
  BY <1>2, <1>3 DEF Unread
<1>7. IsFiniteSet(Unread) /\ published \in Nat
  BY DEF MarkerInv
<1>8. /\ IsFiniteSet(Unread') /\ Cardinality(Unread') = Cardinality(Unread) - 1
      /\ Cardinality(Unread) \in Nat /\ Cardinality(Unread') \in Nat
  BY <1>6, <1>7, FS_RemoveElement, FS_CardinalityType
<1>9. \A n : Covered(n) => n \in Nat /\ n + Cardinality(Unread') <= published'
  BY <1>2, <1>7, <1>8 DEF Covered
<1>10. prior + 1 \in Nat /\ prior + 1 + Cardinality(Unread') <= published'
  <2>1. marker.count \in Nat /\ marker.count + Cardinality(Unread) <= published
    BY DEF MarkerInv, Covered
  <2>2. published' = published
    BY <1>2
  <2> HIDE DEF j
  <2> QED
    BY <1>7, <1>8, <2>1, <2>2
<1>11. \A q \in Processes \ {p} : pc'[q] = "mark" => Covered(job'[q].count)
  BY <1>3, <1>4 DEF MarkerInv
<1>12. \A q \in Processes : pc'[q] = "mark" =>
         job'[q].count \in Nat /\ job'[q].count + Cardinality(Unread') <= published'
  BY <1>4, <1>5, <1>9, <1>10, <1>11
<1>13. \A q \in Processes : DOMAIN job'[q] = Fields
  BY <1>4, <1>5 DEF MarkerInv
<1>14. published' \in Nat
  BY <1>2, <1>7
<1>15. (marker.count)' \in Nat /\ (marker.count)' + Cardinality(Unread') <= published'
  BY <1>2, <1>9 DEF MarkerInv
<1> HIDE DEF j
<1> QED
  BY <1>3, <1>4, <1>8, <1>12, <1>13, <1>14, <1>15 DEF MarkerInv, Covered

LEMMA ContinueCovers ==
  ASSUME MarkerInv, NEW p \in Processes, NEW label \in Labels \ {"prior", "mark"}, NEW j, DOMAIN j = Fields,
         Continue(p, label, j), UNCHANGED <<published, marker>>
  PROVE  MarkerInv'
  BY MoveCovers DEF Continue

LEMMA LeaveCovers ==
  ASSUME MarkerInv, NEW p \in Processes, NEW how, NEW j, Leave(p, how, j), UNCHANGED <<published, marker>>
  PROVE  MarkerInv'
<1>1. "idle" \in Labels \ {"prior", "mark"} /\ DOMAIN NoJob = Fields
  BY NoJobIsOK DEF Labels, LocalOK, Shape
<1> QED
  BY <1>1, MoveCovers DEF Leave

LEMMA EnterCovers ==
  ASSUME MarkerInv, NEW p \in Processes, NEW j, DOMAIN j = Fields, Enter(p, j), UNCHANGED <<published, marker>>
  PROVE  MarkerInv'
<1>1. {"mute", "digest"} \subseteq Labels \ {"prior", "mark"}
  BY DEF Labels, Early
<1>2. Continue(p, "mute", j) \/ Continue(p, "digest", j) \/ Leave(p, "suppressed", j)
  BY DEF Enter
<1> QED
  BY <1>1, <1>2, ContinueCovers, LeaveCovers

LEMMA AfterTelegramCovers ==
  ASSUME MarkerInv, NEW p \in Processes, pc[p] = "telegram", NEW j, DOMAIN j = Fields,
         AfterTelegram(p, j), UNCHANGED marker
  PROVE  MarkerInv'
<1>1. published \in Nat /\ "event" \in Labels \ {"prior", "mark"}
  BY DEF MarkerInv, Labels
<1>2. CASE j.call.keyed /\ AnyOk(j)
  <2>1. Continue(p, "prior", j)
    BY <1>2 DEF AfterTelegram
  <2>2. published' = published + 1
    BY <1>2 DEF AfterTelegram, AnyOk
  <2> QED
    BY <2>1, <2>2, PublishCovers DEF Continue
<1>3. CASE ~ (j.call.keyed /\ AnyOk(j))
  <2>1. Continue(p, "event", j)
    BY <1>3 DEF AfterTelegram
  <2>2. published' = published
    BY <1>1, <1>3 DEF AfterTelegram, AnyOk
  <2> QED
    BY <1>1, <2>1, <2>2, ContinueCovers
<1> QED
  BY <1>2, <1>3

LEMMA StartCovers ==
  ASSUME MarkerInv, NEW p \in Processes, NEW c \in Calls, Start(p, c)
  PROVE  MarkerInv'
<1>1. DOMAIN NewJob(c) = Fields /\ "clear" \in Labels \ {"prior", "mark"}
  BY NewJobIsOK DEF LocalOK, Shape, Labels, Early
<1>2. (Continue(p, "clear", NewJob(c)) \/ Enter(p, NewJob(c))) /\ UNCHANGED <<published, marker>>
  BY DEF Start, objects, dedup
<1> QED
  BY <1>1, <1>2, ContinueCovers, EnterCovers

LEMMA GateCovers ==
  ASSUME MarkerInv, NEW p \in Processes,
         ClearStreak(p) \/ WriteDigest(p) \/ CheckMute(p) \/ ChooseTier(p) \/ ReadStreak(p) \/ RecordOpen(p)
           \/ CheckMarker(p) \/ PublishSns(p)
  PROVE  MarkerInv'
<1>1. UNCHANGED <<published, marker>>
  BY DEF ClearStreak, WriteDigest, CheckMute, ChooseTier, ReadStreak, RecordOpen, CheckMarker, PublishSns, objects,
         dedup
<1>2. DOMAIN job[p] = Fields
  BY DEF MarkerInv
<1>3. {"tier", "streak", "record", "dedup", "sns", "telegram", Deliver(job[p].call)} \subseteq Labels \ {"prior", "mark"}
  BY DEF Labels, Early, Deliver
<1>4. CASE ClearStreak(p)
  BY <1>1, <1>2, <1>4, EnterCovers DEF ClearStreak
<1>5. CASE WriteDigest(p)
  BY <1>1, <1>5, LeaveCovers DEF WriteDigest, End
<1>6. CASE CheckMute(p)
  <2>1. Continue(p, "tier", job[p]) \/ End(p, "muted") \/ End(p, "TypeError")
    BY <1>6, ConstantsAssumption DEF CheckMute
  <2> QED
    BY <1>1, <1>2, <1>3, <2>1, ContinueCovers, LeaveCovers DEF End
<1>7. CASE ChooseTier(p)
  <2>1. PICK label \in {"streak", "dedup", "sns"} :
          \E tier, after : Continue(p, label, [job[p] EXCEPT !.tier = tier, !.after = after])
    BY <1>7 DEF ChooseTier, Deliver
  <2>2. PICK tier, after : Continue(p, label, [job[p] EXCEPT !.tier = tier, !.after = after])
    BY <2>1
  <2>3. DOMAIN [job[p] EXCEPT !.tier = tier, !.after = after] = Fields
    BY <1>2
  <2> QED
    BY <1>1, <1>3, <2>1, <2>2, <2>3, ContinueCovers
<1>8. CASE ReadStreak(p)
  <2>1. \/ Continue(p, "record", [job[p] EXCEPT !.seen = streak])
        \/ Continue(p, Deliver(job[p].call), [job[p] EXCEPT !.after = 1])
    BY <1>8 DEF ReadStreak
  <2>2. DOMAIN [job[p] EXCEPT !.seen = streak] = Fields /\ DOMAIN [job[p] EXCEPT !.after = 1] = Fields
    BY <1>2
  <2> QED
    BY <1>1, <1>3, <2>1, <2>2, ContinueCovers
<1>9. CASE RecordOpen(p)
  <2>1. PICK tier : Continue(p, Deliver(job[p].call),
                             [job[p] EXCEPT !.tier = tier, !.after = 1, !.seen = 0])
    BY <1>9 DEF RecordOpen
  <2>2. DOMAIN [job[p] EXCEPT !.tier = tier, !.after = 1, !.seen = 0] = Fields
    BY <1>2
  <2> QED
    BY <1>1, <1>3, <2>1, <2>2, ContinueCovers
<1>10. CASE CheckMarker(p)
  <2>1. End(p, "dedup_skipped") \/ Continue(p, "sns", job[p])
    BY <1>10 DEF CheckMarker
  <2> QED
    BY <1>1, <1>2, <1>3, <2>1, ContinueCovers, LeaveCovers DEF End
<1>11. CASE PublishSns(p)
  <2>1. CASE Continue(p, "telegram", job[p])
    BY <1>1, <1>2, <1>3, <2>1, ContinueCovers
  <2>2. CASE SendSns(p)
    <3>1. PICK reply \in Replies :
            Continue(p, "telegram", [job[p] EXCEPT !.sns_ok = reply.ok, !.reached = Reached(p, reply)])
      BY <2>2 DEF SendSns
    <3>2. DOMAIN [job[p] EXCEPT !.sns_ok = reply.ok, !.reached = Reached(p, reply)] = Fields
      BY <1>2
    <3> QED
      BY <1>1, <1>3, <3>1, <3>2, ContinueCovers
  <2> QED
    BY <1>11, <2>1, <2>2 DEF PublishSns
<1> QED
  BY <1>4, <1>5, <1>6, <1>7, <1>8, <1>9, <1>10, <1>11

LEMMA TelegramCovers ==
  ASSUME MarkerInv, NEW p \in Processes, PublishTelegram(p) PROVE MarkerInv'
<1>1. pc[p] = "telegram" /\ UNCHANGED marker /\ DOMAIN job[p] = Fields
  BY DEF PublishTelegram, objects, MarkerInv
<1>2. CASE \/ AfterTelegram(p, job[p])
           \/ AfterTelegram(p, [job[p] EXCEPT !.telegram_ok = TRUE])
           \/ AfterTelegram(p, [job[p] EXCEPT !.telegram_ok = TRUE, !.reached = TRUE])
  <2>1. /\ DOMAIN [job[p] EXCEPT !.telegram_ok = TRUE] = Fields
        /\ DOMAIN [job[p] EXCEPT !.telegram_ok = TRUE, !.reached = TRUE] = Fields
    BY <1>1
  <2> QED
    BY <1>1, <1>2, <2>1, AfterTelegramCovers
<1>3. CASE SendTelegram(p)
  <2>1. PICK reply \in SendMessage :
          AfterTelegram(p, [job[p] EXCEPT !.telegram_ok = reply.ok, !.reached = Reached(p, reply)])
    BY <1>3 DEF SendTelegram
  <2>2. DOMAIN [job[p] EXCEPT !.telegram_ok = reply.ok, !.reached = Reached(p, reply)] = Fields
    BY <1>1
  <2> QED
    BY <1>1, <2>1, <2>2, AfterTelegramCovers
<1> QED
  BY <1>2, <1>3 DEF PublishTelegram

LEMMA RestCovers ==
  ASSUME MarkerInv, NEW p \in Processes, WriteMarker(p) \/ EmitEvent(p) \/ Kill(p)
  PROVE  MarkerInv'
<1>1. UNCHANGED published /\ DOMAIN job[p] = Fields /\ "event" \in Labels \ {"prior", "mark"}
  BY DEF WriteMarker, EmitEvent, Kill, dedup, MarkerInv, Labels
<1>2. CASE WriteMarker(p)
  <2>1. marker' = marker \/ marker' = [at |-> job[p].now, count |-> job[p].count]
    BY <1>2 DEF WriteMarker, Maybe
  <2>2. pc[p] = "mark" /\ Covered(job[p].count)
    BY <1>2 DEF WriteMarker, MarkerInv
  <2>3. marker' = marker \/ Covered(marker'.count)
    BY <2>1, <2>2
  <2> DEFINE j == [job[p] EXCEPT !.now = 0, !.count = 0]
  <2>4. Continue(p, "event", j)
    BY <1>2 DEF WriteMarker
  <2>5. DOMAIN j = Fields
    BY <1>1
  <2> HIDE DEF j
  <2> QED
    BY <1>1, <2>3, <2>4, <2>5, MoveCovers DEF Continue
<1>3. CASE EmitEvent(p) \/ Kill(p)
  <2>1. PICK how, j : Leave(p, how, j)
    BY <1>3 DEF EmitEvent, Kill, End
  <2>2. UNCHANGED marker
    BY <1>3 DEF EmitEvent, Kill, objects
  <2> QED
    BY <1>1, <2>1, <2>2, LeaveCovers
<1> QED
  BY <1>2, <1>3

LEMMA InitCovers == Init => MarkerInv
<1> SUFFICES ASSUME Init PROVE MarkerInv
  OBVIOUS
<1>1. Unread = {}
  BY DEF Init, Unread
<1>2. IsFiniteSet(Unread) /\ Cardinality(Unread) = 0
  BY <1>1, FS_EmptySet
<1>3. DOMAIN NoJob = Fields
  BY NoJobIsOK DEF LocalOK, Shape
<1>4. marker.count = 0 /\ published = 0
  BY DEF Init, NoMarker
<1>5. Covered(marker.count)
  BY <1>2, <1>4 DEF Covered
<1>6. pc \in [Processes -> Labels] /\ DOMAIN job = Processes /\ \A p \in Processes : pc[p] = "idle" /\ job[p] = NoJob
  BY DEF Init, Labels
<1> QED
  BY <1>2, <1>3, <1>4, <1>5, <1>6 DEF MarkerInv

LEMMA StepCovers == MarkerInv /\ [Next]_vars => MarkerInv'
<1> SUFFICES ASSUME MarkerInv, [Next]_vars PROVE MarkerInv'
  OBVIOUS
<1>1. ASSUME NEW p \in Processes, NEW c \in Calls, Start(p, c) PROVE MarkerInv'
  BY <1>1, StartCovers
<1>2. ASSUME NEW p \in Processes, Step(p) PROVE MarkerInv'
  BY <1>2, GateCovers, TelegramCovers, ReadPriorCovers, RestCovers DEF Step
<1>3. ASSUME NEW p \in Processes, Kill(p) PROVE MarkerInv'
  BY <1>3, RestCovers
<1>4. CASE Tick \/ UNCHANGED vars
  BY <1>4 DEF Tick, vars, objects, dedup, MarkerInv, Covered, Unread
<1> QED
  BY <1>1, <1>2, <1>3, <1>4 DEF Next

(***************************************************************************)
(* _dedup: what the marker holds, or is about to hold, leaves every        *)
(* process that has published and not yet read it a publish of its own.    *)
(***************************************************************************)
THEOREM MarkerInvariant == Spec => []MarkerInv
  BY InitCovers, StepCovers, PTL DEF Spec

(***************************************************************************)
(* _dedup.write_marker: the marker never counts more publishes than there  *)
(* were, for any number of processes that read and write it at once.       *)
(***************************************************************************)
THEOREM MarkersAreEarned == Spec => []MarkerIsEarned
<1>1. MarkerInv => MarkerIsEarned
  <2> SUFFICES ASSUME MarkerInv PROVE MarkerIsEarned
    OBVIOUS
  <2>1. Cardinality(Unread) \in Nat
    BY FS_CardinalityType DEF MarkerInv
  <2> QED
    BY <2>1 DEF MarkerInv, Covered, MarkerIsEarned
<1> QED
  BY <1>1, MarkerInvariant, PTL

-----------------------------------------------------------------------------
(* Calls that come one after the other: while none has overlapped, there   *)
(* is at most one under way.                                               *)
Alone == ~ overlapped => \A p, q \in Processes : pc[p] # "idle" /\ pc[q] # "idle" => p = q

\* A step of one process leaves the others where they are.
LEMMA OthersStay ==
  ASSUME MarkerInv, NEW p \in Processes, Step(p) \/ Kill(p)
  PROVE  /\ pc[p] # "idle" /\ overlapped' = overlapped
         /\ \A q \in Processes \ {p} : pc'[q] = pc[q] /\ job'[q] = job[q]
<1>1. pc[p] # "idle" /\ overlapped' = overlapped
  BY DEF Step, Kill, ClearStreak, WriteDigest, CheckMute, ChooseTier, ReadStreak, RecordOpen, CheckMarker, PublishSns,
         PublishTelegram, ReadPrior, WriteMarker, EmitEvent
<1>2. (\E label, j : Continue(p, label, j)) \/ (\E how, j : Leave(p, how, j))
  <2>1. CASE ClearStreak(p)
    BY <2>1 DEF ClearStreak, Enter
  <2>2. CASE WriteDigest(p) \/ CheckMute(p) \/ EmitEvent(p) \/ Kill(p)
    BY <2>2, ConstantsAssumption DEF WriteDigest, CheckMute, EmitEvent, Kill, End
  <2>3. CASE ChooseTier(p) \/ ReadStreak(p) \/ RecordOpen(p)
    BY <2>3 DEF ChooseTier, ReadStreak, RecordOpen
  <2>4. CASE CheckMarker(p) \/ ReadPrior(p) \/ WriteMarker(p)
    BY <2>4 DEF CheckMarker, ReadPrior, WriteMarker, End
  <2>5. CASE PublishSns(p)
    BY <2>5 DEF PublishSns, SendSns
  <2>6. CASE PublishTelegram(p)
    BY <2>6 DEF PublishTelegram, SendTelegram, AfterTelegram
  <2> QED
    BY <2>1, <2>2, <2>3, <2>4, <2>5, <2>6 DEF Step
<1> QED
  BY <1>1, <1>2 DEF Continue, Leave, Goto, MarkerInv

LEMMA StartMoves ==
  ASSUME MarkerInv, NEW p \in Processes, NEW c \in Calls, Start(p, c)
  PROVE  /\ pc[p] = "idle" /\ overlapped' = (overlapped \/ \E q \in Processes \ {p} : pc[q] # "idle")
         /\ pc'[p] \in {"clear", "mute", "digest", "idle"}
         /\ \A q \in Processes \ {p} : pc'[q] = pc[q] /\ job'[q] = job[q]
<1>1. \/ \E label \in {"clear", "mute", "digest"} : \E j : Continue(p, label, j)
      \/ \E how, j : Leave(p, how, j)
  BY DEF Start, Enter
<1>2. pc[p] = "idle" /\ overlapped' = (overlapped \/ \E q \in Processes \ {p} : pc[q] # "idle")
  BY DEF Start
<1> QED
  BY <1>1, <1>2 DEF Continue, Leave, Goto, MarkerInv

LEMMA StepAlone == MarkerInv /\ Alone /\ [Next]_vars => Alone'
<1> SUFFICES ASSUME MarkerInv, Alone, [Next]_vars PROVE Alone'
  OBVIOUS
<1>1. ASSUME NEW p \in Processes, NEW c \in Calls, Start(p, c) PROVE Alone'
  BY <1>1, StartMoves DEF Alone
<1>2. ASSUME NEW p \in Processes, Step(p) \/ Kill(p) PROVE Alone'
  BY <1>2, OthersStay DEF Alone
<1>3. CASE Tick \/ UNCHANGED vars
  BY <1>3 DEF Tick, vars, Alone
<1> QED
  BY <1>1, <1>2, <1>3 DEF Next

-----------------------------------------------------------------------------
(* What was read of the streak, like the streak itself, is backed by       *)
(* detections since the last clear, if the clear finds the streak.         *)
Credited(n) == n \in Nat /\ (bucket = DEFAULT_DEDUP_BUCKET /\ ~ overlapped /\ ~ streakUpset => n <= detections)
CreditInv ==
  /\ detections \in Nat
  /\ Credited(streak)
  /\ \A p \in Processes : pc[p] = "record" => Credited(job[p].seen)

LEMMA StepCredit == MarkerInv /\ Alone /\ CreditInv /\ [Next]_vars => CreditInv'
<1> SUFFICES ASSUME MarkerInv, Alone, CreditInv, [Next]_vars PROVE CreditInv'
  OBVIOUS
<1> DEFINE Clean == ~ overlapped /\ ~ streakUpset
<1>1. ASSUME NEW p \in Processes, pc'[p] # "record", ~ overlapped' => ~ overlapped,
             \A q \in Processes \ {p} : pc'[q] = pc[q] /\ job'[q] = job[q],
             UNCHANGED <<bucket, streak, detections, streakUpset>>
      PROVE  CreditInv'
  BY <1>1 DEF CreditInv, Credited
<1>2. ASSUME NEW p \in Processes, NEW c \in Calls, Start(p, c) PROVE CreditInv'
  <2>1. UNCHANGED <<bucket, streak, detections, streakUpset>>
    BY <1>2 DEF Start, objects, credit
  <2>2. pc'[p] # "record" /\ \A q \in Processes \ {p} : pc'[q] = pc[q] /\ job'[q] = job[q]
    BY <1>2, StartMoves
  <2>3. ~ overlapped' => ~ overlapped
    BY <1>2, StartMoves
  <2> QED
    BY <1>1, <2>1, <2>2, <2>3
<1>3. ASSUME NEW p \in Processes, Step(p) \/ Kill(p) PROVE CreditInv'
  <2>1. /\ pc[p] # "idle" /\ overlapped' = overlapped
        /\ \A q \in Processes \ {p} : pc'[q] = pc[q] /\ job'[q] = job[q]
    BY <1>3, OthersStay
  <2>2. ~ overlapped => \A q \in Processes \ {p} : pc[q] # "record"
    BY <2>1 DEF Alone
  <2>3. CASE ClearStreak(p)
    <3>1. pc'[p] # "record"
      BY <2>3 DEF ClearStreak, Enter, Continue, Leave, Goto, MarkerInv
    <3>2. streak' \in {0, streak} /\ detections' \in {0, detections} /\ UNCHANGED bucket
      BY <2>3 DEF ClearStreak, Maybe, AfterClear
    <3>3. ~ streakUpset' /\ bucket = DEFAULT_DEDUP_BUCKET => streak' = 0 /\ ~ streakUpset
      BY <2>3 DEF ClearStreak, AfterClear
    <3>4. detections' \in Nat /\ streak' \in Nat
      BY <3>2 DEF CreditInv, Credited
    <3>5. Credited(streak)'
      BY <3>2, <3>3, <3>4 DEF Credited
    <3>6. \A q \in Processes : pc'[q] = "record" => Credited(job[q].seen)'
      BY <2>1, <2>2, <3>1 DEF CreditInv, Credited
    <3> QED
      BY <3>4, <3>5, <3>6 DEF CreditInv
  <2>4. CASE ReadStreak(p)
    <3>1. UNCHANGED <<bucket, streak, detections, streakUpset>>
      BY <2>4 DEF ReadStreak, objects, credit
    <3>2. CASE Continue(p, "record", [job[p] EXCEPT !.seen = streak])
      <4>1. job'[p].seen = streak
        BY <3>2 DEF Continue, MarkerInv, Fields
      <4> QED
        BY <2>1, <3>1, <4>1 DEF CreditInv, Credited
    <3>3. CASE Continue(p, Deliver(job[p].call), [job[p] EXCEPT !.after = 1])
      <4>1. pc'[p] # "record"
        BY <3>3 DEF Continue, Goto, Deliver, MarkerInv
      <4> QED
        BY <1>1, <2>1, <3>1, <4>1
    <3> QED
      BY <2>4, <3>2, <3>3 DEF ReadStreak
  <2>5. CASE RecordOpen(p)
    <3>1. pc[p] = "record" /\ Credited(job[p].seen)
      BY <2>5 DEF RecordOpen, CreditInv
    <3>2. streak' \in {job[p].seen + 1, streak} /\ detections' = detections + 1 /\ UNCHANGED bucket
      BY <2>5 DEF RecordOpen, Maybe
    <3>3. ~ streakUpset' => streak' = job[p].seen + 1 /\ ~ streakUpset
      BY <2>5 DEF RecordOpen
    <3>4. detections' \in Nat /\ streak' \in Nat
      BY <3>1, <3>2 DEF CreditInv, Credited
    <3>5. Credited(streak)'
      BY <2>1, <3>1, <3>2, <3>3, <3>4 DEF Credited, CreditInv
    <3>6. pc'[p] # "record"
      BY <2>5 DEF RecordOpen, Continue, Goto, Deliver, MarkerInv
    <3>7. \A q \in Processes : pc'[q] = "record" => Credited(job[q].seen)'
      BY <2>1, <2>2, <3>6 DEF CreditInv, Credited
    <3> QED
      BY <3>4, <3>5, <3>7 DEF CreditInv
  <2>6. CASE \/ WriteDigest(p) \/ CheckMute(p) \/ ChooseTier(p) \/ CheckMarker(p) \/ PublishSns(p)
             \/ PublishTelegram(p) \/ ReadPrior(p) \/ WriteMarker(p) \/ EmitEvent(p) \/ Kill(p)
    <3>1. UNCHANGED <<bucket, streak, detections, streakUpset>>
      BY <2>6 DEF WriteDigest, CheckMute, ChooseTier, CheckMarker, PublishSns, PublishTelegram, ReadPrior, WriteMarker,
                  EmitEvent, Kill, objects, credit
    <3>2. pc'[p] # "record"
      <4>1. (\E label, j : label # "record" /\ Continue(p, label, j)) \/ (\E how, j : Leave(p, how, j))
        <5>1. CASE WriteDigest(p) \/ CheckMute(p) \/ ChooseTier(p) \/ EmitEvent(p) \/ Kill(p)
          BY <5>1, ConstantsAssumption DEF WriteDigest, CheckMute, ChooseTier, Deliver, EmitEvent, Kill, End
        <5>2. CASE CheckMarker(p) \/ ReadPrior(p) \/ WriteMarker(p)
          BY <5>2 DEF CheckMarker, ReadPrior, WriteMarker, End
        <5>3. CASE PublishSns(p) \/ PublishTelegram(p)
          BY <5>3 DEF PublishSns, SendSns, PublishTelegram, SendTelegram, AfterTelegram
        <5> QED
          BY <2>6, <5>1, <5>2, <5>3
      <4> QED
        BY <4>1 DEF Continue, Leave, Goto, MarkerInv
    <3> QED
      BY <1>1, <2>1, <3>1, <3>2
  <2> QED
    BY <1>3, <2>3, <2>4, <2>5, <2>6 DEF Step
<1>4. CASE Tick \/ UNCHANGED vars
  BY <1>4 DEF Tick, vars, objects, credit, CreditInv, Credited
<1> QED
  BY <1>2, <1>3, <1>4 DEF Next

LEMMA InitSerial == Init => Alone /\ CreditInv
<1> SUFFICES ASSUME Init PROVE Alone /\ CreditInv
  OBVIOUS
<1>1. \A p \in Processes : pc[p] = "idle"
  BY DEF Init
<1>2. streak = 0 /\ detections = 0
  BY DEF Init
<1>3. Credited(streak)
  BY <1>2 DEF Credited
<1> QED
  BY <1>1, <1>2, <1>3 DEF Alone, CreditInv

(***************************************************************************)
(* alert_tiers.clear_streak: the streak that the next occurrence starts    *)
(* from is its own, for any number of processes whose calls do not         *)
(* overlap and leave the bucket to the default, where alone it clears.     *)
(***************************************************************************)
THEOREM CreditStaysOwn == Spec => []CreditIsOwn
<1>1. Spec => [](MarkerInv /\ Alone /\ CreditInv)
  BY InitCovers, StepCovers, InitSerial, StepAlone, StepCredit, PTL DEF Spec
<1>2. CreditInv => CreditIsOwn
  BY DEF CreditInv, Credited, CreditIsOwn
<1> QED
  BY <1>1, <1>2, PTL

-----------------------------------------------------------------------------
(* The last delivery is in the marker, or is owed to it by a call that is  *)
(* still on its way there.                                                 *)
Noted == deliveredAt = Never \/ (marker.count > 0 /\ deliveredAt <= marker.at)
Owes(p) ==
  /\ job[p].call.keyed
  /\ \/ pc[p] = "telegram" /\ job[p].sns_ok
     \/ pc[p] \in {"prior", "mark"}
Dates ==
  /\ clock \in Nat /\ deliveredAt \in Int /\ deliveredAt <= clock /\ marker.at \in Int
  /\ \A p \in Processes : pc[p] = "mark" =>
       job[p].now \in Nat /\ job[p].count > 0 /\ (~ overlapped => deliveredAt <= job[p].now)
WindowInv ==
  /\ Dates
  /\ ~ overlapped /\ ~ markerUpset => ~ repeated /\ (Noted \/ \E p \in Processes : Owes(p))

(* A process that owes nothing, or is found out, may go anywhere.          *)
LEMMA MoveWindow ==
  ASSUME WindowInv, NEW p \in Processes, pc'[p] # "mark",
         \A q \in Processes \ {p} : pc'[q] = pc[q] /\ job'[q] = job[q],
         UNCHANGED <<clock, deliveredAt, repeated, marker>>,
         ~ overlapped' => ~ overlapped, ~ markerUpset' => ~ markerUpset /\ ~ Owes(p)
  PROVE  WindowInv'
<1>1. Dates'
  BY DEF WindowInv, Dates
<1>2. Noted => Noted'
  BY DEF Noted
<1>3. \A q \in Processes \ {p} : Owes(q) => Owes(q)'
  BY DEF Owes
<1>4. ~ overlapped' /\ ~ markerUpset' => ~ repeated' /\ (Noted' \/ \E q \in Processes : Owes(q)')
  BY <1>2, <1>3 DEF WindowInv
<1> QED
  BY <1>1, <1>4 DEF WindowInv

(* While calls do not overlap, a process elsewhere than on its way to the  *)
(* marker shows that nothing is owed.                                      *)
LEMMA NothingOwed ==
  ASSUME Alone, WindowInv, NEW p \in Processes, pc[p] # "idle", ~ Owes(p), ~ overlapped, ~ markerUpset
  PROVE  ~ repeated /\ Noted
<1>1. \A q \in Processes : Owes(q) => q = p
  BY DEF Alone, Owes
<1> QED
  BY <1>1 DEF WindowInv

LEMMA CheckMarkerWindow ==
  ASSUME MarkerInv, Alone, WindowInv, NEW p \in Processes, CheckMarker(p) PROVE WindowInv'
<1>1. /\ pc[p] # "idle" /\ overlapped' = overlapped
      /\ \A q \in Processes \ {p} : pc'[q] = pc[q] /\ job'[q] = job[q]
  BY OthersStay DEF Step
<1>2. pc[p] = "dedup" /\ ~ Owes(p) /\ UNCHANGED <<clock, marker, deliveredAt>>
  BY DEF CheckMarker, Owes, objects
<1>3. pc'[p] # "mark"
  BY DEF CheckMarker, End, Leave, Continue, Goto, MarkerInv
<1>4. CASE UNCHANGED <<repeated, markerUpset>>
  BY <1>1, <1>2, <1>3, <1>4, MoveWindow
<1>5. CASE /\ markerUpset' = (markerUpset \/ InWindow(marker, clock))
           /\ repeated' = (repeated \/ (deliveredAt # Never /\ clock - deliveredAt < Window))
  <2>1. Dates'
    BY <1>1, <1>2, <1>3 DEF WindowInv, Dates
  <2>2. ASSUME ~ overlapped', ~ markerUpset' PROVE ~ repeated' /\ Noted'
    <3>1. ~ overlapped /\ ~ markerUpset /\ ~ InWindow(marker, clock)
      BY <1>1, <1>5, <2>2
    <3>2. ~ repeated /\ Noted
      BY <1>1, <1>2, <3>1, NothingOwed
    <3>3. marker.count \in Nat /\ marker.at \in Int /\ clock \in Nat /\ deliveredAt \in Int /\ Window \in Nat
      BY ConstantsAssumption DEF MarkerInv, Covered, WindowInv, Dates
    <3>4. ~ (deliveredAt # Never /\ clock - deliveredAt < Window)
      BY <3>1, <3>2, <3>3 DEF Noted, InWindow
    <3> QED
      BY <1>2, <1>5, <3>2, <3>4 DEF Noted
  <2> QED
    BY <2>1, <2>2 DEF WindowInv
<1> QED
  BY <1>4, <1>5 DEF CheckMarker

LEMMA SnsWindow ==
  ASSUME MarkerInv, Alone, WindowInv, NEW p \in Processes, PublishSns(p) PROVE WindowInv'
<1>1. /\ pc[p] # "idle" /\ overlapped' = overlapped
      /\ \A q \in Processes \ {p} : pc'[q] = pc[q] /\ job'[q] = job[q]
  BY OthersStay DEF Step
<1>2. pc[p] = "sns" /\ ~ Owes(p) /\ UNCHANGED <<clock, marker, repeated, markerUpset>>
  BY DEF PublishSns, Owes, objects
<1>3. pc'[p] = "telegram"
  BY DEF PublishSns, SendSns, Continue, Goto, MarkerInv
<1>4. CASE UNCHANGED deliveredAt
  BY <1>1, <1>2, <1>3, <1>4, MoveWindow
<1>5. CASE SendSns(p)
  <2>1. PICK reply \in Replies :
          /\ Continue(p, "telegram", [job[p] EXCEPT !.sns_ok = reply.ok, !.reached = Reached(p, reply)])
          /\ NoteDelivery(p, reply)
    BY <1>5 DEF SendSns
  <2>2. CASE ~ (reply.ok /\ job[p].call.keyed)
    <3>1. UNCHANGED deliveredAt
      BY <2>1, <2>2 DEF NoteDelivery
    <3> QED
      BY <1>4, <3>1
  <2>3. CASE reply.ok /\ job[p].call.keyed
    <3>1. deliveredAt' = clock
      BY <2>1, <2>3 DEF NoteDelivery
    <3>2. job'[p].sns_ok = reply.ok /\ job'[p].call = job[p].call
      BY <2>1 DEF Continue, MarkerInv, Fields
    <3>3. Owes(p)'
      BY <1>3, <2>3, <3>2, Zenon DEF Owes
    <3>4. Dates'
      <4>1. ~ overlapped => \A q \in Processes : pc'[q] # "mark"
        BY <1>1, <1>3 DEF Alone
      <4> QED
        BY <1>1, <1>2, <1>3, <3>1, <4>1 DEF WindowInv, Dates
    <3>5. ~ overlapped /\ ~ markerUpset => ~ repeated
      BY DEF WindowInv
    <3> QED
      BY <1>1, <1>2, <3>3, <3>4, <3>5 DEF WindowInv
  <2> QED
    BY <2>2, <2>3
<1> QED
  BY <1>4, <1>5 DEF PublishSns

(* After the Telegram leg a keyed alert that some channel took is owed.    *)
LEMMA AfterTelegramWindow ==
  ASSUME MarkerInv, Alone, WindowInv, NEW p \in Processes, pc[p] = "telegram", NEW j,
         AfterTelegram(p, j), j.call = job[p].call, j.sns_ok = job[p].sns_ok,
         deliveredAt' = deliveredAt \/ (deliveredAt' = clock /\ j.call.keyed /\ j.telegram_ok),
         overlapped' = overlapped, UNCHANGED <<clock, marker, repeated, markerUpset>>,
         \A q \in Processes \ {p} : pc'[q] = pc[q] /\ job'[q] = job[q]
  PROVE  WindowInv'
<1>1. job'[p] = j /\ pc'[p] = (IF j.call.keyed /\ AnyOk(j) THEN "prior" ELSE "event")
  BY DEF AfterTelegram, Continue, Goto, MarkerInv
<1>2. Dates'
  <2>1. ~ overlapped => \A q \in Processes : pc'[q] # "mark"
    BY <1>1 DEF Alone
  <2> QED
    BY <1>1, <2>1 DEF WindowInv, Dates
<1>3. ~ overlapped /\ ~ markerUpset => ~ repeated
  BY DEF WindowInv
<1>4. CASE j.call.keyed /\ AnyOk(j)
  <2>1. Owes(p)'
    BY <1>1, <1>4 DEF Owes
  <2> QED
    BY <1>2, <1>3, <2>1 DEF WindowInv
<1>5. CASE ~ (j.call.keyed /\ AnyOk(j))
  <2>1. ~ Owes(p)
    BY <1>5 DEF Owes, AnyOk
  <2>2. deliveredAt' = deliveredAt
    BY <1>5 DEF AnyOk
  <2> QED
    BY <1>1, <1>5, <2>1, <2>2, MoveWindow
<1> QED
  BY <1>4, <1>5

LEMMA TelegramWindow ==
  ASSUME MarkerInv, Alone, WindowInv, NEW p \in Processes, PublishTelegram(p) PROVE WindowInv'
<1>1. /\ pc[p] # "idle" /\ overlapped' = overlapped
      /\ \A q \in Processes \ {p} : pc'[q] = pc[q] /\ job'[q] = job[q]
  BY OthersStay DEF Step
<1>2. pc[p] = "telegram" /\ UNCHANGED <<clock, marker, repeated, markerUpset>>
  BY DEF PublishTelegram, objects
<1>3. DOMAIN job[p] = Fields
  BY DEF MarkerInv
<1>4. CASE /\ UNCHANGED deliveredAt
           /\ \/ AfterTelegram(p, job[p])
              \/ AfterTelegram(p, [job[p] EXCEPT !.telegram_ok = TRUE])
              \/ AfterTelegram(p, [job[p] EXCEPT !.telegram_ok = TRUE, !.reached = TRUE])
  <2>1. /\ [job[p] EXCEPT !.telegram_ok = TRUE].call = job[p].call
        /\ [job[p] EXCEPT !.telegram_ok = TRUE].sns_ok = job[p].sns_ok
        /\ [job[p] EXCEPT !.telegram_ok = TRUE, !.reached = TRUE].call = job[p].call
        /\ [job[p] EXCEPT !.telegram_ok = TRUE, !.reached = TRUE].sns_ok = job[p].sns_ok
    BY <1>3 DEF Fields
  <2> QED
    BY <1>1, <1>2, <1>4, <2>1, AfterTelegramWindow
<1>5. CASE SendTelegram(p)
  <2>1. PICK reply \in SendMessage :
          /\ AfterTelegram(p, [job[p] EXCEPT !.telegram_ok = reply.ok, !.reached = Reached(p, reply)])
          /\ NoteDelivery(p, reply)
    BY <1>5 DEF SendTelegram
  <2> DEFINE j == [job[p] EXCEPT !.telegram_ok = reply.ok, !.reached = Reached(p, reply)]
  <2>2. j.call = job[p].call /\ j.sns_ok = job[p].sns_ok /\ j.telegram_ok = reply.ok
    BY <1>3 DEF Fields
  <2>3. deliveredAt' = deliveredAt \/ (deliveredAt' = clock /\ reply.ok /\ job[p].call.keyed)
    BY <2>1 DEF NoteDelivery
  <2>4. deliveredAt' = deliveredAt \/ (deliveredAt' = clock /\ j.call.keyed /\ j.telegram_ok)
    BY <2>2, <2>3, Zenon
  <2> HIDE DEF j
  <2> QED
    BY <1>1, <1>2, <2>1, <2>2, <2>4, AfterTelegramWindow DEF j
<1> QED
  BY <1>4, <1>5 DEF PublishTelegram

LEMMA ReadPriorWindow ==
  ASSUME MarkerInv, Alone, WindowInv, NEW p \in Processes, ReadPrior(p) PROVE WindowInv'
<1>1. /\ pc[p] # "idle" /\ overlapped' = overlapped
      /\ \A q \in Processes \ {p} : pc'[q] = pc[q] /\ job'[q] = job[q]
  BY OthersStay DEF Step
<1>2. pc[p] = "prior" /\ UNCHANGED <<clock, marker, deliveredAt, repeated, markerUpset>>
  BY DEF ReadPrior, objects, dedup
<1>3. PICK prior \in {marker.count, 0} :
        Continue(p, "mark", [job[p] EXCEPT !.now = clock, !.count = prior + 1])
  BY DEF ReadPrior, Maybe
<1>4. pc'[p] = "mark" /\ job'[p] = [job[p] EXCEPT !.now = clock, !.count = prior + 1]
  BY <1>3 DEF Continue, Goto, MarkerInv
<1>5. job'[p].now = clock /\ job'[p].count = prior + 1 /\ job'[p].call = job[p].call
  BY <1>4 DEF MarkerInv, Fields
<1>6. prior + 1 > 0
  BY DEF MarkerInv, Covered
<1>7. Dates'
  BY <1>1, <1>2, <1>5, <1>6 DEF WindowInv, Dates
<1>8. deliveredAt <= clock
  BY DEF WindowInv, Dates
<1>9. Owes(p) => Owes(p)'
  BY <1>2, <1>4, <1>5, <1>8 DEF Owes
<1>10. \A q \in Processes \ {p} : Owes(q) => Owes(q)'
  BY <1>1, <1>2 DEF Owes
<1>11. Noted => Noted'
  BY <1>2 DEF Noted
<1> QED
  BY <1>1, <1>2, <1>7, <1>9, <1>10, <1>11 DEF WindowInv

LEMMA WriteMarkerWindow ==
  ASSUME MarkerInv, Alone, WindowInv, NEW p \in Processes, WriteMarker(p) PROVE WindowInv'
<1>1. /\ pc[p] # "idle" /\ overlapped' = overlapped
      /\ \A q \in Processes \ {p} : pc'[q] = pc[q] /\ job'[q] = job[q]
  BY OthersStay DEF Step
<1>2. pc[p] = "mark" /\ UNCHANGED <<clock, deliveredAt, repeated>>
  BY DEF WriteMarker
<1>3. pc'[p] = "event"
  BY DEF WriteMarker, Continue, Goto, MarkerInv
<1> DEFINE new == [at |-> job[p].now, count |-> job[p].count]
<1>4. marker' \in {new, marker} /\ (~ markerUpset' => marker' = new /\ ~ markerUpset)
  BY DEF WriteMarker, Maybe
<1>5. new.at \in Int /\ new.count > 0
  BY <1>2 DEF WindowInv, Dates
<1>6. Dates'
  BY <1>1, <1>2, <1>3, <1>4, <1>5 DEF WindowInv, Dates
<1>7. ASSUME ~ overlapped', ~ markerUpset' PROVE ~ repeated' /\ Noted'
  <2>1. marker' = new /\ ~ markerUpset /\ ~ overlapped
    BY <1>1, <1>4, <1>7
  <2>2. deliveredAt <= job[p].now
    BY <1>2, <2>1 DEF WindowInv, Dates
  <2>3. ~ repeated
    BY <2>1 DEF WindowInv
  <2> QED
    BY <1>2, <1>5, <2>1, <2>2, <2>3 DEF Noted
<1> QED
  BY <1>6, <1>7 DEF WindowInv

LEMMA OtherWindow ==
  ASSUME MarkerInv, WindowInv, NEW p \in Processes,
         \/ ClearStreak(p) \/ WriteDigest(p) \/ CheckMute(p) \/ ChooseTier(p) \/ ReadStreak(p) \/ RecordOpen(p)
         \/ EmitEvent(p) \/ Kill(p)
  PROVE  WindowInv'
<1>1. /\ pc[p] # "idle" /\ overlapped' = overlapped
      /\ \A q \in Processes \ {p} : pc'[q] = pc[q] /\ job'[q] = job[q]
  BY OthersStay DEF Step
<1>2. UNCHANGED <<clock, deliveredAt, repeated, marker>>
  BY DEF ClearStreak, WriteDigest, CheckMute, ChooseTier, ReadStreak, RecordOpen, EmitEvent, Kill, objects, dedup
<1>3. ~ markerUpset' => ~ markerUpset /\ ~ Owes(p)
  BY DEF ClearStreak, WriteDigest, CheckMute, ChooseTier, ReadStreak, RecordOpen, EmitEvent, Kill, dedup, Owes
<1>4. pc'[p] # "mark"
  <2>1. (\E label, j : label # "mark" /\ Continue(p, label, j)) \/ (\E how, j : Leave(p, how, j))
    <3>1. CASE ClearStreak(p)
      BY <3>1 DEF ClearStreak, Enter
    <3>2. CASE WriteDigest(p) \/ CheckMute(p) \/ EmitEvent(p) \/ Kill(p)
      BY <3>2, ConstantsAssumption DEF WriteDigest, CheckMute, EmitEvent, Kill, End
    <3>3. CASE ChooseTier(p) \/ ReadStreak(p) \/ RecordOpen(p)
      BY <3>3 DEF ChooseTier, ReadStreak, RecordOpen, Deliver
    <3> QED
      BY <3>1, <3>2, <3>3
  <2> QED
    BY <2>1 DEF Continue, Leave, Goto, MarkerInv
<1> QED
  BY <1>1, <1>2, <1>3, <1>4, MoveWindow

LEMMA StepWindow == MarkerInv /\ Alone /\ WindowInv /\ [Next]_vars => WindowInv'
<1> SUFFICES ASSUME MarkerInv, Alone, WindowInv, [Next]_vars PROVE WindowInv'
  OBVIOUS
<1>1. ASSUME NEW p \in Processes, NEW c \in Calls, Start(p, c) PROVE WindowInv'
  <2>1. /\ pc[p] = "idle" /\ pc'[p] # "mark" /\ (~ overlapped' => ~ overlapped)
        /\ \A q \in Processes \ {p} : pc'[q] = pc[q] /\ job'[q] = job[q]
    BY <1>1, StartMoves
  <2>2. UNCHANGED <<clock, deliveredAt, repeated, marker, markerUpset>> /\ ~ Owes(p)
    BY <1>1, <2>1 DEF Start, objects, dedup, Owes
  <2> QED
    BY <2>1, <2>2, MoveWindow
<1>2. ASSUME NEW p \in Processes, Step(p) \/ Kill(p) PROVE WindowInv'
  BY <1>2, OtherWindow, CheckMarkerWindow, SnsWindow, TelegramWindow, ReadPriorWindow, WriteMarkerWindow DEF Step
<1>3. CASE Tick
  <2>1. clock' = clock + 1 /\ UNCHANGED <<pc, job, marker, deliveredAt, repeated, markerUpset, overlapped>>
    BY <1>3 DEF Tick, objects, dedup
  <2> QED
    BY <2>1 DEF WindowInv, Dates, Noted, Owes
<1>4. CASE UNCHANGED vars
  BY <1>4 DEF vars, objects, dedup, WindowInv, Dates, Noted, Owes
<1> QED
  BY <1>1, <1>2, <1>3, <1>4 DEF Next

LEMMA InitWindow == Init => WindowInv
<1> SUFFICES ASSUME Init PROVE WindowInv
  OBVIOUS
<1>1. clock = 0 /\ deliveredAt = Never /\ marker.at = 0 /\ ~ repeated /\ \A p \in Processes : pc[p] = "idle"
  BY DEF Init, NoMarker
<1> QED
  BY <1>1 DEF WindowInv, Dates, Noted, Never

(***************************************************************************)
(* _dedup: "at most one publish per window" for calls that do not overlap, *)
(* for any number of processes and any window.                             *)
(***************************************************************************)
THEOREM WindowsHold == Spec => []OnePerWindow
<1>1. Spec => [](MarkerInv /\ Alone /\ WindowInv)
  BY InitCovers, StepCovers, InitSerial, StepAlone, InitWindow, StepWindow, PTL DEF Spec
<1>2. WindowInv => OnePerWindow
  BY DEF WindowInv, OnePerWindow
<1> QED
  BY <1>1, <1>2, PTL

-----------------------------------------------------------------------------
(* The gate.  The registry's rows resolve to one of them.                  *)

(* A sequence of numbers has a greatest, and Max finds it.                 *)
LEMMA Greatest ==
  ASSUME NEW n \in Nat \ {0}, NEW f \in [1..n -> Nat]
  PROVE  LET S == {f[i] : i \in 1..n} IN Max(S) \in S
<1> DEFINE S == {f[i] : i \in 1..n}
           bounds(k) == {b \in Nat : \A i \in 1..k : f[i] <= b}
           unbounded == {k \in Nat : k <= n /\ bounds(k) = {}}
<1>1. bounds(n) # {}
  <2> SUFFICES ASSUME bounds(n) = {} PROVE FALSE
    OBVIOUS
  <2>1. n \in unbounded /\ unbounded \subseteq Nat
    OBVIOUS
  <2>2. PICK k \in unbounded : \A j \in unbounded : ~ (<<j, k>> \in OpToRel(<, Nat))
    BY <2>1, WFMin, NatLessThanWellFounded, Zenon
  <2>3. \A j \in unbounded : ~ (j < k)
    BY <2>2, Zenon DEF OpToRel
  <2>4. k # 0
    <3>1. 0 \in bounds(0)
      OBVIOUS
    <3> QED
      BY <3>1
  <2>5. k - 1 \in Nat /\ k - 1 < k /\ k - 1 <= n
    BY <2>4
  <2>6. PICK b \in Nat : \A i \in 1..(k - 1) : f[i] <= b
    BY <2>3, <2>5
  <2>7. k \in 1..n /\ f[k] \in Nat
    BY <2>4
  <2>8. (IF f[k] <= b THEN b ELSE f[k]) \in bounds(k)
    <3>1. \A i \in 1..k : i = k \/ i \in 1..(k - 1)
      OBVIOUS
    <3>2. \A i \in 1..k : f[i] \in Nat
      OBVIOUS
    <3>3. CASE f[k] <= b
      BY <2>6, <3>1, <3>3
    <3>4. CASE ~ (f[k] <= b)
      <4>1. \A i \in 1..k : f[i] <= f[k]
        <5> TAKE i \in 1..k
        <5>1. CASE i \in 1..(k - 1)
          BY <2>6, <2>7, <3>2, <3>4, <5>1
        <5>2. CASE i = k
          BY <2>7, <5>2
        <5> QED
          BY <3>1, <5>1, <5>2
      <4> QED
        BY <2>7, <3>4, <4>1
    <3> QED
      BY <3>3, <3>4
  <2> QED
    BY <2>8
<1>2. PICK b \in bounds(n) : \A j \in bounds(n) : ~ (<<j, b>> \in OpToRel(<, Nat))
  BY <1>1, WFMin, NatLessThanWellFounded, Zenon
<1>3. \A j \in bounds(n) : ~ (j < b)
  BY <1>2, Zenon DEF OpToRel
<1>4. b \in Nat /\ \A i \in 1..n : f[i] <= b
  OBVIOUS
<1>5. b \in S
  <2> SUFFICES ASSUME b \notin S PROVE FALSE
    OBVIOUS
  <2>1. \A i \in 1..n : f[i] <= b - 1
    BY <1>4
  <2>2. 1 \in 1..n /\ f[1] \in Nat
    OBVIOUS
  <2>3. b - 1 \in bounds(n)
    BY <1>4, <2>1, <2>2
  <2> QED
    BY <1>3, <1>4, <2>3
<1>6. b \in S /\ \A s \in S : b >= s
  BY <1>4, <1>5
<1> QED
  BY <1>6 DEF Max

LEMMA Least ==
  ASSUME NEW S \in SUBSET Nat, S # {}
  PROVE  Min(S) \in S
<1>1. PICK i \in S : \A j \in S : ~ (<<j, i>> \in OpToRel(<, Nat))
  BY WFMin, NatLessThanWellFounded, Zenon
<1>2. \A j \in S : ~ (j < i)
  BY <1>1, Zenon DEF OpToRel
<1>3. \A j \in S : i <= j
  BY <1>2
<1> QED
  BY <1>3 DEF Min

LEMMA MatchNotEmpty ==
  ASSUME NEW rows \in Seq(Row), rows # <<>>
  PROVE  Match(rows) # {} /\ Match(rows) \subseteq DOMAIN rows
<1> DEFINE f == [i \in 1..Len(rows) |-> rows[i].claim]
           claims == {rows[i].claim : i \in DOMAIN rows}
<1>1. Len(rows) \in Nat \ {0} /\ DOMAIN rows = 1..Len(rows) /\ \A i \in DOMAIN rows : rows[i] \in Row
  OBVIOUS
<1>2. f \in [1..Len(rows) -> Nat]
  BY <1>1 DEF Row
<1>3. claims = {f[i] : i \in 1..Len(rows)}
  BY <1>1
<1>4. Max({f[i] : i \in 1..Len(rows)}) \in {f[i] : i \in 1..Len(rows)}
  BY <1>1, <1>2, Greatest
<1>5. Max(claims) \in claims
  BY <1>3, <1>4
<1>6. (IF 0 \in claims THEN 0 ELSE Max(claims)) \in claims
  BY <1>5
<1> QED
  BY <1>6 DEF Match

(* What the registry's rows resolve to is asked for by one of them.        *)
LEMMA Resolved ==
  ASSUME NEW rows \in Seq(Row), NEW severity
  PROVE  ResolveTier(rows, severity).after \in Nat
<1> DEFINE level(i) == Strictness(RowTier(rows[i], severity))
           strictest == {i \in Match(rows) : \A j \in Match(rows) : level(j) <= level(i)}
<1>1. CASE rows = <<>>
  BY <1>1 DEF ResolveTier
<1>2. CASE rows # <<>>
  <2>1. Match(rows) # {} /\ Match(rows) \subseteq DOMAIN rows
    BY <1>2, MatchNotEmpty
  <2>2. \A i : level(i) \in 0..2
    BY DEF Strictness, RowTier, Tiers
  <2>3. strictest # {}
    <3> HIDE DEF level
    <3>1. CASE \E i \in Match(rows) : level(i) = 2
      BY <2>2, <3>1
    <3>2. CASE (\A i \in Match(rows) : level(i) # 2) /\ \E i \in Match(rows) : level(i) = 1
      <4>1. PICK i \in Match(rows) : level(i) = 1
        BY <3>2
      <4>2. \A j \in Match(rows) : level(j) <= 1
        BY <2>2, <3>2
      <4> QED
        BY <4>1, <4>2
    <3>3. CASE \A i \in Match(rows) : level(i) # 2 /\ level(i) # 1
      <4>1. \A j \in Match(rows) : level(j) = 0
        BY <2>2, <3>3
      <4> QED
        BY <2>1, <4>1
    <3> QED
      BY <3>1, <3>2, <3>3
  <2>4. strictest \subseteq Nat
    BY <2>1
  <2>5. Min(strictest) \in DOMAIN rows
    BY <2>1, <2>3, <2>4, Least
  <2>6. \A i \in DOMAIN rows : rows[i] \in Row
    OBVIOUS
  <2>7. rows[Min(strictest)].after \in Nat
    <3>1. \A row \in Row : row.after \in Nat
      BY DEF Row
    <3> QED
      BY <2>5, <2>6, <3>1
  <2> QED
    BY <1>2, <2>7 DEF ResolveTier
<1> QED
  BY <1>1, <1>2

-----------------------------------------------------------------------------
Asks(after, n) ==
  \E rows \in Registry, c \in Calls :
    LET d == ResolveTier(rows, c.severity) IN d.tier = "page" /\ d.after = after /\ n < d.after
Clean == ~ overlapped /\ ~ streakUpset
(* The streak counts no less than was held in a row, and a row that pages  *)
(* asks for more than that.                                                *)
GateInv ==
  /\ streak \in Nat /\ heldInARow \in Nat
  /\ \A p \in Processes : pc[p] # "idle" => job[p].call \in Calls
  /\ \A p \in Processes : pc[p] \in {"streak", "record"} =>
       /\ job[p].after \in Nat
       /\ \A n \in Nat : n < job[p].after => Asks(job[p].after, n)
  /\ \A p \in Processes : pc[p] = "record" => job[p].seen \in Nat /\ (Clean => heldInARow <= job[p].seen)
  /\ Clean => heldInARow <= streak
  /\ GateOpens

LEMMA InitGate == Init => GateInv
<1> SUFFICES ASSUME Init PROVE GateInv
  OBVIOUS
<1>1. streak = 0 /\ heldInARow = 0 /\ \A p \in Processes : pc[p] = "idle"
  BY DEF Init
<1> QED
  BY <1>1 DEF GateInv, GateOpens

(* A step that counts nothing and does not come to the gate.               *)
LEMMA PassesGate ==
  ASSUME GateInv, NEW p \in Processes, pc'[p] \notin {"streak", "record"},
         pc'[p] # "idle" => job'[p].call \in Calls,
         \A q \in Processes \ {p} : pc'[q] = pc[q] /\ job'[q] = job[q],
         ~ overlapped' => ~ overlapped, UNCHANGED <<streak, heldInARow, streakUpset>>
  PROVE  GateInv'
<1>1. Clean' => Clean
  BY DEF Clean
<1>2. GateOpens'
  BY <1>1 DEF GateInv, GateOpens, Clean
<1> QED
  BY <1>1, <1>2 DEF GateInv, Asks

LEMMA GateMoves ==
  ASSUME MarkerInv, NEW p \in Processes, NEW label, NEW j, Continue(p, label, j)
  PROVE  pc'[p] = label /\ job'[p] = j
  BY DEF MarkerInv, Continue, Goto
LEMMA GateLeaves ==
  ASSUME MarkerInv, NEW p \in Processes, NEW how, NEW j, Leave(p, how, j)
  PROVE  pc'[p] = "idle"
  BY DEF MarkerInv, Leave, Goto
LEMMA GateEnters ==
  ASSUME MarkerInv, NEW p \in Processes, NEW j, Enter(p, j)
  PROVE  pc'[p] = "idle" \/ (pc'[p] \in {"mute", "digest"} /\ job'[p] = j)
  BY GateMoves, GateLeaves DEF Enter

LEMMA StartGate ==
  ASSUME MarkerInv, GateInv, NEW p \in Processes, NEW c \in Calls, Start(p, c)
  PROVE  GateInv'
<1>1. NewJob(c).call = c
  BY NewJobIsOK
<1>2. pc'[p] # "idle" => job'[p].call \in Calls
  BY <1>1, GateMoves, GateEnters DEF Start
<1>3. UNCHANGED <<streak, heldInARow, streakUpset>>
  BY DEF Start, objects, credit
<1> QED
  BY <1>2, <1>3, StartMoves, PassesGate

LEMMA ClearGate ==
  ASSUME MarkerInv, GateInv, NEW p \in Processes, ClearStreak(p)
  PROVE  GateInv'
<1>1. \A q \in Processes \ {p} : pc'[q] = pc[q] /\ job'[q] = job[q]
  BY OthersStay DEF Step
<1>2. /\ pc[p] = "clear" /\ overlapped' = overlapped
      /\ streak' \in {0, streak} /\ heldInARow' \in {0, heldInARow}
      /\ Clean' => Clean /\ heldInARow' = 0
  BY DEF ClearStreak, Maybe, AfterClear, Clean
<1>3. pc'[p] \notin {"streak", "record"} /\ (pc'[p] # "idle" => job'[p].call \in Calls)
  BY <1>2, GateEnters DEF ClearStreak, GateInv
<1>4. heldInARow' = 0 => GateOpens'
  BY DEF GateOpens
<1>5. GateOpens'
  BY <1>2, <1>4 DEF GateOpens, Clean
<1>6. streak' \in Nat /\ heldInARow' \in Nat
  BY <1>2 DEF GateInv
<1> QED
  BY <1>1, <1>2, <1>3, <1>5, <1>6 DEF GateInv, Asks

LEMMA ChooseGate ==
  ASSUME MarkerInv, GateInv, NEW p \in Processes, ChooseTier(p)
  PROVE  GateInv'
<1>1. \A q \in Processes \ {p} : pc'[q] = pc[q] /\ job'[q] = job[q]
  BY OthersStay DEF Step
<1>2. UNCHANGED <<streak, heldInARow, streakUpset, overlapped>> /\ pc[p] = "tier"
  BY DEF ChooseTier, objects, credit
<1> DEFINE c == job[p].call
<1>3. c \in Calls
  BY <1>2 DEF GateInv
<1>4. PICK rows \in LoadRegistry :
        LET d == ResolveTier(rows, c.severity)
            gated == d.tier = "page" /\ d.after > 1 /\ c.state # "cleared"
        IN  Continue(p, IF gated THEN "streak" ELSE Deliver(c),
                     [job[p] EXCEPT !.tier = d.tier, !.after = IF gated THEN d.after ELSE 1])
  BY DEF ChooseTier
<1> DEFINE d == ResolveTier(rows, c.severity)
           gated == d.tier = "page" /\ d.after > 1 /\ c.state # "cleared"
           j == [job[p] EXCEPT !.tier = d.tier, !.after = IF gated THEN d.after ELSE 1]
<1>5. pc'[p] = (IF gated THEN "streak" ELSE Deliver(c)) /\ job'[p] = j
  BY <1>4, GateMoves
<1>6. DOMAIN job[p] = Fields
  BY DEF MarkerInv
<1>7. j.call = c /\ (gated => j.after = d.after)
  BY <1>6 DEF Fields
<1>8. CASE ~ gated
  BY <1>1, <1>2, <1>3, <1>5, <1>7, <1>8, PassesGate DEF Deliver
<1>9. CASE gated
  <2>1. rows # <<>>
    BY <1>9 DEF ResolveTier
  <2>2. rows \in Registry
    BY <2>1 DEF LoadRegistry
  <2>3. d.after \in Nat
    BY <2>2, ConstantsAssumption, Resolved
  <2>4. \A n \in Nat : n < d.after => Asks(d.after, n)
    BY <1>3, <1>9, <2>2 DEF Asks
  <2> HIDE DEF d, j, gated
  <2>5. GateOpens'
    BY <1>2 DEF GateInv, GateOpens
  <2>6. Clean' = Clean
    BY <1>2 DEF Clean
  <2>7. pc'[p] = "streak" /\ job'[p].call \in Calls /\ job'[p].after = d.after
    BY <1>3, <1>5, <1>7, <1>9
  <2>8. \A n \in Nat : n < job'[p].after => Asks(job'[p].after, n)
    BY <2>4, <2>7
  <2> QED
    BY <1>1, <1>2, <2>3, <2>5, <2>6, <2>7, <2>8 DEF GateInv, Asks
<1> QED
  BY <1>8, <1>9

LEMMA ReadGate ==
  ASSUME MarkerInv, GateInv, NEW p \in Processes, ReadStreak(p)
  PROVE  GateInv'
<1>1. \A q \in Processes \ {p} : pc'[q] = pc[q] /\ job'[q] = job[q]
  BY OthersStay DEF Step
<1>2. /\ UNCHANGED <<streak, streakUpset, overlapped>> /\ pc[p] = "streak"
      /\ heldInARow' \in {0, heldInARow}
      /\ Clean' = Clean
  BY DEF ReadStreak, objects, Clean
<1>3. streak \in Nat /\ heldInARow \in Nat /\ heldInARow' \in Nat /\ heldInARow' <= heldInARow
  BY <1>2 DEF GateInv
<1>4. GateOpens'
  BY <1>2, <1>3 DEF GateInv, GateOpens
<1>5. DOMAIN job[p] = Fields
  BY DEF MarkerInv
<1>6. job[p].call \in Calls /\ job[p].after \in Nat /\ \A n \in Nat : n < job[p].after => Asks(job[p].after, n)
  BY <1>2 DEF GateInv
<1>7. job'[p].call = job[p].call /\ (pc'[p] \notin {"streak", "record"}
         \/ (pc'[p] = "record" /\ job'[p].after = job[p].after /\ job'[p].seen = streak))
  <2>1. CASE Continue(p, "record", [job[p] EXCEPT !.seen = streak])
    BY <1>5, <2>1, GateMoves DEF Fields
  <2>2. CASE Continue(p, Deliver(job[p].call), [job[p] EXCEPT !.after = 1])
    BY <1>5, <2>2, GateMoves DEF Fields, Deliver
  <2> QED
    BY <2>1, <2>2 DEF ReadStreak
<1>8. \A q \in Processes : pc'[q] # "idle" => job'[q].call \in Calls
  BY <1>1, <1>6, <1>7 DEF GateInv
<1>9. \A q \in Processes : pc'[q] \in {"streak", "record"} =>
        /\ job'[q].after \in Nat
        /\ \A n \in Nat : n < job'[q].after => Asks(job'[q].after, n)
  BY <1>1, <1>6, <1>7 DEF GateInv
<1>10. Clean' => heldInARow' <= streak'
  BY <1>2, <1>3 DEF GateInv
<1>11. \A q \in Processes : pc'[q] = "record" => job'[q].seen \in Nat /\ (Clean' => heldInARow' <= job'[q].seen)
  <2> SUFFICES ASSUME NEW q \in Processes, pc'[q] = "record"
               PROVE  job'[q].seen \in Nat /\ (Clean' => heldInARow' <= job'[q].seen)
    OBVIOUS
  <2>1. CASE q = p
    BY <1>2, <1>3, <1>7, <1>10, <2>1
  <2>2. CASE q # p
    <3>1. job[q].seen \in Nat /\ (Clean => heldInARow <= job[q].seen) /\ job'[q] = job[q]
      BY <1>1, <2>2 DEF GateInv
    <3> QED
      BY <1>2, <1>3, <3>1
  <2> QED
    BY <2>1, <2>2
<1> QED
  BY <1>2, <1>3, <1>4, <1>8, <1>9, <1>10, <1>11 DEF GateInv, Asks

(* What is held is one more than the streak that was read, and that is     *)
(* fewer than the row asks for.                                            *)
LEMMA RecordGate ==
  ASSUME MarkerInv, Alone, GateInv, NEW p \in Processes, RecordOpen(p)
  PROVE  GateInv'
<1> DEFINE count == job[p].seen + 1
<1>1. /\ pc[p] = "record" /\ overlapped' = overlapped
      /\ \A q \in Processes \ {p} : pc'[q] = pc[q] /\ job'[q] = job[q]
  BY OthersStay DEF Step, RecordOpen
<1>2. /\ streak' \in {count, streak}
      /\ Clean' => Clean /\ streak' = count
      /\ heldInARow' = IF count < job[p].after THEN heldInARow + 1 ELSE 0
  <2>1. streak' \in {count, streak} /\ streakUpset' = (streakUpset \/ streak' # count)
    BY DEF RecordOpen, Maybe
  <2>2. heldInARow' = IF count < job[p].after THEN heldInARow + 1 ELSE 0
    BY DEF RecordOpen, HeldAt
  <2> QED
    BY <1>1, <2>1, <2>2 DEF Clean
<1>3. /\ job[p].seen \in Nat /\ (Clean => heldInARow <= job[p].seen) /\ heldInARow \in Nat /\ streak \in Nat
      /\ job[p].call \in Calls
      /\ job[p].after \in Nat /\ \A n \in Nat : n < job[p].after => Asks(job[p].after, n)
  BY <1>1 DEF GateInv
<1>4. streak' \in Nat /\ heldInARow' \in Nat
  BY <1>2, <1>3
<1>5. Clean' => heldInARow' <= streak'
  BY <1>2, <1>3
<1>6. pc'[p] \notin {"streak", "record"} /\ job'[p].call = job[p].call
  <2>1. PICK tier : Continue(p, Deliver(job[p].call), [job[p] EXCEPT !.tier = tier, !.after = 1, !.seen = 0])
    BY DEF RecordOpen
  <2>2. DOMAIN job[p] = Fields
    BY DEF MarkerInv
  <2>3. [job[p] EXCEPT !.tier = tier, !.after = 1, !.seen = 0].call = job[p].call
    BY <2>2 DEF Fields
  <2>4. Deliver(job[p].call) \notin {"streak", "record"}
    BY DEF Deliver
  <2> QED
    BY <2>1, <2>3, <2>4, GateMoves
<1>7. \A q \in Processes : pc'[q] # "idle" => job'[q].call \in Calls
  BY <1>1, <1>3, <1>6 DEF GateInv
<1>8. \A q \in Processes : pc'[q] = "record" => job'[q].seen \in Nat /\ (Clean' => heldInARow' <= job'[q].seen)
  <2> SUFFICES ASSUME NEW q \in Processes, pc'[q] = "record"
               PROVE  job'[q].seen \in Nat /\ ~ Clean'
    OBVIOUS
  <2>1. q # p /\ pc[q] = "record" /\ job'[q] = job[q]
    BY <1>1, <1>6
  <2>2. overlapped
    BY <1>1, <2>1 DEF Alone
  <2> QED
    BY <1>1, <2>1, <2>2 DEF GateInv, Clean
<1>9. \A q \in Processes : pc'[q] \in {"streak", "record"} =>
        /\ job'[q].after \in Nat
        /\ \A n \in Nat : n < job'[q].after => Asks(job'[q].after, n)
  BY <1>1, <1>6 DEF GateInv
<1>10. GateOpens'
  <2> SUFFICES ASSUME Clean', NEW n \in 1..heldInARow' PROVE \E after : Asks(after, n)
    BY DEF GateOpens, Clean, Asks
  <2>1. count < job[p].after /\ heldInARow' = heldInARow + 1
    BY <1>2
  <2>2. n <= count
    BY <1>2, <1>3, <2>1
  <2> QED
    BY <1>3, <2>1, <2>2
<1> QED
  BY <1>4, <1>5, <1>7, <1>8, <1>9, <1>10 DEF GateInv, Asks

LEMMA OtherGate ==
  ASSUME MarkerInv, GateInv, NEW p \in Processes,
         \/ WriteDigest(p) \/ CheckMute(p) \/ CheckMarker(p) \/ PublishSns(p) \/ PublishTelegram(p)
         \/ ReadPrior(p) \/ WriteMarker(p) \/ EmitEvent(p) \/ Kill(p)
  PROVE  GateInv'
<1>1. /\ pc[p] # "idle" /\ overlapped' = overlapped
      /\ \A q \in Processes \ {p} : pc'[q] = pc[q] /\ job'[q] = job[q]
  BY OthersStay DEF Step
<1>2. UNCHANGED <<streak, heldInARow, streakUpset>>
  BY DEF WriteDigest, CheckMute, CheckMarker, PublishSns, PublishTelegram, ReadPrior, WriteMarker, EmitEvent, Kill,
         objects, credit
<1>3. DOMAIN job[p] = Fields /\ job[p].call \in Calls
  BY <1>1 DEF MarkerInv, GateInv
<1>4. \/ \E how, j : Leave(p, how, j)
      \/ \E label, j : label \notin {"streak", "record"} /\ j.call = job[p].call /\ Continue(p, label, j)
  <2>1. CASE WriteDigest(p) \/ EmitEvent(p) \/ Kill(p)
    BY <2>1 DEF WriteDigest, EmitEvent, Kill, End
  <2>2. CASE CheckMute(p)
    <3>1. Continue(p, "tier", job[p]) \/ End(p, "muted") \/ End(p, "TypeError")
      BY <2>2, ConstantsAssumption DEF CheckMute
    <3> QED
      BY <3>1 DEF End
  <2>3. CASE CheckMarker(p)
    BY <2>3 DEF CheckMarker, End
  <2>4. CASE ReadPrior(p)
    <3>1. PICK prior : Continue(p, "mark", [job[p] EXCEPT !.now = clock, !.count = prior + 1])
      BY <2>4 DEF ReadPrior
    <3> QED
      BY <1>3, <3>1 DEF Fields
  <2>5. CASE WriteMarker(p)
    <3>1. Continue(p, "event", [job[p] EXCEPT !.now = 0, !.count = 0])
      BY <2>5 DEF WriteMarker
    <3> QED
      BY <1>3, <3>1 DEF Fields
  <2>6. CASE PublishSns(p)
    <3>1. CASE Continue(p, "telegram", job[p])
      BY <3>1
    <3>2. CASE SendSns(p)
      <4>1. PICK reply : Continue(p, "telegram", [job[p] EXCEPT !.sns_ok = reply.ok, !.reached = Reached(p, reply)])
        BY <3>2 DEF SendSns
      <4> QED
        BY <1>3, <4>1 DEF Fields
    <3> QED
      BY <2>6, <3>1, <3>2 DEF PublishSns
  <2>7. CASE PublishTelegram(p)
    <3>1. PICK j : j.call = job[p].call /\ AfterTelegram(p, j)
      <4>1. CASE SendTelegram(p)
        <5>1. PICK reply : AfterTelegram(p, [job[p] EXCEPT !.telegram_ok = reply.ok, !.reached = Reached(p, reply)])
          BY <4>1 DEF SendTelegram
        <5> QED
          BY <1>3, <5>1 DEF Fields
      <4>2. CASE AfterTelegram(p, job[p])
        BY <4>2
      <4>3. CASE AfterTelegram(p, [job[p] EXCEPT !.telegram_ok = TRUE])
        BY <1>3, <4>3 DEF Fields
      <4>4. CASE AfterTelegram(p, [job[p] EXCEPT !.telegram_ok = TRUE, !.reached = TRUE])
        BY <1>3, <4>4 DEF Fields
      <4> QED
        BY <2>7, <4>1, <4>2, <4>3, <4>4 DEF PublishTelegram
    <3> QED
      BY <3>1 DEF AfterTelegram
  <2> QED
    BY <2>1, <2>2, <2>3, <2>4, <2>5, <2>6, <2>7
<1>5. pc'[p] \notin {"streak", "record"} /\ (pc'[p] # "idle" => job'[p].call \in Calls)
  BY <1>3, <1>4, GateMoves, GateLeaves
<1> QED
  BY <1>1, <1>2, <1>5, PassesGate

LEMMA StepGate == MarkerInv /\ Alone /\ GateInv /\ [Next]_vars => GateInv'
<1> SUFFICES ASSUME MarkerInv, Alone, GateInv, [Next]_vars PROVE GateInv'
  OBVIOUS
<1>1. CASE Tick \/ UNCHANGED vars
  BY <1>1 DEF Tick, vars, objects, credit, GateInv, Asks, GateOpens, Clean
<1>2. ASSUME NEW p \in Processes, Step(p) \/ Kill(p) PROVE GateInv'
  BY <1>2, ClearGate, ChooseGate, ReadGate, RecordGate, OtherGate DEF Step
<1> QED
  BY <1>1, <1>2, StartGate DEF Next

(***************************************************************************)
(* The tier gate of alerts.publish: a condition detected again and again   *)
(* is held back fewer times than some row that pages it asks for, for any  *)
(* registry, as it changes, and any number of processes whose calls do not *)
(* overlap.                                                                *)
(***************************************************************************)
THEOREM GatesOpen == Spec => []GateOpens
<1>1. Spec => [](MarkerInv /\ Alone /\ GateInv)
  BY InitCovers, StepCovers, InitSerial, StepAlone, InitGate, StepGate, PTL DEF Spec
<1>2. GateInv => GateOpens
  BY DEF GateInv
<1> QED
  BY <1>1, <1>2, PTL
=============================================================================
