---------------------------- MODULE AlertPublish ----------------------------
(***************************************************************************)
(* krepis.alerts.publish and publish_clear, with the tier gate of          *)
(* krepis.alert_tiers and the markers of krepis._dedup, for one condition. *)
(*                                                                         *)
(* Processes share the dedup marker and the streak of the condition, two   *)
(* objects they read and write without a condition, and may be killed      *)
(* between any two requests.  What a process is configured to do with an   *)
(* alert (send it, write it to the digest of a staging environment,        *)
(* suppress it) is the mode of its calls.                                  *)
(***************************************************************************)
EXTENDS Integers, Sequences, FiniteSetsExt

CONSTANTS
    Processes,    \* processes that publish about the condition
    Calls,        \* the calls they make
    Registry,     \* what the registry may hold: rows that claim the source
    Mutes,        \* what the mute list may hold for the source
    LogChats,     \* whether a log chat is configured: what may be found
    DedupBuckets, \* which bucket the callers name, or leave to the default
    Window,       \* dedup_window_min
    Faults,       \* TRUE: requests may fail and processes may be killed
    MaxCalls,     \* bound on the number of calls
    MaxClock      \* bound of the clock

States == {"opened", "cleared"}
Severities == {"critical", "warning", "unknown"}
Modes == {"send", "digest", "dry run", "suppressed"}
Tiers == {"page", "notify-silent", "tracked-only"}
DEFAULT_DEDUP_BUCKET == "default"

(* One call: publish, or publish_clear when the state is cleared.          *)
(* `telegram` is the destination asked for, `artifact` whether the console *)
(* shows the finding.                                                      *)
Call == [state : States, severity : Severities, mode : Modes,
         keyed : BOOLEAN, sns : BOOLEAN,
         telegram : {"off", "default", "operator", "log", "console"},
         artifact : BOOLEAN]

(* The claim of a row: 0 for the source itself, else the length of the     *)
(* prefix its wildcard names.                                              *)
Row == [claim : Nat, tier : Tiers \cup {"dynamic", "garbled"}, after : Nat \ {0}]

ASSUME ConstantsAssumption ==
    /\ Calls \subseteq Call
    /\ \A c \in Calls : c.state = "cleared" => ~c.keyed
    /\ Registry \subseteq Seq(Row)
    /\ Mutes \subseteq {"none", "live", "no offset"}
    /\ LogChats \subseteq BOOLEAN /\ LogChats # {}
    /\ DedupBuckets \subseteq {DEFAULT_DEDUP_BUCKET, "other"}
    /\ Window \in Nat
    /\ Faults \in BOOLEAN
    /\ MaxCalls \in Nat
    /\ MaxClock \in Nat

VARIABLES
    clock,
    bucket,        \* dedup_bucket, the same in all calls of publish
    streak,        \* the streak marker there; 0 when there is none
    marker,        \* the dedup marker there; its count is 0 when there is none
    pc,            \* where each process stands
    job,           \* the local variables of its call
    outcome,       \* how the last call to end did
    calls,         \* how many calls were made
    detections,    \* history: detections counted since the last clear
    heldInARow,    \* history: detections held since the last page or clear
    published,     \* history: keyed calls a channel answered ok
    deliveredAt,   \* history: when a channel last took a keyed alert
    repeated,      \* history: a keyed alert was sent twice in one window
    overlapped,    \* history: two calls ran at the same time
    streakUpset,   \* history: a streak write failed or came from elsewhere
    markerUpset    \* history: a marker was not read or not written

objects == <<bucket, streak, marker>>
credit == <<detections, heldInARow>>
dedup == <<published, deliveredAt, repeated, markerUpset>>
vars == <<clock, objects, pc, job, outcome, calls, credit, dedup,
          overlapped, streakUpset>>

Never == -1
NoMarker == [at |-> 0, count |-> 0]

-----------------------------------------------------------------------------
(* resolve_tier.                                                           *)

Strictness(tier) ==
    CASE tier = "tracked-only" -> 0 [] tier = "notify-silent" -> 1
      [] tier = "page" -> 2

(* A dynamic row asks the severity; what neither knows pages.              *)
RowTier(row, severity) ==
    CASE row.tier \in Tiers -> row.tier
      [] row.tier = "dynamic" /\ severity = "warning" -> "tracked-only"
      [] OTHER -> "page"

(* _match: the places of the exact claims, else of the longest prefix.     *)
Match(rows) ==
    LET claims == {rows[i].claim : i \in DOMAIN rows}
        best == IF 0 \in claims THEN 0 ELSE Max(claims)
    IN  {i \in DOMAIN rows : rows[i].claim = best}

(* The strictest of the rows, the first of them where they tie; and page,  *)
(* at once, for a source without a row or a registry that cannot be read.  *)
ResolveTier(rows, severity) ==
    LET level(i) == Strictness(RowTier(rows[i], severity))
        strictest == {i \in Match(rows) : \A j \in Match(rows) : level(j) <= level(i)}
        first == Min(strictest)
    IN  IF rows = <<>>
          THEN [tier |-> "page", after |-> 1]
          ELSE [tier |-> RowTier(rows[first], severity),
                after |-> rows[first].after]

-----------------------------------------------------------------------------

(* The locals of a call, at the values they start from and return to once  *)
(* they are no longer read; reached is history: some surface took it.      *)
NewJob(c) ==
    [call |-> c, tier |-> "page", after |-> 1, seen |-> 0,
     sns_ok |-> FALSE, telegram_ok |-> FALSE, now |-> 0, count |-> 0,
     reached |-> FALSE]

NoJob == NewJob([state |-> "opened", severity |-> "critical", mode |-> "send",
                 keyed |-> FALSE, sns |-> FALSE, telegram |-> "off", artifact |-> FALSE])

Init ==
    /\ clock = 0
    /\ bucket \in DedupBuckets
    /\ streak = 0
    /\ marker = NoMarker
    /\ pc = [p \in Processes |-> "idle"]
    /\ job = [p \in Processes |-> NoJob]
    /\ outcome = [ended |-> "not called", wanted |-> FALSE, tier |-> "page",
                  reached |-> FALSE]
    /\ calls = 0
    /\ detections = 0
    /\ heldInARow = 0
    /\ published = 0
    /\ deliveredAt = Never
    /\ repeated = FALSE
    /\ overlapped = FALSE
    /\ streakUpset = FALSE
    /\ markerUpset = FALSE

Goto(p, label) == pc' = [pc EXCEPT ![p] = label]

(* requested_any_human_channel.                                            *)
Wanted(c) == c.sns \/ c.telegram # "off"

(* What the caller is left with: a result, or an exception in its place.   *)
PublishResult(how, j) ==
    [ended |-> how, wanted |-> Wanted(j.call), tier |-> j.tier,
     reached |-> j.reached]

(* The call leaves publish with the locals j.                              *)
Leave(p, how, j) ==
    /\ Goto(p, "idle")
    /\ job' = [job EXCEPT ![p] = NoJob]
    /\ outcome' = PublishResult(how, j)

End(p, how) == Leave(p, how, job[p])

Continue(p, label, locals) ==
    /\ Goto(p, label)
    /\ job' = [job EXCEPT ![p] = locals]
    /\ UNCHANGED outcome

(* Every request may fail, with or without effect.                         *)
Maybe(value, unchanged) == {value} \cup (IF Faults THEN {unchanged} ELSE {})

-----------------------------------------------------------------------------
(* Entry: publish_clear resets the streak before publish looks at anything *)
(* but its own dry_run argument.                                           *)

Enter(p, j) ==
    CASE j.call.mode = "send" -> Continue(p, "mute", j)
      [] j.call.mode = "digest" -> Continue(p, "digest", j)
      [] OTHER -> Leave(p, "suppressed", j)

Start(p, c) ==
    /\ pc[p] = "idle"
    /\ calls < MaxCalls
    /\ calls' = calls + 1
    /\ overlapped' = (overlapped \/ \E q \in Processes \ {p} : pc[q] # "idle")
    /\ \/ /\ c.state = "cleared" /\ c.mode # "dry run"
          /\ Continue(p, "clear", NewJob(c))
       \/ /\ c.state # "cleared" \/ c.mode = "dry run"
          /\ Enter(p, NewJob(c))
    /\ UNCHANGED <<clock, objects, credit, dedup, streakUpset>>

(* Mutant of ClearStreak: it deletes some other object.                    *)
ClearOtherStreak(p) ==
    /\ pc[p] = "clear"
    /\ detections' = 0
    /\ heldInARow' = 0
    /\ Enter(p, job[p])
    /\ UNCHANGED <<clock, objects, calls, dedup, overlapped, streakUpset>>

(* clear_streak, in the default bucket whatever publish is given: a failure*)
(* is swallowed.                                                           *)
AfterClear(value) == IF bucket = DEFAULT_DEDUP_BUCKET THEN 0 ELSE value

ClearStreak(p) ==
    LET c == job[p].call
        own == c.mode = "send"
    IN  /\ pc[p] = "clear"
        /\ streak' \in Maybe(AfterClear(streak), streak)
        /\ streakUpset' = (streakUpset \/ streak' # AfterClear(streak) \/ ~own)
        /\ detections' = IF own THEN 0 ELSE detections
        /\ heldInARow' = IF own THEN 0 ELSE heldInARow
        /\ Enter(p, job[p])
        /\ UNCHANGED <<clock, bucket, marker, calls, dedup, overlapped>>

(* The digest record is the only channel of its environment.               *)
WriteDigest(p) ==
    /\ pc[p] = "digest"
    /\ \/ Leave(p, "returned", [job[p] EXCEPT !.reached = TRUE])
       \/ Faults /\ End(p, "AlertDeliveryError")
    /\ UNCHANGED <<clock, objects, calls, credit, dedup, overlapped, streakUpset>>

(* _fetch_source_mutes fails open; _find_live_mute compares an expiry      *)
(* without an offset with a clock that has one, and leaves publish.        *)
CheckMute(p) ==
    /\ pc[p] = "mute"
    /\ \E mute \in Mutes \cup (IF Faults THEN {"none"} ELSE {}) :
          CASE mute = "none" -> Continue(p, "tier", job[p])
            [] mute = "live" -> End(p, "muted")
            [] mute = "no offset" -> End(p, "TypeError")
    /\ UNCHANGED <<clock, objects, calls, credit, dedup, overlapped, streakUpset>>

-----------------------------------------------------------------------------
(* The tier gate.                                                          *)

(* _load_registry: from the process's cache, a file or S3; one that cannot *)
(* be read, or has another schema, has no row.                             *)
LoadRegistry == Registry \cup (IF Faults THEN {<<>>} ELSE {})

Deliver(c) == IF c.keyed THEN "dedup" ELSE "sns"

(* The registry may have changed since the last call.                      *)
ChooseTier(p) ==
    /\ pc[p] = "tier"
    /\ \E rows \in LoadRegistry :
          LET c == job[p].call
              d == ResolveTier(rows, c.severity)
              gated == d.tier = "page" /\ d.after > 1 /\ c.state # "cleared"
          IN  Continue(p, IF gated THEN "streak" ELSE Deliver(c),
                       [job[p] EXCEPT !.tier = d.tier,
                                      !.after = IF gated THEN d.after ELSE 1])
    /\ UNCHANGED <<clock, objects, calls, credit, dedup, overlapped, streakUpset>>

(* consecutive_count: a streak that cannot be read pages.                  *)
ReadStreak(p) ==
    /\ pc[p] = "streak"
    /\ \/ /\ Continue(p, "record", [job[p] EXCEPT !.seen = streak])
          /\ UNCHANGED heldInARow
       \/ /\ Faults
          /\ Continue(p, Deliver(job[p].call), [job[p] EXCEPT !.after = 1])
          /\ heldInARow' = 0
    /\ UNCHANGED <<clock, objects, calls, detections, dedup, overlapped, streakUpset>>

(* Mutant of HeldAt: one detection too many is held.                       *)
HeldOneMore(count, after) == count <= after

HeldAt(count, after) == count < after

(* record_open swallows a failure; the gate decides on what it counted.    *)
RecordOpen(p) ==
    LET count == job[p].seen + 1
        held == HeldAt(count, job[p].after)
    IN  /\ pc[p] = "record"
        /\ streak' \in Maybe(count, streak)
        /\ streakUpset' = (streakUpset \/ streak' # count)
        /\ detections' = detections + 1
        /\ heldInARow' = IF held THEN heldInARow + 1 ELSE 0
        /\ Continue(p, Deliver(job[p].call),
                    [job[p] EXCEPT !.tier = IF held THEN "notify-silent" ELSE @,
                                   !.after = 1, !.seen = 0])
        /\ UNCHANGED <<clock, bucket, marker, calls, dedup, overlapped>>

-----------------------------------------------------------------------------
(* Dedup, and the channels.                                                *)

(* Mutant of InWindow: the minute the window ends in is left out.          *)
InShorterWindow(m, now) == m.count > 0 /\ now - m.at < Window - 1

(* check_marker.                                                           *)
InWindow(m, now) == m.count > 0 /\ now - m.at < Window

CheckMarker(p) ==
    /\ pc[p] = "dedup"
    /\ \/ /\ InWindow(marker, clock)
          /\ End(p, "dedup_skipped")
          /\ UNCHANGED <<repeated, markerUpset>>
       \/ /\ ~InWindow(marker, clock) \/ Faults
          /\ Continue(p, "sns", job[p])
          /\ markerUpset' = (markerUpset \/ InWindow(marker, clock))
          /\ repeated' = (repeated \/
                (deliveredAt # Never /\ clock - deliveredAt < Window))
    /\ UNCHANGED <<clock, objects, calls, credit, published, deliveredAt,
                   overlapped, streakUpset>>

(* What a channel did with the alert: taken, taken but reported as failed, *)
(* or failed.                                                              *)
Replies == {[ok |-> TRUE, taken |-> TRUE]}
             \cup (IF Faults THEN [ok : {FALSE}, taken : BOOLEAN] ELSE {})

Reached(p, reply) == job[p].reached \/ reply.taken

NoteDelivery(p, reply) ==
    deliveredAt' = IF reply.ok /\ job[p].call.keyed THEN clock ELSE deliveredAt

(* A topic that cannot be resolved fails; a tier that does not page goes   *)
(* to the topic's muted sibling, where it has one.                         *)
SendSns(p) ==
    \E reply \in Replies :
       /\ Continue(p, "telegram", [job[p] EXCEPT !.sns_ok = reply.ok,
                                                 !.reached = Reached(p, reply)])
       /\ NoteDelivery(p, reply)

PublishSns(p) ==
    /\ pc[p] = "sns"
    /\ \/ /\ ~job[p].call.sns
          /\ Continue(p, "telegram", job[p])
          /\ UNCHANGED deliveredAt
       \/ /\ job[p].call.sns
          /\ SendSns(p)
    /\ UNCHANGED <<clock, objects, calls, credit, published, repeated,
                   markerUpset, overlapped, streakUpset>>

(* Mutant of AnyOk: it is enough to have tried.                            *)
AlwaysOk(j) == TRUE

AnyOk(j) == j.sns_ok \/ j.telegram_ok

AfterTelegram(p, j) ==
    /\ Continue(p, IF j.call.keyed /\ AnyOk(j) THEN "prior" ELSE "event", j)
    /\ published' = published +
          (IF j.call.keyed /\ (j.sns_ok \/ j.telegram_ok) THEN 1 ELSE 0)

(* resolve_destination: no branch delivers nowhere.                        *)
Pushing == {"critical"}
Destination(c, asked, log) ==
    CASE asked = "log" /\ log -> "log"
      [] asked = "console" /\ c.artifact -> "console"
      [] asked = "default" /\ c.severity \notin Pushing /\ log -> "log"
      [] asked = "default" /\ c.severity \notin Pushing /\ ~log /\ c.artifact -> "console"
      [] OTHER -> "operator"

(* _resolve_log_chat: a lookup that fails finds no log chat.               *)
LogChat == LogChats \cup (IF Faults THEN {FALSE} ELSE {})

(* send_message: one POST, and a second one as plain text when Telegram    *)
(* refuses the first for its markup.                                       *)
Unparsed == [markup |-> "refused"]
SendMessage ==
    UNION {IF first = Unparsed THEN Replies ELSE {first} : first \in Replies \cup {Unparsed}}

SendTelegram(p) ==
    \E reply \in SendMessage :
       /\ AfterTelegram(p, [job[p] EXCEPT !.telegram_ok = reply.ok,
                                         !.reached = Reached(p, reply)])
       /\ NoteDelivery(p, reply)

(* The Telegram leg: nothing is sent for tracked-only, nor for what is on  *)
(* the console; both count as ok.  notify-silent prefers the log chat.     *)
PublishTelegram(p) ==
    LET c == job[p].call
        tier == job[p].tier
        asked == IF c.telegram = "default" /\ tier = "notify-silent" THEN "log" ELSE c.telegram
    IN  /\ pc[p] = "telegram"
        /\ \/ /\ c.telegram = "off"
              /\ AfterTelegram(p, job[p])
              /\ UNCHANGED deliveredAt
           \/ /\ c.telegram # "off" /\ tier = "tracked-only"
              /\ AfterTelegram(p, [job[p] EXCEPT !.telegram_ok = TRUE])
              /\ UNCHANGED deliveredAt
           \/ /\ c.telegram # "off" /\ tier # "tracked-only"
              /\ \E log \in LogChat :
                    IF Destination(c, asked, log) = "console"
                      THEN /\ AfterTelegram(p, [job[p] EXCEPT !.telegram_ok = TRUE,
                                                              !.reached = TRUE])
                           /\ UNCHANGED deliveredAt
                      ELSE SendTelegram(p)
        /\ UNCHANGED <<clock, objects, calls, credit, repeated, markerUpset,
                       overlapped, streakUpset>>

-----------------------------------------------------------------------------
(* The marker, the event, the return.                                      *)

(* write_marker reads the count first; unread, it starts afresh.           *)
ReadPrior(p) ==
    /\ pc[p] = "prior"
    /\ \E prior \in Maybe(marker.count, 0) :
          Continue(p, "mark", [job[p] EXCEPT !.now = clock, !.count = prior + 1])
    /\ UNCHANGED <<clock, objects, calls, credit, dedup, overlapped, streakUpset>>

WriteMarker(p) ==
    LET new == [at |-> job[p].now, count |-> job[p].count]
    IN  /\ pc[p] = "mark"
        /\ marker' \in Maybe(new, marker)
        /\ markerUpset' = (markerUpset \/ marker' # new)
        /\ Continue(p, "event", [job[p] EXCEPT !.now = 0, !.count = 0])
        /\ UNCHANGED <<clock, bucket, streak, calls, credit, published, deliveredAt,
                       repeated, overlapped, streakUpset>>

(* Mutant of TotalFailure: a lost intake event alone is forgiven.          *)
NeverTotalFailure(c, j, emitted) == FALSE

(* Every requested channel failed, and so did both transports of the event.*)
TotalFailure(c, j, emitted) ==
    Wanted(c) /\ ~AnyOk(j) /\ ~emitted

(* emit_alert_event, to the bus or to the drop zone, and the verdict.      *)
EmitEvent(p) ==
    /\ pc[p] = "event"
    /\ \E reply \in Replies :
          Leave(p, IF TotalFailure(job[p].call, job[p], reply.ok)
                     THEN "AlertDeliveryError" ELSE "returned",
                [job[p] EXCEPT !.reached = Reached(p, reply)])
    /\ UNCHANGED <<clock, objects, calls, credit, dedup, overlapped, streakUpset>>

-----------------------------------------------------------------------------
(* The environment.                                                        *)

(* The process dies; a keyed alert may have been sent without its marker.  *)
Kill(p) ==
    /\ Faults
    /\ pc[p] # "idle"
    /\ End(p, "killed")
    /\ markerUpset' = (markerUpset \/
          (job[p].call.keyed /\ pc[p] \in {"telegram", "prior", "mark"}))
    /\ UNCHANGED <<clock, objects, calls, credit, published, deliveredAt,
                   repeated, overlapped, streakUpset>>

Tick ==
    /\ clock < MaxClock
    /\ clock' = clock + 1
    /\ UNCHANGED <<objects, pc, job, outcome, calls, credit, dedup,
                   overlapped, streakUpset>>

Step(p) ==
    \/ ClearStreak(p) \/ WriteDigest(p) \/ CheckMute(p)
    \/ ChooseTier(p) \/ ReadStreak(p) \/ RecordOpen(p)
    \/ CheckMarker(p) \/ PublishSns(p) \/ PublishTelegram(p)
    \/ ReadPrior(p) \/ WriteMarker(p) \/ EmitEvent(p)

Next ==
    \/ \E p \in Processes : (\E c \in Calls : Start(p, c)) \/ Step(p) \/ Kill(p)
    \/ Tick

Spec == Init /\ [][Next]_vars

-----------------------------------------------------------------------------
(* Properties.                                                             *)

(* "TOTAL non-delivery does raise": an alert that reached no channel, no   *)
(* console and no intake does not return as if it had, whatever failed,    *)
(* except for tracked-only, whose Telegram leg is ok without being sent.   *)
LossIsLoud ==
    outcome.ended = "returned" /\ outcome.wanted
        /\ outcome.tier # "tracked-only"
        => outcome.reached

(* The marker that suppresses a repeat was earned: it never counts more    *)
(* publishes than a channel answered for, however writers interleave, fail *)
(* or are killed, and there is none before the first.                      *)
MarkerIsEarned == marker.count <= published

(* "Same key + same window => at most one publish per window", for calls   *)
(* that come one after the other, with the marker read and written.        *)
OnePerWindow == ~overlapped /\ ~markerUpset => ~repeated

(* The gate opens: a condition that is detected again and again is held    *)
(* back fewer times than some row that pages it asks for, with calls one   *)
(* after the other and as long as the streak is written by nobody else and *)
(* kept.                                                                   *)
GateOpens ==
    ~overlapped /\ ~streakUpset =>
        \A n \in 1..heldInARow : \E rows \in Registry, c \in Calls :
            LET d == ResolveTier(rows, c.severity)
            IN  d.tier = "page" /\ n < d.after

(* A clear ends the streak: the next occurrence starts from its own        *)
(* detections and "must not inherit credit from this one", where callers   *)
(* leave the bucket to its default.  With one of their own it does inherit:*)
(* the clear looks for the streak in the default bucket.                   *)
CreditIsOwn ==
    bucket = DEFAULT_DEDUP_BUCKET /\ ~overlapped /\ ~streakUpset
        => streak <= detections
=============================================================================
