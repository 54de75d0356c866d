-------------------------- MODULE MCAlertPublish --------------------------
(* Two processes, one class that pages from its second detection on; calls *)
(* of every mode, with and without a dedup key.                            *)
EXTENDS AlertPublish, TLC

CONSTANTS p1, p2

Opened(severity, keyed, telegram) ==
    [state |-> "opened", severity |-> severity, mode |-> "send",
     keyed |-> keyed, sns |-> TRUE, telegram |-> telegram, artifact |-> FALSE]

Keyed == Opened("critical", TRUE, "default")
Unkeyed == Opened("unknown", FALSE, "off")
Cleared == [state |-> "cleared", severity |-> "warning", mode |-> "send",
            keyed |-> FALSE, sns |-> FALSE, telegram |-> "default", artifact |-> TRUE]

MCProcesses == {p1, p2}
MCCalls ==
    {Keyed, Unkeyed, Cleared,
     [Cleared EXCEPT !.mode = "digest"],
     [Cleared EXCEPT !.mode = "suppressed"],
     [Keyed EXCEPT !.mode = "dry run"]}
MCRegistry ==
    {<<[claim |-> 0, tier |-> "notify-silent", after |-> 1],
       [claim |-> 3, tier |-> "page", after |-> 3],
       [claim |-> 0, tier |-> "page", after |-> 2]>>,
     <<[claim |-> 3, tier |-> "dynamic", after |-> 1]>>,
     <<[claim |-> 3, tier |-> "page", after |-> 3],
       [claim |-> 5, tier |-> "tracked-only", after |-> 1]>>}
MCLogChats == {TRUE}
MCDedupBuckets == {DEFAULT_DEDUP_BUCKET, "other"}
MCMutes == {"none", "live", "no offset"}
MCSymmetry == Permutations(MCProcesses)

(* What no guard reads does not tell states apart where no property does:  *)
(* an outcome by more than whether it is a silent loss, and what is said of*)
(* calls one after the other once calls have overlapped.                   *)
MCView ==
    <<clock, objects, pc, job, LossIsLoud, calls, published, overlapped,
      IF overlapped
        THEN <<>>
        ELSE <<credit, deliveredAt, repeated, streakUpset, markerUpset>> >>
===========================================================================
