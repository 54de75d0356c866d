----------------------------- MODULE SpotLaunch -----------------------------
(***************************************************************************)
(* The replay-safe launch of krepis.ec2_spot: launch_self_starting, with   *)
(* the rotation of launch and the lookup of find_by_idempotency_key.       *)
(*                                                                         *)
(* The invocations are the deliveries of one event: they carry the same    *)
(* idempotency key, and each may be killed between any two requests.  A    *)
(* ClientToken is a hash of the key, the market, the type and the subnet;  *)
(* it is modelled by the market and the number of the (type, subnet) pool, *)
(* which it stands for one to one.                                         *)
(***************************************************************************)
EXTENDS Naturals, FiniteSets

CONSTANTS
    Invocations,      \* deliveries of the event that carries the key
    Pools,            \* number of (instance_type, subnet) combinations
    ForceOnDemand     \* force_on_demand

ASSUME ConstantsAssumption ==
    /\ Pools \in Nat \ {0}
    /\ ForceOnDemand \in BOOLEAN

VARIABLES
    boxes,        \* the instances EC2 created for the key
    pc,           \* where each invocation stands
    pool,         \* the pool its rotation is at
    reason,       \* the LaunchReason tag of its attempts
    degraded,     \* probe_degraded
    outcome,      \* what it returned, or how it ended
    tried,        \* history: the attempts it made
    overlapped,   \* history: two invocations ran at the same time
    missed        \* history: a lookup did not show a box that exists

vars == <<boxes, pc, pool, reason, degraded, outcome,
          tried, overlapped, missed>>

Markets == {"spot", "on-demand"}
Reasons == {"spot_ok", "capacity_exhausted", "quota_exceeded",
            "force_on_demand"}

Token == [market : Markets, pool : 1..Pools]

(* An instance: the token and the tag it was launched with, the invocation *)
(* that did it, whether it runs, and whether DescribeInstances shows it.   *)
Box == [token : Token, reason : Reasons, by : Invocations,
        live : BOOLEAN, shown : BOOLEAN]

Running == {"probe", "spot", "page", "on-demand", "resolve"}
Labels == Running \cup {"idle", "ended"}

None == [kind |-> "none"]
Raise(exception) == [kind |-> "raised", exception |-> exception]

(* What the caller sees; "ClientError" stands for any error of boto3 that  *)
(* the code does not translate.                                            *)
Exceptions == {"SpotLaunchError", "SpotCapacityExhausted",
               "IdempotencyConflict", "AlertDeliveryError", "ClientError"}

Outcome == {None} \cup {Raise(e) : e \in Exceptions}
              \cup [kind : {"launched", "replayed"}, token : Token]

-----------------------------------------------------------------------------
(* Helpers of the code.                                                    *)

(* Mutant of AllTokens: the on-demand attempts are left out.               *)
SpotTokens == {token \in Token : token.market = "spot"}

(* _all_tokens: every token the key can have produced.                     *)
AllTokens == Token

(* What find_by_idempotency_key can return: a box in any state.            *)
Found == {b \in boxes : b.token \in AllTokens /\ b.shown}

Goto(i, label) == pc' = [pc EXCEPT ![i] = label]

End(i, result) ==
    /\ Goto(i, "ended")
    /\ outcome' = [outcome EXCEPT ![i] = result]

(* The two answers: a box of one's own, or the one the key already has.    *)
Launched(i, token) == End(i, [kind |-> "launched", token |-> token])

(* Mutant of Replay: the box found is reported as launched.                *)
ReplayAsLaunch(i) == \E b \in Found : Launched(i, b.token)

Replay(i) ==
    \E b \in Found : End(i, [kind |-> "replayed", token |-> b.token])

(* Mutant of Rotate: the first pool is left out.                           *)
RotateFromSecond(i, market, why) ==
    /\ Goto(i, market)
    /\ pool' = [pool EXCEPT ![i] = 2]
    /\ reason' = [reason EXCEPT ![i] = why]
    /\ UNCHANGED outcome

(* Begin a rotation in one market, with the tag its attempts carry.        *)
Rotate(i, market, why) ==
    /\ Goto(i, market)
    /\ pool' = [pool EXCEPT ![i] = 1]
    /\ reason' = [reason EXCEPT ![i] = why]
    /\ UNCHANGED outcome

Stay(i) == UNCHANGED <<pool, reason>>

-----------------------------------------------------------------------------

Init ==
    /\ boxes = {}
    /\ pc = [i \in Invocations |-> "idle"]
    /\ pool = [i \in Invocations |-> 1]
    /\ reason = [i \in Invocations |-> "spot_ok"]
    /\ degraded = [i \in Invocations |-> FALSE]
    /\ outcome = [i \in Invocations |-> None]
    /\ tried = [i \in Invocations |-> {}]
    /\ overlapped = FALSE
    /\ missed = FALSE

(* The event is delivered: a first time, as a retry, or twice at once.     *)
Deliver(i) ==
    /\ pc[i] = "idle"
    /\ Goto(i, "probe")
    /\ overlapped' = (overlapped \/ \E j \in Invocations : pc[j] \in Running)
    /\ UNCHANGED <<boxes, pool, reason, degraded, outcome, tried, missed>>

BeginLaunch(i) ==
    IF ForceOnDemand THEN Rotate(i, "on-demand", "force_on_demand")
                     ELSE Rotate(i, "spot", "spot_ok")

(* Step 1: look the key up.  A failed lookup is recorded and the launch    *)
(* goes on; an empty one that overlooks a box is the lag of the API.       *)
Probe(i) ==
    /\ pc[i] = "probe"
    /\ \/ /\ Replay(i)
          /\ Stay(i)
          /\ UNCHANGED <<degraded, missed>>
       \/ /\ Found = {}
          /\ BeginLaunch(i)
          /\ missed' = (missed \/ \E b \in boxes : ~b.shown)
          /\ UNCHANGED degraded
       \/ /\ BeginLaunch(i)
          /\ degraded' = [degraded EXCEPT ![i] = TRUE]
          /\ UNCHANGED missed
    /\ UNCHANGED <<boxes, tried, overlapped>>

(* launch, on a capacity error: the next pool; after the last one the spot *)
(* rotation gives way to on-demand, and the on-demand one raises.          *)
NextPool(i) ==
    \/ /\ pool[i] < Pools
       /\ pool' = [pool EXCEPT ![i] = pool[i] + 1]
       /\ UNCHANGED <<pc, reason, outcome>>
    \/ /\ pool[i] = Pools
       /\ pc[i] = "spot"
       /\ Rotate(i, "on-demand", "capacity_exhausted")
    \/ /\ pool[i] = Pools
       /\ pc[i] = "on-demand"
       /\ End(i, Raise("SpotCapacityExhausted"))
       /\ Stay(i)

(* EC2 has seen the token: the same request gets the same instance back,   *)
(* one with another LaunchReason, or with an extra tag whose value moved,  *)
(* is a mismatch, and a terminated instance an error.                      *)
KnownToken(i, b) ==
    /\ \/ /\ b.live /\ b.reason = reason[i]
          /\ Launched(i, b.token)
       \/ /\ Goto(i, "resolve")
          /\ UNCHANGED outcome
       \/ /\ ~b.live
          /\ End(i, Raise("SpotLaunchError"))
    /\ Stay(i)
    /\ UNCHANGED boxes

(* Mutant of NewToken: any error is taken for a lack of capacity.          *)
NewTokenOrOn(i, token) ==
    LET created == {[token |-> token, reason |-> reason[i], by |-> i,
                     live |-> TRUE, shown |-> s] : s \in BOOLEAN}
    IN  \/ /\ \E b \in created : boxes' = boxes \cup {b}
           /\ Launched(i, token)
           /\ Stay(i)
        \/ /\ NextPool(i)
           /\ \/ UNCHANGED boxes
              \/ \E b \in created : boxes' = boxes \cup {b}

(* EC2 has not: launched, out of capacity, over the spot quota, or any     *)
(* other error, after which the instance may have been created anyway.     *)
NewToken(i, token) ==
    LET created == {[token |-> token, reason |-> reason[i], by |-> i,
                     live |-> TRUE, shown |-> s] : s \in BOOLEAN}
    IN  \/ /\ \E b \in created : boxes' = boxes \cup {b}
           /\ Launched(i, token)
           /\ Stay(i)
        \/ /\ NextPool(i)
           /\ UNCHANGED boxes
        \/ /\ pc[i] = "spot"
           /\ Goto(i, "page")
           /\ Stay(i)
           /\ UNCHANGED <<boxes, outcome>>
        \/ /\ \/ UNCHANGED boxes
              \/ \E b \in created : boxes' = boxes \cup {b}
           /\ \E e \in {"SpotLaunchError", "ClientError"} : End(i, Raise(e))
           /\ Stay(i)

(* Steps 2 and 3: one RunInstances request of the rotation.                *)
RunInstances(i) ==
    LET token == [market |-> pc[i], pool |-> pool[i]]
        known == {b \in boxes : b.token = token}
    IN  /\ pc[i] \in Markets
        /\ tried' = [tried EXCEPT ![i] = @ \cup {token}]
        /\ IF known = {} THEN NewToken(i, token)
                         ELSE \E b \in known : KnownToken(i, b)
        /\ UNCHANGED <<degraded, overlapped, missed>>

(* Mutant of PageQuota: spot is tried again after the page.                *)
PageThenSpot(i) ==
    /\ pc[i] = "page"
    /\ Rotate(i, "spot", "quota_exceeded")
    /\ UNCHANGED <<boxes, degraded, tried, overlapped, missed>>

(* _page_quota comes before the on-demand rotation and may raise: the      *)
(* alert's total failure to be delivered is an exception.                  *)
PageQuota(i) ==
    /\ pc[i] = "page"
    /\ \/ Rotate(i, "on-demand", "quota_exceeded")
       \/ End(i, Raise("AlertDeliveryError")) /\ Stay(i)
    /\ UNCHANGED <<boxes, degraded, tried, overlapped, missed>>

(* Step 4, after a mismatch: look the key up again.  Finding nothing       *)
(* raises the conflict, a failing lookup its own error.                    *)
Resolve(i) ==
    /\ pc[i] = "resolve"
    /\ \/ Replay(i)
       \/ Found = {} /\ End(i, Raise("IdempotencyConflict"))
       \/ End(i, Raise("ClientError"))
    /\ UNCHANGED <<boxes, pool, reason, degraded, tried, overlapped, missed>>

-----------------------------------------------------------------------------
(* The environment.                                                        *)

(* The invocation is killed: a Lambda timeout.                             *)
Kill(i) ==
    /\ pc[i] \in Running
    /\ Goto(i, "ended")
    /\ UNCHANGED <<boxes, pool, reason, degraded, outcome,
                   tried, overlapped, missed>>

(* A box finishes or is reclaimed; the API catches up with a launch.       *)
Change(b, c) ==
    /\ boxes' = (boxes \ {b}) \cup {c}
    /\ UNCHANGED <<pc, pool, reason, degraded, outcome,
                   tried, overlapped, missed>>

Terminate(b) == b.live /\ Change(b, [b EXCEPT !.live = FALSE])
Appear(b) == ~b.shown /\ Change(b, [b EXCEPT !.shown = TRUE])

Step(i) == Probe(i) \/ RunInstances(i) \/ PageQuota(i) \/ Resolve(i)

Next ==
    \/ \E i \in Invocations : Deliver(i) \/ Step(i) \/ Kill(i)
    \/ \E b \in boxes : Terminate(b) \/ Appear(b)

Spec == Init /\ [][Next]_vars

(* An invocation that is not killed runs on.                               *)
FairSpec == Spec /\ \A i \in Invocations : WF_vars(Step(i))

-----------------------------------------------------------------------------
(* Properties.                                                             *)

TypeOK ==
    /\ boxes \subseteq Box
    /\ pc \in [Invocations -> Labels]
    /\ pool \in [Invocations -> 1..Pools]
    /\ reason \in [Invocations -> Reasons]
    /\ degraded \in [Invocations -> BOOLEAN]
    /\ outcome \in [Invocations -> Outcome]
    /\ tried \in [Invocations -> SUBSET Token]
    /\ overlapped \in BOOLEAN
    /\ missed \in BOOLEAN

(* The deliveries came one after the other and every lookup was answered   *)
(* and up to date.                                                         *)
Sound == ~overlapped /\ ~missed /\ \A i \in Invocations : ~degraded[i]

(* One key, one box: "a retry gets back the box its killed predecessor     *)
(* launched instead of launching a second one", although capacity may have *)
(* come back, or the market or the tag may differ, between the two walks.  *)
OneBoxPerKey == Sound => \A b, c \in boxes : b = c

(* Where deliveries overlap or lookups lag or fail there may be more, but  *)
(* never more than deliveries: one that has launched a box, or may have    *)
(* and does not know it, asks for no other in the next pool or market.     *)
OneBoxPerDelivery == \A b, c \in boxes : b.by = c.by => b = c

(* `replayed` is never claimed for a box of one's own, and `launched` only *)
(* for one's own when the lookups were sound.                              *)
ReplayIsTruthful ==
    \A i \in Invocations, b \in boxes :
        /\ outcome[i] = [kind |-> "replayed", token |-> b.token] => b.by # i
        /\ Sound /\ outcome[i] = [kind |-> "launched", token |-> b.token]
              => b.by = i

(* A box tagged capacity_exhausted is on-demand, and the invocation that   *)
(* launched it had tried spot in every pool.                               *)
OnDemandIsLastResort ==
    \A b \in boxes : b.reason = "capacity_exhausted" =>
        /\ b.token.market = "on-demand"
        /\ \A p \in 1..Pools :
              [market |-> "spot", pool |-> p] \in tried[b.by]

(* An invocation answers: it never walks a rotation for ever.              *)
Answers == \A i \in Invocations : pc[i] = "probe" ~> pc[i] = "ended"
=============================================================================

