--------------------------- MODULE TransportProofs ---------------------------
(***************************************************************************)
(* How a completion is transported: the stream it arrives on               *)
(* (_iter_with_idle_timeout, IdleStream) and the route it took (router.py, *)
(* Router).                                                                *)
(*                                                                         *)
(* IdleStream implements BoundedStream for every budget, lateness and      *)
(* number of chunks.  The inductive invariant says what is in the queue,   *)
(* how late the caller's thread can be, what a wait that has run out shows *)
(* and where in a stream its usage stands.                                 *)
(*                                                                         *)
(* Router serves eligibly, bills what served and reports its fallbacks for *)
(* every registry, set of callers and sequence of deployments.  The        *)
(* inductive invariant says of each call what its label promises: where    *)
(* its registry comes from, why its route was chosen and what served it,   *)
(* each by the registry that was read for it.                              *)
(***************************************************************************)
EXTENDS IdleStream, Router, TLAPS, WellFoundedInduction

Items == [kind : {"item", "error", "done"}, payload : Chunks \cup {"exc", "none"}]

TypeOK ==
    /\ elapsed \in Nat /\ silence \in Nat /\ wait \in Nat /\ late \in Nat
    /\ transport \in Transports /\ total \in Totals
    /\ pump \in {"reading", "finally", "gone"}
    /\ queue \in Seq(Items) /\ sent \in Seq(Chunks) /\ got \in Seq(Chunks)
    /\ broke \in BOOLEAN
    /\ caller \in {"check", "waiting"} \cup Outcomes
    /\ closed \in {"no", "closed", "raised"}

(* The queue holds the chunks the accumulator has not seen, in order, then *)
(* the error, if there was one, and then the end.                          *)
Unseen == Len(sent) - Len(got)
Errors == IF broke THEN 1 ELSE 0
Ends   == IF pump = "gone" THEN 1 ELSE 0

GotIsPrefix == /\ Len(got) <= Len(sent)
               /\ \A i \in 1..Len(got) : got[i] = sent[i]

QueueIsRest ==
    Live =>
        /\ Len(queue) = Unseen + Errors + Ends
        /\ \A i \in 1..Len(queue) :
              queue[i] = IF i <= Unseen THEN Item(sent[Len(got) + i])
                         ELSE IF i <= Unseen + Errors THEN Error ELSE Done

PumpOrder == /\ broke => pump # "reading"
             /\ closed # "no" => ~Live

(* The caller's thread finds the total budget spent in time.               *)
InTime ==
    /\ late <= Lag
    /\ caller = "check" /\ total # NoTotal => elapsed <= total + Lag + late
    /\ caller = "waiting" /\ total # NoTotal => elapsed + wait <= total + late

Clocks == elapsed <= Cap /\ silence <= Idle

(* A wait that finds nothing has waited for one of the two budgets.        *)
WaitIsEarned ==
    caller = "waiting" /\ queue = <<>> =>
        \/ wait + silence >= Idle
        \/ total # NoTotal /\ elapsed + wait >= total

(* The usage comes last, and after a finish only the usage.                *)
UsageIsLast ==
    /\ \A i \in 1..Len(sent) : sent[i] = "usage" => i = Len(sent)
    /\ \A i \in 1..Len(sent) : sent[i] = "finish" => sent[Len(sent)] \in {"finish", "usage"}

ReturnedWhole == caller = "returned" => got = sent /\ pump = "gone"

IInv == /\ TypeOK /\ GotIsPrefix /\ QueueIsRest /\ PumpOrder
        /\ InTime /\ Clocks /\ WaitIsEarned /\ UsageIsLast /\ ReturnedWhole

-----------------------------------------------------------------------------
LEMMA MinFacts ==
    ASSUME NEW a \in Nat, NEW b \in Nat
    PROVE  Min({a, b}) = IF a <= b THEN a ELSE b
<1> DEFINE m == IF a <= b THEN a ELSE b
<1>1. m \in {a, b} /\ \A y \in {a, b} : m <= y
  OBVIOUS
<1>2. \A x \in {a, b} : (\A y \in {a, b} : x <= y) => x = m
  OBVIOUS
<1> HIDE DEF m
<1>3. Min({a, b}) = m
  BY <1>1, <1>2 DEF Min
<1> QED
  BY <1>3 DEF m

LEMMA MaxFacts ==
    ASSUME NEW a \in Int, NEW b \in Int
    PROVE  Max({a, b}) = IF a >= b THEN a ELSE b
<1> DEFINE m == IF a >= b THEN a ELSE b
<1>1. m \in {a, b} /\ \A y \in {a, b} : m >= y
  OBVIOUS
<1>2. \A x \in {a, b} : (\A y \in {a, b} : x >= y) => x = m
  OBVIOUS
<1> HIDE DEF m
<1>3. Max({a, b}) = m
  BY <1>1, <1>2 DEF Max
<1> QED
  BY <1>3 DEF m

(* Budgets are numbers, and the total one is longer than the silence.      *)
LEMMA BudgetFacts ==
    ASSUME TypeOK
    PROVE  /\ Idle \in Nat /\ Idle > 0 /\ Lag \in Nat /\ total \in Nat
           /\ Cap \in Nat /\ (total # NoTotal => Cap = total + 2 * Lag + 1)
  BY BudgetAssumption, BoundsAssumption DEF TypeOK, IdleAccepted, TotalAccepted, NoTotal, Cap

LEMMA ChunkFacts == Chunks = {"start", "piece", "finish", "usage"}
<1>1. DOMAIN Order = 1..4 /\ Order[1] = "start" /\ Order[2] = "piece" /\ Order[3] = "finish" /\ Order[4] = "usage"
  BY DEF Order
<1> QED
  BY <1>1 DEF Chunks, Range

LEMMA OrderFacts ==
    ASSUME NEW c, NEW d, InOrder(c, d)
    PROVE  c # "usage" /\ (c = "finish" => d = "usage")
<1>1. Order[1] = "start" /\ Order[2] = "piece" /\ Order[3] = "finish" /\ Order[4] = "usage"
  BY DEF Order
<1>2. PICK i \in 1..4, j \in 1..4 : Order[i] = c /\ Order[j] = d /\ (i < j \/ (i = j /\ c = "piece"))
  BY DEF InOrder
<1> QED
  BY <1>1, <1>2

LEMMA ItemFacts ==
    /\ \A c \in Chunks : Item(c) \in Items /\ Item(c).kind = "item" /\ Item(c).payload = c
    /\ Error \in Items /\ Error.kind = "error" /\ Done \in Items /\ Done.kind = "done"
  BY DEF Items, Item, Error, Done

-----------------------------------------------------------------------------
LEMMA InitIInv == Init => IInv
<1> SUFFICES ASSUME Init PROVE IInv
  OBVIOUS
<1> USE DEF Init
<1>1. TypeOK
  <2>1. <<>> \in Seq(Items) /\ <<>> \in Seq(Chunks)
    OBVIOUS
  <2>2. broke \in BOOLEAN
    OBVIOUS
  <2> QED
    BY <2>1, <2>2 DEF TypeOK
<1>2. GotIsPrefix /\ QueueIsRest /\ PumpOrder /\ UsageIsLast /\ ReturnedWhole
  BY DEF GotIsPrefix, QueueIsRest, PumpOrder, UsageIsLast, ReturnedWhole, Unseen, Errors, Ends, Live, Outcomes
<1>3. InTime /\ Clocks /\ WaitIsEarned
  BY <1>1, BudgetFacts DEF InTime, Clocks, WaitIsEarned
<1> QED
  BY <1>1, <1>2, <1>3 DEF IInv

-----------------------------------------------------------------------------
(***************************************************************************)
(* The daemon thread.                                                      *)
(***************************************************************************)
LEMMA PutPreserves == ASSUME IInv, NEW c \in Chunks, Put(c) PROVE IInv'
<1> USE DEF IInv
<1>1. /\ pump = "reading" /\ ~broke /\ pump' = pump /\ broke' = broke
      /\ queue' = Append(queue, Item(c)) /\ sent' = Append(sent, c) /\ silence' = 0
      /\ caller' = caller /\ wait' = wait /\ late' = late /\ got' = got /\ closed' = closed
      /\ elapsed' = elapsed /\ transport' = transport /\ total' = total
      /\ sent # <<>> => InOrder(sent[Len(sent)], c)
  BY DEF Put, PumpOrder, pumpVars, callerVars, callVars, Last, TypeOK
<1> HIDE DEF IInv
<1>2. TypeOK /\ TypeOK'
  BY <1>1, ItemFacts DEF TypeOK, IInv
<1>3. /\ Len(sent') = Len(sent) + 1 /\ sent'[Len(sent) + 1] = c
      /\ \A i \in 1..Len(sent) : sent'[i] = sent[i]
  BY <1>1, <1>2 DEF TypeOK
<1>4. GotIsPrefix'
  BY <1>1, <1>2, <1>3 DEF GotIsPrefix, TypeOK, IInv
<1>5. QueueIsRest'
  <2> SUFFICES ASSUME Live PROVE QueueIsRest'
    BY <1>1 DEF QueueIsRest, Live
  <2>1. /\ Len(queue) = Unseen /\ Unseen \in Nat /\ Unseen' = Unseen + 1
        /\ \A i \in 1..Len(queue) : queue[i] = Item(sent[Len(got) + i])
    <3>1. Errors = 0 /\ Ends = 0
      BY <1>1 DEF Errors, Ends
    <3> QED
      BY <1>1, <1>2, <1>3, <3>1 DEF QueueIsRest, Unseen, GotIsPrefix, TypeOK, IInv
  <2>2. /\ Len(queue') = Len(queue) + 1 /\ queue'[Len(queue) + 1] = Item(c)
        /\ \A i \in 1..Len(queue) : queue'[i] = queue[i]
    BY <1>1, <1>2 DEF TypeOK
  <2>3. ASSUME NEW i \in 1..Len(queue') PROVE queue'[i] = Item(sent'[Len(got') + i])
    <3>1. CASE i \in 1..Len(queue)
      <4>1. Len(got) + i \in 1..Len(sent)
        BY <1>2, <2>1, <3>1 DEF Unseen, TypeOK
      <4> QED
        BY <1>1, <1>3, <2>1, <2>2, <3>1, <4>1
    <3>2. CASE i = Len(queue) + 1
      <4>1. Len(got) + i = Len(sent) + 1
        BY <1>2, <2>1, <3>2 DEF Unseen, TypeOK
      <4> QED
        BY <1>1, <1>3, <2>2, <3>2, <4>1
    <3> QED
      BY <1>2, <2>2, <3>1, <3>2 DEF TypeOK
  <2>4. Errors' = 0 /\ Ends' = 0
    BY <1>1 DEF Errors, Ends
  <2>5. Len(queue') = Unseen' + Errors' + Ends' /\ \A i \in 1..Len(queue') : i <= Unseen'
    BY <2>1, <2>2, <2>4
  <2> QED
    BY <2>3, <2>5 DEF QueueIsRest
<1>6. PumpOrder'
  BY <1>1 DEF PumpOrder, Live, IInv
<1>7. InTime' /\ Clocks'
  BY <1>1, <1>2, BudgetFacts DEF InTime, Clocks, Cap, IInv
<1>8. WaitIsEarned'
  <2>1. queue' # <<>>
    BY <1>1, <1>2 DEF TypeOK
  <2> QED
    BY <2>1 DEF WaitIsEarned
<1>9. UsageIsLast'
  <2>1. ASSUME NEW i \in 1..Len(sent) PROVE sent[i] # "usage" /\ (sent[i] = "finish" => c = "usage")
    <3>1. sent # <<>> /\ Len(sent) \in 1..Len(sent)
      BY <1>2, <2>1 DEF TypeOK
    <3>2. InOrder(sent[Len(sent)], c)
      BY <1>1, <3>1
    <3>3. sent[Len(sent)] # "usage" /\ (sent[Len(sent)] = "finish" => c = "usage")
      BY <3>2, OrderFacts
    <3> QED
      BY <3>3, <3>1, <2>1 DEF UsageIsLast, IInv
  <2>2. ASSUME NEW i \in 1..Len(sent') PROVE i \in 1..Len(sent) \/ i = Len(sent')
    BY <1>2, <1>3 DEF TypeOK
  <2>3. ASSUME NEW i \in 1..Len(sent'), sent'[i] = "usage" PROVE i = Len(sent')
    BY <1>3, <2>1, <2>2, <2>3
  <2>4. ASSUME NEW i \in 1..Len(sent'), sent'[i] = "finish" PROVE sent'[Len(sent')] \in {"finish", "usage"}
    BY <1>3, <2>1, <2>2, <2>4
  <2> QED
    BY <2>3, <2>4 DEF UsageIsLast
<1>10. ReturnedWhole'
  BY <1>1 DEF ReturnedWhole, IInv
<1> QED
  BY <1>2, <1>4, <1>5, <1>6, <1>7, <1>8, <1>9, <1>10 DEF IInv

LEMMA ExhaustedPreserves == ASSUME IInv, Exhausted PROVE IInv'
<1>1. /\ pump = "reading" /\ pump' = "finally" /\ UNCHANGED <<queue, sent, broke, elapsed, silence>>
      /\ UNCHANGED <<transport, total, caller, wait, late, got, closed>>
  BY DEF Exhausted, callerVars, callVars
<1>2. TypeOK'
  BY <1>1 DEF IInv, TypeOK
<1>3. GotIsPrefix' /\ QueueIsRest'
  BY <1>1 DEF IInv, GotIsPrefix, QueueIsRest, Live, Unseen, Errors, Ends
<1>4. PumpOrder'
  BY <1>1 DEF IInv, PumpOrder, Live
<1>5. InTime' /\ Clocks' /\ WaitIsEarned'
  BY <1>1 DEF IInv, InTime, Clocks, Cap, WaitIsEarned
<1>6. UsageIsLast' /\ ReturnedWhole'
  BY <1>1 DEF IInv, UsageIsLast, ReturnedWhole
<1> QED
  BY <1>2, <1>3, <1>4, <1>5, <1>6 DEF IInv

LEMMA ReadFailsPreserves == ASSUME IInv, ReadFails PROVE IInv'
<1>1. /\ pump = "reading" /\ ~broke /\ pump' = "finally" /\ broke' /\ queue' = Append(queue, Error)
      /\ UNCHANGED <<sent, elapsed, silence, transport, total, caller, wait, late, got, closed>>
  BY DEF ReadFails, callerVars, callVars, IInv, PumpOrder
<1>2. TypeOK /\ broke' \in BOOLEAN
  BY DEF ReadFails, IInv
<1>3. TypeOK'
  BY <1>1, <1>2, ItemFacts DEF TypeOK
<1>4. GotIsPrefix'
  BY <1>1 DEF IInv, GotIsPrefix
<1>5. QueueIsRest'
  <2> SUFFICES ASSUME Live PROVE QueueIsRest'
    BY <1>1 DEF QueueIsRest, Live
  <2>1. Errors = 0 /\ Ends = 0 /\ Errors' = 1 /\ Ends' = 0 /\ Unseen' = Unseen /\ Unseen \in Nat
    BY <1>1, <1>2 DEF Errors, Ends, Unseen, GotIsPrefix, IInv, TypeOK
  <2>2. Len(queue) = Unseen /\ \A i \in 1..Len(queue) : queue[i] = Item(sent[Len(got) + i])
    BY <2>1 DEF QueueIsRest, IInv
  <2>3. /\ Len(queue') = Len(queue) + 1 /\ queue'[Len(queue) + 1] = Error
        /\ \A i \in 1..Len(queue) : queue'[i] = queue[i]
    BY <1>1, <1>2 DEF TypeOK
  <2> QED
    BY <1>1, <2>1, <2>2, <2>3 DEF QueueIsRest
<1>6. PumpOrder'
  BY <1>1 DEF IInv, PumpOrder, Live
<1>7. InTime' /\ Clocks'
  BY <1>1 DEF IInv, InTime, Clocks, Cap
<1>8. WaitIsEarned'
  <2>1. queue' # <<>>
    BY <1>1, <1>2 DEF TypeOK
  <2> QED
    BY <2>1 DEF WaitIsEarned
<1>9. UsageIsLast' /\ ReturnedWhole'
  BY <1>1 DEF IInv, UsageIsLast, ReturnedWhole
<1> QED
  BY <1>3, <1>4, <1>5, <1>6, <1>7, <1>8, <1>9 DEF IInv

LEMMA PutDonePreserves == ASSUME IInv, PutDone PROVE IInv'
<1>1. /\ pump = "finally" /\ pump' = "gone" /\ queue' = Append(queue, Done)
      /\ UNCHANGED <<sent, broke, elapsed, silence, transport, total, caller, wait, late, got, closed>>
  BY DEF PutDone, callerVars, callVars
<1>2. TypeOK
  BY DEF IInv
<1>3. TypeOK'
  BY <1>1, <1>2, ItemFacts DEF TypeOK
<1>4. GotIsPrefix'
  BY <1>1 DEF IInv, GotIsPrefix
<1>5. QueueIsRest'
  <2> SUFFICES ASSUME Live PROVE QueueIsRest'
    BY <1>1 DEF QueueIsRest, Live
  <2>1. /\ Ends = 0 /\ Ends' = 1 /\ Errors' = Errors /\ Errors \in Nat
        /\ Unseen' = Unseen /\ Unseen \in Nat
    BY <1>1, <1>2 DEF Errors, Ends, Unseen, GotIsPrefix, IInv, TypeOK
  <2>2. /\ Len(queue) = Unseen + Errors
        /\ \A i \in 1..Len(queue) : queue[i] = IF i <= Unseen THEN Item(sent[Len(got) + i]) ELSE Error
    BY <2>1 DEF QueueIsRest, IInv
  <2>3. /\ Len(queue') = Len(queue) + 1 /\ queue'[Len(queue) + 1] = Done
        /\ \A i \in 1..Len(queue) : queue'[i] = queue[i]
    BY <1>1, <1>2 DEF TypeOK
  <2> QED
    BY <1>1, <2>1, <2>2, <2>3 DEF QueueIsRest
<1>6. PumpOrder'
  BY <1>1 DEF IInv, PumpOrder, Live
<1>7. InTime' /\ Clocks'
  BY <1>1 DEF IInv, InTime, Clocks, Cap
<1>8. WaitIsEarned'
  <2>1. queue' # <<>>
    BY <1>1, <1>2 DEF TypeOK
  <2> QED
    BY <2>1 DEF WaitIsEarned
<1>9. UsageIsLast' /\ ReturnedWhole'
  BY <1>1 DEF IInv, UsageIsLast, ReturnedWhole
<1> QED
  BY <1>3, <1>4, <1>5, <1>6, <1>7, <1>8, <1>9 DEF IInv

-----------------------------------------------------------------------------
(***************************************************************************)
(* The caller's thread.                                                    *)
(***************************************************************************)

(* What a step of the caller leaves alone.                                 *)
LEMMA CallerKeeps ==
    ASSUME IInv, Caller
    PROVE  /\ UNCHANGED <<pump, sent, broke, elapsed, silence, transport, total>>
           /\ late' = 0 /\ Live /\ Cap' = Cap
           /\ queue' = IF caller = "waiting" /\ queue # <<>> THEN Tail(queue) ELSE queue
  BY DEF Caller, callVars, Cap, Live, Outcomes, CheckTotal, TakeItem, Empty, TimedOut

(* What the caller finds at the head of the queue.                         *)
LEMMA HeadFacts ==
    ASSUME IInv, Live, queue # <<>>
    PROVE  /\ Len(queue) \in Nat /\ Len(queue) > 0 /\ Head(queue) = queue[1] /\ Len(Tail(queue)) = Len(queue) - 1
           /\ \A i \in 1..Len(Tail(queue)) : Tail(queue)[i] = queue[i + 1]
           /\ Tail(queue) \in Seq(Items)
           /\ \/ Unseen > 0 /\ Head(queue) = Item(sent[Len(got) + 1])
              \/ Unseen = 0 /\ broke /\ Head(queue) = Error
              \/ Unseen = 0 /\ ~broke /\ pump = "gone" /\ Head(queue) = Done
<1>1. TypeOK /\ Unseen \in Nat
  BY DEF IInv, GotIsPrefix, Unseen, TypeOK
<1>2. /\ Len(queue) \in Nat /\ Len(queue) > 0 /\ Head(queue) = queue[1] /\ Len(Tail(queue)) = Len(queue) - 1
      /\ \A i \in 1..Len(Tail(queue)) : Tail(queue)[i] = queue[i + 1]
      /\ Tail(queue) \in Seq(Items)
  BY <1>1 DEF TypeOK
<1>3. /\ Len(queue) = Unseen + Errors + Ends
      /\ queue[1] = IF 1 <= Unseen THEN Item(sent[Len(got) + 1]) ELSE IF 1 <= Unseen + Errors THEN Error ELSE Done
  BY <1>2 DEF IInv, QueueIsRest
<1>4. CASE Unseen > 0
  BY <1>1, <1>2, <1>3, <1>4
<1>5. CASE Unseen = 0 /\ broke
  <2>1. Errors = 1
    BY <1>5 DEF Errors
  <2> QED
    BY <1>2, <1>3, <1>5, <2>1
<1>6. CASE Unseen = 0 /\ ~broke
  <2>1. Errors = 0 /\ (pump # "gone" => Ends = 0)
    BY <1>6 DEF Errors, Ends
  <2> QED
    BY <1>2, <1>3, <1>6, <2>1
<1> QED
  BY <1>1, <1>4, <1>5, <1>6

(* A call that one of the budgets ends.                                    *)
LEMMA AbortPreserves ==
    ASSUME IInv, Caller, queue' = queue, NEW o \in {"idle", "total"}, Abort(o)
    PROVE  IInv'
<1>1. /\ UNCHANGED <<pump, sent, broke, elapsed, silence, transport, total, queue, wait, got>>
      /\ late' = 0 /\ Cap' = Cap /\ caller' = o /\ closed' \in {"closed", "raised"} /\ ~Live'
  BY CallerKeeps DEF Abort, CloseStream, Live, Outcomes
<1>2. TypeOK'
  BY <1>1 DEF IInv, TypeOK, Outcomes
<1>3. GotIsPrefix' /\ QueueIsRest' /\ PumpOrder'
  BY <1>1 DEF IInv, GotIsPrefix, QueueIsRest, PumpOrder
<1>4. InTime' /\ Clocks' /\ WaitIsEarned'
  BY <1>1, BudgetFacts DEF IInv, InTime, Clocks, WaitIsEarned
<1>5. UsageIsLast' /\ ReturnedWhole'
  BY <1>1 DEF IInv, UsageIsLast, ReturnedWhole
<1> QED
  BY <1>2, <1>3, <1>4, <1>5 DEF IInv

LEMMA CheckTotalPreserves == ASSUME IInv, Caller, CheckTotal PROVE IInv'
<1>1. queue' = queue /\ caller = "check"
  BY CallerKeeps DEF CheckTotal
<1>2. CASE total # NoTotal /\ elapsed >= total
  BY <1>1, <1>2, AbortPreserves DEF CheckTotal
<1>3. CASE ~(total # NoTotal /\ elapsed >= total)
  <2>1. /\ UNCHANGED <<pump, sent, broke, elapsed, silence, transport, total, queue, got, closed>>
        /\ late' = 0 /\ Cap' = Cap /\ caller' = "waiting" /\ wait' = WaitFor /\ Live /\ Live'
    BY <1>1, <1>3, CallerKeeps DEF CheckTotal, Live, Outcomes
  <2>2. /\ wait' \in Nat
        /\ wait' = Idle \/ (total # NoTotal /\ elapsed + wait' = total)
        /\ total # NoTotal => elapsed + wait' <= total
    <3>1. elapsed \in Nat /\ total \in Nat /\ Idle \in Nat
      BY BudgetFacts DEF IInv, TypeOK
    <3>2. CASE total = NoTotal
      BY <2>1, <3>1, <3>2 DEF WaitFor
    <3>3. CASE total # NoTotal
      <4>1. total - elapsed \in Nat
        BY <1>3, <3>1, <3>3
      <4>2. wait' = IF Idle <= total - elapsed THEN Idle ELSE total - elapsed
        BY <2>1, <3>1, <3>3, <4>1, MinFacts DEF WaitFor
      <4> QED
        BY <3>1, <3>3, <4>1, <4>2
    <3> QED
      BY <3>2, <3>3
  <2>3. TypeOK'
    BY <2>1, <2>2 DEF IInv, TypeOK
  <2>4. GotIsPrefix' /\ PumpOrder'
    BY <2>1 DEF IInv, GotIsPrefix, PumpOrder
  <2>5. QueueIsRest'
    BY <2>1 DEF IInv, QueueIsRest, Unseen, Errors, Ends
  <2>6. InTime' /\ Clocks'
    BY <2>1, <2>2, <2>3, BudgetFacts DEF IInv, InTime, Clocks, TypeOK
  <2>7. WaitIsEarned'
    BY <2>1, <2>2, <2>3, BudgetFacts DEF IInv, WaitIsEarned, TypeOK
  <2>8. UsageIsLast' /\ ReturnedWhole'
    BY <2>1 DEF IInv, UsageIsLast, ReturnedWhole
  <2> QED
    BY <2>3, <2>4, <2>5, <2>6, <2>7, <2>8 DEF IInv
<1> QED
  BY <1>2, <1>3

LEMMA TakeItemPreserves == ASSUME IInv, Caller, TakeItem PROVE IInv'
<1>1. /\ caller = "waiting" /\ queue # <<>> /\ queue' = Tail(queue) /\ late' = 0 /\ Cap' = Cap /\ Live
      /\ UNCHANGED <<pump, sent, broke, elapsed, silence, transport, total, wait, closed>>
  BY CallerKeeps DEF TakeItem
<1>2. TypeOK /\ Unseen \in Nat
  BY DEF IInv, GotIsPrefix, Unseen, TypeOK
<1>3. CASE Unseen > 0
  <2> DEFINE c == sent[Len(got) + 1]
  <2>1. Head(queue) = Item(c)
    BY <1>1, <1>3, HeadFacts
  <2>2. c \in Chunks
    BY <1>2, <1>3 DEF Unseen, TypeOK
  <2>3. caller' = "check" /\ got' = Append(got, c)
    BY <2>1, <2>2, ItemFacts DEF TakeItem
  <2>4. got' \in Seq(Chunks) /\ queue' \in Seq(Items)
    BY <1>1, <1>2, <2>2, <2>3, HeadFacts DEF TypeOK
  <2>5. TypeOK'
    BY <1>1, <1>2, <2>3, <2>4 DEF TypeOK
  <2>6. GotIsPrefix'
    BY <1>1, <1>2, <1>3, <2>3 DEF IInv, GotIsPrefix, Unseen, TypeOK
  <2>7. QueueIsRest'
    <3>1. Unseen' = Unseen - 1 /\ Errors' = Errors /\ Ends' = Ends /\ Len(got') = Len(got) + 1
      BY <1>1, <1>2, <2>3 DEF Unseen, Errors, Ends, TypeOK
    <3>2. /\ Len(queue) = Unseen + Errors + Ends
          /\ \A i \in 1..Len(queue) : queue[i] = IF i <= Unseen THEN Item(sent[Len(got) + i])
                                                 ELSE IF i <= Unseen + Errors THEN Error ELSE Done
      BY <1>1 DEF IInv, QueueIsRest
    <3>3. /\ Len(queue') = Len(queue) - 1 /\ Len(queue) \in Nat
          /\ \A i \in 1..Len(queue') : queue'[i] = queue[i + 1]
      BY <1>1, HeadFacts
    <3>4. Errors \in Nat /\ Ends \in Nat /\ Len(got) \in Nat
      BY <1>2 DEF Errors, Ends, TypeOK
    <3>5. Len(queue') = Unseen' + Errors' + Ends'
      BY <1>2, <3>1, <3>2, <3>3, <3>4
    <3>6. ASSUME NEW i \in 1..Len(queue')
          PROVE  queue'[i] = IF i <= Unseen' THEN Item(sent'[Len(got') + i])
                             ELSE IF i <= Unseen' + Errors' THEN Error ELSE Done
      <4>1. i + 1 \in 1..Len(queue) /\ Len(got) + (i + 1) = Len(got') + i
        BY <3>1, <3>3, <3>4
      <4>2. queue'[i] = IF i + 1 <= Unseen THEN Item(sent[Len(got') + i])
                        ELSE IF i + 1 <= Unseen + Errors THEN Error ELSE Done
        BY <3>2, <3>3, <4>1
      <4>3. (i + 1 <= Unseen) = (i <= Unseen') /\ (i + 1 <= Unseen + Errors) = (i <= Unseen' + Errors')
        BY <1>2, <3>1, <3>3, <3>4
      <4> QED
        BY <1>1, <4>2, <4>3
    <3> QED
      BY <3>5, <3>6 DEF QueueIsRest
  <2>8. PumpOrder' /\ UsageIsLast' /\ ReturnedWhole'
    BY <1>1, <2>3 DEF IInv, PumpOrder, Live, Outcomes, UsageIsLast, ReturnedWhole
  <2>9. InTime' /\ Clocks' /\ WaitIsEarned'
    <3>1. /\ elapsed \in Nat /\ wait \in Nat /\ late \in Nat /\ late <= Lag /\ Lag \in Nat /\ total \in Nat
          /\ total # NoTotal => elapsed + wait <= total + late
      BY <1>1, <1>2, BudgetFacts DEF IInv, InTime, TypeOK
    <3>2. total # NoTotal => elapsed <= total + Lag + 0
      BY <3>1
    <3> QED
      BY <1>1, <2>3, <3>1, <3>2 DEF IInv, InTime, Clocks, WaitIsEarned
  <2> QED
    BY <2>5, <2>6, <2>7, <2>8, <2>9 DEF IInv
<1>4. CASE Unseen = 0
  <2>1. (broke /\ Head(queue) = Error) \/ (~broke /\ pump = "gone" /\ Head(queue) = Done)
    BY <1>1, <1>4, HeadFacts
  <2>2. /\ got' = got
        /\ (broke /\ caller' = "error") \/ (pump = "gone" /\ caller' = "returned")
    <3>1. CASE Head(queue) = Error
      BY <2>1, <3>1, ItemFacts DEF TakeItem
    <3>2. CASE Head(queue) = Done
      BY <2>1, <3>2, ItemFacts DEF TakeItem
    <3> QED
      BY <2>1, <3>1, <3>2
  <2>3. queue' \in Seq(Items) /\ caller' \in Outcomes /\ ~Live'
    BY <1>1, <2>2, HeadFacts DEF Outcomes, Live
  <2>4. TypeOK'
    BY <1>1, <1>2, <2>2, <2>3 DEF TypeOK
  <2>5. GotIsPrefix' /\ QueueIsRest' /\ PumpOrder' /\ UsageIsLast'
    BY <1>1, <2>2, <2>3 DEF IInv, GotIsPrefix, QueueIsRest, PumpOrder, UsageIsLast
  <2>6. ReturnedWhole'
    <3>1. Len(got) = Len(sent)
      BY <1>2, <1>4 DEF Unseen, TypeOK
    <3>2. got = sent
      BY <1>2, <3>1 DEF IInv, GotIsPrefix, TypeOK
    <3> QED
      BY <1>1, <2>2, <3>2 DEF ReturnedWhole
  <2>7. InTime' /\ Clocks' /\ WaitIsEarned'
    BY <1>1, <2>2, BudgetFacts, <1>2 DEF IInv, InTime, Clocks, WaitIsEarned
  <2> QED
    BY <2>4, <2>5, <2>6, <2>7 DEF IInv
<1> QED
  BY <1>2, <1>3, <1>4

LEMMA EmptyPreserves == ASSUME IInv, Caller, Empty PROVE IInv'
<1>1. queue' = queue
  BY CallerKeeps DEF Empty, TimedOut
<1> QED
  BY <1>1, AbortPreserves DEF Empty

-----------------------------------------------------------------------------
(***************************************************************************)
(* Time.                                                                   *)
(***************************************************************************)
LEMMA TickFacts ==
    ASSUME IInv, Tick
    PROVE  /\ UNCHANGED <<pump, queue, sent, broke, caller, got, closed, transport, total>> /\ Cap' = Cap
           /\ elapsed' = IF elapsed < Cap THEN elapsed + 1 ELSE elapsed
           /\ silence' = IF silence < Idle THEN silence + 1 ELSE silence
           /\ wait' = IF wait > 0 THEN wait - 1 ELSE 0
           /\ IF Runnable THEN late < Lag /\ late' = late + 1 ELSE late' = late
<1>1. /\ elapsed \in Nat /\ silence \in Nat /\ wait \in Nat /\ Idle \in Nat /\ Cap \in Nat
      /\ elapsed <= Cap /\ silence <= Idle
  BY BudgetFacts DEF IInv, TypeOK, Clocks
<1>2. /\ UNCHANGED <<pump, queue, sent, broke, caller, got, closed, transport, total>>
      /\ IF Runnable THEN late < Lag /\ late' = late + 1 ELSE late' = late
  BY DEF Tick, pumpVars, callVars
<1>3. elapsed' = Min({elapsed + 1, Cap}) /\ silence' = Min({silence + 1, Idle}) /\ wait' = Max({wait - 1, 0})
  BY DEF Tick
<1>4. elapsed' = IF elapsed < Cap THEN elapsed + 1 ELSE elapsed
  <2>1. Min({elapsed + 1, Cap}) = IF elapsed + 1 <= Cap THEN elapsed + 1 ELSE Cap
    BY <1>1, MinFacts
  <2> QED
    BY <1>1, <1>3, <2>1
<1>5. silence' = IF silence < Idle THEN silence + 1 ELSE silence
  <2>1. Min({silence + 1, Idle}) = IF silence + 1 <= Idle THEN silence + 1 ELSE Idle
    BY <1>1, MinFacts
  <2> QED
    BY <1>1, <1>3, <2>1
<1>6. wait' = IF wait > 0 THEN wait - 1 ELSE 0
  <2>1. Max({wait - 1, 0}) = IF wait - 1 >= 0 THEN wait - 1 ELSE 0
    BY <1>1, MaxFacts
  <2> QED
    BY <1>1, <1>3, <2>1
<1> QED
  BY <1>2, <1>4, <1>5, <1>6 DEF Cap

LEMMA TickPreserves == ASSUME IInv, Tick PROVE IInv'
<1>1. /\ elapsed \in Nat /\ silence \in Nat /\ wait \in Nat /\ late \in Nat /\ total \in Nat
      /\ Idle \in Nat /\ Idle > 0 /\ Lag \in Nat /\ Cap \in Nat
      /\ total # NoTotal => Cap = total + 2 * Lag + 1
  BY BudgetFacts DEF IInv, TypeOK
<1>2. TypeOK'
  <2>1. elapsed' \in Nat /\ silence' \in Nat /\ wait' \in Nat /\ late' \in Nat
    BY <1>1, TickFacts
  <2> QED
    BY <2>1, TickFacts DEF IInv, TypeOK
<1>3. GotIsPrefix' /\ PumpOrder' /\ UsageIsLast' /\ ReturnedWhole'
  BY TickFacts DEF IInv, GotIsPrefix, PumpOrder, UsageIsLast, ReturnedWhole, Live
<1>4. QueueIsRest'
  <2>1. UNCHANGED <<pump, queue, sent, broke, caller, got>>
    BY TickFacts
  <2> QED
    BY <2>1 DEF IInv, QueueIsRest, Live, Unseen, Errors, Ends
<1>5. Clocks'
  BY <1>1, TickFacts DEF IInv, Clocks
<1>6. InTime'
  <2>1. late' <= Lag
    BY <1>1, TickFacts DEF IInv, InTime
  <2>2. ASSUME caller = "check", total # NoTotal PROVE elapsed' <= total + Lag + late'
    <3>1. late < Lag /\ late' = late + 1
      BY <2>2, TickFacts DEF Runnable
    <3> QED
      BY <1>1, <2>2, <3>1, TickFacts DEF IInv, InTime
  <2>3. ASSUME caller = "waiting", total # NoTotal PROVE elapsed' + wait' <= total + late'
    <3>1. wait > 0 \/ (late < Lag /\ late' = late + 1)
      BY <1>1, <2>3, TickFacts DEF Runnable, TimedOut
    <3> QED
      BY <1>1, <2>3, <3>1, TickFacts DEF IInv, InTime
  <2> QED
    BY <2>1, <2>2, <2>3, TickFacts DEF InTime
<1>7. WaitIsEarned'
  <2> SUFFICES ASSUME caller = "waiting", queue = <<>>
               PROVE  wait' + silence' >= Idle \/ (total # NoTotal /\ elapsed' + wait' >= total)
    BY TickFacts DEF WaitIsEarned
  <2>1. wait + silence >= Idle \/ (total # NoTotal /\ elapsed + wait >= total)
    BY DEF IInv, WaitIsEarned
  <2>2. CASE wait + silence >= Idle
    BY <1>1, <2>2, TickFacts DEF IInv, Clocks
  <2>3. CASE total # NoTotal /\ elapsed + wait >= total
    BY <1>1, <2>3, TickFacts DEF IInv, Clocks
  <2> QED
    BY <2>1, <2>2, <2>3
<1> QED
  BY <1>2, <1>3, <1>4, <1>5, <1>6, <1>7 DEF IInv

LEMMA StutterPreserves == ASSUME IInv, UNCHANGED vars PROVE IInv'
<1>1. UNCHANGED <<elapsed, silence, transport, total, pump, queue, sent, broke, caller, wait, late, got, closed>>
  BY DEF vars
<1>2. TypeOK' /\ GotIsPrefix' /\ PumpOrder'
  BY <1>1 DEF IInv, TypeOK, GotIsPrefix, PumpOrder, Live
<1>3. QueueIsRest'
  BY <1>1 DEF IInv, QueueIsRest, Live, Unseen, Errors, Ends
<1>4. InTime' /\ Clocks' /\ WaitIsEarned'
  BY <1>1 DEF IInv, InTime, Clocks, Cap, WaitIsEarned
<1>5. UsageIsLast' /\ ReturnedWhole'
  BY <1>1 DEF IInv, UsageIsLast, ReturnedWhole
<1> QED
  BY <1>2, <1>3, <1>4, <1>5 DEF IInv

LEMMA StepPreserves == IInv /\ [Next]_vars => IInv'
<1> SUFFICES ASSUME IInv, [Next]_vars PROVE IInv'
  OBVIOUS
<1>1. CASE \E c \in Chunks : Put(c)
  BY <1>1, PutPreserves
<1>2. CASE Exhausted \/ ReadFails \/ PutDone
  BY <1>2, ExhaustedPreserves, ReadFailsPreserves, PutDonePreserves
<1>3. CASE Caller
  <2>1. CheckTotal \/ TakeItem \/ Empty
    BY <1>3 DEF Caller
  <2> QED
    BY <1>3, <2>1, CheckTotalPreserves, TakeItemPreserves, EmptyPreserves
<1>4. CASE Tick
  BY <1>4, TickPreserves
<1>5. CASE Finished \/ UNCHANGED vars
  BY <1>5, StutterPreserves DEF Finished
<1> QED
  BY <1>1, <1>2, <1>3, <1>4, <1>5 DEF Next

-----------------------------------------------------------------------------
(* The inductive invariant holds of every stream.                          *)
THEOREM StreamInvariant == Spec => []IInv
  BY InitIInv, StepPreserves, PTL DEF Spec

-----------------------------------------------------------------------------
(***************************************************************************)
(* The refinement.  The state of the contract:                             *)
(***************************************************************************)
Source  == IF broke THEN "failed" ELSE IF pump = "gone" THEN "ended" ELSE "open"
Outcome == IF Live THEN "open" ELSE caller
Settled == caller = "returned" /\ UsageReported

(* Its steps, in these terms.                                              *)
Sends   == /\ Source = "open" /\ \E c \in Chunks : sent' = Append(sent, c)
           /\ silence' = 0 /\ CountIsFinal' \in BOOLEAN
           /\ UNCHANGED <<Source, elapsed, total, got, Outcome, Settled>>
Stops   == /\ Source = "open" /\ Source' \in {"ended", "failed"}
           /\ UNCHANGED <<sent, silence, elapsed, total, CountIsFinal, got, Outcome, Settled>>
TimePasses == /\ Outcome = "open" /\ total # NoTotal => elapsed < total + 2 * Lag
              /\ silence' = IF silence < Idle THEN silence + 1 ELSE silence
              /\ elapsed' = IF elapsed < Cap THEN elapsed + 1 ELSE elapsed
              /\ UNCHANGED <<sent, Source, total, CountIsFinal, got, Outcome, Settled>>
Gives   == /\ Outcome = "open" /\ Len(got) < Len(sent) /\ got' = Append(got, sent[Len(got) + 1])
           /\ UNCHANGED <<sent, Source, silence, elapsed, total, CountIsFinal, Outcome, Settled>>
Finishes   == /\ Outcome = "open" /\ got = sent
           /\ \/ Source = "ended" /\ Outcome' = "returned" /\ Settled' \in {FALSE, CountIsFinal}
              \/ Source = "failed" /\ Outcome' = "error" /\ Settled' = Settled
              \/ Source = "open" /\ silence >= Idle /\ Outcome' = "idle" /\ Settled' = Settled
           /\ UNCHANGED <<sent, Source, silence, elapsed, total, CountIsFinal, got>>
Exceeds == /\ Outcome = "open" /\ total # NoTotal /\ elapsed >= total /\ Outcome' = "total"
           /\ UNCHANGED <<sent, Source, silence, elapsed, total, CountIsFinal, got, Settled>>
Rests   == UNCHANGED <<sent, Source, silence, elapsed, total, CountIsFinal, got, Outcome, Settled>>

LEMMA StepsAreSteps ==
    ASSUME Sends \/ Stops \/ TimePasses \/ Gives \/ Finishes \/ Exceeds \/ Rests
    PROVE  [BS!Next]_(BS!vars)
<1> USE DEF Source, Outcome, Settled, BS!Next, BS!vars
<1>1. CASE Sends
  BY <1>1 DEF Sends, BS!Send
<1>2. CASE Stops
  BY <1>2 DEF Stops, BS!Stop
<1>3. CASE TimePasses
  BY <1>3 DEF TimePasses, BS!Pass, BS!Old, BS!NoTotal, NoTotal, Cap
<1>4. CASE Gives
  BY <1>4 DEF Gives, BS!Give
<1>5. CASE Finishes
  BY <1>5 DEF Finishes, BS!Finish
<1>6. CASE Exceeds
  BY <1>6 DEF Exceeds, BS!Exceed, BS!NoTotal, NoTotal
<1>7. CASE Rests
  BY <1>7 DEF Rests
<1> QED
  BY <1>1, <1>2, <1>3, <1>4, <1>5, <1>6, <1>7

(* The count of the tokens is known only of a call that returned.          *)
LEMMA KnownFacts == caller # "returned" => Settled = FALSE
  BY DEF Settled

LEMMA CountKeeps ==
    ASSUME UNCHANGED <<sent, transport>>
    PROVE  CountIsFinal' = CountIsFinal
  BY DEF CountIsFinal

LEMMA CallKeeps ==
    ASSUME UNCHANGED <<caller, got, transport>>
    PROVE  Outcome' = Outcome /\ Settled' = Settled
  BY DEF Outcome, Live, Settled, UsageReported, OpenaiReported, AnthropicReported

(* A stream that returned with its usage has it from the last chunk.       *)
LEMMA ReportIsTrue ==
    ASSUME IInv, got = sent, UsageReported
    PROVE  CountIsFinal
<1>1. sent \in Seq(Chunks) /\ DOMAIN sent = 1..Len(sent) /\ Len(sent) \in Nat
  BY DEF IInv, TypeOK
<1>2. CASE transport = "openai"
  <2>1. PICK i \in 1..Len(sent) : sent[i] = "usage"
    BY <1>1, <1>2 DEF UsageReported, OpenaiReported, Range
  <2>2. sent[Len(sent)] = "usage"
    BY <1>1, <2>1 DEF IInv, UsageIsLast
  <2>3. sent # <<>>
    BY <1>1, <2>1
  <2> QED
    BY <1>2, <2>2, <2>3 DEF CountIsFinal, Last
<1>3. CASE transport # "openai"
  <2>1. "start" \in Range(sent) /\ \E i \in 1..Len(sent) : sent[i] = "finish"
    BY <1>1, <1>3 DEF UsageReported, AnthropicReported, Range
  <2>2. sent[Len(sent)] \in {"finish", "usage"}
    BY <1>1, <2>1 DEF IInv, UsageIsLast
  <2>3. sent # <<>>
    BY <1>1, <2>1
  <2> QED
    BY <1>3, <2>1, <2>2, <2>3 DEF CountIsFinal, Last
<1> QED
  BY <1>2, <1>3

LEMMA PumpSteps ==
    ASSUME IInv, (\E c \in Chunks : Put(c)) \/ Exhausted \/ ReadFails \/ PutDone
    PROVE  Sends \/ Stops \/ Rests
<1>1. UNCHANGED <<caller, got, transport, total, elapsed>>
  BY DEF Put, Exhausted, ReadFails, PutDone, callerVars, callVars
<1>2. UNCHANGED <<Outcome, Settled>>
  BY <1>1, CallKeeps
<1>3. broke => pump # "reading"
  BY DEF IInv, PumpOrder
<1>4. CASE \E c \in Chunks : Put(c)
  <2>1. /\ \E c \in Chunks : sent' = Append(sent, c)
        /\ silence' = 0 /\ pump = "reading" /\ UNCHANGED <<pump, broke>>
    BY <1>4 DEF Put
  <2>2. CountIsFinal' \in BOOLEAN
    BY DEF CountIsFinal
  <2> QED
    BY <1>1, <1>2, <1>3, <2>1, <2>2 DEF Sends, Source
<1>5. CASE Exhausted \/ ReadFails \/ PutDone
  <2>1. UNCHANGED <<sent, silence, CountIsFinal>>
    <3>1. UNCHANGED <<sent, silence, transport>>
      BY <1>1, <1>5 DEF Exhausted, ReadFails, PutDone
    <3> QED
      BY <3>1, CountKeeps
  <2>2. CASE Exhausted
    BY <1>1, <1>2, <1>3, <2>1, <2>2 DEF Exhausted, Rests, Source
  <2>3. CASE ReadFails
    BY <1>1, <1>2, <1>3, <2>1, <2>3 DEF ReadFails, Stops, Source
  <2>4. CASE PutDone
    BY <1>1, <1>2, <1>3, <2>1, <2>4 DEF PutDone, Stops, Rests, Source
  <2> QED
    BY <1>5, <2>2, <2>3, <2>4
<1> QED
  BY <1>4, <1>5

LEMMA CallerSteps ==
    ASSUME IInv, Caller
    PROVE  Gives \/ Finishes \/ Exceeds \/ Rests
<1>1. UNCHANGED <<pump, sent, broke, elapsed, silence, transport, total>> /\ Live
  BY CallerKeeps
<1>2. UNCHANGED <<sent, Source, silence, elapsed, total, CountIsFinal>> /\ Outcome = "open"
  BY <1>1, CountKeeps DEF Source, Outcome
<1>3. caller # "returned" /\ Settled = FALSE
  BY <1>1, KnownFacts DEF Live, Outcomes
<1>4. ASSUME caller' # "returned" PROVE Settled' = Settled
  BY <1>3, <1>4 DEF Settled
<1>5. CASE CheckTotal
  <2>1. CASE total # NoTotal /\ elapsed >= total
    BY <1>2, <1>4, <1>5, <2>1 DEF CheckTotal, Abort, Exceeds, Outcome, Live, Outcomes
  <2>2. CASE ~(total # NoTotal /\ elapsed >= total)
    BY <1>2, <1>4, <1>5, <2>2 DEF CheckTotal, Rests, Outcome, Live, Outcomes
  <2> QED
    BY <2>1, <2>2
<1>6. CASE TakeItem
  <2>1. TypeOK /\ Unseen \in Nat /\ queue # <<>>
    BY <1>6 DEF IInv, GotIsPrefix, Unseen, TypeOK, TakeItem
  <2>2. CASE Unseen > 0
    <3> DEFINE c == sent[Len(got) + 1]
    <3>1. Head(queue) = Item(c) /\ c \in Chunks /\ Len(got) < Len(sent)
      BY <1>1, <2>1, <2>2, HeadFacts DEF Unseen, TypeOK
    <3>2. caller' = "check" /\ got' = Append(got, c)
      BY <1>6, <3>1, ItemFacts DEF TakeItem
    <3> QED
      BY <1>2, <1>4, <3>1, <3>2 DEF Gives, Outcome, Live, Outcomes
  <2>3. CASE Unseen = 0
    <3>1. got = sent
      BY <2>1, <2>3 DEF IInv, GotIsPrefix, Unseen, TypeOK
    <3>2. CASE Head(queue) = Error /\ broke
      <4>1. caller' = "error" /\ got' = got
        BY <1>6, <3>2, ItemFacts DEF TakeItem
      <4>2. Source = "failed" /\ Outcome' = "error" /\ Settled' = Settled
        BY <1>4, <3>2, <4>1 DEF Source, Outcome, Live, Outcomes
      <4> QED
        BY <1>2, <3>1, <4>1, <4>2 DEF Finishes
    <3>3. CASE Head(queue) = Done /\ ~broke /\ pump = "gone"
      <4>1. caller' = "returned" /\ got' = got
        BY <1>6, <3>3, ItemFacts DEF TakeItem
      <4>2. Source = "ended" /\ Outcome' = "returned"
        BY <3>3, <4>1 DEF Source, Outcome, Live, Outcomes
      <4>3. Settled' \in {FALSE, CountIsFinal}
        <5>1. UsageReported' => UsageReported
          BY <1>1, <4>1 DEF UsageReported, OpenaiReported, AnthropicReported
        <5>2. CASE Settled'
          <6>1. CountIsFinal
            BY <3>1, <5>1, <5>2, ReportIsTrue DEF Settled
          <6>2. Settled' = TRUE /\ CountIsFinal = TRUE
            BY <5>2, <6>1 DEF Settled, CountIsFinal
          <6> QED
            BY <6>2
        <5>3. CASE ~Settled'
          <6>1. Settled' = FALSE
            BY <5>3 DEF Settled
          <6> QED
            BY <6>1
        <5> QED
          BY <5>2, <5>3
      <4> QED
        BY <1>2, <3>1, <4>1, <4>2, <4>3 DEF Finishes
    <3> QED
      BY <1>1, <2>1, <2>3, <3>2, <3>3, HeadFacts
  <2> QED
    BY <2>1, <2>2, <2>3
<1>7. CASE Empty
  <2>1. caller = "waiting" /\ queue = <<>> /\ wait = 0 /\ TypeOK
    BY <1>7 DEF Empty, TimedOut, IInv
  <2>2. CASE total # NoTotal /\ elapsed >= total
    BY <1>2, <1>4, <1>7, <2>2 DEF Empty, Abort, Exceeds, Outcome, Live, Outcomes
  <2>3. CASE ~(total # NoTotal /\ elapsed >= total)
    <3>1. caller' = "idle" /\ got' = got /\ Outcome' = "idle"
      BY <1>7, <2>3 DEF Empty, Abort, Outcome, Live, Outcomes
    <3>2. silence >= Idle
      BY <2>1, <2>3, BudgetFacts DEF IInv, WaitIsEarned, TypeOK
    <3>3. Len(queue) = 0 /\ Len(queue) = Unseen + Errors + Ends
      BY <1>1, <2>1 DEF IInv, QueueIsRest
    <3>4. Unseen \in Nat /\ Errors \in Nat /\ Ends \in Nat
      BY <2>1 DEF IInv, GotIsPrefix, Unseen, TypeOK, Errors, Ends
    <3>5. Unseen = 0 /\ Errors = 0 /\ Ends = 0
      BY <3>3, <3>4
    <3>6. got = sent
      BY <2>1, <3>5 DEF IInv, GotIsPrefix, Unseen, TypeOK
    <3>7. ~broke /\ pump # "gone"
      BY <3>5 DEF Errors, Ends
    <3>8. Source = "open"
      BY <3>7 DEF Source
    <3> QED
      BY <1>2, <1>4, <3>1, <3>2, <3>6, <3>8 DEF Finishes
  <2> QED
    BY <2>2, <2>3
<1> QED
  BY <1>5, <1>6, <1>7 DEF Caller

LEMMA TickSteps == ASSUME IInv, Tick PROVE TimePasses
<1>1. UNCHANGED <<pump, sent, broke, caller, got, transport, total>>
  BY TickFacts
<1>2. UNCHANGED <<sent, Source, total, CountIsFinal, got, Outcome, Settled>>
  BY <1>1, CountKeeps, CallKeeps DEF Source
<1>3. ASSUME Outcome = "open", total # NoTotal PROVE elapsed < total + 2 * Lag
  <2>1. /\ elapsed \in Nat /\ wait \in Nat /\ late \in Nat /\ total \in Nat /\ Lag \in Nat
        /\ caller \in {"check", "waiting"}
    BY <1>3, BudgetFacts DEF IInv, TypeOK, Outcome, Live, Outcomes
  <2>2. late <= Lag
    BY DEF IInv, InTime
  <2>3. CASE caller = "check"
    <3>1. late < Lag /\ elapsed <= total + Lag + late
      BY <1>3, <2>3, TickFacts DEF Runnable, IInv, InTime
    <3> QED
      BY <2>1, <3>1
  <2>4. CASE caller = "waiting"
    <3>1. elapsed + wait <= total + late /\ (late < Lag \/ wait > 0)
      BY <1>3, <2>1, <2>4, TickFacts DEF Runnable, TimedOut, IInv, InTime
    <3> QED
      BY <2>1, <2>2, <3>1
  <2> QED
    BY <2>1, <2>3, <2>4
<1> QED
  BY <1>2, <1>3, TickFacts DEF TimePasses

LEMMA InitSteps == Init => BS!Init
<1> SUFFICES ASSUME Init PROVE BS!Init
  OBVIOUS
<1>1. Live /\ caller # "returned"
  BY DEF Init, Live, Outcomes
<1>2. CountIsFinal = FALSE /\ (caller = "returned" /\ UsageReported) = FALSE
  BY <1>1 DEF Init, CountIsFinal
<1> QED
  BY <1>1, <1>2 DEF Init, BS!Init

(* _iter_with_idle_timeout and its accumulators keep the contract of a     *)
(* streamed call: every step of the two threads, of the provider and of    *)
(* the clock is a step of the contract, or none.                           *)
THEOREM StreamKeepsContract == Spec => Contract
<1>1. IInv /\ [Next]_vars => [BS!Next]_(BS!vars)
  <2> SUFFICES ASSUME IInv, [Next]_vars PROVE [BS!Next]_(BS!vars)
    OBVIOUS
  <2>1. CASE (\E c \in Chunks : Put(c)) \/ Exhausted \/ ReadFails \/ PutDone
    BY <2>1, PumpSteps, StepsAreSteps
  <2>2. CASE Caller
    BY <2>2, CallerSteps, StepsAreSteps
  <2>3. CASE Tick
    BY <2>3, TickSteps, StepsAreSteps
  <2>4. CASE Finished \/ UNCHANGED vars
    <3>1. UNCHANGED <<sent, transport, caller, got, silence, elapsed, total, broke, pump>>
      BY <2>4 DEF Finished, vars
    <3>2. Rests
      BY <3>1, CountKeeps, CallKeeps DEF Rests, Source
    <3> QED
      BY <3>2, StepsAreSteps
  <2> QED
    BY <2>1, <2>2, <2>3, <2>4 DEF Next
<1> QED
  BY <1>1, InitSteps, StreamInvariant, PTL DEF Spec, Contract, BS!Spec
-----------------------------------------------------------------------------
(***************************************************************************)
(* Model routing: the types of Router's state.                             *)
(***************************************************************************)
Labels == {"idle", "newlock", "takelock", "waitlock", "find", "enter", "poll", "write", "load",
           "build", "pick", "resolve", "send", "bill", "done"}
Routes == [by : {"edge", "direct"}, name : WireNames, primary : Ids, primaryModel : Upstreams,
           model : Upstreams, skips : SUBSET Ids]
Calls == [pc : Labels, request : Requests \cup {None}, lock : Callers \cup {None},
          version : Versions \cup {None}, resolvedBy : Versions \cup {None},
          route : Routes \cup {None}, served : Serveds \cup {None},
          billed : Upstreams \cup {None}, answer : Answers \cup {None}]
RouterTyped ==
  /\ source \in {"file", "appconfig", "nowhere"}
  /\ deployed \in Versions /\ edge \in Versions
  /\ file \in Versions \cup {Torn, None} /\ cached \in BOOLEAN /\ due \in BOOLEAN
  /\ routerLock \in Callers \cup {None} /\ held \in [Callers -> Callers \cup {None}]
  /\ router \in Versions \cup {None}
  /\ call \in [Callers -> Calls]

(***************************************************************************)
(* _find_registry: the registry a call is about to load is there.  A call  *)
(* that polls AppConfig is configured to, the cache file it writes or      *)
(* loads exists, if only torn, and a call that reads a path has its        *)
(* version.                                                                *)
(***************************************************************************)
RegistryAtHand ==
  \A c \in Callers :
    /\ call[c].pc \in {"enter", "poll", "write"} => source = "appconfig"
    /\ call[c].pc \in {"load", "write"} /\ source = "appconfig" => file # None
    /\ call[c].pc = "load" /\ source # "appconfig" => call[c].version \in Versions

(***************************************************************************)
(* resolve_group, resolve_model: a call's route is what the registry it    *)
(* resolved by says of its request.  A pinned model goes over the edge by  *)
(* its own name and a group by the group's; a direct route is to an        *)
(* admissible member of the group with an endpoint in the caller's reach,  *)
(* and nothing before it in the chain would have done.                     *)
(***************************************************************************)
RouteOK(p) ==
  LET r == RegistryOf[p.resolvedBy]
      q == p.request IN
  /\ p.resolvedBy \in Versions /\ p.route \in Routes
  /\ q.what = "model" => p.route = EdgeRoute(r, IdName(q.model), q.model)
  /\ q.what = "group" =>
       /\ q.group \in DOMAIN r.groups /\ DOMAIN LiveIds(r, q.group, q.requires) # {}
       /\ p.route.by = "edge" => p.route = EdgeRoute(r, WireName(q.group, q.requires), Primary(r, q))
       /\ p.route.by = "direct" =>
            LET m == p.route.name.id IN
            /\ m \in Range(r.groups[q.group]) /\ Admissible(r, m, q.requires)
            /\ ReachableFrom(r, m, q.context) /\ HasEndpoint(r, m, q.wire)
            /\ FallThroughIsJustified(r, q, p.route)

(***************************************************************************)
(* What the edge served: an entry of its own chain for the name, reported  *)
(* by that name when it is the first and by another when it fell back.     *)
(***************************************************************************)
EdgeServed(p) ==
  LET name == p.route.name
      chain == EdgeChain(RegistryOf[p.served.version], name) IN
  /\ p.route.by = "edge" /\ p.served \in Serveds
  /\ \E i \in DOMAIN chain :
       /\ p.served.id = chain[i]
       /\ \/ i = First(DOMAIN chain) /\ p.served.reported = name
          \/ /\ i # First(DOMAIN chain)
             /\ p.served.reported \in {DeploymentName(name.group, chain[i]),
                  UpstreamName(RegistryOf[p.served.version].models[chain[i]].model)}

(***************************************************************************)
(* How a call that was answered ended: a direct one by the very model it   *)
(* resolved to, an edge one by a model that may be billed for the name the *)
(* edge reported, and an in-process pick by a member that is not cooling   *)
(* down unless all are.                                                    *)
(***************************************************************************)
DirectDone(p) ==
  LET u == RegistryOf[p.version].models[p.route.name.id].model IN
  /\ p.route.by = "direct" /\ p.version = p.resolvedBy
  /\ p.served = Served(p.route.name.id, p.version, UpstreamName(u)) /\ p.billed = u
EdgeDone(p) ==
  /\ EdgeServed(p) /\ p.version \in Versions
  /\ p.billed \in Billable(RegistryOf[p.version], p.route, p.served.reported)
PickOK(p) ==
  LET r == RegistryOf[p.served.version] IN
  /\ p.request.what = "inprocess" /\ Active(r, p.served.id)
  /\ PickIsWarm(p.served, LiveIds(r, p.request.group, {}))

(***************************************************************************)
(* What holds of a call at each of its labels.                             *)
(***************************************************************************)
CallOK(c, p) ==
  /\ p.pc # "idle" => p.request \in Requests /\ (p.request.what = "inprocess") = (c \in InProcess)
  /\ p.pc \in {"newlock", "takelock", "waitlock", "build", "pick"} => c \in InProcess
  /\ p.pc \in {"resolve", "send", "bill"} => c \notin InProcess
  /\ p.pc \in {"idle", "newlock", "takelock", "waitlock", "build", "pick", "resolve", "send"} => p.served = None
  /\ p.pc \in {"write", "build", "resolve", "pick", "send", "bill"} => p.version \in Versions
  /\ p.pc \in {"resolve", "send"} => p.resolvedBy = p.version
  /\ p.pc = "send" => RouteOK(p)
  /\ p.pc = "bill" => p.served # None
  /\ p.pc # "done" /\ p.served # None => c \notin InProcess /\ RouteOK(p) /\ EdgeServed(p)
  /\ p.pc # "done" => p.answer = None
  /\ p.pc = "done" /\ p.answer = "ok" => c \notin InProcess /\ RouteOK(p) /\ (DirectDone(p) \/ EdgeDone(p))
  /\ p.answer = "picked" /\ p.served # None => PickOK(p)

RouterInv == RouterTyped /\ RegistryAtHand /\ \A c \in Callers : CallOK(c, call[c])

(* A chain that is not empty has a first place.                            *)
LEMMA FirstPlace ==
  ASSUME NEW places \in SUBSET Nat, places # {}
  PROVE  First(places) \in places /\ \A j \in places : First(places) <= j
<1>1. PICK i \in places : \A j \in places : ~ (<<j, i>> \in OpToRel(<, Nat))
  BY WFMin, NatLessThanWellFounded, Zenon
<1>2. \A j \in places : ~ (j < i)
  BY <1>1, Zenon DEF OpToRel
<1>3. \A j \in places : i <= j
  BY <1>2
<1> QED
  BY <1>3 DEF First

(* The places of a group that are left are those the registry admits.      *)
LEMMA LivePlaces ==
  ASSUME NEW r, IsRegistry(r), NEW g \in DOMAIN r.groups, NEW requires
  PROVE  /\ r.groups[g] \in Seq(Ids) /\ g \in Groups
         /\ \A i : i \in DOMAIN LiveIds(r, g, requires) <=>
                   i \in DOMAIN r.groups[g] /\ Admissible(r, r.groups[g][i], requires)
         /\ DOMAIN r.groups[g] \subseteq Nat
         /\ \A i \in DOMAIN LiveIds(r, g, requires) :
              /\ LiveIds(r, g, requires)[i] = r.groups[g][i] /\ r.groups[g][i] \in Ids
<1>1. r.groups[g] \in Seq(Ids) /\ g \in Groups
  BY DEF IsRegistry
<1>2. DOMAIN r.groups[g] \subseteq Nat /\ \A i \in DOMAIN r.groups[g] : r.groups[g][i] \in Ids
  BY <1>1
<1> QED
  BY <1>1, <1>2 DEF LiveIds, Restrict

(* Of a chain that is left the leader is its first id.                     *)
LEMMA LeaderIsFirst ==
  ASSUME NEW r, IsRegistry(r), NEW g \in DOMAIN r.groups, NEW requires,
         DOMAIN LiveIds(r, g, requires) # {}
  PROVE  LET k == First(DOMAIN LiveIds(r, g, requires))
         IN /\ k \in DOMAIN LiveIds(r, g, requires)
            /\ \A j \in DOMAIN LiveIds(r, g, requires) : k <= j
            /\ Leader(LiveIds(r, g, requires)) = r.groups[g][k]
            /\ Admissible(r, r.groups[g][k], requires)
            /\ Leader(LiveIds(r, g, requires)) \in Ids
<1>1. DOMAIN LiveIds(r, g, requires) \in SUBSET Nat
  BY LivePlaces
<1>2. First(DOMAIN LiveIds(r, g, requires)) \in DOMAIN LiveIds(r, g, requires)
      /\ \A j \in DOMAIN LiveIds(r, g, requires) : First(DOMAIN LiveIds(r, g, requires)) <= j
  BY <1>1, FirstPlace
<1> DEFINE k == First(DOMAIN LiveIds(r, g, requires))
<1>3. LiveIds(r, g, requires)[k] = r.groups[g][k] /\ r.groups[g][k] \in Ids
      /\ Admissible(r, r.groups[g][k], requires)
  BY <1>2, LivePlaces
<1>4. Leader(LiveIds(r, g, requires)) = LiveIds(r, g, requires)[k]
  BY DEF Leader
<1> QED
  BY <1>2, <1>3, <1>4

(* A capability's chain is what a resolution finds for it.                 *)
LEMMA CapableIsLive ==
  ASSUME NEW r, IsRegistry(r), NEW g \in DOMAIN r.groups, NEW caps
  PROVE  /\ DOMAIN Capable(r, g, caps) = DOMAIN LiveIds(r, g, caps)
         /\ \A i \in DOMAIN Capable(r, g, caps) : Capable(r, g, caps)[i] = LiveIds(r, g, caps)[i]
<1> DEFINE ids == r.groups[g]
           live == LiveIds(r, g, {})
<1>1. \A requires :
        /\ \A i : i \in DOMAIN LiveIds(r, g, requires) <=> i \in DOMAIN ids /\ Admissible(r, ids[i], requires)
        /\ \A i \in DOMAIN LiveIds(r, g, requires) : LiveIds(r, g, requires)[i] = ids[i]
  <2>1. SUFFICES ASSUME NEW requires
                 PROVE  /\ \A i : i \in DOMAIN LiveIds(r, g, requires) <=>
                                  i \in DOMAIN ids /\ Admissible(r, ids[i], requires)
                        /\ \A i \in DOMAIN LiveIds(r, g, requires) : LiveIds(r, g, requires)[i] = ids[i]
    OBVIOUS
  <2> QED
    BY LivePlaces
<1>2. DOMAIN Capable(r, g, caps) = {i \in DOMAIN live : \A c \in caps : live[i] \in Range(LiveIds(r, g, {c}))}
      /\ \A i \in DOMAIN Capable(r, g, caps) : Capable(r, g, caps)[i] = live[i]
  BY DEF Capable, Restrict
<1>3. \A i \in DOMAIN ids : i \in DOMAIN live <=> Active(r, ids[i])
  BY <1>1 DEF Admissible, Declares
<1>4. \A i \in DOMAIN live : \A c :
         live[i] \in Range(LiveIds(r, g, {c})) <=> c \in r.models[ids[i]].caps
  <2>1. SUFFICES ASSUME NEW i \in DOMAIN live, NEW c
                 PROVE  live[i] \in Range(LiveIds(r, g, {c})) <=> c \in r.models[ids[i]].caps
    OBVIOUS
  <2>2. live[i] = ids[i] /\ Active(r, ids[i]) /\ i \in DOMAIN ids
    BY <2>1, <1>1, <1>3
  <2>3. live[i] \in Range(LiveIds(r, g, {c})) <=> \E j \in DOMAIN LiveIds(r, g, {c}) : ids[j] = ids[i]
    BY <2>2, <1>1 DEF Range
  <2>4. \A j \in DOMAIN ids : j \in DOMAIN LiveIds(r, g, {c}) <=> Active(r, ids[j]) /\ c \in r.models[ids[j]].caps
    <3>1. \A j : j \in DOMAIN LiveIds(r, g, {c}) <=> j \in DOMAIN ids /\ Admissible(r, ids[j], {c})
      BY LivePlaces
    <3> QED
      BY <3>1 DEF Admissible, Declares
  <2> QED
    BY <2>2, <2>3, <2>4, <1>1
<1>5. \A i \in DOMAIN ids : i \in DOMAIN LiveIds(r, g, caps) <=> Active(r, ids[i]) /\ caps \subseteq r.models[ids[i]].caps
  BY <1>1 DEF Admissible, Declares
<1>6. \A i : i \in DOMAIN live \/ i \in DOMAIN LiveIds(r, g, caps) => i \in DOMAIN ids
  BY <1>1
<1>7. \A i : i \in DOMAIN Capable(r, g, caps) <=> i \in DOMAIN LiveIds(r, g, caps)
  <2>1. SUFFICES ASSUME NEW i \in DOMAIN ids
                 PROVE  i \in DOMAIN Capable(r, g, caps) <=> i \in DOMAIN LiveIds(r, g, caps)
    BY <1>2, <1>6
  <2>2. i \in DOMAIN Capable(r, g, caps) <=>
          i \in DOMAIN live /\ \A c \in caps : live[i] \in Range(LiveIds(r, g, {c}))
    BY <1>2
  <2>3. i \in DOMAIN live => ((\A c \in caps : live[i] \in Range(LiveIds(r, g, {c})))
                               <=> caps \subseteq r.models[ids[i]].caps)
    BY <1>4
  <2> QED
    BY <2>2, <2>3, <1>3, <1>5
<1>8. \A i \in DOMAIN Capable(r, g, caps) : Capable(r, g, caps)[i] = LiveIds(r, g, caps)[i]
  BY <1>1, <1>2, <1>7
<1> QED
  BY <1>7, <1>8

(* A name the edge is asked for is of a group with a member left.          *)
LEMMA NamesAreLive ==
  ASSUME NEW r, NEW name \in Names(r)
  PROVE  name.group \in LiveGroups(r)
<1>1. CASE name \in Deployments(r)
  <2>1. \E g \in LiveGroups(r) : name \in {DeploymentName(g, m) : m \in Range(LiveIds(r, g, {}))}
    BY <1>1 DEF Deployments
  <2> QED
    BY <2>1 DEF DeploymentName
<1>2. CASE name \in {GroupName(g) : g \in LiveGroups(r)}
  BY <1>2 DEF GroupName
<1>3. CASE name \in {CapabilityName(x[1], x[2]) : x \in CapabilityGroups(r)}
  <2>1. PICK x \in CapabilityGroups(r) : name = CapabilityName(x[1], x[2])
    BY <1>3
  <2>2. x[1] \in LiveGroups(r)
    BY DEF CapabilityGroups
  <2> QED
    BY <2>1, <2>2 DEF CapabilityName
<1> QED
  BY <1>1, <1>2, <1>3 DEF Names

(* The edge serves a group by the members that are left of it. *)
LEMMA EdgeServesGroup ==
  ASSUME NEW r, IsRegistry(r), NEW g, NEW requires,
         NEW chain, chain = EdgeChain(r, WireName(g, requires)), DOMAIN chain # {}
  PROVE  /\ g \in DOMAIN r.groups
         /\ DOMAIN chain = DOMAIN LiveIds(r, g, requires)
         /\ \A i \in DOMAIN chain : chain[i] = LiveIds(r, g, requires)[i]
<1> DEFINE name == WireName(g, requires)
<1>1. "group" \in DOMAIN name /\ name.group = g
  BY DEF WireName, GroupName, CapabilityName
<1>2. name \in Names(r) /\ chain = Chain(r, name)
  BY <1>1 DEF EdgeChain
<1>3. g \in DOMAIN r.groups
  BY <1>1, <1>2, NamesAreLive DEF LiveGroups
<1>4. CASE requires = {}
  <2>1. name = [group |-> g]
    BY <1>4 DEF WireName, GroupName
  <2>2. DOMAIN name = {"group"}
    BY <2>1
  <2>3. Chain(r, name) = LiveIds(r, g, {})
    BY <2>2, <1>1 DEF Chain
  <2> QED
    BY <1>2, <1>3, <1>4, <2>3
<1>5. CASE requires # {}
  <2>1. name = [group |-> g, caps |-> requires]
    BY <1>5 DEF WireName, CapabilityName
  <2>2. "caps" \in DOMAIN name /\ name.caps = requires
    BY <2>1
  <2>3. DOMAIN name # {"group"}
    BY <2>2
  <2>4. Chain(r, name) = Capable(r, g, requires)
    BY <1>1, <2>2, <2>3 DEF Chain
  <2> QED
    BY <1>2, <1>3, <2>4, CapableIsLive
<1> QED
  BY <1>4, <1>5

(* The edge serves a pinned model by that model alone.                     *)
LEMMA EdgeServesModel ==
  ASSUME NEW r, NEW m, NEW chain, chain = EdgeChain(r, IdName(m)), DOMAIN chain # {}
  PROVE  DOMAIN chain = {1} /\ chain[1] = m /\ Active(r, m)
<1>1. "group" \notin DOMAIN IdName(m) /\ IdName(m).id = m
  BY DEF IdName
<1>2. chain = IF Active(r, m) THEN <<m>> ELSE <<>>
  BY <1>1 DEF EdgeChain
<1> QED
  BY <1>2

(* The kinds of names on the wire are told apart by their parts.           *)
LEMMA NameParts ==
  ASSUME NEW g, NEW m, NEW u, NEW requires
  PROVE  /\ DOMAIN IdName(m) = {"id"} /\ IdName(m).id = m
         /\ DOMAIN DeploymentName(g, m) = {"group", "id"} /\ DeploymentName(g, m).id = m
         /\ DOMAIN UpstreamName(u) = {"upstream"} /\ UpstreamName(u).upstream = u
         /\ DOMAIN WireName(g, requires) \in {{"group"}, {"group", "caps"}}
         /\ WireName(g, requires).group = g
BY DEF IdName, DeploymentName, UpstreamName, WireName, GroupName, CapabilityName

LEMMA IdOf ==
  ASSUME NEW m
  PROVE  IdName(m).id = m
BY DEF IdName

(* An id the registry knows has an entry, of a provider's model.           *)
LEMMA EntryOf ==
  ASSUME NEW v \in Versions, NEW m, Known(RegistryOf[v], m)
  PROVE  /\ IsRegistry(RegistryOf[v]) /\ m \in Ids
         /\ RegistryOf[v].models[m].model \in Upstreams
<1>1. IsRegistry(RegistryOf[v])
  BY RegistriesAssumption
<1>2. m \in DOMAIN RegistryOf[v].models
  BY DEF Known
<1>3. RegistryOf[v].models[m] \in Entries /\ m \in Ids
  BY <1>1, <1>2 DEF IsRegistry
<1> QED
  BY <1>1, <1>3 DEF Entries

LEMMA LookedUp ==
  ASSUME NEW r, NEW name, NEW u \in UpstreamsOf(r, name)
  PROVE  Known(r, name.id) /\ u = r.models[name.id].model
BY DEF UpstreamsOf

(* What a name that went over the edge is served by. *)
LEMMA EdgeServedIs ==
  ASSUME NEW p, RouteOK(p), EdgeServed(p), p.request \in Requests, p.request.what # "inprocess"
  PROVE  LET s == p.served
             q == p.request
             r == RegistryOf[s.version]
             chain == EdgeChain(r, p.route.name)
         IN /\ s.version \in Versions /\ Active(r, s.id)
            /\ q.what = "model" => /\ p.route.name = IdName(q.model) /\ s.id = q.model
                                   /\ s.reported = p.route.name
            /\ q.what = "group" =>
                 /\ p.route.name = WireName(q.group, q.requires)
                 /\ q.group \in DOMAIN r.groups
                 /\ s.id \in Range(r.groups[q.group]) /\ Admissible(r, s.id, q.requires)
                 /\ Leader(chain) = Leader(LiveIds(r, q.group, q.requires))
<1> DEFINE s == p.served
           q == p.request
           r == RegistryOf[s.version]
           chain == EdgeChain(r, p.route.name)
<1>1. s.version \in Versions /\ p.route.by = "edge"
  BY DEF EdgeServed, Serveds
<1>2. IsRegistry(r)
  BY <1>1, RegistriesAssumption
<1>3. PICK i \in DOMAIN chain :
        /\ s.id = chain[i]
        /\ \/ i = First(DOMAIN chain) /\ s.reported = p.route.name
           \/ /\ i # First(DOMAIN chain)
              /\ s.reported \in {DeploymentName(p.route.name.group, chain[i]), UpstreamName(r.models[chain[i]].model)}
  BY Zenon DEF EdgeServed
<1>4. q.what \in {"model", "group"}
  BY DEF Requests
<1>5. CASE q.what = "model"
  <2>1. p.route.name = IdName(q.model)
    BY <1>5 DEF RouteOK, EdgeRoute
  <2>2. DOMAIN chain = {1} /\ chain[1] = q.model /\ Active(r, q.model)
    BY <1>3, <2>1, EdgeServesModel
  <2>3. First({1}) = 1
    BY FirstPlace
  <2>4. i = 1 /\ i = First(DOMAIN chain)
    BY <1>3, <2>2, <2>3
  <2> QED
    BY <1>1, <1>3, <1>5, <2>1, <2>2, <2>4
<1>6. CASE q.what = "group"
  <2>1. p.route.name = WireName(q.group, q.requires)
    BY <1>1, <1>6 DEF RouteOK, EdgeRoute
  <2>2. /\ q.group \in DOMAIN r.groups
        /\ DOMAIN chain = DOMAIN LiveIds(r, q.group, q.requires)
        /\ \A j \in DOMAIN chain : chain[j] = LiveIds(r, q.group, q.requires)[j]
    <3>1. chain = EdgeChain(r, WireName(q.group, q.requires)) /\ DOMAIN chain # {}
      BY <1>3, <2>1
    <3> QED
      BY <1>2, <3>1, EdgeServesGroup
  <2>3. i \in DOMAIN r.groups[q.group] /\ Admissible(r, s.id, q.requires) /\ s.id = r.groups[q.group][i]
    <3>1. i \in DOMAIN LiveIds(r, q.group, q.requires) /\ s.id = LiveIds(r, q.group, q.requires)[i]
      BY <1>3, <2>2
    <3>2. s.id = r.groups[q.group][i]
      BY <1>2, <2>2, <3>1, LivePlaces
    <3>3. i \in DOMAIN r.groups[q.group] /\ Admissible(r, r.groups[q.group][i], q.requires)
      BY <1>2, <2>2, <3>1, LivePlaces
    <3> QED
      BY <3>2, <3>3
  <2>4. s.id \in Range(r.groups[q.group]) /\ Active(r, s.id)
    BY <2>3 DEF Range, Admissible
  <2>5. First(DOMAIN chain) \in DOMAIN chain
    BY <1>2, <1>3, <2>2, LeaderIsFirst
  <2>6. Leader(chain) = Leader(LiveIds(r, q.group, q.requires))
    BY <2>2, <2>5 DEF Leader
  <2> QED
    BY <1>1, <1>6, <2>1, <2>2, <2>3, <2>4, <2>6
<1> QED
  BY <1>4, <1>5, <1>6

(* What the invariant says of a call that was answered.                    *)
LEMMA EndedIs ==
  ASSUME RouterInv, NEW c \in Callers, Ended(c)
  PROVE  /\ call[c].request \in Requests /\ call[c].request.what # "inprocess"
         /\ RouteOK(call[c])
         /\ DirectDone(call[c]) \/ EdgeDone(call[c])
BY DEF RouterInv, CallOK, Ended

(* A direct route leads to a group's member that the registry admits. *)
LEMMA DirectIs ==
  ASSUME NEW p, RouteOK(p), DirectDone(p), p.request \in Requests, p.request.what # "inprocess"
  PROVE  LET r == RegistryOf[p.resolvedBy]
             m == p.route.name.id
             q == p.request
         IN /\ q.what = "group" /\ p.resolvedBy \in Versions /\ p.route.by = "direct"
            /\ p.served.id = m /\ p.served.version = p.resolvedBy /\ p.version = p.resolvedBy
            /\ m \in Range(r.groups[q.group]) /\ Admissible(r, m, q.requires)
            /\ ReachableFrom(r, m, q.context) /\ HasEndpoint(r, m, q.wire)
            /\ FallThroughIsJustified(r, q, p.route)
            /\ p.billed = r.models[m].model
<1>1. p.route.by = "direct" /\ p.version = p.resolvedBy /\ p.billed = RegistryOf[p.version].models[p.route.name.id].model
  BY DEF DirectDone
<1>2. p.served.id = p.route.name.id /\ p.served.version = p.version
  BY DEF DirectDone, Served
<1>3. p.request.what # "model"
  BY <1>1 DEF RouteOK, EdgeRoute
<1>4. p.request.what = "group"
  BY <1>3 DEF Requests
<1> QED
  BY <1>1, <1>2, <1>4 DEF RouteOK

(* ServedIsEligible follows from the invariant.                            *)
LEMMA InvServedIsEligible == RouterInv => ServedIsEligible
<1>1. SUFFICES ASSUME RouterInv, NEW c \in Callers, Ended(c) \/ Picked(c)
               PROVE  LET s == call[c].served
                          request == call[c].request
                          r == RegistryOf[s.version] IN
                      /\ Active(r, s.id)
                      /\ Picked(c) => PickIsWarm(s, LiveIds(r, request.group, {}))
                      /\ request.what = "model" => s.id = request.model /\ call[c].route.by = "edge"
                      /\ request.what = "group" =>
                           /\ request.requires \subseteq r.models[s.id].caps
                           /\ s.id \in Range(r.groups[request.group])
                           /\ call[c].route.by = "direct" =>
                                ReachableFrom(r, s.id, request.context) /\ request.wire \in r.models[s.id].wires
  BY Zenon DEF ServedIsEligible
<1> DEFINE p == call[c]
           r == RegistryOf[p.served.version]
<1>2. CASE Picked(c)
  <2>1. PickOK(p)
    BY <1>1, <1>2 DEF RouterInv, CallOK, Picked
  <2> QED
    BY <2>1 DEF PickOK
<1>3. CASE Ended(c)
  <2>1. p.request \in Requests /\ p.request.what # "inprocess" /\ RouteOK(p) /\ (DirectDone(p) \/ EdgeDone(p))
    BY <1>1, <1>3, EndedIs
  <2>2. ~ Picked(c)
    BY <1>3 DEF Ended, Picked
  <2>3. CASE DirectDone(p)
    <3>1. p.request.what = "group" /\ Admissible(r, p.served.id, p.request.requires)
          /\ p.served.id \in Range(r.groups[p.request.group])
          /\ ReachableFrom(r, p.served.id, p.request.context) /\ HasEndpoint(r, p.served.id, p.request.wire)
      BY <2>1, <2>3, DirectIs
    <3> QED
      BY <2>2, <3>1 DEF Admissible, Declares, HasEndpoint
  <2>4. CASE EdgeDone(p)
    <3>1. EdgeServed(p) /\ p.route.by = "edge"
      BY <2>4 DEF EdgeDone, EdgeServed
    <3>2. /\ Active(r, p.served.id)
          /\ p.request.what = "model" => p.served.id = p.request.model
          /\ p.request.what = "group" => /\ p.served.id \in Range(r.groups[p.request.group])
                                         /\ Admissible(r, p.served.id, p.request.requires)
      BY <2>1, <3>1, EdgeServedIs
    <3> QED
      BY <2>2, <3>1, <3>2 DEF Admissible, Declares
  <2> QED
    BY <2>1, <2>3, <2>4
<1> QED
  BY <1>1, <1>2, <1>3

(* What may be billed is a provider's model.                               *)
LEMMA BillableIsAModel ==
  ASSUME NEW p, RouteOK(p), EdgeServed(p), p.request \in Requests, p.request.what # "inprocess",
         NEW v \in Versions, NEW u \in Billable(RegistryOf[v], p.route, p.served.reported)
  PROVE  u \in Upstreams
<1> DEFINE s == p.served
           r == RegistryOf[s.version]
<1>1. s.version \in Versions /\ Active(r, s.id)
  BY EdgeServedIs
<1>2. r.models[s.id].model \in Upstreams
  BY <1>1, EntryOf DEF Active
<1>3. CASE "upstream" \in DOMAIN s.reported
  <2>1. s.reported \in WireNames \cup [cooling : SUBSET Ids]
    BY DEF EdgeServed, Serveds
  <2>2. "id" \notin DOMAIN s.reported /\ s.reported.upstream \in Upstreams
    BY <1>3, <2>1 DEF WireNames
  <2> QED
    BY <1>3, <2>2 DEF Billable
<1>4. CASE "upstream" \notin DOMAIN s.reported /\ "id" \in DOMAIN s.reported
  <2>1. u \in UpstreamsOf(RegistryOf[v], s.reported)
    BY <1>4 DEF Billable
  <2> QED
    BY <2>1, LookedUp, EntryOf
<1>5. CASE "upstream" \notin DOMAIN s.reported /\ "id" \notin DOMAIN s.reported
  <2>1. u = p.route.primaryModel
    BY <1>5 DEF Billable
  <2> QED
    BY <2>1 DEF RouteOK, Routes
<1> QED
  BY <1>3, <1>4, <1>5

(* BilledIsServed follows from the invariant.                              *)
LEMMA InvBilledIsServed == RouterInv => BilledIsServed
<1>1. SUFFICES ASSUME RouterInv, NEW c \in Callers, Ended(c)
               PROVE  LET s == call[c].served IN
                      /\ call[c].billed \in Upstreams
                      /\ s.version = call[c].version /\ s.version = call[c].resolvedBy =>
                           call[c].billed = RegistryOf[s.version].models[s.id].model
  BY Zenon DEF BilledIsServed
<1> DEFINE p == call[c]
           s == p.served
           r == RegistryOf[s.version]
<1>2. p.request \in Requests /\ p.request.what # "inprocess" /\ RouteOK(p) /\ (DirectDone(p) \/ EdgeDone(p))
  BY <1>1, EndedIs
<1>3. CASE DirectDone(p)
  <2>1. /\ p.resolvedBy \in Versions /\ s.id = p.route.name.id /\ s.version = p.resolvedBy
        /\ Admissible(r, s.id, p.request.requires) /\ p.billed = r.models[s.id].model
    BY <1>2, <1>3, DirectIs
  <2>2. p.billed \in Upstreams
    BY <2>1, EntryOf DEF Admissible, Active
  <2> QED
    BY <2>1, <2>2
<1>4. CASE EdgeDone(p)
  <2>1. /\ EdgeServed(p) /\ p.version \in Versions
        /\ p.billed \in Billable(RegistryOf[p.version], p.route, s.reported)
    BY <1>4 DEF EdgeDone
  <2>2. s.version \in Versions /\ Active(r, s.id)
    BY <1>2, <2>1, EdgeServedIs
  <2>3. r.models[s.id].model \in Upstreams
    BY <2>2, EntryOf DEF Active
  <2>4. CASE "upstream" \in DOMAIN s.reported
    <3>1. s.reported = UpstreamName(r.models[s.id].model)
      <4>1. PICK i : /\ s.id = EdgeChain(r, p.route.name)[i]
                     /\ s.reported \in {p.route.name, DeploymentName(p.route.name.group, s.id), UpstreamName(r.models[s.id].model)}
        BY <2>1 DEF EdgeServed
      <4>2. s.reported # p.route.name
        <5>1. \E m, g, req : p.route.name \in {IdName(m), WireName(g, req)}
          BY <1>2, <2>1, EdgeServedIs DEF Requests
        <5> QED
          BY <2>4, <5>1 DEF IdName, WireName, GroupName, CapabilityName
      <4>3. s.reported # DeploymentName(p.route.name.group, s.id)
        BY <2>4 DEF DeploymentName
      <4> QED
        BY <4>1, <4>2, <4>3
    <3>2. "id" \notin DOMAIN s.reported /\ s.reported.upstream = r.models[s.id].model
      BY <3>1, NameParts
    <3>3. p.billed = s.reported.upstream
      BY <2>1, <2>4, <3>2 DEF Billable
    <3> QED
      BY <2>3, <3>2, <3>3
  <2>5. CASE "upstream" \notin DOMAIN s.reported /\ "id" \in DOMAIN s.reported
    <3>1. p.billed \in UpstreamsOf(RegistryOf[p.version], s.reported)
      BY <2>1, <2>5 DEF Billable
    <3>2. Known(RegistryOf[p.version], s.reported.id) /\ p.billed = RegistryOf[p.version].models[s.reported.id].model
      BY <3>1, LookedUp
    <3>3. p.billed \in Upstreams
      BY <2>1, <3>2, EntryOf
    <3>4. s.reported.id = s.id
      <4>1. CASE p.request.what = "model"
        <5>1. s.reported = IdName(p.request.model) /\ s.id = p.request.model
          BY <1>2, <2>1, <4>1, EdgeServedIs
        <5> QED
          BY <5>1, NameParts
      <4>2. CASE p.request.what = "group"
        <5>1. p.route.name = WireName(p.request.group, p.request.requires)
          BY <1>2, <2>1, <4>2, EdgeServedIs
        <5>2. s.reported # p.route.name
          BY <2>5, <5>1 DEF WireName, GroupName, CapabilityName
        <5>3. s.reported \in {p.route.name, DeploymentName(p.route.name.group, s.id), UpstreamName(r.models[s.id].model)}
          BY <2>1 DEF EdgeServed
        <5>4. s.reported # UpstreamName(r.models[s.id].model)
          BY <2>5 DEF UpstreamName
        <5> QED
          BY <5>2, <5>3, <5>4 DEF DeploymentName
      <4> QED
        BY <1>2, <4>1, <4>2 DEF Requests
    <3> QED
      BY <3>2, <3>3, <3>4
  <2>6. CASE "upstream" \notin DOMAIN s.reported /\ "id" \notin DOMAIN s.reported
    <3>1. p.billed = p.route.primaryModel
      BY <2>1, <2>6 DEF Billable
    <3>2. p.billed \in Upstreams
      BY <1>2, <3>1 DEF RouteOK, Routes
    <3>3. ASSUME s.version = p.version, s.version = p.resolvedBy
          PROVE  p.billed = r.models[s.id].model
      <4>1. p.request.what = "group"
        <5>1. ASSUME p.request.what = "model" PROVE FALSE
          <6>1. s.reported = IdName(p.request.model)
            BY <1>2, <2>1, <5>1, EdgeServedIs
          <6> QED
            BY <2>6, <6>1, NameParts
        <5> QED
          BY <1>2, <5>1 DEF Requests
      <4>2. p.route = EdgeRoute(r, WireName(p.request.group, p.request.requires), Primary(r, p.request))
        BY <1>2, <2>1, <3>3, <4>1 DEF RouteOK, EdgeServed
      <4>3. p.billed = r.models[Primary(r, p.request)].model
        BY <3>1, <4>2 DEF EdgeRoute
      <4>4. s.id = Leader(EdgeChain(r, p.route.name))
        <5>1. PICK i : /\ s.id = EdgeChain(r, p.route.name)[i]
                       /\ \/ i = First(DOMAIN EdgeChain(r, p.route.name))
                          \/ s.reported \in {DeploymentName(p.route.name.group, s.id), UpstreamName(r.models[s.id].model)}
          BY <2>1 DEF EdgeServed
        <5>2. s.reported \notin {DeploymentName(p.route.name.group, s.id), UpstreamName(r.models[s.id].model)}
          BY <2>6 DEF DeploymentName, UpstreamName
        <5> QED
          BY <5>1, <5>2 DEF Leader
      <4>5. Leader(EdgeChain(r, p.route.name)) = Primary(r, p.request)
        BY <1>2, <2>1, <4>1, EdgeServedIs DEF Primary
      <4> QED
        BY <4>3, <4>4, <4>5
    <3> QED
      BY <3>2, <3>3
  <2> QED
    BY <2>4, <2>5, <2>6
<1> QED
  BY <1>2, <1>3, <1>4

(* FallbackIsReported follows from the invariant.                          *)
LEMMA InvFallbackIsReported == RouterInv => FallbackIsReported
<1>1. SUFFICES ASSUME RouterInv, NEW c \in Callers, Ended(c)
               PROVE  LET s == call[c].served
                          route == call[c].route IN
                      /\ route.by = "edge" =>
                           LET chain == EdgeChain(RegistryOf[s.version], route.name) IN
                           /\ s.id # Leader(chain) => FallbackUsed(c)
                           /\ FallbackUsed(c) => \E i \in DOMAIN chain \ {First(DOMAIN chain)} : chain[i] = s.id
                      /\ route.by = "direct" =>
                           FallThroughIsJustified(RegistryOf[call[c].resolvedBy], call[c].request, route)
  BY Zenon DEF FallbackIsReported
<1> DEFINE p == call[c]
           s == p.served
           r == RegistryOf[s.version]
           chain == EdgeChain(r, p.route.name)
<1>2. p.request \in Requests /\ p.request.what # "inprocess" /\ RouteOK(p) /\ (DirectDone(p) \/ EdgeDone(p))
  BY <1>1, EndedIs
<1>3. CASE DirectDone(p)
  BY <1>2, <1>3, DirectIs
<1>4. CASE EdgeDone(p)
  <2>1. EdgeServed(p) /\ p.route.by = "edge"
    BY <1>4 DEF EdgeDone, EdgeServed
  <2>2. PICK i \in DOMAIN chain :
          /\ s.id = chain[i]
          /\ \/ i = First(DOMAIN chain) /\ s.reported = p.route.name
             \/ /\ i # First(DOMAIN chain)
                /\ s.reported \in {DeploymentName(p.route.name.group, chain[i]), UpstreamName(r.models[chain[i]].model)}
    BY <2>1, Zenon DEF EdgeServed
  <2>3. CASE i = First(DOMAIN chain) /\ s.reported = p.route.name
    <3>1. s.id = Leader(chain) /\ ~ FallbackUsed(c)
      BY <2>2, <2>3 DEF Leader, FallbackUsed
    <3> QED
      BY <2>1, <3>1
  <2>4. CASE /\ i # First(DOMAIN chain)
             /\ s.reported \in {DeploymentName(p.route.name.group, chain[i]), UpstreamName(r.models[chain[i]].model)}
    <3>1. p.request.what = "group"
      <4>1. ASSUME p.request.what = "model" PROVE FALSE
        <5>1. p.route.name = IdName(p.request.model)
          BY <1>2, <2>1, <4>1, EdgeServedIs
        <5>2. chain = EdgeChain(r, IdName(p.request.model)) /\ DOMAIN chain # {}
          BY <2>2, <5>1
        <5>3. DOMAIN chain = {1}
          BY <5>2, EdgeServesModel
        <5>4. First({1}) = 1
          BY FirstPlace
        <5> QED
          BY <2>2, <2>4, <5>3, <5>4
      <4> QED
        BY <1>2, <4>1 DEF Requests
    <3>2. p.route.name = WireName(p.request.group, p.request.requires)
      BY <1>2, <2>1, <3>1, EdgeServedIs
    <3>3. "id" \in DOMAIN s.reported \/ "upstream" \in DOMAIN s.reported
      <4>1. \A g, m, u : "id" \in DOMAIN DeploymentName(g, m) /\ "upstream" \in DOMAIN UpstreamName(u)
        BY NameParts
      <4> HIDE DEF chain, r
      <4> QED
        BY <2>4, <4>1
    <3>4. "id" \notin DOMAIN p.route.name /\ "upstream" \notin DOMAIN p.route.name
      BY <3>2, NameParts
    <3>5. FallbackUsed(c)
      BY <3>3, <3>4 DEF FallbackUsed
    <3> QED
      BY <2>1, <2>2, <2>4, <3>5
  <2> QED
    BY <2>2, <2>3, <2>4
<1> QED
  BY <1>2, <1>3, <1>4

(* The labels of _find_registry, and those of get_router.                  *)
Seeking == {"find", "enter", "poll", "write", "load"}
InProcessOnly == {"newlock", "takelock", "waitlock", "build", "pick"}

(* A step of one call keeps the invariant when what it leaves of the call  *)
(* is right and the registry it is about to load is there.                 *)
LEMMA Frame ==
  ASSUME RouterInv, NEW c \in Callers, NEW q \in Calls, call' = [call EXCEPT ![c] = q], CallOK(c, q),
         source' = source, deployed' = deployed, edge' = edge,
         file' \in Versions \cup {Torn, None}, file # None => file' # None,
         cached' \in BOOLEAN, due' \in BOOLEAN,
         routerLock' \in Callers \cup {None}, held' \in [Callers -> Callers \cup {None}],
         router' \in Versions \cup {None},
         q.pc \in {"enter", "poll", "write"} => source = "appconfig",
         q.pc \in {"load", "write"} /\ source = "appconfig" => file' # None,
         q.pc = "load" /\ source # "appconfig" => q.version \in Versions
  PROVE  RouterInv'
<1>1. call' \in [Callers -> Calls] /\ call'[c] = q /\ \A d \in Callers : d # c => call'[d] = call[d]
  BY DEF RouterInv, RouterTyped
<1>2. RouterTyped'
  BY <1>1 DEF RouterInv, RouterTyped
<1>3. RegistryAtHand'
  <2>1. SUFFICES ASSUME NEW d \in Callers
                 PROVE  /\ call'[d].pc \in {"enter", "poll", "write"} => source' = "appconfig"
                        /\ call'[d].pc \in {"load", "write"} /\ source' = "appconfig" => file' # None
                        /\ call'[d].pc = "load" /\ source' # "appconfig" => call'[d].version \in Versions
    BY DEF RegistryAtHand
  <2>2. CASE d = c
    BY <2>2, <1>1
  <2>3. CASE d # c
    <3>1. call'[d] = call[d]
      BY <2>3, <1>1
    <3> QED
      BY <3>1 DEF RouterInv, RegistryAtHand
  <2> QED
    BY <2>2, <2>3
<1>4. \A d \in Callers : CallOK(d, call'[d])
  <2>1. TAKE d \in Callers
  <2>2. CASE d = c
    BY <2>2, <1>1
  <2>3. CASE d # c
    BY <2>3, <1>1 DEF RouterInv
  <2> QED
    BY <2>2, <2>3
<1> QED
  BY <1>2, <1>3, <1>4 DEF RouterInv

LEMMA SameStory ==
  ASSUME NEW p, NEW q, q.request = p.request, q.route = p.route, q.served = p.served,
         q.resolvedBy = p.resolvedBy
  PROVE  (RouteOK(p) => RouteOK(q)) /\ (EdgeServed(p) => EdgeServed(q))
BY DEF RouteOK, EdgeServed

(* A call that goes on and has its route and what served it as they were.  *)
LEMMA Moved ==
  ASSUME NEW c \in Callers, NEW p \in Calls, CallOK(c, p), p.pc \notin {"idle", "done"}, NEW q \in Calls,
         q.request = p.request, q.route = p.route, q.served = p.served, q.answer = p.answer,
         q.resolvedBy = p.resolvedBy \/ p.served = None,
         q.pc \in Seeking \cup InProcessOnly,
         q.pc \in InProcessOnly => c \in InProcess /\ p.served = None,
         q.pc \in {"write", "build", "pick"} => q.version \in Versions
  PROVE  CallOK(c, q)
<1>1. q.answer = None /\ q.answer # "picked"
  BY NoneAssumption DEF CallOK, Answers
<1>2. p.request \in Requests /\ (p.request.what = "inprocess") = (c \in InProcess)
  BY DEF CallOK
<1>3. q.pc \notin {"idle", "done", "resolve", "send", "bill"}
  BY DEF Seeking, InProcessOnly
<1>4. ASSUME q.served # None
      PROVE  c \notin InProcess /\ RouteOK(q) /\ EdgeServed(q)
  <2>1. c \notin InProcess /\ RouteOK(p) /\ EdgeServed(p) /\ q.resolvedBy = p.resolvedBy
    BY <1>4 DEF CallOK
  <2> QED
    BY <2>1, SameStory
<1> QED
  BY <1>1, <1>2, <1>3, <1>4 DEF CallOK, InProcessOnly

(* A call that ends without an answer is one the invariant allows.         *)
LEMMA Failing ==
  ASSUME NEW c \in Callers, NEW p \in Calls, CallOK(c, p), p.pc # "idle",
         NEW why \in Answers, why # "ok", why = "picked" => p.served = None,
         NEW q, q = Updated(p, [pc |-> "done", answer |-> why])
  PROVE  q \in Calls /\ CallOK(c, q) /\ q.pc = "done"
<1>1. /\ q \in Calls /\ q.pc = "done" /\ q.answer = why
      /\ q.request = p.request /\ q.served = p.served
  BY DEF Updated, Calls, Labels
<1> QED
  BY <1>1 DEF CallOK

(* Whatever a step does to the locks, they stay typed.                     *)
LEMMA Locks ==
  ASSUME RouterInv, NEW c \in Callers
  PROVE  /\ Free(c) => held' \in [Callers -> Callers \cup {None}]
         /\ Release(c) => held' \in [Callers -> Callers \cup {None}]
         /\ Hold(c) => held' \in [Callers -> Callers \cup {None}]
         /\ UNCHANGED held => held' \in [Callers -> Callers \cup {None}]
         /\ call[c] \in Calls /\ CallOK(c, call[c])
BY DEF RouterInv, RouterTyped, Free, Release, Hold

LEMMA Fails ==
  ASSUME RouterInv, NEW c \in Callers, call[c].pc # "idle", NEW why \in Answers, why # "ok",
         why = "picked" => call[c].served = None, Fail(c, why),
         UNCHANGED <<source, deployed, edge, file, cached, due, routerLock, router>>,
         Free(c) \/ UNCHANGED held
  PROVE  RouterInv'
<1> DEFINE q == Updated(call[c], [pc |-> "done", answer |-> why])
<1>1. call[c] \in Calls /\ CallOK(c, call[c]) /\ held' \in [Callers -> Callers \cup {None}]
  BY Locks
<1>2. q \in Calls /\ CallOK(c, q) /\ q.pc = "done"
  BY <1>1, Failing
<1>3. call' = [call EXCEPT ![c] = q]
  BY DEF Fail, Set
<1>4. RouterTyped
  BY DEF RouterInv
<1> HIDE DEF q
<1> QED
  BY <1>1, <1>2, <1>3, <1>4, Frame DEF RouterTyped

(* One lemma for each action of Step, from here on.                        *)
LEMMA BeginStep ==
  ASSUME RouterInv, NEW c \in Callers, NEW request \in Requests, Begin(c, request)
  PROVE  RouterInv'
<1> DEFINE p == call[c]
<1>1. p \in Calls /\ CallOK(c, p) /\ held' \in [Callers -> Callers \cup {None}] /\ p.pc = "idle" /\ p.served = None
      /\ p.answer = None
  BY Locks DEF Begin, LockVars, CallOK
<1>2. RouterTyped /\ UNCHANGED <<source, deployed, edge, file, cached, due, routerLock, router>>
      /\ (request.what = "inprocess") = (c \in InProcess)
  BY DEF RouterInv, Begin, World, FindVars, LockVars
<1>3. ASSUME NEW x, NEW q \in Calls, call' = [call EXCEPT ![c] = q], q.pc = x, q.request = request,
             q.served = None, q.answer = None,
             \/ x = "find"
             \/ x = "newlock" /\ c \in InProcess
             \/ x = "pick" /\ c \in InProcess /\ q.version \in Versions
      PROVE  RouterInv'
  <2>1. CallOK(c, q)
    BY <1>2, <1>3, NoneAssumption DEF CallOK, Answers
  <2> QED
    BY <1>1, <1>2, <1>3, <2>1, Frame DEF RouterTyped
<1>4. CASE request.what = "inprocess" /\ router # None
  <2> DEFINE q == Updated(p, [pc |-> "pick", request |-> request, version |-> router])
  <2>1. router \in Versions
    BY <1>2, <1>4 DEF RouterTyped
  <2>2. q \in Calls /\ q.pc = "pick" /\ q.request = request /\ q.served = p.served /\ q.answer = p.answer
        /\ q.version = router
    BY <1>1, <2>1 DEF Updated, Calls, Labels
  <2>3. call' = [call EXCEPT ![c] = q]
    BY <1>4 DEF Begin, Set
  <2> HIDE DEF q
  <2> QED
    BY <1>1, <1>2, <1>3, <1>4, <2>1, <2>2, <2>3
<1>5. CASE request.what = "inprocess" /\ router = None
  <2> DEFINE q == Updated(p, [pc |-> "newlock", request |-> request])
  <2>1. q \in Calls /\ q.pc = "newlock" /\ q.request = request /\ q.served = p.served /\ q.answer = p.answer
    BY <1>1 DEF Updated, Calls, Labels
  <2>2. call' = [call EXCEPT ![c] = q]
    BY <1>5 DEF Begin, Set
  <2> HIDE DEF q
  <2> QED
    BY <1>1, <1>2, <1>3, <1>5, <2>1, <2>2
<1>6. CASE request.what # "inprocess"
  <2> DEFINE q == Updated(p, [pc |-> "find", request |-> request])
  <2>1. q \in Calls /\ q.pc = "find" /\ q.request = request /\ q.served = p.served /\ q.answer = p.answer
    BY <1>1 DEF Updated, Calls, Labels
  <2>2. call' = [call EXCEPT ![c] = q]
    BY <1>6 DEF Begin, Set
  <2> HIDE DEF q
  <2> QED
    BY <1>1, <1>3, <2>1, <2>2
<1> QED
  BY <1>4, <1>5, <1>6

(* The fields of a call after a step that moves it on.                     *)
LEMMA GoFields ==
  ASSUME NEW p \in Calls, NEW x \in Labels, NEW q, q = Updated(p, [pc |-> x])
  PROVE  /\ q \in Calls /\ q.pc = x /\ q.version = p.version
         /\ q.request = p.request /\ q.route = p.route /\ q.served = p.served /\ q.answer = p.answer
         /\ q.resolvedBy = p.resolvedBy
BY DEF Updated, Calls
LEMMA LockFields ==
  ASSUME NEW p \in Calls, NEW x \in Labels, NEW l \in Callers \cup {None},
         NEW q, q = Updated(p, [pc |-> x, lock |-> l])
  PROVE  /\ q \in Calls /\ q.pc = x /\ q.version = p.version
         /\ q.request = p.request /\ q.route = p.route /\ q.served = p.served /\ q.answer = p.answer
         /\ q.resolvedBy = p.resolvedBy
BY DEF Updated, Calls
LEMMA VersionFields ==
  ASSUME NEW p \in Calls, NEW x \in Labels, NEW v \in Versions,
         NEW q, q = Updated(p, [pc |-> x, version |-> v])
  PROVE  /\ q \in Calls /\ q.pc = x /\ q.version = v
         /\ q.request = p.request /\ q.route = p.route /\ q.served = p.served /\ q.answer = p.answer
         /\ q.resolvedBy = p.resolvedBy
BY DEF Updated, Calls

(* What every step of a call that looks for its registry establishes.      *)
LEMMA Goes ==
  ASSUME RouterInv, NEW c \in Callers, call[c].pc \notin {"idle", "done"},
         NEW q \in Calls, call' = [call EXCEPT ![c] = q],
         q.request = call[c].request, q.route = call[c].route, q.served = call[c].served,
         q.answer = call[c].answer, q.resolvedBy = call[c].resolvedBy \/ call[c].served = None,
         q.pc \in Seeking \cup InProcessOnly,
         q.pc \in InProcessOnly => c \in InProcess /\ call[c].served = None,
         q.pc \in {"write", "build", "pick"} => q.version \in Versions,
         UNCHANGED <<source, deployed, edge>>,
         file' \in Versions \cup {Torn, None}, file # None => file' # None,
         cached' \in BOOLEAN, due' \in BOOLEAN,
         routerLock' \in Callers \cup {None}, held' \in [Callers -> Callers \cup {None}],
         router' \in Versions \cup {None},
         q.pc \in {"enter", "poll", "write"} => source = "appconfig",
         q.pc \in {"load", "write"} /\ source = "appconfig" => file' # None,
         q.pc = "load" /\ source # "appconfig" => q.version \in Versions
  PROVE  RouterInv'
<1>1. call[c] \in Calls /\ CallOK(c, call[c])
  BY Locks
<1>2. CallOK(c, q)
  BY <1>1, Moved
<1> QED
  BY <1>2, Frame

LEMMA NewLockStep ==
  ASSUME RouterInv, NEW c \in Callers, NewLock(c)
  PROVE  RouterInv'
<1> DEFINE q == Updated(call[c], [pc |-> "takelock"])
<1>1. /\ call[c] \in Calls /\ CallOK(c, call[c]) /\ call[c].pc = "newlock" /\ RouterTyped
      /\ routerLock' = c /\ UNCHANGED <<source, deployed, edge, file, cached, due, held, router>>
  BY Locks DEF NewLock, RouterInv, World, FindVars
<1>2. call' = [call EXCEPT ![c] = q]
  BY DEF NewLock, Go, Set
<1>3. /\ q \in Calls /\ q.pc = "takelock" /\ q.version = call[c].version /\ q.request = call[c].request
      /\ q.route = call[c].route /\ q.served = call[c].served /\ q.answer = call[c].answer
      /\ q.resolvedBy = call[c].resolvedBy
  BY <1>1, GoFields DEF Labels
<1>4. c \in InProcess /\ call[c].served = None
  BY <1>1 DEF CallOK
<1> HIDE DEF q
<1> QED
  BY <1>1, <1>2, <1>3, <1>4, Goes DEF RouterTyped, Seeking, InProcessOnly

LEMMA NameLockStep ==
  ASSUME RouterInv, NEW c \in Callers, NameLock(c)
  PROVE  RouterInv'
<1> DEFINE q == Updated(call[c], [pc |-> "waitlock", lock |-> routerLock])
<1>1. /\ call[c] \in Calls /\ CallOK(c, call[c]) /\ call[c].pc = "takelock" /\ RouterTyped
      /\ UNCHANGED <<source, deployed, edge, file, cached, due, routerLock, held, router>>
  BY Locks DEF NameLock, RouterInv, World, FindVars, LockVars
<1>2. call' = [call EXCEPT ![c] = q]
  BY DEF NameLock, Set
<1>3. /\ q \in Calls /\ q.pc = "waitlock" /\ q.version = call[c].version /\ q.request = call[c].request
      /\ q.route = call[c].route /\ q.served = call[c].served /\ q.answer = call[c].answer
      /\ q.resolvedBy = call[c].resolvedBy
  BY <1>1, LockFields DEF Labels, RouterTyped
<1>4. c \in InProcess /\ call[c].served = None
  BY <1>1 DEF CallOK
<1> HIDE DEF q
<1> QED
  BY <1>1, <1>2, <1>3, <1>4, Goes DEF RouterTyped, Seeking, InProcessOnly

LEMMA TakeLockStep ==
  ASSUME RouterInv, NEW c \in Callers, TakeLock(c)
  PROVE  RouterInv'
<1>1. /\ call[c] \in Calls /\ CallOK(c, call[c]) /\ call[c].pc = "waitlock" /\ RouterTyped
      /\ UNCHANGED <<source, deployed, edge, file, cached, due, routerLock, router>>
  BY Locks DEF TakeLock, RouterInv, World, FindVars
<1>2. c \in InProcess /\ call[c].served = None
  BY <1>1 DEF CallOK
<1>3. held' \in [Callers -> Callers \cup {None}]
  BY <1>1 DEF TakeLock, RouterTyped
<1>4. CASE router # None
  <2> DEFINE q == Updated(call[c], [pc |-> "pick", version |-> router])
  <2>1. router \in Versions
    BY <1>1, <1>4 DEF RouterTyped
  <2>2. call' = [call EXCEPT ![c] = q]
    BY <1>4 DEF TakeLock, Set
  <2>3. /\ q \in Calls /\ q.pc = "pick" /\ q.version = router /\ q.request = call[c].request
        /\ q.route = call[c].route /\ q.served = call[c].served /\ q.answer = call[c].answer
        /\ q.resolvedBy = call[c].resolvedBy
    BY <1>1, <2>1, VersionFields DEF Labels
  <2> HIDE DEF q
  <2> QED
    BY <1>1, <1>2, <1>3, <2>1, <2>2, <2>3, Goes DEF RouterTyped, Seeking, InProcessOnly
<1>5. CASE router = None
  <2> DEFINE q == Updated(call[c], [pc |-> "find"])
  <2>1. call' = [call EXCEPT ![c] = q]
    BY <1>5 DEF TakeLock, Set, Go
  <2>2. /\ q \in Calls /\ q.pc = "find" /\ q.request = call[c].request
        /\ q.route = call[c].route /\ q.served = call[c].served /\ q.answer = call[c].answer
        /\ q.resolvedBy = call[c].resolvedBy
    BY <1>1, GoFields DEF Labels
  <2> HIDE DEF q
  <2> QED
    BY <1>1, <1>2, <1>3, <2>1, <2>2, Goes DEF RouterTyped, Seeking, InProcessOnly
<1> QED
  BY <1>4, <1>5

LEMMA FindStep ==
  ASSUME RouterInv, NEW c \in Callers, Find(c)
  PROVE  RouterInv'
<1>1. /\ call[c] \in Calls /\ CallOK(c, call[c]) /\ call[c].pc = "find" /\ RouterTyped
      /\ UNCHANGED <<source, deployed, edge, file, cached, due, routerLock, router>>
  BY Locks DEF Find, RouterInv, World, FindVars
<1>2. CASE source = "appconfig"
  <2> DEFINE q == Updated(call[c], [pc |-> "enter", lock |-> routerLock])
  <2>1. call' = [call EXCEPT ![c] = q] /\ held' = held
    BY <1>2 DEF Find, Set
  <2>2. /\ q \in Calls /\ q.pc = "enter" /\ q.request = call[c].request
        /\ q.route = call[c].route /\ q.served = call[c].served /\ q.answer = call[c].answer
        /\ q.resolvedBy = call[c].resolvedBy
    BY <1>1, LockFields DEF Labels, RouterTyped
  <2> HIDE DEF q
  <2> QED
    BY <1>1, <1>2, <2>1, <2>2, Goes DEF RouterTyped, Seeking, InProcessOnly
<1>3. CASE source = "nowhere"
  <2>1. Free(c) /\ Fail(c, "RegistryNotFound")
    BY <1>3 DEF Find, WalkFails
  <2> QED
    BY <1>1, <2>1, Fails DEF Answers
<1>4. CASE source \notin {"appconfig", "nowhere"}
  <2> DEFINE q == Updated(call[c], [pc |-> "load", version |-> deployed])
  <2>1. call' = [call EXCEPT ![c] = q] /\ held' = held /\ deployed \in Versions
    BY <1>1, <1>4 DEF Find, Set, RouterTyped
  <2>2. /\ q \in Calls /\ q.pc = "load" /\ q.version = deployed /\ q.request = call[c].request
        /\ q.route = call[c].route /\ q.served = call[c].served /\ q.answer = call[c].answer
        /\ q.resolvedBy = call[c].resolvedBy
    BY <1>1, <2>1, VersionFields DEF Labels
  <2> HIDE DEF q
  <2> QED
    BY <1>1, <1>4, <2>1, <2>2, Goes DEF RouterTyped, Seeking, InProcessOnly
<1> QED
  BY <1>2, <1>3, <1>4

LEMMA ServeCachedStep ==
  ASSUME RouterInv, NEW c \in Callers, ServeCached(c)
  PROVE  RouterInv'
<1> DEFINE q == Updated(call[c], [pc |-> "load"])
<1>1. /\ call[c] \in Calls /\ CallOK(c, call[c]) /\ call[c].pc = "enter" /\ RouterTyped
      /\ UNCHANGED <<source, deployed, edge, file, cached, due, routerLock, held, router>>
      /\ file # None /\ source = "appconfig"
  BY Locks DEF ServeCached, RouterInv, RegistryAtHand, World, FindVars, LockVars
<1>2. call' = [call EXCEPT ![c] = q]
  BY DEF ServeCached, Go, Set
<1>3. /\ q \in Calls /\ q.pc = "load" /\ q.request = call[c].request
      /\ q.route = call[c].route /\ q.served = call[c].served /\ q.answer = call[c].answer
      /\ q.resolvedBy = call[c].resolvedBy
  BY <1>1, GoFields DEF Labels
<1> HIDE DEF q
<1> QED
  BY <1>1, <1>2, <1>3, Goes DEF RouterTyped, Seeking, InProcessOnly

LEMMA StartPollStep ==
  ASSUME RouterInv, NEW c \in Callers, StartPoll(c)
  PROVE  RouterInv'
<1> DEFINE q == Updated(call[c], [pc |-> "poll"])
<1>1. /\ call[c] \in Calls /\ CallOK(c, call[c]) /\ call[c].pc = "enter" /\ RouterTyped
      /\ UNCHANGED <<source, deployed, edge, file, cached, due, routerLock, router>>
      /\ held' \in [Callers -> Callers \cup {None}] /\ source = "appconfig"
  BY Locks DEF StartPoll, RouterInv, RegistryAtHand, World, FindVars
<1>2. call' = [call EXCEPT ![c] = q]
  BY DEF StartPoll, Go, Set
<1>3. /\ q \in Calls /\ q.pc = "poll" /\ q.request = call[c].request
      /\ q.route = call[c].route /\ q.served = call[c].served /\ q.answer = call[c].answer
      /\ q.resolvedBy = call[c].resolvedBy
  BY <1>1, GoFields DEF Labels
<1> HIDE DEF q
<1> QED
  BY <1>1, <1>2, <1>3, Goes DEF RouterTyped, Seeking, InProcessOnly

LEMMA PollFailsStep ==
  ASSUME RouterInv, NEW c \in Callers, PollFails(c)
  PROVE  RouterInv'
<1>1. PICK why \in {"UnboundLocalError", "RegistryNotFound"} : Fail(c, why)
  BY DEF PollFails
<1>2. call[c].pc = "poll" /\ Free(c) /\ UNCHANGED <<source, deployed, edge, file, cached, due, routerLock, router>>
  BY DEF PollFails, World, FindVars
<1> QED
  BY <1>1, <1>2, Fails DEF Answers

LEMMA PollIsEmptyStep ==
  ASSUME RouterInv, NEW c \in Callers, PollIsEmpty(c)
  PROVE  RouterInv'
<1>1. call[c].pc = "poll" /\ Free(c) /\ Fail(c, "RegistryNotFound")
      /\ UNCHANGED <<source, deployed, edge, file, cached, due, routerLock, router>>
  BY DEF PollIsEmpty, WalkFails, World, FindVars
<1> QED
  BY <1>1, Fails DEF Answers

LEMMA PollAnswersStep ==
  ASSUME RouterInv, NEW c \in Callers, PollAnswers(c)
  PROVE  RouterInv'
<1> DEFINE q == Updated(call[c], [pc |-> "write", version |-> deployed])
<1>1. /\ call[c] \in Calls /\ CallOK(c, call[c]) /\ call[c].pc = "poll" /\ RouterTyped
      /\ UNCHANGED <<source, deployed, edge, cached, due, routerLock, held, router>>
      /\ file' = Torn /\ source = "appconfig"
  BY Locks DEF PollAnswers, RouterInv, RegistryAtHand, World, LockVars
<1>2. file' # None
  BY <1>1, NoneAssumption
<1>3. call' = [call EXCEPT ![c] = q] /\ deployed \in Versions
  BY <1>1 DEF PollAnswers, Set, RouterTyped
<1>4. /\ q \in Calls /\ q.pc = "write" /\ q.version = deployed /\ q.request = call[c].request
      /\ q.route = call[c].route /\ q.served = call[c].served /\ q.answer = call[c].answer
      /\ q.resolvedBy = call[c].resolvedBy
  BY <1>1, <1>3, VersionFields DEF Labels
<1> HIDE DEF q
<1> QED
  BY <1>1, <1>2, <1>3, <1>4, Goes DEF RouterTyped, Seeking, InProcessOnly

LEMMA WriteStep ==
  ASSUME RouterInv, NEW c \in Callers, Write(c)
  PROVE  RouterInv'
<1> DEFINE q == Updated(call[c], [pc |-> "load"])
<1>1. /\ call[c] \in Calls /\ CallOK(c, call[c]) /\ call[c].pc = "write" /\ RouterTyped
      /\ UNCHANGED <<source, deployed, edge, routerLock, router>>
      /\ file' = call[c].version /\ cached' = TRUE /\ due' = FALSE /\ source = "appconfig"
      /\ held' \in [Callers -> Callers \cup {None}]
  BY Locks DEF Write, RouterInv, RegistryAtHand, World
<1>2. file' \in Versions /\ file' # None
  BY <1>1, NoneAssumption DEF CallOK
<1>3. call' = [call EXCEPT ![c] = q]
  BY DEF Write, Go, Set
<1>4. /\ q \in Calls /\ q.pc = "load" /\ q.request = call[c].request
      /\ q.route = call[c].route /\ q.served = call[c].served /\ q.answer = call[c].answer
      /\ q.resolvedBy = call[c].resolvedBy
  BY <1>1, GoFields DEF Labels
<1> HIDE DEF q
<1> QED
  BY <1>1, <1>2, <1>3, <1>4, Goes DEF RouterTyped, Seeking, InProcessOnly

LEMMA WriteFailsStep ==
  ASSUME RouterInv, NEW c \in Callers, WriteFails(c)
  PROVE  RouterInv'
<1>1. /\ call[c] \in Calls /\ CallOK(c, call[c]) /\ call[c].pc = "write" /\ RouterTyped
      /\ UNCHANGED <<source, deployed, edge, file, cached, due, routerLock, router>>
      /\ file # None /\ source = "appconfig"
  BY Locks DEF WriteFails, RouterInv, RegistryAtHand, World, FindVars
<1>2. CASE cached
  <2> DEFINE q == Updated(call[c], [pc |-> "load"])
  <2>1. call' = [call EXCEPT ![c] = q] /\ held' \in [Callers -> Callers \cup {None}]
    BY <1>2, Locks DEF WriteFails, Go, Set
  <2>2. /\ q \in Calls /\ q.pc = "load" /\ q.request = call[c].request
        /\ q.route = call[c].route /\ q.served = call[c].served /\ q.answer = call[c].answer
        /\ q.resolvedBy = call[c].resolvedBy
    BY <1>1, GoFields DEF Labels
  <2> HIDE DEF q
  <2> QED
    BY <1>1, <2>1, <2>2, Goes DEF RouterTyped, Seeking, InProcessOnly
<1>3. CASE ~ cached
  <2>1. Free(c) /\ Fail(c, "RegistryNotFound")
    BY <1>3 DEF WriteFails, WalkFails
  <2> QED
    BY <1>1, <2>1, Fails DEF Answers
<1> QED
  BY <1>2, <1>3

LEMMA LoadStep ==
  ASSUME RouterInv, NEW c \in Callers, Load(c)
  PROVE  RouterInv'
<1> DEFINE p == call[c]
           v == IF source = "appconfig" THEN file ELSE p.version
<1>1. /\ p \in Calls /\ CallOK(c, p) /\ p.pc = "load" /\ RouterTyped
      /\ UNCHANGED <<source, deployed, edge, file, cached, due, routerLock, router>>
      /\ (source = "appconfig" => file # None) /\ (source # "appconfig" => p.version \in Versions)
  BY Locks DEF Load, RouterInv, RegistryAtHand, World, FindVars
<1>2. CASE v = Torn
  <2>1. Free(c) /\ Fail(c, "ValueError")
    BY <1>2 DEF Load
  <2> QED
    BY <1>1, <2>1, Fails DEF Answers
<1>3. CASE v # Torn
  <2>1. v \in Versions
    BY <1>1, <1>3 DEF RouterTyped
  <2> DEFINE by == IF p.served = None THEN v ELSE p.resolvedBy
             x == CASE p.served # None -> "bill" [] c \in InProcess -> "build" [] OTHER -> "resolve"
             q == Updated(p, [version |-> v, resolvedBy |-> by, pc |-> x])
  <2>2. call' = [call EXCEPT ![c] = q] /\ held' = held
    BY <1>3 DEF Load, Set
  <2>3. /\ by \in Versions \cup {None} /\ x \in {"bill", "build", "resolve"}
        /\ x = "bill" <=> p.served # None
        /\ x = "build" => c \in InProcess
        /\ x = "resolve" => c \notin InProcess
    <3>1. p.served # None => c \notin InProcess
      BY <1>1 DEF CallOK
    <3> QED
      BY <1>1, <2>1, <3>1 DEF Calls
  <2>4. /\ q \in Calls /\ q.pc = x /\ q.version = v /\ q.resolvedBy = by /\ q.request = p.request
        /\ q.route = p.route /\ q.served = p.served /\ q.answer = p.answer
    <3> HIDE DEF v, by, x
    <3> QED
      BY <1>1, <2>1, <2>3 DEF Updated, Calls, Labels
  <2>5. CallOK(c, q)
    <3>1. q.answer = None /\ q.answer # "picked"
      BY <1>1, <2>4, NoneAssumption DEF CallOK, Answers
    <3>2. q.request \in Requests /\ (q.request.what = "inprocess") = (c \in InProcess)
      BY <1>1, <2>4 DEF CallOK
    <3>3. ASSUME q.served # None PROVE c \notin InProcess /\ RouteOK(q) /\ EdgeServed(q)
      <4>1. c \notin InProcess /\ RouteOK(p) /\ EdgeServed(p) /\ q.resolvedBy = p.resolvedBy
        BY <1>1, <2>4, <3>3 DEF CallOK
      <4> HIDE DEF q
      <4> QED
        BY <2>4, <4>1, SameStory
    <3> HIDE DEF q, x
    <3> QED
      BY <2>1, <2>3, <2>4, <3>1, <3>2, <3>3 DEF CallOK
  <2> HIDE DEF q, x
  <2> QED
    BY <1>1, <2>2, <2>3, <2>4, <2>5, Frame DEF RouterTyped
<1> QED
  BY <1>2, <1>3

LEMMA BuildStep ==
  ASSUME RouterInv, NEW c \in Callers, Build(c)
  PROVE  RouterInv'
<1> DEFINE q == Updated(call[c], [pc |-> "pick"])
<1>1. /\ call[c] \in Calls /\ CallOK(c, call[c]) /\ call[c].pc = "build" /\ RouterTyped
      /\ UNCHANGED <<source, deployed, edge, file, cached, due, routerLock>>
      /\ router' = call[c].version /\ held' \in [Callers -> Callers \cup {None}]
  BY Locks DEF Build, RouterInv, World, FindVars
<1>2. c \in InProcess /\ call[c].served = None /\ call[c].version \in Versions
  BY <1>1 DEF CallOK
<1>3. call' = [call EXCEPT ![c] = q]
  BY DEF Build, Go, Set
<1>4. /\ q \in Calls /\ q.pc = "pick" /\ q.version = call[c].version /\ q.request = call[c].request
      /\ q.route = call[c].route /\ q.served = call[c].served /\ q.answer = call[c].answer
      /\ q.resolvedBy = call[c].resolvedBy
  BY <1>1, GoFields DEF Labels
<1> HIDE DEF q
<1> QED
  BY <1>1, <1>2, <1>3, <1>4, Goes DEF RouterTyped, Seeking, InProcessOnly

(* The pick is a member, and one that is cooling only if all of them are.  *)
LEMMA PickedFrom ==
  ASSUME NEW r, IsRegistry(r), NEW g \in LiveGroups(r), NEW cooling
  PROVE  LET chain == LiveIds(r, g, {})
             m == PickFrom(chain, cooling)
         IN /\ m \in Range(chain) /\ Active(r, m)
            /\ m \in cooling => Range(chain) \subseteq cooling
<1> DEFINE chain == LiveIds(r, g, {})
           warm == {i \in DOMAIN chain : chain[i] \notin cooling}
           k == IF warm = {} THEN First(DOMAIN chain) ELSE First(warm)
<1>1. g \in DOMAIN r.groups /\ DOMAIN chain # {}
  BY DEF LiveGroups
<1>2. DOMAIN chain \in SUBSET Nat
  BY <1>1, LivePlaces
<1>3. warm # {} => First(warm) \in warm
  BY <1>2, FirstPlace
<1>4. First(DOMAIN chain) \in DOMAIN chain
  BY <1>1, <1>2, FirstPlace
<1>5. k \in DOMAIN chain
  BY <1>3, <1>4
<1>6. PickFrom(chain, cooling) = chain[k]
  BY DEF PickFrom, Leader
<1>7. chain[k] \in Range(chain)
  BY <1>5 DEF Range
<1>8. Active(r, chain[k])
  <2>1. chain[k] = r.groups[g][k]
    BY <1>1, <1>5, LivePlaces
  <2>2. Admissible(r, r.groups[g][k], {})
    BY <1>1, <1>5, LivePlaces
  <2> QED
    BY <2>1, <2>2 DEF Admissible
<1>9. ASSUME chain[k] \in cooling PROVE Range(chain) \subseteq cooling
  <2>1. warm = {}
    BY <1>3, <1>9
  <2>2. \A i \in DOMAIN chain : chain[i] \in cooling
    BY <2>1
  <2> QED
    BY <2>2 DEF Range
<1> QED
  BY <1>6, <1>7, <1>8, <1>9

LEMMA PickStep ==
  ASSUME RouterInv, NEW c \in Callers, NEW cooling \in SUBSET Ids, Pick(c, cooling)
  PROVE  RouterInv'
<1> DEFINE p == call[c]
           v == p.version
           g == p.request.group
           r == RegistryOf[v]
<1>1. /\ p \in Calls /\ CallOK(c, p) /\ p.pc = "pick" /\ RouterTyped
      /\ UNCHANGED <<source, deployed, edge, file, cached, due, routerLock, held, router>>
  BY Locks DEF Pick, RouterInv, World, FindVars, LockVars
<1>2. /\ v \in Versions /\ c \in InProcess /\ p.served = None
      /\ p.request \in Requests /\ p.request.what = "inprocess"
  BY <1>1 DEF CallOK
<1>3. IsRegistry(r)
  BY <1>2, RegistriesAssumption
<1>4. CASE g \notin LiveGroups(r)
  <2>1. Fail(c, "picked")
    BY <1>4 DEF Pick
  <2> QED
    BY <1>1, <1>2, <2>1, Fails DEF Answers
<1>5. CASE g \in LiveGroups(r)
  <2> DEFINE chain == Chain(r, GroupName(g))
             m == PickFrom(chain, cooling)
             s == Served(m, v, [cooling |-> cooling])
             u == r.models[m].model
             q == Updated(p, [pc |-> "done", answer |-> "picked", served |-> s, billed |-> u])
  <2>1. chain = LiveIds(r, g, {})
    <3>1. DOMAIN GroupName(g) = {"group"} /\ GroupName(g).group = g
      BY DEF GroupName
    <3> QED
      BY <3>1 DEF Chain
  <2>2. m \in Range(LiveIds(r, g, {})) /\ Active(r, m)
        /\ (m \in cooling => Range(LiveIds(r, g, {})) \subseteq cooling)
    BY <1>3, <1>5, <2>1, PickedFrom
  <2>3. m \in Ids /\ u \in Upstreams
    BY <1>2, <2>2, EntryOf DEF Active
  <2>4. call' = [call EXCEPT ![c] = q]
    BY <1>5 DEF Pick, Set
  <2>5. s \in Serveds /\ s.id = m /\ s.version = v /\ s.reported.cooling = cooling
    BY <1>2, <2>3 DEF Served, Serveds
  <2> HIDE DEF m, u, s, chain
  <2>6. /\ q \in Calls /\ q.pc = "done" /\ q.answer = "picked" /\ q.served = s /\ q.request = p.request
    BY <1>1, <2>3, <2>5 DEF Updated, Calls, Labels, Answers
  <2> HIDE DEF q
  <2>7. PickOK(q)
    BY <1>2, <2>2, <2>5, <2>6 DEF PickOK, PickIsWarm
  <2>8. CallOK(c, q)
    BY <1>1, <1>2, <2>6, <2>7 DEF CallOK
  <2> QED
    BY <1>1, <2>4, <2>6, <2>8, Frame DEF RouterTyped
<1> QED
  BY <1>4, <1>5

LEMMA RefuseStep ==
  ASSUME RouterInv, NEW c \in Callers, Refuse(c)
  PROVE  RouterInv'
<1>1. call[c].pc = "resolve" /\ Fail(c, "ValueError")
      /\ UNCHANGED <<source, deployed, edge, file, cached, due, routerLock, held, router>>
  BY DEF Refuse, World, FindVars, LockVars
<1> QED
  BY <1>1, Fails DEF Answers

LEMMA UnservedStep ==
  ASSUME RouterInv, NEW c \in Callers, Unserved(c)
  PROVE  RouterInv'
<1>1. call[c].pc = "send" /\ Fail(c, "TransportError")
      /\ UNCHANGED <<source, deployed, edge, file, cached, due, routerLock, held, router>>
  BY DEF Unserved, World, FindVars, LockVars
<1> QED
  BY <1>1, Fails DEF Answers

(* A route that is right is one to send a request over.                    *)
LEMMA Routed ==
  ASSUME RouterInv, NEW c \in Callers, call[c].pc = "resolve", NEW route \in Routes,
         Set(c, [pc |-> "send", route |-> route]),
         UNCHANGED <<source, deployed, edge, file, cached, due, routerLock, held, router>>,
         \A q : /\ q.resolvedBy = call[c].version /\ q.request = call[c].request /\ q.route = route
                => RouteOK(q)
  PROVE  RouterInv'
<1> DEFINE p == call[c]
           q == Updated(p, [pc |-> "send", route |-> route])
<1>1. p \in Calls /\ CallOK(c, p) /\ RouterTyped
  BY Locks DEF RouterInv
<1>2. call' = [call EXCEPT ![c] = q]
  BY DEF Set
<1>3. /\ q \in Calls /\ q.pc = "send" /\ q.version = p.version /\ q.resolvedBy = p.resolvedBy
      /\ q.request = p.request /\ q.route = route /\ q.served = p.served /\ q.answer = p.answer
  BY <1>1 DEF Updated, Calls, Labels
<1> HIDE DEF q
<1>4. p.resolvedBy = p.version /\ p.served = None /\ p.answer = None
  BY <1>1 DEF CallOK
<1>5. RouteOK(q)
  BY <1>3, <1>4
<1>6. q.answer # "picked"
  BY <1>3, <1>4, NoneAssumption DEF Answers
<1>7. CallOK(c, q)
  BY <1>1, <1>3, <1>4, <1>5, <1>6 DEF CallOK
<1> QED
  BY <1>1, <1>2, <1>3, <1>7, Frame DEF RouterTyped

(* What is known of a call that is about to resolve.                       *)
LEMMA ResolvingIs ==
  ASSUME RouterInv, NEW c \in Callers, call[c].pc = "resolve"
  PROVE  /\ call[c].version \in Versions /\ IsRegistry(RegistryOf[call[c].version])
         /\ call[c].request \in Requests /\ call[c].request.what \in {"model", "group"}
<1>1. CallOK(c, call[c])
  BY Locks
<1>2. call[c].version \in Versions /\ call[c].request \in Requests /\ call[c].request.what # "inprocess"
  BY <1>1 DEF CallOK
<1> QED
  BY <1>2, RegistriesAssumption DEF Requests

LEMMA AdmitStep ==
  ASSUME RouterInv, NEW c \in Callers, NEW refused \in BOOLEAN, Admit(c, refused)
  PROVE  RouterInv'
<1> DEFINE p == call[c]
           r == RegistryOf[p.version]
           q == p.request
           route == IF q.what = "model" THEN EdgeRoute(r, IdName(q.model), q.model)
                    ELSE EdgeRoute(r, WireName(q.group, q.requires), Primary(r, q))
<1>1. /\ p.pc = "resolve" /\ ~ Refusal(r, q)
      /\ UNCHANGED <<source, deployed, edge, file, cached, due, routerLock, held, router>>
  BY DEF Admit, World, FindVars, LockVars
<1>2. p.version \in Versions /\ IsRegistry(r) /\ q \in Requests /\ q.what \in {"model", "group"}
  BY <1>1, ResolvingIs
<1>3. CASE refused
  <2>1. Fail(c, "RuntimeError")
    BY <1>3 DEF Admit
  <2> QED
    BY <1>1, <2>1, Fails DEF Answers
<1>4. CASE ~ refused
  <2>1. Set(c, [pc |-> "send", route |-> route])
    BY <1>4 DEF Admit
  <2>2. CASE q.what = "model"
    <3>1. route = EdgeRoute(r, IdName(q.model), q.model)
      BY <2>2
    <3>2. Active(r, q.model)
      BY <1>1, <2>2 DEF Refusal
    <3>3. q.model \in Ids /\ r.models[q.model].model \in Upstreams
      BY <1>2, <3>2, EntryOf DEF Active
    <3>4. IdName(q.model) \in WireNames
      BY <3>3 DEF IdName, WireNames
    <3>5. route \in Routes /\ route.by = "edge"
      BY <3>1, <3>3, <3>4 DEF EdgeRoute, Routes
    <3>6. \A x : x.resolvedBy = p.version /\ x.request = q /\ x.route = route => RouteOK(x)
      <4> HIDE DEF route
      <4> QED
        BY <1>2, <2>2, <3>1, <3>5 DEF RouteOK
    <3> HIDE DEF route
    <3> QED
      BY <1>1, <2>1, <3>5, <3>6, Routed
  <2>3. CASE q.what = "group"
    <3>1. route = EdgeRoute(r, WireName(q.group, q.requires), Primary(r, q))
      BY <2>3
    <3>2. q.group \in DOMAIN r.groups /\ DOMAIN LiveIds(r, q.group, q.requires) # {}
      BY <1>1, <2>3 DEF Refusal
    <3>3. Primary(r, q) \in Ids /\ Active(r, Primary(r, q))
      BY <1>2, <3>2, LeaderIsFirst DEF Primary, Admissible
    <3>4. r.models[Primary(r, q)].model \in Upstreams
      BY <1>2, <3>3, EntryOf DEF Active
    <3>5. WireName(q.group, q.requires) \in WireNames
      <4>1. q.group \in Groups /\ q.requires \in SUBSET Caps
        BY <1>2, <2>3 DEF Requests
      <4> QED
        BY <4>1 DEF WireName, GroupName, CapabilityName, WireNames
    <3>6. route \in Routes /\ route.by = "edge"
      BY <3>1, <3>3, <3>4, <3>5 DEF EdgeRoute, Routes
    <3>7. \A x : x.resolvedBy = p.version /\ x.request = q /\ x.route = route => RouteOK(x)
      <4> HIDE DEF route
      <4> QED
        BY <1>2, <2>3, <3>1, <3>2, <3>6 DEF RouteOK
    <3> HIDE DEF route
    <3> QED
      BY <1>1, <2>1, <3>6, <3>7, Routed
  <2> QED
    BY <1>2, <2>2, <2>3
<1> QED
  BY <1>3, <1>4

(* The walk over a group: the places it may stop at, and those it skips.   *)
OpenPlaces(r, request, up) ==
  {i \in DOMAIN r.groups[request.group] : Walkable(r, r.groups[request.group][i], request, up)}
PassedOver(r, request, up) ==
  LET ids == r.groups[request.group]
  IN {ids[i] : i \in {j \in 1..First(OpenPlaces(r, request, up))-1 : Known(r, ids[j])}}

(* The walk over a group's entries stops at the first that is open, and    *)
(* passes over none for a reason the registry does not give, except for an *)
(* egress proxy that does not answer.                                      *)
LEMMA WalkIsJustified ==
  ASSUME NEW r, IsRegistry(r), NEW request \in Requests, request.what = "group",
         request.group \in DOMAIN r.groups, DOMAIN LiveIds(r, request.group, request.requires) # {},
         NEW up, OpenPlaces(r, request, up) # {}
  PROVE  LET m == r.groups[request.group][First(OpenPlaces(r, request, up))]
             route == DirectRoute(r, m, Primary(r, request), PassedOver(r, request, up))
         IN /\ m \in Range(r.groups[request.group]) /\ m \in Ids
            /\ Known(r, m) /\ Passes(r, m, request, up)
            /\ route.by = "direct" /\ route.name = IdName(m) /\ route.skips \in SUBSET Ids
            /\ FallThroughIsJustified(r, request, route)
<1> DEFINE ids == r.groups[request.group]
           open == OpenPlaces(r, request, up)
           f == First(open)
           m == ids[f]
           skips == PassedOver(r, request, up)
           route == DirectRoute(r, m, Primary(r, request), skips)
<1>1. /\ ids = r.groups[request.group] /\ m = ids[f] /\ open # {} /\ f = First(open)
      /\ \A i : i \in open <=> i \in DOMAIN ids /\ Walkable(r, ids[i], request, up)
      /\ \A x : x \in skips <=> \E i \in 1..f-1 : Known(r, ids[i]) /\ x = ids[i]
      /\ route = DirectRoute(r, m, Primary(r, request), skips)
  <2>1. \A x : x \in skips <=> \E i \in {j \in 1..f-1 : Known(r, ids[j])} : x = ids[i]
    BY DEF PassedOver
  <2> QED
    BY <2>1 DEF OpenPlaces
<1> HIDE DEF ids, open, f, m, skips, route
<1>2. /\ ids \in Seq(Ids) /\ DOMAIN ids = 1..Len(ids) /\ Len(ids) \in Nat
      /\ \A i \in DOMAIN ids : ids[i] \in Ids /\ i \in Nat
  <2>1. ids \in Seq(Ids)
    BY <1>1, LivePlaces
  <2> QED
    BY <2>1
<1>3. f \in open /\ (\A j \in open : f <= j)
  <2>1. open \in SUBSET Nat
    BY <1>1, <1>2
  <2> QED
    BY <1>1, <2>1, FirstPlace
<1>4. f \in DOMAIN ids /\ m = ids[f] /\ Walkable(r, m, request, up) /\ m \in Ids /\ f \in Nat
  <2>1. f \in DOMAIN ids /\ Walkable(r, ids[f], request, up)
    BY <1>1, <1>3
  <2>2. ids[f] \in Ids /\ f \in Nat
    BY <1>2, <2>1
  <2> QED
    BY <1>1, <2>1, <2>2
<1>5. m \in Range(ids) /\ Known(r, m) /\ Passes(r, m, request, up)
  BY <1>4 DEF Range, Walkable
<1>6. /\ route.by = "direct" /\ route.name = IdName(m) /\ route.primary = Primary(r, request)
      /\ route.skips = skips
  BY <1>1 DEF DirectRoute
<1>7. \A x : x \in route.skips <=> \E i \in 1..f-1 : Known(r, ids[i]) /\ x = ids[i]
  BY <1>1, <1>6
<1>8. route.skips \in SUBSET Ids
  <2>1. \A i \in 1..f-1 : ids[i] \in Ids
    BY <1>2, <1>4
  <2> QED
    BY <2>1, <1>7
<1>9. \A i \in 1..f-1 : i \in DOMAIN ids /\ ~ (f <= i)
  BY <1>2, <1>4
<1>10. \A i \in 1..f-1 : Known(r, ids[i]) => ~ Passes(r, ids[i], request, up)
  BY <1>1, <1>3, <1>9 DEF Walkable
<1>11. RouteIsDegraded(route) = (route.primary \in route.skips)
  <2>1. PICK k \in DOMAIN LiveIds(r, request.group, request.requires) :
          /\ Primary(r, request) = ids[k] /\ Admissible(r, ids[k], request.requires)
          /\ \A j \in DOMAIN LiveIds(r, request.group, request.requires) : k <= j
    BY <1>1, LeaderIsFirst DEF Primary
  <2>2. k \in DOMAIN ids
    BY <1>1, LivePlaces
  <2>3. f \in DOMAIN LiveIds(r, request.group, request.requires)
    <3>1. Admissible(r, ids[f], request.requires)
      BY <1>4, <1>5 DEF Passes
    <3> QED
      BY <1>1, <1>4, <3>1, LivePlaces
  <2>4. k <= f
    BY <2>1, <2>3
  <2>5. (route.by = "direct" /\ route.primary # route.name.id) <=> ids[k] # m
    <3>1. route.name.id = m
      BY <1>6, IdOf
    <3> QED
      BY <1>6, <2>1, <3>1
  <2>6. ASSUME ids[k] # m PROVE ids[k] \in route.skips
    <3>1. k \in 1..f-1
      <4>1. k \in Nat \ {0} /\ f \in Nat
        BY <1>2, <1>4, <2>2
      <4>2. k # f
        BY <1>4, <2>6
      <4> QED
        BY <2>4, <4>1, <4>2
    <3>2. Known(r, ids[k])
      BY <2>1 DEF Admissible, Active
    <3> QED
      BY <1>7, <3>1, <3>2
  <2>7. ASSUME ids[k] \in route.skips PROVE ids[k] # m
    BY <1>5, <1>7, <1>10, <2>7
  <2> QED
    <3>1. (route.by = "direct" /\ route.primary # route.name.id) <=> route.primary \in route.skips
      BY <1>6, <2>1, <2>5, <2>6, <2>7
    <3> QED
      BY <3>1 DEF RouteIsDegraded
<1>12. \A i \in DOMAIN ids : ids[i] \in route.skips =>
         ~ Passes(r, ids[i], request, {x \in DOMAIN r.models : r.models[x].route # "egress_proxy"})
  <2>1. SUFFICES ASSUME NEW i \in DOMAIN ids, ids[i] \in route.skips
                 PROVE  ~ Passes(r, ids[i], request, {x \in DOMAIN r.models : r.models[x].route # "egress_proxy"})
    OBVIOUS
  <2>2. ~ Passes(r, ids[i], request, up)
    BY <1>7, <1>10, <2>1
  <2> QED
    BY <2>2 DEF Passes, ProxyIsUp
<1>13. \E i \in DOMAIN ids : ids[i] = route.name.id /\ \A j \in 1..i-1 : Known(r, ids[j]) => ids[j] \in route.skips
  <2>1. route.name.id = m
    BY <1>6, IdOf
  <2>2. \A j \in 1..f-1 : Known(r, ids[j]) => ids[j] \in route.skips
    BY <1>7
  <2> QED
    BY <1>4, <2>1, <2>2
<1>14. FallThroughIsJustified(r, request, route)
  BY <1>1, <1>11, <1>12, <1>13 DEF FallThroughIsJustified
<1> QED
  BY <1>4, <1>5, <1>6, <1>8, <1>14 DEF ids, open, f, m, skips, route

LEMMA NotAdmittedStep ==
  ASSUME RouterInv, NEW c \in Callers, NEW up \in SUBSET Ids, NotAdmitted(c, up)
  PROVE  RouterInv'
<1> DEFINE p == call[c]
           r == RegistryOf[p.version]
           q == p.request
           ids == r.groups[q.group]
           open == OpenPlaces(r, q, up)
           f == First(open)
           skips == PassedOver(r, q, up)
           route == DirectRoute(r, ids[f], Primary(r, q), skips)
<1>1. /\ p.pc = "resolve" /\ ~ Refusal(r, q)
      /\ UNCHANGED <<source, deployed, edge, file, cached, due, routerLock, held, router>>
  BY DEF NotAdmitted, World, FindVars, LockVars
<1>2. p.version \in Versions /\ IsRegistry(r) /\ q \in Requests /\ q.what \in {"model", "group"}
  BY <1>1, ResolvingIs
<1>3. CASE q.what = "model"
  <2>1. Fail(c, "RuntimeError")
    BY <1>3 DEF NotAdmitted
  <2> QED
    BY <1>1, <2>1, Fails DEF Answers
<1>4. CASE q.what = "group" /\ open = {}
  <2>1. Fail(c, "ValueError")
    BY <1>4 DEF NotAdmitted, OpenPlaces
  <2> QED
    BY <1>1, <2>1, Fails DEF Answers
<1>5. CASE q.what = "group" /\ open # {}
  <2>1. Set(c, [pc |-> "send", route |-> route])
    BY <1>5 DEF NotAdmitted, OpenPlaces, PassedOver
  <2>2. q.group \in DOMAIN r.groups /\ DOMAIN LiveIds(r, q.group, q.requires) # {}
    BY <1>1, <1>5 DEF Refusal
  <2>3. open # {} /\ q.what = "group"
    BY <1>5
  <2>4. /\ ids[f] \in Range(ids) /\ ids[f] \in Ids /\ Known(r, ids[f]) /\ Passes(r, ids[f], q, up)
        /\ route.by = "direct" /\ route.name = IdName(ids[f]) /\ route.skips \in SUBSET Ids
        /\ FallThroughIsJustified(r, q, route)
    BY <1>2, <2>2, <2>3, WalkIsJustified
  <2>5. r.models[ids[f]].model \in Upstreams
    BY <1>2, <2>4, EntryOf
  <2>6. Primary(r, q) \in Ids /\ Active(r, Primary(r, q))
    BY <1>2, <2>2, LeaderIsFirst DEF Primary, Admissible
  <2>7. r.models[Primary(r, q)].model \in Upstreams
    BY <1>2, <2>6, EntryOf DEF Active
  <2>8. route = [by |-> "direct", name |-> IdName(ids[f]), primary |-> Primary(r, q),
                  primaryModel |-> r.models[Primary(r, q)].model, model |-> r.models[ids[f]].model, skips |-> skips]
    BY DEF DirectRoute
  <2>9. IdName(ids[f]) \in WireNames
    BY <2>4 DEF IdName, WireNames
  <2> HIDE DEF route, open, f, skips
  <2>10. route \in Routes
    <3>1. skips \in SUBSET Ids
      BY <2>4, <2>8
    <3> QED
      BY <2>5, <2>6, <2>7, <2>8, <2>9, <3>1 DEF Routes
  <2>11. ASSUME NEW x, x.resolvedBy = p.version, x.request = q, x.route = route
         PROVE  RouteOK(x)
    <3>1. route.name.id = ids[f]
      BY <2>4, IdOf
    <3>2. /\ ids[f] \in Range(ids) /\ Admissible(r, ids[f], q.requires)
          /\ ReachableFrom(r, ids[f], q.context) /\ HasEndpoint(r, ids[f], q.wire)
      BY <2>4 DEF Passes
    <3> QED
      BY <1>2, <2>2, <2>3, <2>4, <2>10, <2>11, <3>1, <3>2 DEF RouteOK
  <2> QED
    BY <1>1, <2>1, <2>10, <2>11, Routed
<1> QED
  BY <1>2, <1>3, <1>4, <1>5

LEMMA SendDirectStep ==
  ASSUME RouterInv, NEW c \in Callers, SendDirect(c)
  PROVE  RouterInv'
<1> DEFINE p == call[c]
           m == p.route.name.id
           r == RegistryOf[p.version]
           u == r.models[m].model
           s == Served(m, p.version, UpstreamName(u))
           q == Updated(p, [pc |-> "done", answer |-> "ok", billed |-> u, served |-> s])
<1>1. /\ p \in Calls /\ CallOK(c, p) /\ p.pc = "send" /\ RouterTyped /\ p.route.by = "direct"
      /\ UNCHANGED <<source, deployed, edge, file, cached, due, routerLock, held, router>>
  BY Locks DEF SendDirect, RouterInv, World, FindVars, LockVars
<1>2. call' = [call EXCEPT ![c] = q]
  BY DEF SendDirect, Set
<1>3. /\ p.version \in Versions /\ p.resolvedBy = p.version /\ RouteOK(p) /\ c \notin InProcess
      /\ p.request \in Requests /\ p.request.what # "inprocess"
  BY <1>1 DEF CallOK
<1>4. p.request.what = "group"
  <2>1. p.request.what # "model"
    BY <1>1, <1>3 DEF RouteOK, EdgeRoute
  <2> QED
    BY <1>3, <2>1 DEF Requests
<1>5. Known(r, m)
  BY <1>1, <1>3, <1>4 DEF RouteOK, Admissible, Active
<1>6. m \in Ids /\ u \in Upstreams
  BY <1>3, <1>5, EntryOf
<1>7. s \in Serveds
  BY <1>3, <1>6 DEF Served, Serveds, UpstreamName, WireNames
<1> HIDE DEF u, s
<1>8. /\ q \in Calls /\ q.pc = "done" /\ q.answer = "ok" /\ q.billed = u /\ q.served = s
      /\ q.request = p.request /\ q.route = p.route /\ q.resolvedBy = p.resolvedBy /\ q.version = p.version
  BY <1>1, <1>6, <1>7 DEF Updated, Calls, Labels, Answers
<1> HIDE DEF q
<1>9. RouteOK(q)
  BY <1>3, <1>8 DEF RouteOK
<1>10. DirectDone(q)
  BY <1>1, <1>3, <1>8 DEF DirectDone, s, u
<1>11. CallOK(c, q)
  BY <1>3, <1>8, <1>9, <1>10 DEF CallOK
<1> QED
  BY <1>1, <1>2, <1>8, <1>11, Frame DEF RouterTyped

LEMMA EdgeServesStep ==
  ASSUME RouterInv, NEW c \in Callers, NEW i, NEW asDeployment \in BOOLEAN, EdgeServes(c, i, asDeployment)
  PROVE  RouterInv'
<1> DEFINE p == call[c]
           r == RegistryOf[edge]
           name == p.route.name
           chain == EdgeChain(r, name)
           reported == CASE i = First(DOMAIN chain) -> name
                         [] i # First(DOMAIN chain) /\ asDeployment -> DeploymentName(name.group, chain[i])
                         [] OTHER -> UpstreamName(r.models[chain[i]].model)
           s == Served(chain[i], edge, reported)
           x == IF "id" \in DOMAIN reported THEN "find" ELSE "bill"
           q == Updated(p, [served |-> s, pc |-> x])
<1>1. /\ p \in Calls /\ CallOK(c, p) /\ p.pc = "send" /\ RouterTyped /\ p.route.by = "edge" /\ i \in DOMAIN chain
      /\ UNCHANGED <<source, deployed, edge, file, cached, due, routerLock, held, router>>
  BY Locks DEF EdgeServes, RouterInv, World, FindVars, LockVars
<1>2. call' = [call EXCEPT ![c] = q]
  BY DEF EdgeServes, Set
<1>3. /\ p.version \in Versions /\ p.resolvedBy = p.version /\ RouteOK(p) /\ c \notin InProcess
      /\ p.request \in Requests /\ p.request.what # "inprocess" /\ p.answer = None
  BY <1>1 DEF CallOK
<1>4. edge \in Versions /\ IsRegistry(r)
  BY <1>1, RegistriesAssumption DEF RouterTyped
<1>5. name \in WireNames
  BY <1>3 DEF RouteOK, Routes
<1>6. chain[i] \in Ids /\ Active(r, chain[i]) /\ (i # First(DOMAIN chain) => name.group \in Groups)
  <2>1. CASE p.request.what = "model"
    <3>1. name = IdName(p.request.model)
      BY <1>3, <2>1 DEF RouteOK, EdgeRoute
    <3>2. DOMAIN chain = {1} /\ chain[1] = p.request.model /\ Active(r, p.request.model)
      <4>1. chain = EdgeChain(r, IdName(p.request.model)) /\ DOMAIN chain # {}
        BY <1>1, <3>1
      <4> QED
        BY <4>1, EdgeServesModel
    <3>3. First({1}) = 1
      BY FirstPlace
    <3>4. chain[i] = p.request.model /\ i = First(DOMAIN chain)
      BY <1>1, <3>2, <3>3
    <3>5. p.request.model \in Ids
      BY <1>3, <2>1 DEF Requests
    <3> QED
      BY <3>2, <3>4, <3>5
  <2>2. CASE p.request.what = "group"
    <3> DEFINE g == p.request.group
               requires == p.request.requires
    <3>1. name = WireName(g, requires)
      BY <1>1, <1>3, <2>2 DEF RouteOK, EdgeRoute
    <3>2. /\ g \in DOMAIN r.groups /\ DOMAIN chain = DOMAIN LiveIds(r, g, requires)
          /\ \A j \in DOMAIN chain : chain[j] = LiveIds(r, g, requires)[j]
      <4>1. chain = EdgeChain(r, WireName(g, requires)) /\ DOMAIN chain # {}
        BY <1>1, <3>1
      <4> QED
        BY <1>4, <4>1, EdgeServesGroup
    <3>3. i \in DOMAIN LiveIds(r, g, requires) /\ chain[i] = LiveIds(r, g, requires)[i]
      BY <1>1, <3>2
    <3>4. chain[i] = r.groups[g][i] /\ chain[i] \in Ids
      BY <1>4, <3>2, <3>3, LivePlaces
    <3>5. Admissible(r, r.groups[g][i], requires)
      BY <1>4, <3>2, <3>3, LivePlaces
    <3>6. name.group = g /\ g \in Groups
      BY <1>4, <3>1, <3>2, NameParts, LivePlaces
    <3> QED
      BY <3>4, <3>5, <3>6 DEF Admissible
  <2> QED
    BY <1>3, <2>1, <2>2 DEF Requests
<1>7. \/ i = First(DOMAIN chain) /\ reported = name
      \/ /\ i # First(DOMAIN chain)
         /\ reported \in {DeploymentName(name.group, chain[i]), UpstreamName(r.models[chain[i]].model)}
  OBVIOUS
<1>8. r.models[chain[i]].model \in Upstreams
  BY <1>4, <1>6, EntryOf DEF Active
<1>9. reported \in WireNames
  <2>1. CASE i = First(DOMAIN chain)
    BY <1>5, <1>7, <2>1
  <2>2. CASE i # First(DOMAIN chain)
    <3>1. DeploymentName(name.group, chain[i]) \in WireNames
      BY <1>6, <2>2 DEF DeploymentName, WireNames
    <3>2. UpstreamName(r.models[chain[i]].model) \in WireNames
      BY <1>8 DEF UpstreamName, WireNames
    <3> QED
      BY <1>7, <2>2, <3>1, <3>2
  <2> QED
    BY <2>1, <2>2
<1> HIDE DEF reported
<1>10. s \in Serveds /\ s.id = chain[i] /\ s.version = edge /\ s.reported = reported
  BY <1>4, <1>6, <1>9 DEF Served, Serveds
<1>11. s # None
  BY <1>10, NoneAssumption
<1>12. x \in {"find", "bill"}
  OBVIOUS
<1> HIDE DEF s, x
<1>13. /\ q \in Calls /\ q.pc = x /\ q.answer = p.answer /\ q.served = s /\ q.version = p.version
       /\ q.request = p.request /\ q.route = p.route /\ q.resolvedBy = p.resolvedBy
  BY <1>1, <1>10, <1>12 DEF Updated, Calls, Labels
<1> HIDE DEF q
<1>14. RouteOK(q)
  BY <1>3, <1>13 DEF RouteOK
<1>15. EdgeServed(q)
  <2>1. EdgeChain(RegistryOf[q.served.version], q.route.name) = chain /\ q.route.name = name
        /\ RegistryOf[q.served.version] = r
    BY <1>10, <1>13
  <2> HIDE DEF chain, r, name
  <2> QED
    BY <1>1, <1>7, <1>10, <1>13, <2>1 DEF EdgeServed
<1>16. q.answer # "picked"
  BY <1>3, <1>13, NoneAssumption DEF Answers
<1>17. CallOK(c, q)
  BY <1>3, <1>11, <1>12, <1>13, <1>14, <1>15, <1>16 DEF CallOK
<1> QED
  BY <1>1, <1>2, <1>12, <1>13, <1>17, Frame DEF RouterTyped

LEMMA BillStep ==
  ASSUME RouterInv, NEW c \in Callers, Bill(c)
  PROVE  RouterInv'
<1> DEFINE p == call[c]
           models == Billable(RegistryOf[p.version], p.route, p.served.reported)
<1>1. /\ p \in Calls /\ CallOK(c, p) /\ p.pc = "bill" /\ RouterTyped
      /\ UNCHANGED <<source, deployed, edge, file, cached, due, routerLock, held, router>>
  BY Locks DEF Bill, RouterInv, World, FindVars, LockVars
<1>2. /\ p.version \in Versions /\ p.served # None /\ c \notin InProcess /\ RouteOK(p) /\ EdgeServed(p)
      /\ p.request \in Requests /\ p.request.what # "inprocess"
  BY <1>1 DEF CallOK
<1>3. CASE models = {}
  <2>1. Fail(c, "LLMConfigError")
    BY <1>3 DEF Bill
  <2> QED
    BY <1>1, <2>1, Fails DEF Answers
<1>4. CASE models # {}
  <2>1. PICK u \in models : Set(c, [pc |-> "done", answer |-> "ok", billed |-> u])
    BY <1>4, Zenon DEF Bill
  <2>2. u \in Upstreams
    BY <1>2, BillableIsAModel
  <2> DEFINE q == Updated(p, [pc |-> "done", answer |-> "ok", billed |-> u])
  <2>3. call' = [call EXCEPT ![c] = q]
    BY <2>1 DEF Set
  <2>4. /\ q \in Calls /\ q.pc = "done" /\ q.answer = "ok" /\ q.billed = u /\ q.served = p.served
        /\ q.request = p.request /\ q.route = p.route /\ q.resolvedBy = p.resolvedBy /\ q.version = p.version
    BY <1>1, <2>2 DEF Updated, Calls, Labels, Answers
  <2> HIDE DEF q
  <2>5. RouteOK(q) /\ EdgeServed(q)
    BY <1>2, <2>4, SameStory
  <2>6. EdgeDone(q)
    BY <1>2, <2>1, <2>4, <2>5 DEF EdgeDone
  <2>7. CallOK(c, q)
    BY <1>2, <2>4, <2>5, <2>6 DEF CallOK
  <2> QED
    BY <1>1, <2>3, <2>4, <2>7, Frame DEF RouterTyped
<1> QED
  BY <1>3, <1>4

LEMMA AgainStep ==
  ASSUME RouterInv, NEW c \in Callers, Again(c)
  PROVE  RouterInv'
<1>1. RouterTyped /\ UNCHANGED <<source, deployed, edge, file, cached, due, routerLock, held, router>>
      /\ call' = [call EXCEPT ![c] = Resting]
  BY DEF Again, RouterInv, FindVars, LockVars
<1>2. Resting \in Calls /\ Resting.pc = "idle" /\ Resting.served = None /\ Resting.answer = None
  BY DEF Resting, Calls, Labels
<1>3. CallOK(c, Resting)
  BY <1>2, NoneAssumption DEF CallOK, Answers
<1> HIDE DEF RouterInv
<1> QED
  BY <1>1, <1>2, <1>3, Frame DEF RouterTyped

(* The deployments, the edge's reload and the clock touch no call.         *)
LEMMA WorldStep ==
  ASSUME RouterInv, Deploy \/ EdgeReloads \/ PollIsDue
  PROVE  RouterInv'
<1>1. /\ UNCHANGED <<source, file, cached, routerLock, held, router, call>>
      /\ due' \in BOOLEAN /\ deployed' \in Versions /\ edge' \in Versions
  BY DEF RouterInv, RouterTyped, Deploy, EdgeReloads, PollIsDue, FindVars, LockVars
<1>2. RouterTyped'
  BY <1>1 DEF RouterInv, RouterTyped
<1>3. RegistryAtHand'
  BY <1>1 DEF RouterInv, RegistryAtHand
<1>4. (\A c \in Callers : CallOK(c, call[c]))'
  BY <1>1 DEF RouterInv
<1> QED
  BY <1>2, <1>3, <1>4 DEF RouterInv

(* The invariant holds initially, and every step preserves it.             *)
LEMMA InitRouterInv == RouterInit => RouterInv
<1> SUFFICES ASSUME RouterInit PROVE RouterInv
  OBVIOUS
<1>1. Resting \in Calls /\ Resting.pc = "idle" /\ Resting.served = None /\ Resting.answer = None
  BY DEF Resting, Calls, Labels
<1>2. RouterTyped
  BY <1>1 DEF RouterInit, RouterTyped
<1>3. RegistryAtHand
  BY <1>1 DEF RouterInit, RegistryAtHand
<1>4. \A c \in Callers : CallOK(c, Resting)
  BY <1>1, NoneAssumption DEF CallOK, Answers
<1> QED
  BY <1>2, <1>3, <1>4 DEF RouterInv, RouterInit

LEMMA NextRouterInv == RouterInv /\ [RouterNext]_routerVars => RouterInv'
<1> SUFFICES ASSUME RouterInv, [RouterNext]_routerVars PROVE RouterInv'
  OBVIOUS
<1>1. ASSUME NEW c \in Callers, Step(c) PROVE RouterInv'
  <2>1. CASE NewLock(c) \/ NameLock(c) \/ TakeLock(c) \/ Find(c) \/ ServeCached(c) \/ StartPoll(c)
    BY <2>1, NewLockStep, NameLockStep, TakeLockStep, FindStep, ServeCachedStep, StartPollStep
  <2>2. CASE PollFails(c) \/ PollIsEmpty(c) \/ PollAnswers(c) \/ Write(c) \/ WriteFails(c)
    BY <2>2, PollFailsStep, PollIsEmptyStep, PollAnswersStep, WriteStep, WriteFailsStep
  <2>3. CASE Load(c) \/ Build(c) \/ (call[c].pc = "pick" /\ \E cooling \in SUBSET Ids : Pick(c, cooling))
    BY <2>3, LoadStep, BuildStep, PickStep
  <2>4. CASE Resolve(c)
    <3>1. \/ Refuse(c)
          \/ \E refused \in BOOLEAN : Admit(c, refused)
          \/ \E up \in SUBSET Ids : NotAdmitted(c, up)
      <4>1. \A own, loop \in BOOLEAN : CannotAuthenticate(own, loop) \in BOOLEAN
        BY DEF CannotAuthenticate
      <4> QED
        BY <2>4, <4>1 DEF Resolve
    <3> QED
      BY <3>1, RefuseStep, AdmitStep, NotAdmittedStep
  <2>5. CASE SendDirect(c) \/ Unserved(c) \/ Bill(c)
    BY <2>5, SendDirectStep, UnservedStep, BillStep
  <2>6. CASE \E i \in DOMAIN EdgeChain(RegistryOf[edge], call[c].route.name), d \in BOOLEAN : EdgeServes(c, i, d)
    BY <2>6, EdgeServesStep
  <2> QED
    BY <1>1, <2>1, <2>2, <2>3, <2>4, <2>5, <2>6 DEF Step
<1>2. CASE UNCHANGED routerVars
  <2>1. UNCHANGED <<source, deployed, edge, file, cached, due, routerLock, held, router, call>>
    BY <1>2 DEF routerVars
  <2>2. RouterTyped'
    BY <2>1 DEF RouterInv, RouterTyped
  <2>3. RegistryAtHand'
    BY <2>1 DEF RouterInv, RegistryAtHand
  <2>4. (\A c \in Callers : CallOK(c, call[c]))'
    BY <2>1 DEF RouterInv
  <2> QED
    BY <2>2, <2>3, <2>4 DEF RouterInv
<1>3. CASE RouterNext
  BY <1>1, <1>3, AgainStep, BeginStep, WorldStep DEF RouterNext
<1> QED
  BY <1>2, <1>3

(***************************************************************************)
(* RouterInv is an invariant of the routing (router.py) for every          *)
(* registry, every number of callers, deployments and polls.               *)
(***************************************************************************)
THEOREM RouterInvariant == RouterSpec => []RouterInv
<1> QED
  BY InitRouterInv, NextRouterInv, PTL DEF RouterSpec

(***************************************************************************)
(* ServedIsEligible, for every registry: the entry that answers a call is  *)
(* active in the registry of whoever chose it, declares what the caller    *)
(* requires wherever it stands in the chain, and, on a direct route, can   *)
(* be reached from the context of the caller in its wire format            *)
(* (_resolve_group_json, _parse_registry, _resolve_model_json,             *)
(* resolve_group).                                                         *)
(***************************************************************************)
THEOREM ServedEligibly == RouterSpec => []ServedIsEligible
<1> QED
  BY RouterInvariant, InvServedIsEligible, PTL

(***************************************************************************)
(* BilledIsServed, for every registry: a call is billed to a model of a    *)
(* provider, and to the one that served it when the edge and the consumer  *)
(* read the same registry (billable_model).                                *)
(***************************************************************************)
THEOREM BilledAsServed == RouterSpec => []BilledIsServed
<1> QED
  BY RouterInvariant, InvBilledIsServed, PTL

(***************************************************************************)
(* FallbackIsReported, for every registry: when the edge serves by another *)
(* entry than the first of its chain, fallback_used says so, and it says   *)
(* so only when a later place of the chain served; a direct route names    *)
(* the members it passed over, each for a reason (fallback_used,           *)
(* route_is_degraded).                                                     *)
(***************************************************************************)
THEOREM FallbacksReported == RouterSpec => []FallbackIsReported
<1> QED
  BY RouterInvariant, InvFallbackIsReported, PTL
=============================================================================
