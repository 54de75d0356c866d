------------------------------ MODULE CostSink ------------------------------
(***************************************************************************)
(* The buffering S3 sink of krepis.cost_sink: S3JsonlCostSink.             *)
(*                                                                         *)
(* Threads of one process hand records to one sink.  A flush takes the     *)
(* buffers and the sequence numbers under the lock, PUTs each group with   *)
(* the lock released, advances a group's number after its PUT, and puts    *)
(* the groups that failed back at the front of their buffer.  Any thread   *)
(* may accept, flush or close between two of those steps.  A record stands *)
(* for its JSON row, and a group for a (date, callsite_id) pair; the order *)
(* in which one flush visits its groups is left open.                      *)
(***************************************************************************)
EXTENDS Integers, Sequences, FiniteSets, Functions

CONSTANTS
    Threads,        \* threads that share the sink
    Records,        \* cost records, each handed over once
    Groups,         \* (date, callsite_id) pairs
    GroupOf,        \* the group of each record
    Threshold,      \* flush_threshold
    CapMultiple     \* MAX_RETAINED_MULTIPLE

ASSUME ConstantsAssumption ==
    /\ GroupOf \in [Records -> Groups]
    /\ Threshold \in Nat \ {0}
    /\ CapMultiple \in Nat \ {0}

VARIABLES
    buffers,          \* _buffers
    seq,              \* _seq
    records_dropped,  \* records_dropped
    store,            \* the objects in the bucket
    pc,               \* where each thread stands
    job,              \* the local variables of each thread's flush
    accepted,         \* history: the records accepted, in order
    acked,            \* history: records whose PUT succeeded
    overlapped        \* history: two flushes held one group at once

vars == <<buffers, seq, records_dropped, store, pc, job,
          accepted, acked, overlapped>>

(* What a flush holds: the rows it took and has not settled, the numbers   *)
(* it read with them, the groups left to PUT, the group whose number it is *)
(* about to advance, and whether close() called it.                        *)
Job == [rows : [Groups -> Seq(Records)], seqs : [Groups -> Nat],
        todo : SUBSET Groups, sent : SUBSET Groups, closing : BOOLEAN]

Object == [group : Groups, seq : Nat, rows : Seq(Records)]

Labels == {"idle", "flush", "put", "advance", "close"}

Empty == [g \in Groups |-> <<>>]

NoJob == [rows |-> Empty, seqs |-> [g \in Groups |-> 0],
          todo |-> {}, sent |-> {}, closing |-> FALSE]

-----------------------------------------------------------------------------
(* Helpers of the code.                                                    *)

Cap == Threshold * CapMultiple

(* How many of the oldest records do not fit under the cap.                *)
Overflow(merged) == IF Len(merged) > Cap THEN Len(merged) - Cap ELSE 0

WithoutOverflow(merged) == SubSeq(merged, Overflow(merged) + 1, Len(merged))

(* Mutant of PutObject: the key lacks the number.                          *)
PutUnnumbered(g, n, rows) ==
    {o \in store : o.group # g} \cup {[group |-> g, seq |-> n, rows |-> rows]}

(* put_object: the key is the group and the number, a second PUT of the    *)
(* key replaces the object.                                                *)
PutObject(g, n, rows) ==
    {o \in store : o.group # g \/ o.seq # n}
        \cup {[group |-> g, seq |-> n, rows |-> rows]}

-----------------------------------------------------------------------------

Init ==
    /\ buffers = Empty
    /\ seq = [g \in Groups |-> 0]
    /\ records_dropped = 0
    /\ store = {}
    /\ pc = [t \in Threads |-> "idle"]
    /\ job = [t \in Threads |-> NoJob]
    /\ accepted = <<>>
    /\ acked = {}
    /\ overlapped = FALSE

Goto(t, label) == pc' = [pc EXCEPT ![t] = label]

(* __call__: append under the lock; the thread that finds its group full   *)
(* flushes every group.                                                    *)
Call(t, r) ==
    LET g == GroupOf[r]
        buffer == Append(buffers[g], r)
    IN  /\ pc[t] = "idle"
        /\ r \notin Range(accepted)
        /\ buffers' = [buffers EXCEPT ![g] = buffer]
        /\ accepted' = Append(accepted, r)
        /\ Goto(t, IF Len(buffer) >= Threshold THEN "flush" ELSE "idle")
        /\ UNCHANGED <<seq, records_dropped, store, job, acked, overlapped>>

(* flush() is called from outside (a handler's exit, atexit), or close().  *)
CallFlush(t, closing) ==
    /\ pc[t] = "idle"
    /\ Goto(t, "flush")
    /\ job' = [job EXCEPT ![t].closing = closing]
    /\ UNCHANGED <<buffers, seq, records_dropped, store,
                   accepted, acked, overlapped>>

(* Thread t has taken rows of g and neither settled nor requeued them.     *)
Holds(t, g) == job[t].rows[g] # <<>> \/ g \in job[t].sent

(* Mutant of Snapshot: the buffers are not cleared.                        *)
LeaveBuffers(t) ==
    LET taken == {g \in Groups : buffers[g] # <<>>}
    IN  /\ pc[t] = "flush"
        /\ job' = [job EXCEPT ![t].rows = buffers, ![t].seqs = seq,
                              ![t].todo = taken]
        /\ Goto(t, "put")
        /\ UNCHANGED <<buffers, seq, records_dropped, store,
                       accepted, acked, overlapped>>

(* Under the lock: take every nonempty group and its number.               *)
Snapshot(t) ==
    LET taken == {g \in Groups : buffers[g] # <<>>}
    IN  /\ pc[t] = "flush"
        /\ job' = [job EXCEPT ![t].rows = buffers, ![t].seqs = seq,
                              ![t].todo = taken]
        /\ buffers' = Empty
        /\ Goto(t, "put")
        /\ overlapped' =
              (overlapped \/ \E u \in Threads, g \in taken : Holds(u, g))
        /\ UNCHANGED <<seq, records_dropped, store, accepted, acked>>

(* _put_group, the lock released.  A PUT that raised may have arrived.     *)
PutGroup(t, g) ==
    LET rows == job[t].rows[g]
        written == PutObject(g, job[t].seqs[g], rows)
    IN  /\ pc[t] = "put"
        /\ g \in job[t].todo
        /\ \/ /\ store' = written
              /\ acked' = acked \cup Range(rows)
              /\ job' = [job EXCEPT ![t].rows[g] = <<>>,
                                    ![t].todo = @ \ {g}, ![t].sent = {g}]
              /\ Goto(t, "advance")
           \/ /\ store' \in {store, written}
              /\ job' = [job EXCEPT ![t].todo = @ \ {g}]
              /\ UNCHANGED <<acked, pc>>
        /\ UNCHANGED <<buffers, seq, records_dropped, accepted, overlapped>>

(* Under the lock again: the number after the one this flush used.         *)
Advance(t) ==
    /\ pc[t] = "advance"
    /\ seq' = [g \in Groups |->
                  IF g \in job[t].sent THEN job[t].seqs[g] + 1 ELSE seq[g]]
    /\ job' = [job EXCEPT ![t].sent = {}]
    /\ Goto(t, "put")
    /\ UNCHANGED <<buffers, records_dropped, store,
                   accepted, acked, overlapped>>

(* What could not be written goes in front of what arrived meanwhile.      *)
Merge(failed, arrived) == failed \o arrived

(* The end of flush: _requeue_failed puts back the groups that failed and  *)
(* drops the oldest records beyond the cap, which are counted by their     *)
(* places.                                                                 *)
Requeue(t) ==
    LET merged == [g \in Groups |-> Merge(job[t].rows[g], buffers[g])]
        failed == {g \in Groups : job[t].rows[g] # <<>>}
    IN  /\ pc[t] = "put"
        /\ job[t].todo = {}
        /\ buffers' = [g \in Groups |-> IF g \in failed
                                          THEN WithoutOverflow(merged[g])
                                          ELSE buffers[g]]
        /\ records_dropped' = records_dropped
              + Cardinality(UNION {{g} \X (1..Overflow(merged[g])) : g \in failed})
        /\ job' = [job EXCEPT ![t] = NoJob]
        /\ Goto(t, IF job[t].closing THEN "close" ELSE "idle")
        /\ UNCHANGED <<seq, store, accepted, acked, overlapped>>

(* The rest of close(): what is still buffered is lost, and counted.       *)
CloseRest(t) ==
    /\ pc[t] = "close"
    /\ records_dropped' = records_dropped
          + Cardinality(UNION {{g} \X DOMAIN buffers[g] : g \in Groups})
    /\ buffers' = Empty
    /\ Goto(t, "idle")
    /\ UNCHANGED <<seq, store, job, accepted, acked, overlapped>>

Next ==
    \E t \in Threads :
        \/ \E r \in Records : Call(t, r)
        \/ \E closing \in BOOLEAN : CallFlush(t, closing)
        \/ Snapshot(t)
        \/ \E g \in Groups : PutGroup(t, g)
        \/ Advance(t)
        \/ Requeue(t)
        \/ CloseRest(t)

Spec == Init /\ [][Next]_vars

-----------------------------------------------------------------------------
(* Properties.                                                             *)

(* The records the sink still holds in memory.                             *)
Held(t) == UNION {Range(job[t].rows[g]) : g \in Groups}
Pending == (UNION {Range(buffers[g]) : g \in Groups}) \cup (UNION {Held(t) : t \in Threads})

Stored == UNION {Range(o.rows) : o \in store}

Lost == Range(accepted) \ (Pending \cup acked)

(* records_dropped counts exactly the records that were accepted and are   *)
(* neither written nor still held, however flushes, failures, requeues and *)
(* closes interleave: no loss goes uncounted, and none is counted twice.   *)
LossIsCounted == records_dropped = Cardinality(Lost)

(* The sink implements a counted log: each record has one fate, which is   *)
(* final.  No flush writes what another has written or given up, no        *)
(* requeue brings back what was counted as lost, and a step that loses     *)
(* records adds just their number to records_dropped.                      *)
Log == INSTANCE CountedLog WITH
          held <- Pending, written <- acked, lost <- Lost, counted <- records_dropped
FateIsFinal == Log!Spec

(* What a PUT was reported to have written is still in the bucket, as long *)
(* as no two flushes ever held one group at the same time: neither a retry *)
(* of a PUT whose reply was lost nor a later flush replaces the object.    *)
ReportedIsStored == ~overlapped => acked \subseteq Stored
=============================================================================

