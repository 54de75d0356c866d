--------------------------- MODULE CostSinkProofs ---------------------------
(***************************************************************************)
(* ReportedIsStored, LossIsCounted and FateIsFinal for any threads,        *)
(* records, groups and thresholds.                                         *)
(*                                                                         *)
(* The first argument: as long as no two flushes hold one group, the       *)
(* number a flush read is still the group's number when it PUTs, no object *)
(* has a higher number, and an object with that very number is the trace   *)
(* of a PUT whose reply was lost, so none of its rows was reported as      *)
(* written.  That every row has one copy in memory, and none once it is    *)
(* reported, is what makes the second half true.                           *)
(*                                                                         *)
(* The second: what a requeue cuts and a close drops is as many records as *)
(* it counts places, since every record has one place in memory, and none  *)
(* of them is in memory afterwards or was reported before.  Each lemma of  *)
(* it also says which step of a counted log the action is.                 *)
(***************************************************************************)
EXTENDS CostSink, FiniteSetTheorems, SequenceTheorems, TLAPS

(* The types; the counter's comes with what it counts.                     *)
SinkTypes ==
    /\ buffers \in [Groups -> Seq(Records)]
    /\ seq \in [Groups -> Nat]
    /\ store \subseteq Object
    /\ pc \in [Threads -> Labels]
    /\ job \in [Threads -> Job]
    /\ accepted \in Seq(Records)
    /\ acked \subseteq Records
    /\ overlapped \in BOOLEAN

(* What a flush holds at each of its labels.                               *)
Protocol ==
    \A t \in Threads :
        /\ pc[t] \in {"idle", "flush", "close"} =>
              /\ \A g \in Groups : job[t].rows[g] = <<>>
              /\ job[t].sent = {}
              /\ job[t].todo = {}
        /\ pc[t] = "put" => job[t].sent = {}
        /\ \A g \in job[t].todo : job[t].rows[g] # <<>>
        /\ \A g \in job[t].sent : job[t].rows[g] = <<>>

Belongs(s, g) ==
    \A r \in Range(s) : r \in Range(accepted) /\ r \notin acked /\ GroupOf[r] = g

(* Rows in memory were accepted for their group and are not yet reported.  *)
InGroup ==
    /\ \A g \in Groups : Belongs(buffers[g], g)
    /\ \A t \in Threads, g \in Groups : Belongs(job[t].rows[g], g)
    /\ \A o \in store : \A r \in Range(o.rows) : GroupOf[r] = o.group
    /\ acked \subseteq Range(accepted)

Disjoint(s1, s2) == \A r \in Range(s1) : r \notin Range(s2)

OneCopy ==
    \A t \in Threads, g \in Groups :
        /\ Disjoint(job[t].rows[g], buffers[g])
        /\ \A u \in Threads :
              u # t => Disjoint(job[t].rows[g], job[u].rows[g])

Exclusive ==
    ~overlapped => \A t, u \in Threads, g \in Groups :
        Holds(t, g) /\ Holds(u, g) => t = u

Numbered ==
    ~overlapped => \A t \in Threads, g \in Groups :
        Holds(t, g) => job[t].seqs[g] = seq[g]

Settled(g) == \A t \in Threads : g \notin job[t].sent

StoreNumbers ==
    ~overlapped => \A o \in store :
        /\ o.seq <= seq[o.group]
        /\ o.seq = seq[o.group] /\ Settled(o.group) =>
              \A r \in Range(o.rows) : r \notin acked

IInv ==
    /\ SinkTypes
    /\ Protocol
    /\ InGroup
    /\ OneCopy
    /\ Exclusive
    /\ Numbered
    /\ StoreNumbers
    /\ ReportedIsStored

-----------------------------------------------------------------------------
(* Rows of the sequences the code builds.                                  *)

LEMMA RangeEmpty == Range(<<>>) = {}
  BY DEF Range

LEMMA RangeAppend ==
    ASSUME NEW S, NEW s \in Seq(S), NEW r \in S
    PROVE  /\ Append(s, r) \in Seq(S)
           /\ Range(Append(s, r)) = Range(s) \cup {r}
<1>1. Append(s, r) = s \o <<r>>
  BY AppendIsConcat
<1>2. <<r>> \in Seq(S)
  OBVIOUS
<1>3. Range(<<r>>) = {r}
  BY DEF Range
<1>4. Append(s, r) \in Seq(S)
  BY AppendProperties
<1>5. Range(s \o <<r>>) = Range(s) \cup Range(<<r>>)
  BY <1>2, RangeConcatenation
<1> QED
  BY <1>1, <1>3, <1>4, <1>5

(* Requeueing keeps a part of what was held and what arrived.              *)
LEMMA WithoutOverflowRows ==
    ASSUME NEW s \in Seq(Records)
    PROVE  /\ WithoutOverflow(s) \in Seq(Records)
           /\ Range(WithoutOverflow(s)) \subseteq Range(s)
<1> DEFINE m == Overflow(s) + 1
           n == Len(s)
<1>1. m \in Int /\ n \in Nat /\ m >= 1
  BY ConstantsAssumption DEF Overflow, Cap
<1>2. \A i \in m..n : s[i] \in Records /\ s[i] \in Range(s)
  BY <1>1 DEF Range
<1>3. /\ SubSeq(s, m, n) \in Seq(Records)
      /\ SubSeq(s, m, n) \in Seq(Range(s))
  BY <1>1, <1>2, SubSeqProperties
<1>4. Range(SubSeq(s, m, n)) \in SUBSET Range(s)
  BY <1>3, RangeOfSeq
<1> QED
  BY <1>3, <1>4 DEF WithoutOverflow

LEMMA JobFields ==
    ASSUME SinkTypes, NEW t \in Threads
    PROVE  /\ job[t].rows \in [Groups -> Seq(Records)]
           /\ job[t].seqs \in [Groups -> Nat]
           /\ job[t].todo \subseteq Groups
           /\ job[t].sent \subseteq Groups
           /\ job[t].closing \in BOOLEAN
  BY DEF SinkTypes, Job

LEMMA NoJobType == NoJob \in Job
  BY DEF NoJob, Job, Empty

-----------------------------------------------------------------------------

LEMMA InitIInv == Init => IInv
<1> SUFFICES ASSUME Init PROVE IInv
  OBVIOUS
<1> USE DEF Init
<1>1. SinkTypes
  <2>1. buffers \in [Groups -> Seq(Records)]
    BY DEF Empty
  <2>2. seq \in [Groups -> Nat] /\ pc \in [Threads -> Labels]
    BY DEF Labels
  <2>3. job \in [Threads -> Job]
    BY NoJobType
  <2>4. accepted \in Seq(Records)
    OBVIOUS
  <2>5. store \subseteq Object /\ acked \subseteq Records /\ overlapped \in BOOLEAN
    OBVIOUS
  <2> QED
    BY <2>1, <2>2, <2>3, <2>4, <2>5 DEF SinkTypes
<1>2. \A t \in Threads, g \in Groups :
         job[t].rows[g] = <<>> /\ job[t].sent = {} /\ job[t].todo = {}
  BY DEF NoJob, Empty
<1>3. Protocol
  BY <1>2 DEF Protocol, NoJob
<1>4. InGroup
  BY <1>2, RangeEmpty DEF InGroup, Belongs, Empty
<1>5. OneCopy
  BY <1>2, RangeEmpty DEF OneCopy, Disjoint
<1>6. Exclusive /\ Numbered
  BY <1>2 DEF Exclusive, Numbered, Holds
<1>7. StoreNumbers /\ ReportedIsStored
  BY DEF StoreNumbers, ReportedIsStored, Stored
<1> QED
  BY <1>1, <1>3, <1>4, <1>5, <1>6, <1>7 DEF IInv

-----------------------------------------------------------------------------
(* One lemma per action.                                                   *)

LEMMA CallPreserves ==
    ASSUME IInv, NEW t \in Threads, NEW r \in Records, Call(t, r)
    PROVE  IInv'
<1> DEFINE h == GroupOf[r]
<1>1. h \in Groups
  BY ConstantsAssumption
<1>2. /\ Append(buffers[h], r) \in Seq(Records)
      /\ Range(Append(buffers[h], r)) = Range(buffers[h]) \cup {r}
  BY <1>1, RangeAppend DEF IInv, SinkTypes
<1>3. /\ accepted' \in Seq(Records)
      /\ Range(accepted') = Range(accepted) \cup {r}
  BY RangeAppend DEF IInv, SinkTypes, Call
<1>4. /\ \A g \in Groups : g # h => buffers'[g] = buffers[g]
      /\ buffers'[h] = Append(buffers[h], r)
      /\ buffers' \in [Groups -> Seq(Records)]
  BY <1>1, <1>2 DEF IInv, SinkTypes, Call
<1>5. /\ pc[t] = "idle" /\ r \notin Range(accepted)
      /\ \A u \in Threads : u # t => pc'[u] = pc[u]
      /\ pc'[t] \in {"idle", "flush"} /\ pc' \in [Threads -> Labels]
      /\ seq' = seq /\ store' = store /\ job' = job /\ acked' = acked
      /\ overlapped' = overlapped
  BY DEF IInv, SinkTypes, Labels, Call, Goto
<1>6. SinkTypes'
  BY <1>3, <1>4, <1>5 DEF IInv, SinkTypes
<1>7. Protocol'
  BY <1>5 DEF IInv, Protocol
<1>8. r \notin acked
  BY <1>5 DEF IInv, InGroup
<1>9. InGroup'
  <2>1. \A g \in Groups : Belongs(buffers[g], g)'
    <3> SUFFICES ASSUME NEW g \in Groups, NEW x \in Range(buffers'[g])
                 PROVE  x \in Range(accepted') /\ x \notin acked' /\ GroupOf[x] = g
      BY DEF Belongs
    <3>1. Belongs(buffers[g], g)
      BY DEF IInv, InGroup
    <3>2. x \in Range(buffers[g]) \/ (x = r /\ g = h)
      BY <1>2, <1>4
    <3> QED
      BY <3>1, <3>2, <1>3, <1>5, <1>8 DEF Belongs
  <2>2. \A u \in Threads, g \in Groups : Belongs(job[u].rows[g], g)'
    BY <1>3, <1>5 DEF IInv, InGroup, Belongs
  <2> QED
    BY <1>3, <1>5, <2>1, <2>2 DEF IInv, InGroup
<1>10. \A u \in Threads, g \in Groups :
          Range(buffers'[g]) \cap Range(job[u].rows[g])
              = Range(buffers[g]) \cap Range(job[u].rows[g])
  <2> TAKE u \in Threads, g \in Groups
  <2>1. r \notin Range(job[u].rows[g])
    BY <1>5 DEF IInv, InGroup, Belongs
  <2>2. CASE g = h
    BY <2>1, <2>2, <1>2, <1>4
  <2>3. CASE g # h
    BY <2>3, <1>4
  <2> QED
    BY <2>2, <2>3
<1>11. OneCopy'
  <2>1. OneCopy
    BY DEF IInv
  <2> QED
    BY <2>1, <1>5, <1>10 DEF OneCopy, Disjoint
<1>12. Exclusive' /\ Numbered' /\ StoreNumbers' /\ ReportedIsStored'
  BY <1>5 DEF IInv, Exclusive, Numbered, StoreNumbers, Settled,
              ReportedIsStored, Holds, Stored
<1> QED
  BY <1>6, <1>7, <1>9, <1>11, <1>12 DEF IInv

LEMMA CallFlushPreserves ==
    ASSUME IInv, NEW t \in Threads, NEW closing \in BOOLEAN,
           CallFlush(t, closing)
    PROVE  IInv'
<1>1. /\ pc[t] = "idle" /\ pc'[t] = "flush"
      /\ \A u \in Threads : u # t => pc'[u] = pc[u]
      /\ pc' \in [Threads -> Labels]
  BY DEF IInv, SinkTypes, Labels, CallFlush, Goto
<1>2. job' \in [Threads -> Job]
  BY DEF IInv, SinkTypes, Job, CallFlush
<1>3. \A u \in Threads :
         /\ job'[u].rows = job[u].rows /\ job'[u].seqs = job[u].seqs
         /\ job'[u].todo = job[u].todo /\ job'[u].sent = job[u].sent
  BY DEF IInv, SinkTypes, Job, CallFlush
<1>4. /\ buffers' = buffers /\ seq' = seq /\ store' = store
      /\ accepted' = accepted /\ acked' = acked /\ overlapped' = overlapped
  BY DEF CallFlush
<1>5. SinkTypes'
  BY <1>1, <1>2, <1>4 DEF IInv, SinkTypes
<1>6. Protocol'
  BY <1>1, <1>3 DEF IInv, Protocol
<1>7. InGroup' /\ OneCopy'
  <2>1. InGroup /\ OneCopy
    BY DEF IInv
  <2>2. InGroup'
    BY <2>1, <1>3, <1>4 DEF InGroup, Belongs
  <2>3. OneCopy'
    BY <2>1, <1>3, <1>4 DEF OneCopy, Disjoint
  <2> QED
    BY <2>2, <2>3
<1>8. Exclusive' /\ Numbered' /\ StoreNumbers' /\ ReportedIsStored'
  BY <1>3, <1>4 DEF IInv, Exclusive, Numbered, StoreNumbers, Settled,
                    ReportedIsStored, Holds, Stored
<1> QED
  BY <1>5, <1>6, <1>7, <1>8 DEF IInv

(* A snapshot takes over what is buffered: it held nothing before.         *)
LEMMA SnapshotPreserves ==
    ASSUME IInv, NEW t \in Threads, Snapshot(t)
    PROVE  IInv'
<1> DEFINE taken == {g \in Groups : buffers[g] # <<>>}
<1>1. /\ pc[t] = "flush" /\ pc'[t] = "put"
      /\ \A u \in Threads : u # t => pc'[u] = pc[u]
      /\ pc' \in [Threads -> Labels]
  BY DEF IInv, SinkTypes, Labels, Snapshot, Goto
<1>2. job[t].sent = {} /\ \A g \in Groups : job[t].rows[g] = <<>>
  BY <1>1 DEF IInv, Protocol
<1>3. /\ job'[t].rows = buffers /\ job'[t].seqs = seq
      /\ job'[t].todo = taken /\ job'[t].sent = {}
      /\ \A u \in Threads : u # t => job'[u] = job[u]
      /\ job' \in [Threads -> Job]
  <2>1. /\ job \in [Threads -> Job] /\ buffers \in [Groups -> Seq(Records)]
        /\ seq \in [Groups -> Nat]
    BY DEF IInv, SinkTypes
  <2>2. job' = [job EXCEPT ![t] = [job[t] EXCEPT !.rows = buffers, !.seqs = seq,
                                                !.todo = taken]]
    BY <2>1 DEF Snapshot, Job
  <2>3. [job[t] EXCEPT !.rows = buffers, !.seqs = seq, !.todo = taken] \in Job
    BY <2>1 DEF Job
  <2>4. /\ job'[t].rows = buffers /\ job'[t].seqs = seq
        /\ job'[t].todo = taken /\ job'[t].sent = job[t].sent
    BY <2>1, <2>2 DEF Job
  <2> QED
    BY <1>2, <2>1, <2>2, <2>3, <2>4
<1>4. /\ buffers' = Empty /\ buffers' \in [Groups -> Seq(Records)]
      /\ \A g \in Groups : buffers'[g] = <<>> /\ Range(buffers'[g]) = {}
  BY RangeEmpty DEF Snapshot, Empty
<1>5. /\ seq' = seq /\ store' = store
      /\ accepted' = accepted /\ acked' = acked
      /\ overlapped' \in BOOLEAN
      /\ overlapped' = (overlapped \/ \E u \in Threads, g \in taken : Holds(u, g))
  BY DEF IInv, SinkTypes, Snapshot
<1>6. SinkTypes'
  BY <1>1, <1>3, <1>4, <1>5 DEF IInv, SinkTypes
<1>7. Protocol'
  BY <1>1, <1>3 DEF IInv, Protocol
<1>8. InGroup'
  <2>1. \A g \in Groups : Belongs(buffers[g], g)'
    BY <1>4 DEF Belongs
  <2>2. \A u \in Threads, g \in Groups : Belongs(job[u].rows[g], g)'
    BY <1>3, <1>5 DEF IInv, InGroup, Belongs
  <2> QED
    BY <1>5, <2>1, <2>2 DEF IInv, InGroup
<1>9. OneCopy'
  <2> SUFFICES ASSUME NEW u \in Threads, NEW v \in Threads, u # v,
                      NEW g \in Groups
               PROVE  Disjoint(job[u].rows[g], job[v].rows[g])'
    BY <1>4 DEF OneCopy, Disjoint
  <2>1. /\ Disjoint(job[u].rows[g], job[v].rows[g])
        /\ Disjoint(job[u].rows[g], buffers[g])
        /\ Disjoint(job[v].rows[g], buffers[g])
    BY DEF IInv, OneCopy
  <2> QED
    BY <2>1, <1>3 DEF Disjoint
<1>10. \A g \in Groups : Holds(t, g)' => g \in taken
  BY <1>3 DEF Holds
<1>11. \A u \in Threads, g \in Groups : u # t => (Holds(u, g)' <=> Holds(u, g))
  BY <1>3 DEF Holds
<1>12. Exclusive'
  BY <1>5, <1>10, <1>11 DEF IInv, Exclusive
<1>13. Numbered'
  <2>1. Numbered
    BY DEF IInv
  <2> SUFFICES ASSUME ~overlapped', NEW u \in Threads, NEW g \in Groups,
                      Holds(u, g)'
               PROVE  job'[u].seqs[g] = seq'[g]
    BY DEF Numbered
  <2>2. CASE u = t
    BY <2>2, <1>3, <1>5
  <2>3. CASE u # t
    <3>1. ~overlapped /\ Holds(u, g)
      BY <2>3, <1>5, <1>11
    <3> QED
      BY <2>1, <2>3, <3>1, <1>3, <1>5 DEF Numbered
  <2> QED
    BY <2>2, <2>3
<1>14. StoreNumbers'
  <2>1. \A u \in Threads : job'[u].sent = job[u].sent
    BY <1>2, <1>3
  <2> QED
    BY <1>5, <2>1 DEF IInv, StoreNumbers, Settled
<1>15. ReportedIsStored'
  BY <1>5 DEF IInv, ReportedIsStored, Stored
<1> QED
  BY <1>6, <1>7, <1>8, <1>9, <1>12, <1>13, <1>14, <1>15 DEF IInv

(* As long as no flushes overlapped, the object a PUT would replace is the *)
(* trace of a lost reply: none of its rows was reported.                   *)
LEMMA NothingReportedIsReplaced ==
    ASSUME IInv, ~overlapped, NEW t \in Threads, pc[t] = "put",
           NEW g \in job[t].todo
    PROVE  /\ job[t].seqs[g] = seq[g]
           /\ \A o \in store : o.group = g /\ o.seq = job[t].seqs[g] =>
                 \A r \in Range(o.rows) : r \notin acked
<1>1. g \in Groups /\ job[t].rows[g] # <<>> /\ job[t].sent = {}
  BY JobFields DEF IInv, Protocol
<1>2. Holds(t, g)
  BY <1>1 DEF Holds
<1>3. job[t].seqs[g] = seq[g]
  BY <1>1, <1>2 DEF IInv, Numbered
<1>4. Settled(g)
  <2> SUFFICES ASSUME NEW u \in Threads, g \in job[u].sent PROVE FALSE
    BY DEF Settled
  <2>1. Holds(u, g)
    BY DEF Holds
  <2>2. u = t
    BY <2>1, <1>1, <1>2 DEF IInv, Exclusive
  <2> QED
    BY <2>2, <1>1
<1> QED
  BY <1>3, <1>4 DEF IInv, StoreNumbers

(* The PUT that succeeded: its rows are reported and leave the memory.     *)
LEMMA PutSucceeds ==
    ASSUME IInv, NEW t \in Threads, NEW g \in Groups,
           pc[t] = "put", g \in job[t].todo,
           store' = PutObject(g, job[t].seqs[g], job[t].rows[g]),
           acked' = acked \cup Range(job[t].rows[g]),
           job' = [job EXCEPT ![t].rows[g] = <<>>,
                              ![t].todo = @ \ {g}, ![t].sent = {g}],
           Goto(t, "advance"),
           UNCHANGED <<buffers, seq, records_dropped, accepted, overlapped>>
    PROVE  IInv'
<1> DEFINE rows == job[t].rows[g]
           n == job[t].seqs[g]
           new == [group |-> g, seq |-> n, rows |-> rows]
<1>1. /\ pc'[t] = "advance"
      /\ \A u \in Threads : u # t => pc'[u] = pc[u]
      /\ pc' \in [Threads -> Labels]
  BY DEF IInv, SinkTypes, Labels, Goto
<1>2. rows \in Seq(Records) /\ n \in Nat /\ new \in Object
  BY JobFields DEF IInv, Object
<1>3. job[t].sent = {} /\ rows # <<>>
  BY DEF IInv, Protocol
<1>4. /\ job'[t].rows = [job[t].rows EXCEPT ![g] = <<>>]
      /\ job'[t].seqs = job[t].seqs
      /\ job'[t].todo = job[t].todo \ {g} /\ job'[t].sent = {g}
      /\ \A u \in Threads : u # t => job'[u] = job[u]
      /\ job' \in [Threads -> Job]
  <2>1. job \in [Threads -> Job] /\ job[t].rows \in [Groups -> Seq(Records)]
    BY JobFields DEF IInv, SinkTypes
  <2>2. [job[t].rows EXCEPT ![g] = <<>>] \in [Groups -> Seq(Records)]
    BY <2>1
  <2>3. job' = [job EXCEPT ![t] =
                   [job[t] EXCEPT !.rows = [job[t].rows EXCEPT ![g] = <<>>],
                                  !.todo = job[t].todo \ {g}, !.sent = {g}]]
    BY <2>1 DEF Job
  <2>4. [job[t] EXCEPT !.rows = [job[t].rows EXCEPT ![g] = <<>>],
                       !.todo = job[t].todo \ {g}, !.sent = {g}] \in Job
    BY <2>1, <2>2 DEF Job
  <2> QED
    BY <2>1, <2>3, <2>4 DEF Job
<1>5. /\ job'[t].rows[g] = <<>>
      /\ \A x \in Groups : x # g => job'[t].rows[x] = job[t].rows[x]
  BY <1>4, JobFields DEF IInv
<1>6. \A o \in store' : o = new \/ (o \in store /\ (o.group # g \/ o.seq # n))
  BY DEF PutObject
<1>7. SinkTypes'
  <2>1. store' \subseteq Object
    BY <1>2, <1>6 DEF IInv, SinkTypes
  <2>2. acked' \subseteq Records
    BY <1>2, RangeOfSeq DEF IInv, SinkTypes
  <2> QED
    BY <2>1, <2>2, <1>1, <1>4 DEF IInv, SinkTypes
<1>8. Protocol'
  <2> SUFFICES ASSUME NEW u \in Threads
               PROVE  (/\ pc[u] \in {"idle", "flush", "close"} =>
                             /\ \A x \in Groups : job[u].rows[x] = <<>>
                             /\ job[u].sent = {}
                             /\ job[u].todo = {}
                       /\ pc[u] = "put" => job[u].sent = {}
                       /\ \A x \in job[u].todo : job[u].rows[x] # <<>>
                       /\ \A x \in job[u].sent : job[u].rows[x] = <<>>)'
    BY DEF Protocol
  <2>1. CASE u = t
    <3>1. \A x \in job[t].todo : x \in Groups /\ job[t].rows[x] # <<>>
      BY JobFields DEF IInv, Protocol
    <3> QED
      BY <2>1, <3>1, <1>1, <1>4, <1>5
  <2>2. CASE u # t
    BY <2>2, <1>1, <1>4 DEF IInv, Protocol
  <2> QED
    BY <2>1, <2>2
<1>9. \A x \in Range(rows) : x \in Range(accepted) /\ GroupOf[x] = g
  BY DEF IInv, InGroup, Belongs
<1>10. InGroup'
  <2>1. \A h \in Groups : Belongs(buffers[h], h)'
    <3> SUFFICES ASSUME NEW h \in Groups, NEW x \in Range(buffers[h])
                 PROVE  x \in Range(accepted) /\ x \notin acked' /\ GroupOf[x] = h
      BY DEF Belongs
    <3>1. x \in Range(accepted) /\ x \notin acked /\ GroupOf[x] = h
      BY DEF IInv, InGroup, Belongs
    <3>2. Disjoint(rows, buffers[g])
      BY DEF IInv, OneCopy
    <3> QED
      BY <3>1, <3>2, <1>9 DEF Disjoint
  <2>2. \A u \in Threads, h \in Groups : Belongs(job[u].rows[h], h)'
    <3> SUFFICES ASSUME NEW u \in Threads, NEW h \in Groups,
                        NEW x \in Range(job'[u].rows[h])
                 PROVE  x \in Range(accepted) /\ x \notin acked' /\ GroupOf[x] = h
      BY DEF Belongs
    <3>1. ~(u = t /\ h = g)
      BY <1>5, RangeEmpty
    <3>2. job'[u].rows[h] = job[u].rows[h]
      BY <3>1, <1>4, <1>5
    <3>3. x \in Range(accepted) /\ x \notin acked /\ GroupOf[x] = h
      BY <3>2 DEF IInv, InGroup, Belongs
    <3>4. u # t => Disjoint(rows, job[u].rows[g])
      BY DEF IInv, OneCopy
    <3> QED
      BY <3>1, <3>2, <3>3, <3>4, <1>9 DEF Disjoint
  <2>3. \A o \in store' : \A x \in Range(o.rows) : GroupOf[x] = o.group
    BY <1>6, <1>9 DEF IInv, InGroup
  <2>4. acked' \subseteq Range(accepted')
    BY <1>9 DEF IInv, InGroup
  <2> QED
    BY <2>1, <2>2, <2>3, <2>4 DEF InGroup
<1>11. \A u \in Threads, h \in Groups :
          Range(job'[u].rows[h]) \subseteq Range(job[u].rows[h])
  BY <1>4, <1>5, RangeEmpty
<1>12. OneCopy'
  <2>1. OneCopy
    BY DEF IInv
  <2> QED
    BY <2>1, <1>11 DEF OneCopy, Disjoint
<1>13. \A u \in Threads, h \in Groups : Holds(u, h)' => Holds(u, h)
  <2> TAKE u \in Threads, h \in Groups
  <2>1. CASE u = t
    BY <2>1, <1>3, <1>4, <1>5 DEF Holds
  <2>2. CASE u # t
    BY <2>2, <1>4 DEF Holds
  <2> QED
    BY <2>1, <2>2
<1>14. Exclusive'
  BY <1>13 DEF IInv, Exclusive
<1>15. Numbered'
  <2>1. \A u \in Threads : job'[u].seqs = job[u].seqs
    BY <1>4
  <2> QED
    BY <2>1, <1>13 DEF IInv, Numbered
<1>16. StoreNumbers'
  <2> SUFFICES ASSUME ~overlapped, NEW o \in store'
               PROVE  /\ o.seq <= seq[o.group]
                      /\ o.seq = seq[o.group] /\ Settled(o.group)' =>
                            \A x \in Range(o.rows) : x \notin acked'
    BY DEF StoreNumbers
  <2>1. ~Settled(g)'
    BY <1>4 DEF Settled
  <2>2. CASE o = new
    <3>1. n = seq[g] /\ seq[g] \in Nat
      BY NothingReportedIsReplaced DEF IInv, SinkTypes
    <3> QED
      BY <2>1, <2>2, <3>1
  <2>3. CASE o \in store
    <3>1. /\ o.seq <= seq[o.group]
          /\ o.seq = seq[o.group] /\ Settled(o.group) =>
                \A x \in Range(o.rows) : x \notin acked
      BY <2>3 DEF IInv, StoreNumbers
    <3>2. Settled(o.group)' => o.group # g /\ Settled(o.group)
      BY <2>1, <1>3, <1>4 DEF Settled
    <3>3. \A x \in Range(o.rows) : GroupOf[x] = o.group
      BY <2>3 DEF IInv, InGroup
    <3> QED
      BY <3>1, <3>2, <3>3, <1>9
  <2> QED
    BY <2>2, <2>3, <1>6
<1>17. ReportedIsStored'
  <2> SUFFICES ASSUME ~overlapped, NEW x \in acked'
               PROVE  \E o \in store' : x \in Range(o.rows)
    BY DEF ReportedIsStored, Stored
  <2>1. CASE x \in Range(rows)
    <3>1. new \in store'
      BY DEF PutObject
    <3> QED
      BY <2>1, <3>1
  <2>2. CASE x \in acked
    <3>1. PICK o \in store : x \in Range(o.rows)
      BY <2>2 DEF IInv, ReportedIsStored, Stored
    <3>2. ~(o.group = g /\ o.seq = n)
      BY <2>2, <3>1, NothingReportedIsReplaced
    <3>3. o \in store'
      BY <3>2 DEF PutObject
    <3> QED
      BY <3>1, <3>3
  <2> QED
    BY <2>1, <2>2
<1> QED
  BY <1>7, <1>8, <1>10, <1>12, <1>14, <1>15, <1>16, <1>17 DEF IInv

(* The PUT that raised: the rows stay, whether or not the object arrived.  *)
LEMMA PutFails ==
    ASSUME IInv, NEW t \in Threads, NEW g \in Groups,
           pc[t] = "put", g \in job[t].todo,
           store' \in {store, PutObject(g, job[t].seqs[g], job[t].rows[g])},
           job' = [job EXCEPT ![t].todo = @ \ {g}],
           UNCHANGED <<acked, pc, buffers, seq, records_dropped,
                       accepted, overlapped>>
    PROVE  IInv'
<1> DEFINE rows == job[t].rows[g]
           n == job[t].seqs[g]
           new == [group |-> g, seq |-> n, rows |-> rows]
<1>1. new \in Object
  BY JobFields DEF IInv, Object
<1>2. job' \in [Threads -> Job]
  BY DEF IInv, SinkTypes, Job
<1>3. \A u \in Threads :
         /\ job'[u].rows = job[u].rows /\ job'[u].seqs = job[u].seqs
         /\ job'[u].sent = job[u].sent
         /\ job'[u].todo \subseteq job[u].todo
  BY DEF IInv, SinkTypes, Job
<1>4. \A o \in store' : o = new \/ o \in store
  BY DEF PutObject
<1>5. SinkTypes'
  BY <1>1, <1>2, <1>4 DEF IInv, SinkTypes
<1>6. Protocol'
  BY <1>3 DEF IInv, Protocol
<1>7. \A x \in Range(rows) : x \notin acked /\ GroupOf[x] = g
  BY DEF IInv, InGroup, Belongs
<1>8. InGroup'
  <2>1. InGroup
    BY DEF IInv
  <2>2. \A o \in store' : \A x \in Range(o.rows) : GroupOf[x] = o.group
    BY <2>1, <1>4, <1>7 DEF InGroup
  <2> QED
    BY <2>1, <2>2, <1>3 DEF InGroup, Belongs
<1>9. OneCopy'
  <2>1. OneCopy
    BY DEF IInv
  <2> QED
    BY <2>1, <1>3 DEF OneCopy, Disjoint
<1>10. Exclusive' /\ Numbered'
  BY <1>3 DEF IInv, Exclusive, Numbered, Holds
<1>11. StoreNumbers'
  <2> SUFFICES ASSUME ~overlapped, NEW o \in store'
               PROVE  /\ o.seq <= seq[o.group]
                      /\ o.seq = seq[o.group] /\ Settled(o.group)' =>
                            \A x \in Range(o.rows) : x \notin acked
    BY DEF StoreNumbers
  <2>1. CASE o = new
    <3>1. n = seq[g] /\ seq[g] \in Nat
      BY NothingReportedIsReplaced DEF IInv, SinkTypes
    <3> QED
      BY <2>1, <3>1, <1>7
  <2>2. CASE o \in store
    BY <2>2, <1>3 DEF IInv, StoreNumbers, Settled
  <2> QED
    BY <2>1, <2>2, <1>4
<1>12. ReportedIsStored'
  <2> SUFFICES ASSUME ~overlapped, NEW x \in acked
               PROVE  \E o \in store' : x \in Range(o.rows)
    BY DEF ReportedIsStored, Stored
  <2>1. PICK o \in store : x \in Range(o.rows)
    BY DEF IInv, ReportedIsStored, Stored
  <2>2. ~(o.group = g /\ o.seq = n)
    BY <2>1, NothingReportedIsReplaced
  <2>3. o \in store'
    BY <2>2 DEF PutObject
  <2> QED
    BY <2>1, <2>3
<1> QED
  BY <1>5, <1>6, <1>8, <1>9, <1>10, <1>11, <1>12 DEF IInv

LEMMA PutGroupPreserves ==
    ASSUME IInv, NEW t \in Threads, NEW g \in Groups, PutGroup(t, g)
    PROVE  IInv'
  BY PutSucceeds, PutFails DEF PutGroup

(* The number moves past the object just written.                          *)
LEMMA AdvancePreserves ==
    ASSUME IInv, NEW t \in Threads, Advance(t)
    PROVE  IInv'
<1>1. /\ pc[t] = "advance" /\ pc'[t] = "put"
      /\ \A u \in Threads : u # t => pc'[u] = pc[u]
      /\ pc' \in [Threads -> Labels]
  BY DEF IInv, SinkTypes, Labels, Advance, Goto
<1>2. /\ job' \in [Threads -> Job] /\ job'[t].sent = {}
      /\ \A u \in Threads :
            /\ job'[u].rows = job[u].rows /\ job'[u].seqs = job[u].seqs
            /\ job'[u].todo = job[u].todo
            /\ u # t => job'[u].sent = job[u].sent
  BY DEF IInv, SinkTypes, Job, Advance
<1>3. /\ buffers' = buffers /\ store' = store /\ accepted' = accepted
      /\ acked' = acked /\ overlapped' = overlapped
  BY DEF Advance
<1>4. /\ seq' \in [Groups -> Nat]
      /\ \A g \in Groups : seq'[g] = IF g \in job[t].sent
                                       THEN job[t].seqs[g] + 1 ELSE seq[g]
  BY JobFields DEF IInv, SinkTypes, Advance
<1>5. SinkTypes'
  BY <1>1, <1>2, <1>3, <1>4 DEF IInv, SinkTypes
<1>6. Protocol'
  <2> SUFFICES ASSUME NEW u \in Threads
               PROVE  (/\ pc[u] \in {"idle", "flush", "close"} =>
                             /\ \A x \in Groups : job[u].rows[x] = <<>>
                             /\ job[u].sent = {}
                             /\ job[u].todo = {}
                       /\ pc[u] = "put" => job[u].sent = {}
                       /\ \A x \in job[u].todo : job[u].rows[x] # <<>>
                       /\ \A x \in job[u].sent : job[u].rows[x] = <<>>)'
    BY DEF Protocol
  <2>1. CASE u = t
    BY <2>1, <1>1, <1>2 DEF IInv, Protocol
  <2>2. CASE u # t
    BY <2>2, <1>1, <1>2 DEF IInv, Protocol
  <2> QED
    BY <2>1, <2>2
<1>7. InGroup' /\ OneCopy'
  <2>1. InGroup /\ OneCopy
    BY DEF IInv
  <2>2. InGroup'
    BY <2>1, <1>2, <1>3 DEF InGroup, Belongs
  <2>3. OneCopy'
    BY <2>1, <1>2, <1>3 DEF OneCopy, Disjoint
  <2> QED
    BY <2>2, <2>3
<1>8. \A u \in Threads, g \in Groups : Holds(u, g)' => Holds(u, g)
  <2> TAKE u \in Threads, g \in Groups
  <2>1. CASE u = t
    BY <2>1, <1>2 DEF Holds
  <2>2. CASE u # t
    BY <2>2, <1>2 DEF Holds
  <2> QED
    BY <2>1, <2>2
<1>9. Exclusive'
  BY <1>3, <1>8 DEF IInv, Exclusive
<1>10. Numbered'
  <2> SUFFICES ASSUME ~overlapped, NEW u \in Threads, NEW g \in Groups,
                      Holds(u, g)'
               PROVE  job'[u].seqs[g] = seq'[g]
    BY <1>3 DEF Numbered
  <2>1. g \notin job[t].sent
    <3> SUFFICES ASSUME g \in job[t].sent PROVE FALSE
      OBVIOUS
    <3>1. Holds(t, g)
      BY DEF Holds
    <3>2. u = t
      BY <3>1, <1>8 DEF IInv, Exclusive
    <3>3. job[t].rows[g] = <<>>
      BY DEF IInv, Protocol
    <3> QED
      BY <3>2, <3>3, <1>2 DEF Holds
  <2>2. job[u].seqs[g] = seq[g]
    BY <1>8 DEF IInv, Numbered
  <2> QED
    BY <2>1, <2>2, <1>2, <1>4
<1>11. StoreNumbers'
  <2> SUFFICES ASSUME ~overlapped, NEW o \in store
               PROVE  /\ o.seq <= seq'[o.group]
                      /\ o.seq = seq'[o.group] /\ Settled(o.group)' =>
                            \A x \in Range(o.rows) : x \notin acked
    BY <1>3 DEF StoreNumbers
  <2>1. o.group \in Groups /\ o.seq \in Nat /\ seq[o.group] \in Nat
    BY DEF IInv, SinkTypes, Object
  <2>2. /\ o.seq <= seq[o.group]
        /\ o.seq = seq[o.group] /\ Settled(o.group) =>
              \A x \in Range(o.rows) : x \notin acked
    BY DEF IInv, StoreNumbers
  <2>3. CASE o.group \in job[t].sent
    <3>1. Holds(t, o.group)
      BY <2>3 DEF Holds
    <3>2. seq'[o.group] = seq[o.group] + 1
      BY <2>1, <2>3, <3>1, <1>4 DEF IInv, Numbered
    <3> QED
      BY <2>1, <2>2, <3>2
  <2>4. CASE o.group \notin job[t].sent
    <3>1. seq'[o.group] = seq[o.group]
      BY <2>1, <2>4, <1>4
    <3>2. Settled(o.group)' => Settled(o.group)
      BY <2>4, <1>2 DEF Settled
    <3> QED
      BY <2>2, <3>1, <3>2
  <2> QED
    BY <2>3, <2>4
<1>12. ReportedIsStored'
  BY <1>3 DEF IInv, ReportedIsStored, Stored
<1> QED
  BY <1>5, <1>6, <1>7, <1>9, <1>10, <1>11, <1>12 DEF IInv

(* What could not be written goes back in front of what arrived meanwhile. *)
LEMMA RequeuePreserves ==
    ASSUME IInv, NEW t \in Threads, Requeue(t)
    PROVE  IInv'
<1> DEFINE merged == [g \in Groups |-> Merge(job[t].rows[g], buffers[g])]
<1>1. /\ pc[t] = "put" /\ pc'[t] \in {"idle", "close"}
      /\ \A u \in Threads : u # t => pc'[u] = pc[u]
      /\ pc' \in [Threads -> Labels]
  BY DEF IInv, SinkTypes, Labels, Requeue, Goto
<1>2. job[t].sent = {} /\ job[t].todo = {}
  BY <1>1 DEF IInv, Protocol, Requeue
<1>3. /\ job'[t] = NoJob /\ job' \in [Threads -> Job]
      /\ \A u \in Threads : u # t => job'[u] = job[u]
  BY NoJobType DEF IInv, SinkTypes, Requeue
<1>4. /\ job'[t].sent = {} /\ job'[t].todo = {}
      /\ \A g \in Groups : job'[t].rows[g] = <<>> /\ Range(job'[t].rows[g]) = {}
  BY <1>3, RangeEmpty DEF NoJob, Empty
<1>5. /\ seq' = seq /\ store' = store /\ accepted' = accepted
      /\ acked' = acked /\ overlapped' = overlapped
  BY DEF Requeue
<1>6. \A g \in Groups :
         /\ buffers'[g] \in Seq(Records)
         /\ Range(buffers'[g]) \subseteq Range(job[t].rows[g]) \cup Range(buffers[g])
  <2> TAKE g \in Groups
  <2>1. job[t].rows[g] \in Seq(Records) /\ buffers[g] \in Seq(Records)
    BY JobFields DEF IInv, SinkTypes
  <2>2. /\ merged[g] \in Seq(Records)
        /\ Range(merged[g]) = Range(job[t].rows[g]) \cup Range(buffers[g])
    BY <2>1, ConcatProperties, RangeConcatenation DEF Merge
  <2>3. buffers'[g] \in {WithoutOverflow(merged[g]), buffers[g]}
    BY DEF Requeue
  <2> HIDE DEF merged
  <2> QED
    BY <2>1, <2>2, <2>3, WithoutOverflowRows
<1>7. buffers' \in [Groups -> Seq(Records)]
  <2>1. buffers' = [g \in Groups |-> buffers'[g]]
    BY DEF Requeue
  <2> QED
    BY <2>1, <1>6
<1>8. SinkTypes'
  BY <1>1, <1>3, <1>5, <1>7 DEF IInv, SinkTypes
<1>9. Protocol'
  <2> SUFFICES ASSUME NEW u \in Threads
               PROVE  (/\ pc[u] \in {"idle", "flush", "close"} =>
                             /\ \A x \in Groups : job[u].rows[x] = <<>>
                             /\ job[u].sent = {}
                             /\ job[u].todo = {}
                       /\ pc[u] = "put" => job[u].sent = {}
                       /\ \A x \in job[u].todo : job[u].rows[x] # <<>>
                       /\ \A x \in job[u].sent : job[u].rows[x] = <<>>)'
    BY DEF Protocol
  <2>1. CASE u = t
    BY <2>1, <1>1, <1>4
  <2>2. CASE u # t
    BY <2>2, <1>1, <1>3 DEF IInv, Protocol
  <2> QED
    BY <2>1, <2>2
<1>10. InGroup'
  <2>1. InGroup
    BY DEF IInv
  <2>2. \A g \in Groups : Belongs(buffers[g], g)'
    BY <2>1, <1>5, <1>6 DEF InGroup, Belongs
  <2>3. \A u \in Threads, g \in Groups : Belongs(job[u].rows[g], g)'
    BY <2>1, <1>3, <1>4, <1>5 DEF InGroup, Belongs
  <2> QED
    BY <2>1, <2>2, <2>3, <1>5 DEF InGroup
<1>11. OneCopy'
  <2>1. OneCopy
    BY DEF IInv
  <2> SUFFICES ASSUME NEW u \in Threads, NEW g \in Groups
               PROVE  (/\ Disjoint(job[u].rows[g], buffers[g])
                       /\ \A v \in Threads :
                             v # u => Disjoint(job[u].rows[g], job[v].rows[g]))'
    BY DEF OneCopy
  <2>2. CASE u = t
    BY <2>2, <1>4 DEF Disjoint
  <2>3. CASE u # t
    BY <2>1, <2>3, <1>3, <1>4, <1>6 DEF OneCopy, Disjoint
  <2> QED
    BY <2>2, <2>3
<1>12. /\ \A g \in Groups : ~Holds(t, g)'
       /\ \A u \in Threads, g \in Groups : u # t => (Holds(u, g)' <=> Holds(u, g))
  BY <1>3, <1>4 DEF Holds
<1>13. Exclusive'
  BY <1>5, <1>12 DEF IInv, Exclusive
<1>14. Numbered'
  BY <1>3, <1>5, <1>12 DEF IInv, Numbered
<1>15. StoreNumbers'
  <2>1. \A u \in Threads : job'[u].sent = job[u].sent
    BY <1>2, <1>3, <1>4
  <2> QED
    BY <1>5, <2>1 DEF IInv, StoreNumbers, Settled
<1>16. ReportedIsStored'
  BY <1>5 DEF IInv, ReportedIsStored, Stored
<1> QED
  BY <1>8, <1>9, <1>10, <1>11, <1>13, <1>14, <1>15, <1>16 DEF IInv

LEMMA CloseRestPreserves ==
    ASSUME IInv, NEW t \in Threads, CloseRest(t)
    PROVE  IInv'
<1>1. /\ pc[t] = "close" /\ pc'[t] = "idle"
      /\ \A u \in Threads : u # t => pc'[u] = pc[u]
      /\ pc' \in [Threads -> Labels]
  BY DEF IInv, SinkTypes, Labels, CloseRest, Goto
<1>2. /\ buffers' \in [Groups -> Seq(Records)]
      /\ \A g \in Groups : Range(buffers'[g]) = {}
  BY RangeEmpty DEF CloseRest, Empty
<1>3. /\ seq' = seq /\ store' = store /\ job' = job /\ accepted' = accepted
      /\ acked' = acked /\ overlapped' = overlapped
  BY DEF CloseRest
<1>4. SinkTypes'
  BY <1>1, <1>2, <1>3 DEF IInv, SinkTypes
<1>5. Protocol'
  BY <1>1, <1>3 DEF IInv, Protocol
<1>6. InGroup' /\ OneCopy'
  <2>1. InGroup /\ OneCopy
    BY DEF IInv
  <2>2. InGroup'
    BY <2>1, <1>2, <1>3 DEF InGroup, Belongs
  <2>3. OneCopy'
    BY <2>1, <1>2, <1>3 DEF OneCopy, Disjoint
  <2> QED
    BY <2>2, <2>3
<1>7. Exclusive' /\ Numbered' /\ StoreNumbers' /\ ReportedIsStored'
  BY <1>3 DEF IInv, Exclusive, Numbered, StoreNumbers, Settled,
              ReportedIsStored, Holds, Stored
<1> QED
  BY <1>4, <1>5, <1>6, <1>7 DEF IInv

-----------------------------------------------------------------------------

LEMMA StepPreserves == IInv /\ [Next]_vars => IInv'
<1> SUFFICES ASSUME IInv, [Next]_vars PROVE IInv'
  OBVIOUS
<1>1. CASE Next
  BY <1>1, CallPreserves, CallFlushPreserves, SnapshotPreserves,
     PutGroupPreserves, AdvancePreserves, RequeuePreserves, CloseRestPreserves
     DEF Next
<1>2. CASE UNCHANGED vars
  <2>1. /\ buffers' = buffers /\ seq' = seq /\ store' = store /\ pc' = pc
        /\ job' = job /\ accepted' = accepted /\ acked' = acked
        /\ overlapped' = overlapped
    BY <1>2 DEF vars
  <2>2. SinkTypes' /\ Protocol'
    BY <2>1 DEF IInv, SinkTypes, Protocol
  <2>3. InGroup' /\ OneCopy'
    BY <2>1 DEF IInv, InGroup, Belongs, OneCopy, Disjoint
  <2>4. Exclusive' /\ Numbered' /\ StoreNumbers' /\ ReportedIsStored'
    BY <2>1 DEF IInv, Exclusive, Numbered, StoreNumbers, Settled,
                ReportedIsStored, Holds, Stored
  <2> QED
    BY <2>2, <2>3, <2>4 DEF IInv
<1> QED
  BY <1>1, <1>2

(* The inductive invariant: what flushes hold, and how it relates to the   *)
(* numbers and the objects.                                                *)
THEOREM SinkInvariant == Spec => []IInv
  BY InitIInv, StepPreserves, PTL DEF Spec

(* Whatever a PUT was reported to have written stays in the bucket unless  *)
(* two flushes held one group at once, for any number of threads, records, *)
(* groups and any thresholds.                                              *)
THEOREM SinkKeepsReported == Spec => []ReportedIsStored
<1>1. IInv => ReportedIsStored
  BY DEF IInv
<1> QED
  BY <1>1, SinkInvariant, PTL

-----------------------------------------------------------------------------
(* Each record has one place in memory, and what is lost has been counted. *)
Distinct ==
    /\ \A g \in Groups : IsInjective(buffers[g])
    /\ \A t \in Threads, g \in Groups : IsInjective(job[t].rows[g])
LossInv == IInv /\ Distinct /\ records_dropped \in Nat /\ LossIsCounted

(* The steps of the counted log, over the sink's state.                    *)
Accepts(r) ==
    /\ r \notin Pending \cup acked \cup Lost
    /\ Pending' = Pending \cup {r}
    /\ UNCHANGED <<acked, Lost, records_dropped>>
Writes(some) ==
    /\ Pending' = Pending \ some /\ acked' = acked \cup some
    /\ UNCHANGED <<Lost, records_dropped>>
Loses(some) ==
    /\ Pending' = Pending \ some /\ Lost' = Lost \cup some
    /\ records_dropped' = records_dropped + Cardinality(some)
    /\ UNCHANGED acked
Fated ==
    \/ \E r \in Records : Accepts(r)
    \/ \E some \in SUBSET Pending : Writes(some) \/ Loses(some)
    \/ UNCHANGED <<Pending, acked, Lost, records_dropped>>

LEMMA RangeFinite == ASSUME NEW S, NEW s \in Seq(S) PROVE IsFiniteSet(Range(s))
<1> DEFINE f == [i \in 1..Len(s) |-> s[i]]
<1>1. IsFiniteSet(1..Len(s))
  BY FS_Interval
<1>2. f \in Surjection(1..Len(s), Range(s))
  BY DEF Surjection, Range
<1> QED
  BY <1>1, <1>2, FS_Surjection

LEMMA InjectiveAppend ==
    ASSUME NEW S, NEW s \in Seq(S), NEW r \in S, IsInjective(s), r \notin Range(s)
    PROVE  IsInjective(Append(s, r))
  BY DEF IsInjective, Range

LEMMA InjectiveConcat ==
    ASSUME NEW S, NEW s1 \in Seq(S), NEW s2 \in Seq(S), IsInjective(s1), IsInjective(s2), Disjoint(s1, s2)
    PROVE  IsInjective(s1 \o s2)
<1>1. \A i \in DOMAIN s1, j \in DOMAIN s2 : s1[i] # s2[j]
  BY DEF Disjoint, Range
<1>2. DOMAIN (s1 \o s2) = 1..(Len(s1) + Len(s2)) /\ DOMAIN s1 = 1..Len(s1) /\ DOMAIN s2 = 1..Len(s2)
      /\ Len(s1) \in Nat /\ Len(s2) \in Nat
  BY ConcatProperties
<1>3. \A i \in 1..(Len(s1) + Len(s2)) :
         (s1 \o s2)[i] = IF i <= Len(s1) THEN s1[i] ELSE s2[i - Len(s1)]
  BY ConcatProperties
<1> SUFFICES ASSUME NEW i \in DOMAIN (s1 \o s2), NEW j \in DOMAIN (s1 \o s2), (s1 \o s2)[i] = (s1 \o s2)[j] PROVE i = j
  BY DEF IsInjective
<1>4. CASE i <= Len(s1) /\ j <= Len(s1)
  BY <1>2, <1>3, <1>4 DEF IsInjective
<1>5. CASE i > Len(s1) /\ j > Len(s1)
  <2>1. i - Len(s1) \in DOMAIN s2 /\ j - Len(s1) \in DOMAIN s2 /\ s2[i - Len(s1)] = s2[j - Len(s1)]
    BY <1>2, <1>3, <1>5
  <2>2. i - Len(s1) = j - Len(s1)
    BY <2>1 DEF IsInjective
  <2> QED
    BY <2>2, <1>2
<1>6. CASE i <= Len(s1) /\ j > Len(s1)
  BY <1>1, <1>2, <1>3, <1>6
<1>7. CASE i > Len(s1) /\ j <= Len(s1)
  BY <1>1, <1>2, <1>3, <1>7
<1> QED
  BY <1>2, <1>4, <1>5, <1>6, <1>7

(* What is cut under the cap is the first places of the sequence.          *)
LEMMA CutRows ==
    ASSUME NEW s \in Seq(Records), IsInjective(s)
    PROVE  /\ 1..Overflow(s) \subseteq DOMAIN s
           /\ IsInjective(WithoutOverflow(s))
           /\ Range(WithoutOverflow(s)) = Range(s) \ {s[i] : i \in 1..Overflow(s)}
<1> DEFINE k == Overflow(s)
           n == Len(s)
           rest == WithoutOverflow(s)
<1>1. k \in 0..n /\ n \in Nat /\ DOMAIN s = 1..n
  BY ConstantsAssumption DEF Overflow, Cap
<1>2. \A i \in (k + 1)..n : s[i] \in Records
  BY <1>1
<1>3. /\ Len(rest) = n - k
      /\ \A i \in 1..(n - k) : rest[i] = s[k + i]
      /\ rest \in Seq(Records)
  <2>1. rest = SubSeq(s, k + 1, n)
    BY DEF WithoutOverflow
  <2>2. k + 1 \in Int /\ n \in Int
    BY <1>1
  <2> HIDE DEF k, n, rest
  <2>3. /\ rest \in Seq(Records)
        /\ Len(rest) = IF k + 1 <= n THEN n - (k + 1) + 1 ELSE 0
        /\ \A i \in 1..(n - (k + 1) + 1) : rest[i] = s[(k + 1) + i - 1]
    BY <1>2, <2>1, <2>2, SubSeqProperties
  <2> QED
    BY <1>1, <2>3
<1>4. DOMAIN rest = 1..(n - k)
  BY <1>3
<1> HIDE DEF k, rest, n
<1>5. IsInjective(rest)
  <2> SUFFICES ASSUME NEW i \in 1..(n - k), NEW j \in 1..(n - k), rest[i] = rest[j] PROVE i = j
    BY <1>4 DEF IsInjective
  <2>1. k + i \in DOMAIN s /\ k + j \in DOMAIN s /\ s[k + i] = s[k + j]
    BY <1>1, <1>3
  <2>2. k + i = k + j
    BY <2>1 DEF IsInjective
  <2> QED
    BY <2>2, <1>1
<1>6. Range(rest) \subseteq Range(s) \ {s[i] : i \in 1..k}
  <2> SUFFICES ASSUME NEW i \in 1..(n - k) PROVE rest[i] \in Range(s) /\ \A j \in 1..k : rest[i] # s[j]
    BY <1>4 DEF Range
  <2>1. k + i \in DOMAIN s /\ rest[i] = s[k + i]
    BY <1>1, <1>3
  <2>2. \A j \in 1..k : j \in DOMAIN s /\ j # k + i
    BY <1>1
  <2> QED
    BY <2>1, <2>2 DEF IsInjective, Range
<1>7. Range(s) \ {s[i] : i \in 1..k} \subseteq Range(rest)
  <2> SUFFICES ASSUME NEW i \in 1..n, i \notin 1..k PROVE s[i] \in Range(rest)
    BY <1>1 DEF Range
  <2>1. i - k \in 1..(n - k) /\ s[i] = rest[i - k]
    BY <1>1, <1>3
  <2> QED
    BY <2>1, <1>4 DEF Range
<1> QED
  BY <1>1, <1>5, <1>6, <1>7 DEF k, rest

(* A step that leaves every accepted record where it can be found, or adds *)
(* one that can, loses nothing.                                            *)
LEMMA NothingLost ==
    ASSUME LossInv, records_dropped' = records_dropped,
           Lost' = Lost
    PROVE  (records_dropped \in Nat /\ LossIsCounted)'
  BY DEF LossInv, LossIsCounted

LEMMA UnionCardinality ==
    ASSUME NEW A, NEW B, IsFiniteSet(A), IsFiniteSet(B), A \cap B = {}
    PROVE  Cardinality(A \cup B) = Cardinality(A) + Cardinality(B)
<1>1. Cardinality(A \cup B) = Cardinality(A) + Cardinality(B) - Cardinality(A \cap B)
  BY FS_Union
<1>2. Cardinality(A \cap B) = 0
  BY FS_EmptySet
<1>3. Cardinality(A) \in Nat /\ Cardinality(B) \in Nat
  BY FS_CardinalityType
<1> QED
  BY <1>1, <1>2, <1>3

(* A step that counts the places it cuts counts what it loses.             *)
LEMMA CutsAreCounted ==
    ASSUME LossInv, accepted \in Seq(Records),
           NEW places, NEW cut, NEW f \in Bijection(places, cut),
           cut \subseteq Pending, cut \subseteq Range(accepted), cut \cap acked = {},
           records_dropped' = records_dropped + Cardinality(places),
           accepted' = accepted, acked' = acked, Pending' = Pending \ cut
    PROVE  (records_dropped \in Nat /\ LossIsCounted)' /\ Fated
<1>1. IsFiniteSet(Range(accepted))
  BY RangeFinite
<1>2. IsFiniteSet(cut) /\ IsFiniteSet(Lost)
  BY <1>1, FS_Subset DEF Lost
<1>3. IsFiniteSet(places)
  <2>1. f \in Injection(places, cut)
    BY DEF Bijection
  <2> QED
    BY <2>1, <1>2, FS_Injection
<1>4. Cardinality(cut) = Cardinality(places)
  <2>1. ExistsBijection(places, cut)
    BY DEF ExistsBijection
  <2> QED
    BY <2>1, <1>3, FS_Bijection
<1>5. Lost' = Lost \cup cut
  BY DEF Lost
<1>6. Lost \cap cut = {}
  BY DEF Lost
<1>7. Cardinality(Lost \cup cut) = Cardinality(Lost) + Cardinality(cut)
  BY <1>2, <1>6, UnionCardinality
<1>8. Cardinality(cut) \in Nat /\ records_dropped \in Nat /\ records_dropped = Cardinality(Lost)
  BY <1>2, FS_CardinalityType DEF LossInv, LossIsCounted, Lost
<1>9. records_dropped' = Cardinality(Lost \cup cut) /\ records_dropped' \in Nat
  BY <1>4, <1>7, <1>8
<1>10. Loses(cut)
  BY <1>4, <1>5 DEF Loses
<1> QED
  BY <1>5, <1>9, <1>10 DEF LossIsCounted, Fated

-----------------------------------------------------------------------------
InMemory(x) ==
    \/ \E g \in Groups : x \in Range(buffers[g])
    \/ \E t \in Threads, g \in Groups : x \in Range(job[t].rows[g])
LEMMA PendingIsInMemory == (\A x : x \in Pending <=> InMemory(x)) /\ (\A x : x \in Pending' <=> InMemory(x)')
<1>1. ASSUME NEW x PROVE x \in Pending <=> InMemory(x)
  <2>1. x \in Pending <=> x \in UNION {Range(buffers[g]) : g \in Groups} \/ x \in UNION {Held(t) : t \in Threads}
    BY DEF Pending
  <2>2. x \in UNION {Range(buffers[g]) : g \in Groups} <=> \E g \in Groups : x \in Range(buffers[g])
    OBVIOUS
  <2>3. x \in UNION {Held(t) : t \in Threads} <=> \E t \in Threads : x \in Held(t)
    OBVIOUS
  <2>4. \A t : x \in Held(t) <=> \E g \in Groups : x \in Range(job[t].rows[g])
    BY DEF Held
  <2> QED
    BY <2>1, <2>2, <2>3, <2>4 DEF InMemory
<1>2. ASSUME NEW x PROVE x \in Pending' <=> InMemory(x)'
  <2>1. x \in Pending' <=> x \in UNION {Range(buffers'[g]) : g \in Groups} \/ x \in UNION {Held(t)' : t \in Threads}
    BY DEF Pending
  <2>2. x \in UNION {Range(buffers'[g]) : g \in Groups} <=> \E g \in Groups : x \in Range(buffers'[g])
    OBVIOUS
  <2>3. x \in UNION {Held(t)' : t \in Threads} <=> \E t \in Threads : x \in Held(t)'
    OBVIOUS
  <2>4. \A t : x \in Held(t)' <=> \E g \in Groups : x \in Range(job'[t].rows[g])
    BY DEF Held
  <2> QED
    BY <2>1, <2>2, <2>3, <2>4 DEF InMemory
<1> QED
  BY <1>1, <1>2

LEMMA InitLoss == Init => LossInv
<1> SUFFICES ASSUME Init PROVE LossInv
  OBVIOUS
<1>1. IInv
  BY InitIInv
<1>2. IsInjective(<<>>)
  BY DEF IsInjective
<1>3. Distinct
  BY <1>2 DEF Init, Distinct, Empty, NoJob
<1>4. Range(accepted) = {}
  BY RangeEmpty DEF Init
<1>5. LossIsCounted /\ records_dropped \in Nat
  BY <1>4, FS_EmptySet DEF LossIsCounted, Lost, Init
<1> QED
  BY <1>1, <1>3, <1>5 DEF LossInv

(* A group's row in memory belongs to no other group.                      *)
LEMMA RowsAreOwn ==
    ASSUME LossInv, NEW g \in Groups, NEW x
    PROVE  /\ x \in Range(buffers[g]) => x \in Range(accepted) /\ x \notin acked /\ GroupOf[x] = g
           /\ \A t \in Threads :
                 x \in Range(job[t].rows[g]) => x \in Range(accepted) /\ x \notin acked /\ GroupOf[x] = g
  BY DEF LossInv, IInv, InGroup, Belongs

LEMMA CallLoss ==
    ASSUME LossInv, NEW t \in Threads, NEW r \in Records, Call(t, r)
    PROVE  LossInv' /\ Fated
<1> DEFINE h == GroupOf[r]
<1>1. h \in Groups
  BY ConstantsAssumption
<1>2. /\ buffers \in [Groups -> Seq(Records)] /\ accepted \in Seq(Records)
      /\ job' = job /\ acked' = acked /\ records_dropped' = records_dropped
      /\ r \notin Range(accepted)
      /\ \A g \in Groups : g # h => buffers'[g] = buffers[g]
      /\ buffers'[h] = Append(buffers[h], r)
      /\ accepted' = Append(accepted, r)
  BY <1>1 DEF LossInv, IInv, SinkTypes, Call
<1>3. Range(buffers'[h]) = Range(buffers[h]) \cup {r} /\ Range(accepted') = Range(accepted) \cup {r}
  BY <1>1, <1>2, RangeAppend
<1>4. r \notin Range(buffers[h])
  BY <1>1, <1>2 DEF LossInv, IInv, InGroup, Belongs
<1>5. IsInjective(buffers'[h])
  BY <1>1, <1>2, <1>4, InjectiveAppend DEF LossInv, Distinct
<1>6. Distinct'
  BY <1>2, <1>5 DEF LossInv, Distinct
<1>7. Pending' = Pending \cup {r}
  <2>1. \A x : InMemory(x)' <=> (InMemory(x) \/ x = r)
    BY <1>1, <1>2, <1>3 DEF InMemory
  <2> QED
    BY <2>1, PendingIsInMemory
<1>8. Lost' = Lost
  BY <1>2, <1>3, <1>7 DEF Lost
<1>9. IInv'
  BY CallPreserves DEF LossInv
<1>10. Accepts(r)
  <2>1. r \notin Pending
    BY <1>2, PendingIsInMemory, RowsAreOwn DEF InMemory
  <2>2. r \notin acked
    BY <1>2 DEF LossInv, IInv, InGroup
  <2> QED
    BY <1>2, <1>7, <1>8, <2>1, <2>2 DEF Accepts, Lost
<1> QED
  BY <1>2, <1>6, <1>8, <1>9, <1>10, NothingLost DEF LossInv, Fated

(* A step that moves rows between the memory's places, or out of it into   *)
(* what was reported.                                                      *)
LEMMA MovesLoss ==
    ASSUME LossInv, IInv', Distinct', UNCHANGED <<accepted, records_dropped>>,
           NEW some \in SUBSET Pending, Pending' = Pending \ some, acked' = acked \cup some
    PROVE  LossInv' /\ Fated
<1>1. Lost' = Lost
  BY DEF Lost
<1> QED
  BY <1>1, NothingLost DEF LossInv, Fated, Writes

LEMMA StillLoss ==
    ASSUME LossInv, IInv', Distinct', UNCHANGED <<accepted, records_dropped, acked, Pending>>
    PROVE  LossInv' /\ Fated
<1>1. {} \in SUBSET Pending /\ Pending' = Pending \ {} /\ acked' = acked \cup {}
  OBVIOUS
<1> QED
  BY <1>1, MovesLoss

LEMMA QuietLoss ==
    ASSUME LossInv, NEW t \in Threads,
           (\E closing \in BOOLEAN : CallFlush(t, closing)) \/ Advance(t)
    PROVE  LossInv' /\ Fated
<1>1. IInv'
  BY CallFlushPreserves, AdvancePreserves DEF LossInv
<1>2. /\ UNCHANGED <<buffers, accepted, acked, records_dropped>>
      /\ \A u \in Threads : job'[u].rows = job[u].rows
  <2>1. job \in [Threads -> Job]
    BY DEF LossInv, IInv, SinkTypes
  <2>2. CASE \E closing \in BOOLEAN : CallFlush(t, closing)
    BY <2>1, <2>2 DEF CallFlush, Job
  <2>3. CASE Advance(t)
    BY <2>1, <2>3 DEF Advance, Job
  <2> QED
    BY <2>2, <2>3
<1>3. Distinct'
  BY <1>2 DEF LossInv, Distinct
<1>4. Pending' = Pending
  BY <1>2, PendingIsInMemory DEF InMemory
<1> QED
  BY <1>1, <1>2, <1>3, <1>4, StillLoss

LEMMA SnapshotLoss ==
    ASSUME LossInv, NEW t \in Threads, Snapshot(t)
    PROVE  LossInv' /\ Fated
<1>1. IInv'
  BY SnapshotPreserves DEF LossInv
<1>2. /\ UNCHANGED <<accepted, acked, records_dropped>>
      /\ buffers' = Empty
      /\ job'[t].rows = buffers
      /\ \A u \in Threads : u # t => job'[u].rows = job[u].rows
  BY DEF Snapshot, LossInv, IInv, SinkTypes, Job
<1>3. \A g \in Groups : job[t].rows[g] = <<>> /\ buffers'[g] = <<>>
  BY <1>2 DEF Snapshot, LossInv, IInv, Protocol, Empty
<1>4. IsInjective(<<>>)
  BY DEF IsInjective
<1>5. Distinct'
  BY <1>2, <1>3, <1>4 DEF LossInv, Distinct
<1>6. Pending' = Pending
  <2>1. \A x : InMemory(x)' <=> InMemory(x)
    BY <1>2, <1>3, RangeEmpty DEF InMemory
  <2> QED
    BY <2>1, PendingIsInMemory
<1> QED
  BY <1>1, <1>2, <1>5, <1>6, StillLoss

LEMMA PutLoss ==
    ASSUME LossInv, NEW t \in Threads, NEW g \in Groups, PutGroup(t, g)
    PROVE  LossInv' /\ Fated
<1>1. IInv'
  BY PutGroupPreserves DEF LossInv
<1>2. /\ UNCHANGED <<buffers, accepted, records_dropped>>
      /\ \A u \in Threads, h \in Groups : <<u, h>> # <<t, g>> => job'[u].rows[h] = job[u].rows[h]
      /\ \/ job'[t].rows[g] = job[t].rows[g] /\ acked' = acked
         \/ job'[t].rows[g] = <<>> /\ acked' = acked \cup Range(job[t].rows[g])
  <2>1. job \in [Threads -> Job]
    BY DEF LossInv, IInv, SinkTypes
  <2>2. CASE job' = [job EXCEPT ![t].todo = @ \ {g}] /\ UNCHANGED <<acked, pc>>
    BY <2>1, <2>2 DEF PutGroup, Job
  <2>3. CASE /\ acked' = acked \cup Range(job[t].rows[g])
             /\ job' = [job EXCEPT ![t].rows[g] = <<>>, ![t].todo = @ \ {g}, ![t].sent = {g}]
    BY <2>1, <2>3 DEF PutGroup, Job
  <2> QED
    BY <2>2, <2>3 DEF PutGroup
<1>3. IsInjective(<<>>)
  BY DEF IsInjective
<1>4. Distinct'
  BY <1>2, <1>3 DEF LossInv, Distinct
<1> DEFINE some == IF acked' = acked THEN {} ELSE Range(job[t].rows[g])
<1>5. some \subseteq Pending /\ acked' = acked \cup some
  BY <1>2, PendingIsInMemory DEF InMemory
<1>6. Pending' = Pending \ some
  <2>1. \A x : InMemory(x)' \/ x \in acked' <=> InMemory(x) \/ x \in acked
    BY <1>2, RangeEmpty DEF InMemory
  <2>2. \A x : x \in Pending => x \notin acked
    BY PendingIsInMemory, RowsAreOwn DEF InMemory
  <2>3. \A x : x \in Pending' => x \notin acked'
    BY <1>1, PendingIsInMemory DEF InMemory, IInv, InGroup, Belongs
  <2> QED
    BY <2>1, <2>2, <2>3, <1>5, PendingIsInMemory
<1> QED
  BY <1>1, <1>2, <1>4, <1>5, <1>6, MovesLoss

LEMMA RequeueLoss ==
    ASSUME LossInv, NEW t \in Threads, Requeue(t)
    PROVE  LossInv' /\ Fated
<1> DEFINE merged == [g \in Groups |-> Merge(job[t].rows[g], buffers[g])]
           failed == {g \in Groups : job[t].rows[g] # <<>>}
           places == UNION {{g} \X (1..Overflow(merged[g])) : g \in failed}
           f == [p \in places |-> merged[p[1]][p[2]]]
           cut == {f[p] : p \in places}
<1>1. IInv'
  BY RequeuePreserves DEF LossInv
<1>2. /\ UNCHANGED <<accepted, acked>>
      /\ records_dropped' = records_dropped + Cardinality(places)
      /\ \A g \in Groups : job'[t].rows[g] = <<>>
      /\ \A u \in Threads : u # t => job'[u] = job[u]
      /\ \A g \in Groups : buffers'[g] = IF g \in failed THEN WithoutOverflow(merged[g]) ELSE buffers[g]
  BY DEF Requeue, LossInv, IInv, SinkTypes, NoJob, Empty
<1>3. \A g \in Groups :
         /\ merged[g] \in Seq(Records) /\ IsInjective(merged[g])
         /\ Range(merged[g]) = Range(job[t].rows[g]) \cup Range(buffers[g])
  <2> TAKE g \in Groups
  <2>1. job[t].rows[g] \in Seq(Records) /\ buffers[g] \in Seq(Records)
    BY JobFields DEF LossInv, IInv, SinkTypes
  <2>2. IsInjective(job[t].rows[g]) /\ IsInjective(buffers[g]) /\ Disjoint(job[t].rows[g], buffers[g])
    BY DEF LossInv, Distinct, IInv, OneCopy
  <2> QED
    BY <2>1, <2>2, ConcatProperties, RangeConcatenation, InjectiveConcat DEF Merge
<1> HIDE DEF merged
<1>4. \A g \in Groups :
         /\ 1..Overflow(merged[g]) \subseteq DOMAIN merged[g]
         /\ IsInjective(WithoutOverflow(merged[g]))
         /\ Range(WithoutOverflow(merged[g]))
               = Range(merged[g]) \ {merged[g][i] : i \in 1..Overflow(merged[g])}
  BY <1>3, CutRows
<1>5. \A p \in places : p[1] \in failed /\ p[2] \in 1..Overflow(merged[p[1]]) /\ p = <<p[1], p[2]>>
  OBVIOUS
<1>6. \A g \in failed : \A i \in 1..Overflow(merged[g]) : <<g, i>> \in places /\ f[<<g, i>>] = merged[g][i]
  <2> TAKE g \in failed
  <2> TAKE i \in 1..Overflow(merged[g])
  <2>1. <<g, i>> \in {g} \X (1..Overflow(merged[g]))
    OBVIOUS
  <2>2. <<g, i>> \in places
    BY <2>1
  <2> QED
    BY <2>2
<1>7. \A p \in places : f[p] = merged[p[1]][p[2]]
  OBVIOUS
<1>8. \A x : x \in cut <=> \E p \in places : x = f[p]
  OBVIOUS
<1>9. f \in [places -> cut]
  OBVIOUS
<1> HIDE DEF places, f, cut
<1>10. \A x : x \in cut <=> \E g \in failed : x \in {merged[g][i] : i \in 1..Overflow(merged[g])}
  <2> TAKE x
  <2>1. ASSUME x \in cut PROVE \E g \in failed : x \in {merged[g][i] : i \in 1..Overflow(merged[g])}
    <3>1. PICK p \in places : x = merged[p[1]][p[2]]
      BY <2>1, <1>7, <1>8
    <3> QED
      BY <3>1, <1>5
  <2>2. ASSUME NEW g \in failed, x \in {merged[g][i] : i \in 1..Overflow(merged[g])} PROVE x \in cut
    BY <2>2, <1>6, <1>8
  <2> QED
    BY <2>1, <2>2
<1>11. \A g \in Groups : \A x \in Range(merged[g]) : x \in Range(accepted) /\ x \notin acked /\ GroupOf[x] = g
  BY <1>3, RowsAreOwn
<1>12. \A g \in failed : \A i \in 1..Overflow(merged[g]) : merged[g][i] \in Range(merged[g])
  BY <1>4 DEF Range
<1>13. f \in Bijection(places, cut)
  <2>1. ASSUME NEW p \in places, NEW q \in places, f[p] = f[q] PROVE p = q
    <3>1. GroupOf[f[p]] = p[1]
      BY <1>5, <1>11, <1>12, <1>7
    <3>2. GroupOf[f[q]] = q[1]
      BY <1>5, <1>11, <1>12, <1>7
    <3>3. p[1] = q[1]
      BY <2>1, <3>1, <3>2
    <3>4. p[2] = q[2]
      BY <2>1, <3>3, <1>3, <1>4, <1>5, <1>7 DEF IsInjective
    <3> QED
      BY <3>3, <3>4, <1>5
  <2>2. f \in Injection(places, cut)
    BY <2>1, <1>9 DEF Injection, IsInjective
  <2>3. f \in Surjection(places, cut)
    BY <1>8, <1>9 DEF Surjection
  <2> QED
    BY <2>2, <2>3 DEF Bijection
<1>14. cut \subseteq Range(accepted) /\ cut \cap acked = {} /\ cut \subseteq Pending
  <2> SUFFICES ASSUME NEW x \in cut PROVE x \in Range(accepted) /\ x \notin acked /\ InMemory(x)
    BY PendingIsInMemory
  <2>1. PICK g \in failed : x \in Range(merged[g])
    BY <1>10, <1>12
  <2> QED
    BY <2>1, <1>3, <1>11 DEF InMemory
<1>15. \A x, g : g \in Groups => (x \in Range(buffers'[g])
                  <=> x \notin cut /\ x \in Range(job[t].rows[g]) \cup Range(buffers[g]))
  <2> SUFFICES ASSUME NEW g \in Groups, NEW x
               PROVE  x \in Range(buffers'[g]) <=> x \notin cut /\ x \in Range(merged[g])
    BY <1>3
  <2>1. ASSUME x \in Range(merged[g]), x \in cut
        PROVE  g \in failed /\ x \in {merged[g][i] : i \in 1..Overflow(merged[g])}
    <3>1. PICK h \in failed : x \in {merged[h][i] : i \in 1..Overflow(merged[h])}
      BY <2>1, <1>10
    <3>2. x \in Range(merged[h])
      BY <3>1, <1>12
    <3>3. GroupOf[x] = h /\ GroupOf[x] = g
      BY <2>1, <3>2, <1>11
    <3> QED
      BY <3>1, <3>3
  <2>2. CASE g \in failed
    BY <2>1, <2>2, <1>2, <1>4, <1>10
  <2>3. CASE g \notin failed
    BY <2>1, <2>3, <1>2, <1>3, RangeEmpty
  <2> QED
    BY <2>2, <2>3
<1>16. \A x : \A u \in Threads, g \in Groups : u # t /\ x \in Range(job[u].rows[g]) => x \notin cut
  <2> SUFFICES ASSUME NEW u \in Threads, NEW g \in Groups, NEW x \in cut, u # t, x \in Range(job[u].rows[g])
               PROVE  FALSE
    OBVIOUS
  <2>1. PICK h \in failed : x \in Range(merged[h])
    BY <1>10, <1>12
  <2>2. h = g
    BY <2>1, <1>11, RowsAreOwn
  <2>3. Disjoint(job[u].rows[g], job[t].rows[g]) /\ Disjoint(job[u].rows[g], buffers[g])
    BY DEF LossInv, IInv, OneCopy
  <2> QED
    BY <2>1, <2>2, <2>3, <1>3 DEF Disjoint
<1>17. Pending' = Pending \ cut
  <2>1. \A x : InMemory(x)' <=> InMemory(x) /\ x \notin cut
    BY <1>2, <1>15, <1>16, RangeEmpty DEF InMemory
  <2> QED
    BY <2>1, PendingIsInMemory
<1>18. IsInjective(<<>>)
  BY DEF IsInjective
<1>19. Distinct'
  BY <1>2, <1>4, <1>18 DEF LossInv, Distinct
<1>20. (records_dropped \in Nat /\ LossIsCounted)' /\ Fated
  BY <1>2, <1>13, <1>14, <1>17, CutsAreCounted DEF LossInv, IInv, SinkTypes
<1> QED
  BY <1>1, <1>19, <1>20 DEF LossInv

LEMMA CloseRestLoss ==
    ASSUME LossInv, NEW t \in Threads, CloseRest(t)
    PROVE  LossInv' /\ Fated
<1> DEFINE places == UNION {{g} \X DOMAIN buffers[g] : g \in Groups}
           f == [p \in places |-> buffers[p[1]][p[2]]]
           cut == {f[p] : p \in places}
<1>1. IInv'
  BY CloseRestPreserves DEF LossInv
<1>2. /\ UNCHANGED <<job, accepted, acked>>
      /\ records_dropped' = records_dropped + Cardinality(places)
      /\ \A g \in Groups : buffers'[g] = <<>>
  BY DEF CloseRest, Empty
<1>3. \A p \in places : p[1] \in Groups /\ p[2] \in DOMAIN buffers[p[1]] /\ p = <<p[1], p[2]>>
  OBVIOUS
<1>4. \A g \in Groups : \A i \in DOMAIN buffers[g] : <<g, i>> \in places /\ f[<<g, i>>] = buffers[g][i]
  OBVIOUS
<1>5. \A p \in places : f[p] = buffers[p[1]][p[2]]
  OBVIOUS
<1>6. \A x : x \in cut <=> \E p \in places : x = f[p]
  OBVIOUS
<1>7. f \in [places -> cut]
  OBVIOUS
<1> HIDE DEF places, f, cut
<1>8. \A p \in places : f[p] \in Range(buffers[p[1]])
  BY <1>3, <1>5 DEF Range
<1>9. \A x : x \in cut <=> \E g \in Groups : x \in Range(buffers[g])
  <2> TAKE x
  <2>1. x \in cut => \E g \in Groups : x \in Range(buffers[g])
    BY <1>3, <1>6, <1>8
  <2>2. ASSUME NEW g \in Groups, x \in Range(buffers[g]) PROVE x \in cut
    BY <2>2, <1>4, <1>6 DEF Range
  <2> QED
    BY <2>1, <2>2
<1>10. f \in Bijection(places, cut)
  <2>1. ASSUME NEW p \in places, NEW q \in places, f[p] = f[q] PROVE p = q
    <3>1. GroupOf[f[p]] = p[1]
      BY <1>3, <1>8, RowsAreOwn
    <3>2. GroupOf[f[q]] = q[1]
      BY <1>3, <1>8, RowsAreOwn
    <3>3. p[1] = q[1]
      BY <2>1, <3>1, <3>2
    <3>4. p[2] = q[2]
      BY <2>1, <3>3, <1>3, <1>5 DEF IsInjective, LossInv, Distinct
    <3> QED
      BY <3>3, <3>4, <1>3
  <2>2. f \in Injection(places, cut)
    BY <2>1, <1>7 DEF Injection, IsInjective
  <2>3. f \in Surjection(places, cut)
    BY <1>6, <1>7 DEF Surjection
  <2> QED
    BY <2>2, <2>3 DEF Bijection
<1>11. cut \subseteq Range(accepted) /\ cut \cap acked = {} /\ cut \subseteq Pending
  BY <1>9, RowsAreOwn, PendingIsInMemory DEF InMemory
<1>12. \A x : \A u \in Threads, g \in Groups : x \in Range(job[u].rows[g]) => x \notin cut
  <2> SUFFICES ASSUME NEW u \in Threads, NEW g \in Groups, NEW x \in cut, x \in Range(job[u].rows[g])
               PROVE  FALSE
    OBVIOUS
  <2>1. x \in Range(buffers[g])
    BY <1>9, RowsAreOwn
  <2> QED
    BY <2>1 DEF LossInv, IInv, OneCopy, Disjoint
<1>13. Pending' = Pending \ cut
  <2>1. \A x : InMemory(x)' <=> InMemory(x) /\ x \notin cut
    BY <1>2, <1>9, <1>12, RangeEmpty DEF InMemory
  <2> QED
    BY <2>1, PendingIsInMemory
<1>14. IsInjective(<<>>)
  BY DEF IsInjective
<1>15. Distinct'
  BY <1>2, <1>14 DEF LossInv, Distinct
<1>16. (records_dropped \in Nat /\ LossIsCounted)' /\ Fated
  BY <1>2, <1>10, <1>11, <1>13, CutsAreCounted DEF LossInv, IInv, SinkTypes
<1> QED
  BY <1>1, <1>15, <1>16 DEF LossInv

LEMMA StepLoss == LossInv /\ [Next]_vars => LossInv' /\ Fated
<1> SUFFICES ASSUME LossInv, [Next]_vars PROVE LossInv' /\ Fated
  OBVIOUS
<1>1. CASE Next
  BY <1>1, CallLoss, QuietLoss, SnapshotLoss, PutLoss, RequeueLoss, CloseRestLoss DEF Next
<1>2. CASE UNCHANGED vars
  <2>1. IInv'
    BY <1>2, StepPreserves DEF LossInv
  <2>2. Distinct'
    BY <1>2 DEF vars, LossInv, Distinct
  <2>3. Pending' = Pending
    BY <1>2, PendingIsInMemory DEF vars, InMemory
  <2> QED
    BY <1>2, <2>1, <2>2, <2>3, StillLoss DEF vars
<1> QED
  BY <1>1, <1>2

(* The invariant of the count: one place for each record in memory, and    *)
(* the counter at the number of the lost.                                  *)
THEOREM LossInvariant == Spec => []LossInv
  BY InitLoss, StepLoss, PTL DEF Spec

(* records_dropped is exact: every record accepted is written, held or     *)
(* counted, once, for any threads, groups, thresholds and failures.        *)
THEOREM LossesAreCounted == Spec => []LossIsCounted
<1>1. LossInv => LossIsCounted
  BY DEF LossInv
<1> QED
  BY <1>1, LossInvariant, PTL

(* __call__, flush, _requeue_failed and close of any number of threads     *)
(* implement the counted log, step by step: an action accepts one record,  *)
(* writes some that are held, loses some and counts them, or does none of  *)
(* it, and no record's fate is ever undone.                                *)
THEOREM FatesAreFinal == Spec => FateIsFinal
<1>1. Init => Log!Init
  <2> SUFFICES ASSUME Init PROVE Log!Init
    OBVIOUS
  <2>1. LossInv /\ acked = {} /\ records_dropped = 0 /\ Range(accepted) = {}
    BY InitLoss, RangeEmpty DEF Init
  <2>2. \A x : x \notin Pending
    BY <2>1, PendingIsInMemory, RowsAreOwn DEF InMemory
  <2> QED
    BY <2>1, <2>2 DEF Log!Init, Lost
<1>2. LossInv /\ [Next]_vars => [Log!Next]_(Log!fate)
  <2> SUFFICES ASSUME Fated PROVE [Log!Next]_(Log!fate)
    BY StepLoss
  <2>1. ASSUME NEW r \in Records, Accepts(r) PROVE Log!Next
    BY <2>1 DEF Accepts, Log!Next, Log!Accept
  <2>2. ASSUME NEW some \in SUBSET Pending, Writes(some) PROVE Log!Next
    <3>1. Log!Write(some)
      BY <2>2 DEF Writes, Log!Write
    <3> QED
      BY <3>1 DEF Log!Next
  <2>3. ASSUME NEW some \in SUBSET Pending, Loses(some) PROVE Log!Next
    <3>1. Log!Lose(some)
      BY <2>3 DEF Loses, Log!Lose, Cardinality, Log!Cardinality
    <3> QED
      BY <3>1 DEF Log!Next
  <2> QED
    BY <2>1, <2>2, <2>3 DEF Fated, Log!fate
<1> QED
  BY <1>1, <1>2, LossInvariant, PTL DEF Spec, FateIsFinal, Log!Spec
=============================================================================
