----------------------------- MODULE TraceSink -----------------------------
(***************************************************************************)
(* The trace sink of krepis.trace_sink: S3JsonlTraceSink.                  *)
(*                                                                         *)
(* A row references content blobs that are stored once, under the hash of  *)
(* their bytes.  A flush PUTs the pending blobs, then takes the rows and   *)
(* their sequence numbers under the lock and PUTs them, and at last        *)
(* overwrites the status pointer.  Several threads share the sink; a thread*)
(* holds the lock only within one action, and every PUT is an action.      *)
(***************************************************************************)
EXTENDS Integers, Sequences, FiniteSets, SequencesExt

CONSTANTS
    Threads,          \* threads that share the sink
    Rows,             \* trace rows, each handed over once
    Groups,           \* (date, callsite_id) pairs
    GroupOf,          \* the group of each row
    Blobs,            \* content blobs, named by their hash
    BlobsOf,          \* the blobs each row references, in order
    Size,             \* bytes of each blob
    Threshold,        \* flush_threshold
    BlobFlushBytes,   \* blob_flush_bytes
    CapMultiple,      \* MAX_RETAINED_MULTIPLE
    Faults            \* TRUE: PUTs may raise

ASSUME ConstantsAssumption ==
    /\ GroupOf \in [Rows -> Groups]
    /\ BlobsOf \in [Rows -> Seq(Blobs)]
    /\ Size \in [Blobs -> Nat]
    /\ Threshold \in Nat \ {0}
    /\ BlobFlushBytes \in Nat \ {0}
    /\ CapMultiple \in Nat \ {0}
    /\ Faults \in BOOLEAN

VARIABLES
    rows,             \* _rows
    seq,              \* _seq
    blobs,            \* _blobs
    blob_bytes,       \* _blob_bytes
    stored,           \* _stored
    dropped,          \* rows_dropped and blobs_dropped
    rowObjects,       \* the row objects in the bucket
    blobObjects,      \* the blobs in the bucket
    status,           \* the counters the status pointer shows
    at,               \* where each thread stands
    job,              \* the local variables of each thread's flush
    accepted,         \* history: the rows accepted
    raised,           \* history: blobs whose PUT raised
    statusLost,       \* history: a PUT of the pointer raised
    interleaved       \* history: a thread acted while another was flushing

sink == <<rows, seq, blobs, blob_bytes, stored, dropped>>
bucket == <<rowObjects, blobObjects, status>>
history == <<accepted, raised, statusLost>>
traceVars == <<sink, bucket, at, job, history, interleaved>>

(* What a flush holds: the blobs left to PUT and those that failed, whether*)
(* it goes on to the rows, the rows it took with their numbers, the groups *)
(* left to PUT and the one just written, whether there was work to report, *)
(* and whether close called it.                                            *)
NoRows == [g \in Groups |-> <<>>]
NoJob == [pending |-> <<>>, failed |-> <<>>, flushing |-> FALSE,
          rows |-> NoRows, seqs |-> [g \in Groups |-> 0],
          todo |-> {}, sent |-> {}, work |-> FALSE, closing |-> FALSE]

-----------------------------------------------------------------------------
(* Helpers of the code.                                                    *)

Bytes(s) == FoldSeq(LAMBDA b, n : Size[b] + n, 0, s)

(* What is left of s, in order, without the members of S.                  *)
Without(s, S) ==
    LET kept[i \in 0..Len(s)] == IF i = 0 THEN <<>>
                                 ELSE IF s[i] \in S THEN kept[i - 1]
                                 ELSE Append(kept[i - 1], s[i])
    IN  kept[Len(s)]

(* _requeue of rows: the failed ones first, the oldest beyond the cap cut. *)
RowCap == Threshold * CapMultiple
RowOverflow(merged) == IF Len(merged) > RowCap THEN Len(merged) - RowCap ELSE 0

(* Mutant of MergeBlobs: what was buffered meanwhile is overwritten.       *)
OverwriteBlobs(failed) == failed

(* The blobs that failed, then those buffered meanwhile, each once.        *)
MergeBlobs(failed) == failed \o Without(blobs, Range(failed))

(* How many of the oldest blobs go before the rest fits under the cap.     *)
BlobOverflow(merged) ==
    LET Fits(n) == Bytes(SubSeq(merged, n + 1, Len(merged)))
                     <= BlobFlushBytes * CapMultiple
    IN  Min({n \in 0..Len(merged) : n = Len(merged) \/ Fits(n)})

PutRowObject(g, n, s) ==
    {o \in rowObjects : o.group # g \/ o.seq # n}
        \cup {[group |-> g, seq |-> n, rows |-> s]}

Goto(t, label) == at' = [at EXCEPT ![t] = label]

(* Thread t takes a step: notes whether another is in the middle of a call.*)
Moves(t) ==
    interleaved' = (interleaved \/ \E u \in Threads \ {t} : at[u] # "idle")

(* The end of flush: back to the caller, or on with close.                 *)
AfterFlush(t) == IF job[t].closing THEN "close" ELSE "idle"

-----------------------------------------------------------------------------

TraceInit ==
    /\ rows = NoRows
    /\ seq = [g \in Groups |-> 0]
    /\ blobs = <<>>
    /\ blob_bytes = 0
    /\ stored = {}
    /\ dropped = [rows |-> 0, blobs |-> 0]
    /\ rowObjects = {}
    /\ blobObjects = {}
    /\ status = [rows |-> 0, blobs |-> 0]
    /\ at = [t \in Threads |-> "idle"]
    /\ job = [t \in Threads |-> NoJob]
    /\ accepted = {}
    /\ raised = {}
    /\ statusLost = FALSE
    /\ interleaved = FALSE

(* __call__: buffer the blobs that are not known to be stored or pending,  *)
(* then the row; a full group flushes everything, many bytes the blobs.    *)
Call(t, r) ==
    LET g == GroupOf[r]
        new == Without(BlobsOf[r], stored \cup Range(blobs))
        bytes == blob_bytes + Bytes(new)
        full == Len(rows[g]) + 1 >= Threshold
    IN  /\ at[t] = "idle"
        /\ r \notin accepted
        /\ rows' = [rows EXCEPT ![g] = Append(@, r)]
        /\ blobs' = blobs \o new
        /\ blob_bytes' = bytes
        /\ accepted' = accepted \cup {r}
        /\ Goto(t, IF full THEN "flush"
                   ELSE IF bytes >= BlobFlushBytes THEN "take blobs"
                   ELSE "idle")
        /\ UNCHANGED <<seq, stored, dropped, bucket, job, raised, statusLost>>

(* flush() from a handler's exit, or close() from atexit or a with block.  *)
CallFlush(t, closing) ==
    /\ at[t] = "idle"
    /\ Goto(t, "flush")
    /\ job' = [job EXCEPT ![t].closing = closing]
    /\ UNCHANGED <<sink, bucket, history>>

(* Mutant of CountBlobs: a flush leaves the blobs to the byte threshold.   *)
SkipBlobs(t) ==
    /\ at[t] = "flush"
    /\ job' = [job EXCEPT ![t].flushing = TRUE]
    /\ Goto(t, "take rows")
    /\ UNCHANGED <<sink, bucket, history>>

(* flush counts the pending blobs under the lock ...                       *)
CountBlobs(t) ==
    /\ at[t] = "flush"
    /\ job' = [job EXCEPT ![t].flushing = TRUE, ![t].work = blobs # <<>>]
    /\ Goto(t, "take blobs")
    /\ UNCHANGED <<sink, bucket, history>>

(* ... and _flush_blobs takes them under the lock again.                   *)
TakeBlobs(t) ==
    /\ at[t] = "take blobs"
    /\ job' = [job EXCEPT ![t].pending = blobs]
    /\ blobs' = <<>>
    /\ blob_bytes' = 0
    /\ Goto(t, "put blob")
    /\ UNCHANGED <<rows, seq, stored, dropped, bucket, history>>

(* _put_blob: written, or already there (412), or raised - which does not  *)
(* tell whether it arrived.                                                *)
PutBlob(t) ==
    LET b == Head(job[t].pending)
    IN  /\ at[t] = "put blob"
        /\ job[t].pending # <<>>
        /\ \/ /\ blobObjects' = blobObjects \cup {b}
              /\ Goto(t, "mark")
              /\ UNCHANGED <<job, raised>>
           \/ /\ Faults
              /\ blobObjects' \in {blobObjects, blobObjects \cup {b}}
              /\ job' = [job EXCEPT ![t].pending = Tail(@),
                                    ![t].failed = Append(@, b)]
              /\ raised' = raised \cup {b}
              /\ UNCHANGED at
        /\ UNCHANGED <<sink, rowObjects, status, accepted, statusLost>>

(* The lock again, to remember that the blob is stored.                    *)
MarkStored(t) ==
    /\ at[t] = "mark"
    /\ stored' = stored \cup {Head(job[t].pending)}
    /\ job' = [job EXCEPT ![t].pending = Tail(@)]
    /\ Goto(t, "put blob")
    /\ UNCHANGED <<rows, seq, blobs, blob_bytes, dropped, bucket, history>>

(* The end of _flush_blobs: what failed goes back to the front, the oldest *)
(* beyond the cap are dropped.                                             *)
RequeueBlobs(t) ==
    LET failed == job[t].failed
        merged == MergeBlobs(failed)
        n == BlobOverflow(merged)
        kept == SubSeq(merged, n + 1, Len(merged))
    IN  /\ at[t] = "put blob"
        /\ job[t].pending = <<>>
        /\ IF failed = <<>>
             THEN UNCHANGED <<blobs, blob_bytes, dropped>>
             ELSE /\ blobs' = kept
                  /\ blob_bytes' = Bytes(kept)
                  /\ dropped' = [dropped EXCEPT !.blobs = @ + n]
        /\ job' = [job EXCEPT ![t].failed = <<>>]
        /\ Goto(t, IF job[t].flushing THEN "take rows" ELSE "idle")
        /\ UNCHANGED <<rows, seq, stored, bucket, history>>

(* flush goes on: the rows and their numbers, under the lock.              *)
TakeRows(t) ==
    LET taken == {g \in Groups : rows[g] # <<>>}
    IN  /\ at[t] = "take rows"
        /\ job' = [job EXCEPT ![t].rows = rows,
                              ![t].seqs = [g \in Groups |->
                                  IF g \in taken THEN seq[g] ELSE 0],
                              ![t].todo = taken,
                              ![t].work = @ \/ taken # {}]
        /\ rows' = NoRows
        /\ Goto(t, "put rows")
        /\ UNCHANGED <<seq, blobs, blob_bytes, stored, dropped,
                       bucket, history>>

(* _put_rows, the lock released.                                           *)
PutRows(t, g) ==
    LET written == PutRowObject(g, job[t].seqs[g], job[t].rows[g])
    IN  /\ at[t] = "put rows"
        /\ g \in job[t].todo
        /\ \/ /\ rowObjects' = written
              /\ job' = [job EXCEPT ![t].rows[g] = <<>>,
                                    ![t].todo = @ \ {g}, ![t].sent = {g}]
              /\ Goto(t, "advance")
           \/ /\ Faults
              /\ rowObjects' \in {rowObjects, written}
              /\ job' = [job EXCEPT ![t].todo = @ \ {g}]
              /\ UNCHANGED at
        /\ UNCHANGED <<sink, blobObjects, status, history>>

Advance(t) ==
    /\ at[t] = "advance"
    /\ seq' = [g \in Groups |->
                  IF g \in job[t].sent THEN job[t].seqs[g] + 1 ELSE seq[g]]
    /\ job' = [job EXCEPT ![t].sent = {}]
    /\ Goto(t, "put rows")
    /\ UNCHANGED <<rows, blobs, blob_bytes, stored, dropped, bucket, history>>

(* Groups that failed go back in front of their buffer; then the pointer,  *)
(* if there was anything to do.                                            *)
RequeueRows(t) ==
    LET failed == {g \in Groups : job[t].rows[g] # <<>>}
        merged == [g \in failed |-> job[t].rows[g] \o rows[g]]
    IN  /\ at[t] = "put rows"
        /\ job[t].todo = {}
        /\ rows' = [g \in Groups |->
                       IF g \in failed
                         THEN SubSeq(merged[g], RowOverflow(merged[g]) + 1,
                                     Len(merged[g]))
                         ELSE rows[g]]
        /\ dropped' = [dropped EXCEPT !.rows = @
              + Cardinality(UNION {{g} \X (1..RowOverflow(merged[g])) :
                                      g \in failed})]
        /\ job' = [job EXCEPT ![t] = [NoJob EXCEPT !.closing = job[t].closing]]
        /\ Goto(t, IF job[t].work THEN "status" ELSE AfterFlush(t))
        /\ UNCHANGED <<seq, blobs, blob_bytes, stored, bucket, history>>

(* _put_status: the counters as they are now.                              *)
PutStatus(t) ==
    \/ /\ status' = dropped
       /\ UNCHANGED statusLost
    \/ /\ Faults
       /\ status' \in {status, dropped}
       /\ statusLost' = TRUE

FlushStatus(t) ==
    /\ at[t] = "status"
    /\ PutStatus(t)
    /\ Goto(t, AfterFlush(t))
    /\ UNCHANGED <<sink, rowObjects, blobObjects, job, accepted, raised>>

(* The rest of close: what is still buffered is lost, and counted.         *)
Close(t) ==
    LET left == [rows |-> Cardinality(UNION {{g} \X DOMAIN rows[g] :
                                                g \in Groups}),
                 blobs |-> Len(blobs)]
    IN  /\ at[t] = "close"
        /\ dropped' = [rows |-> dropped.rows + left.rows,
                       blobs |-> dropped.blobs + left.blobs]
        /\ rows' = NoRows
        /\ blobs' = <<>>
        /\ blob_bytes' = 0
        /\ job' = [job EXCEPT ![t] = NoJob]
        /\ Goto(t, IF left.rows + left.blobs > 0 THEN "close status"
                                                 ELSE "idle")
        /\ UNCHANGED <<seq, stored, bucket, history>>

(* Mutant of CloseStatus: the pointer stays as the flush left it.          *)
KeepStatus(t) ==
    /\ at[t] = "close status"
    /\ Goto(t, "idle")
    /\ UNCHANGED <<sink, bucket, job, history>>

(* The pointer is rewritten so that it does not hide the loss.             *)
CloseStatus(t) ==
    /\ at[t] = "close status"
    /\ PutStatus(t)
    /\ Goto(t, "idle")
    /\ UNCHANGED <<sink, rowObjects, blobObjects, job, accepted, raised>>

Step(t) ==
    \/ \E r \in Rows : Call(t, r)
    \/ \E closing \in BOOLEAN : CallFlush(t, closing)
    \/ CountBlobs(t) \/ TakeBlobs(t) \/ PutBlob(t) \/ MarkStored(t)
    \/ RequeueBlobs(t)
    \/ TakeRows(t) \/ (\E g \in Groups : PutRows(t, g)) \/ Advance(t)
    \/ RequeueRows(t) \/ FlushStatus(t) \/ Close(t) \/ CloseStatus(t)

TraceNext == \E t \in Threads : Step(t) /\ Moves(t)

TraceSpec == TraceInit /\ [][TraceNext]_traceVars

-----------------------------------------------------------------------------
(* Properties.                                                             *)

Referenced(set) == UNION {Range(BlobsOf[r]) : r \in set}
Readable == UNION {Range(o.rows) : o \in rowObjects}

HeldBlobs ==
    Range(blobs)
        \cup (UNION {Range(job[t].pending) \cup Range(job[t].failed) :
                       t \in Threads})

(* Every blob an accepted row references is in the bucket or still held, or*)
(* its loss was counted: however calls, flushes and closes interleave, the *)
(* deduplication never takes a blob for stored or pending that is not.     *)
BlobLossIsCounted ==
    Cardinality(Referenced(accepted) \ (blobObjects \cup HeldBlobs))
        <= dropped.blobs

(* With the calls one after the other, a row that can be read has its blobs*)
(* in the bucket, unless a PUT of the blob raised.                         *)
BlobsGoFirst ==
    ~interleaved => Referenced(Readable) \subseteq blobObjects \cup raised

(* Between two calls the pointer shows every row that was lost, unless the *)
(* pointer itself could not be written.                                    *)
PointerShowsLoss ==
    ~interleaved /\ ~statusLost /\ (\A t \in Threads : at[t] = "idle")
        => status.rows = dropped.rows
=============================================================================
