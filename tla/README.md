# A verification of krepis in TLA+

krepis is the library a fleet of batch jobs shares: it launches EC2 spot boxes,
runs commands on them through SSM, captures their logs, keeps one producer at a
time behind an S3 lock, records the cost and the trace of every LLM call, pages
operators, and routes LLM calls over models. There is no server. Each component
is a few hundred lines called from many processes, Lambdas and threads, and what
is hard about it happens *between* its requests: another process runs, a reply
is lost, the caller is killed, the API lags, a retry repeats what was done.

Every definition of the modules here is translated from the source. `map` in
`PROJECT.json` gives the lines for each, `runs` the model-checking runs,
`mutants` the bug each property is known to catch, `hazards` the lines at which
this code is hard to test, and `theorems` what is proved.

Source paths below are relative to `src/src/krepis/`.

## 1. Components

| Component | Source | State | Operations | Module |
|---|---|---|---|---|
| Universe writer lock | `locks.py` | one S3 object; a `LockHolder` per writer | conditional PUT, read, judge, delete, one retry, release | `WriterLock` |
| Cost sink | `cost_sink.py` | buffers and sequence number per (date, callsite), loss counter | record, flush, requeue, close | `CountedLog`, `CostSink` |
| Spot launch | `ec2_spot.py` | the instances of an idempotency key | lookup, rotation over pools and markets, quota page, token resolution | `SpotLaunch` |
| Trace sink | `trace_sink.py` | rows, content blobs, dedup set, byte counter, status pointer | record, flush blobs, flush rows, pointer, close | `TraceSink` |
| SSM dispatcher | `ssm_dispatcher.py` | a remote command's status, the tail printed so far, the verdict | send, poll, stream, fetch the uploaded tail, diagnose, answer | `SsmDispatch` |
| SSM log capture | `ssm_log_capture.py` | a child, its pipe, the log, the drain clock | read, drain, reap, kill the group, classify, upload, exit | `LogCapture` |
| Resource-kill classifier | `resource_kill.py` | none (pure) | classify, format a cause | `ResourceKill` |
| Alerts | `alerts.py`, `_dedup.py`, `alert_tiers.py`, `fleet_events.py` | dedup marker, streak marker | mute, tier, streak gate, dedup, SNS, Telegram, event, verdict, clear | `AlertPublish` (partly) |
| Delivery channels | `telegram.py`, `email_sender.py`, `webpush.py` | none | send, retry as plain text | `AlertPublish` (Telegram's two POSTs) |
| LLM client | `llm.py`, `llm_errors.py`, `llm_config.py`, `llm_search.py`, `llm_capture.py` | a stream's thread, queue and budgets; a client's per-call facts | stream, complete, structured, complete_grounded | `BoundedStream`, `IdleStream`, `LlmCall` (partly) |
| Model router | `router.py`, `model_registry.py`, `resolve_contract.py`, `cache_minimums.py` | the registry and its cache file, two locks, the in-process router | find the registry, resolve, walk, fall back, serve, bill | `Registry`, `Router` (partly) |
| Bootstrap and teardown | `spot_bootstrap.py`, `spot_evidence.py` | blocks, timers, the log's two objects, staging and durable prefix | render and run, trap, ship, record, preserve, delete, sweep | `SpotBox`, `SpotEvidence`, `SpotRun` (partly) |
| Lambda environment | `aws.py` | `$LATEST`'s variables, versions, aliases | merge, remove, publish, move aliases | `LambdaEnv` (partly) |
| Trace rows | `llm_trace.py` | none | build rows and blobs | not modelled |
| Retries | `http_retry.py` | a loop counter | retry with back-off | not modelled |
| Budgets and heartbeats | `usage_pacing.py`, `heartbeat.py`, `rss_budget.py` | a console row | check, beat | not modelled |
| Stage coverage | `stage_coverage.py` | none | assess one stage | not modelled |
| Cost pricing | `cost.py`, `pricing/`, `model_metadata.py` | price cards | price, reconcile | not modelled |
| Calendar and dates | `trading_calendar.py`, `dates.py` | none | date arithmetic | not modelled |
| Data-loss prevention | `session_dlp.py` | patterns | scan | its verdict only, in `LlmCall` |
| Judge, payload builders | `judge.py`, `anthropic_payload.py` | none | assemble requests | not modelled |
| Configuration | `aws_region.py`, `secrets.py`, `rehearsal.py`, ... | environment | look up | not modelled |
| Repository scripts | `src/scripts/` | none | release helpers | not modelled |

**How they interact.** A state-machine stage runs *log capture*, which runs a
launcher script, which calls *spot launch* and the *dispatcher*; what the
dispatcher prints travels through the capture's pipe, and both classify what
they read with the *resource-kill classifier*. Launch and capture call *alerts*.
A producer on the box holds the *writer lock*. LLM calls made on the box (client
and router) hand rows to the *cost sink* and the *trace sink*, which several
threads of the box share. S3, EC2, SSM and the operating system are the only
state that two processes have in common; they are modelled from how the code
calls them and marked external in `map` where a definition has no line of its
own. The box that *spot launch* starts runs the rendered *bootstrap*; the
launcher reads how it ended, *tears down* its staging area and asks *spot launch*
whether to relaunch. The *router*'s edge is a process with its own copy of the
registry the consumer reads. Deploy scripts edit one *Lambda environment*
beside each other.

**What is hard**, in one line each (the full list, line by line, is `hazards`):

* *lock*: the delete has no condition; TTLs are judged by other hosts' clocks; a
  lost reply leaves a lock nobody holds; a holder outlives its TTL.
* *sinks*: a PUT happens with the lock released, so calls, flushes and closes
  interleave; failed PUTs may have arrived; caps throw rows away.
* *launch*: at-least-once delivery, kills between two requests, lagging and
  failing lookups, a retry whose rotation takes another path.
* *remote command*: five processes in a row, each able to lose the end of the
  output, the exit code or the reason; a poll can fail, upload lags, a
  left-behind process keeps the pipe open.
* *alerts*: gates that quieten an alert read objects that other processes write
  without a condition; every read, write and channel can fail by itself.
* *streams and calls*: a pump thread, an idle budget and a total budget race for
  the last item; attempts that were billed are rejected, degraded, escalated.
* *router*: two processes with different registries; a cache file written in
  place; a lock made afresh by each caller until there is a shared one.
* *spot box*: trap, shipper, timers, recorders and AWS all act on one box and one
  log object, and any block may fail or hang.
* *teardown, environments*: delete after preserve, and write back after read,
  with a failure, a death or another's step in between.

**What makes each correct.** Lock: mutual exclusion within the TTL, and nobody
turned away for a lock that is over. Sinks: every accepted row is stored, held or counted as
lost; what was reported written stays; what is readable points at something.
Launch: one box per key, an answer that tells the truth about it, on-demand only
as the last resort. Remote command: success is real, nothing printed is lost, a
kill is named, and the stage ends. Alerts: nothing is quietened without cause,
and an alert that reached nobody does not look delivered. LLM calls: what a call
reports of its answer, its spend and its degradations is true of that call.
Router: who serves was eligible, who is billed served, and a fallback is said to
be one. Spot run: a guarded box powers off, its log says why and never shrinks, a
failed run's evidence survives, a relaunch is earned. Lambda environment: others'
variables survive, a refusal costs nothing, a success has reached the traffic.

## 2. Modules

### WriterLock (`universe_writer_lock`)

One action per S3 request, since another writer may run between any two:
`Put`/`Retry` (`_try_conditional_put`), `Read` (`_read_existing_holder`),
`Judge`, `DeleteStale`, `Reread`, `Release`. Each writer's clock runs `Offset[w]`
ahead of the slowest, by at most `Skew`. With `Faults` a request may fail, with
or without its effect, and a process may die in any state, including inside the
block. `LifecyclePurge` is the bucket's rule. Histories: `misdirected`, some
delete removed a lock other than the one its caller had in mind; `born`, when the
object was put; `inTheWay`, when the one a writer is judging was; `undeleted`, whose
recovery failed to delete.

* `OneProtectedWriter` holds for writers inside their TTL *unless* a delete was
  misdirected (section 4 says how that comes about). `RefusalIsEarned` is about what
  the dead leave behind: a writer refused at once met a lock put less than TTL, and
  the skew, before; one refused after its own recovery met a lock put since it
  came. The liveness property `AttemptEnds` holds always.

### CountedLog and CostSink (`S3JsonlCostSink`)

Threads share the sink. A thread's flush is `Snapshot` (under the lock),
`PutGroup` per group and `Advance` (lock released, re-taken), `Requeue`, and for
`close` then `CloseRest`. The order in which a flush visits its groups is left
open. A PUT may succeed, fail, or fail after it arrived.

* `ReportedIsStored` holds until two flushes hold one group at once
  (`overlapped`); see section 4.
* `FateIsFinal` is the refinement (`INSTANCE CountedLog WITH`). `CountedLog` is the
  abstract promise, without threads, groups or numbers: a record accepted is held
  until it is written or lost, both are final, and a step that loses records adds
  just their number to the counter, which is then the number of rows neither
  written nor held (`LossIsCounted`, a theorem of its own that the run need not
  repeat). In `CostSink` what is held are the buffers and
  the rows of every flush, what is written is what a PUT was reported to have
  stored (`acked`), and what is lost is the rest of what was accepted. It holds
  also while flushes overlap: that one object then replaces another is a matter of
  the bucket, of which `ReportedIsStored` speaks.

### SpotLaunch (`launch_self_starting`)

An invocation is `Probe` (the lookup, which may lag, miss a box or fail),
`RunInstances` for each pool of the rotation, `PageQuota`, `Resolve` (what an
`IdempotentParameterMismatch` leads to), and may be killed anywhere. EC2's
client-token rule is modelled with it: a token already used with the same
parameters returns its box, with other parameters it is a mismatch.

* `OneBoxPerKey` holds when deliveries do not overlap and lookups are current
  and undegraded (`Sound`); `OneBoxPerDelivery` holds always: overlapping
  deliveries may get two boxes in different pools, but none gets a second one;
  `ReplayIsTruthful` and `OnDemandIsLastResort` relate the answer and the tag to
  what was tried; `Answers` is liveness.

### TraceSink (`S3JsonlTraceSink`)

As the cost sink, plus blobs stored once by hash: `CountBlobs`, `TakeBlobs`,
`PutBlob`, `MarkStored`, `RequeueBlobs` come before `TakeRows`, `PutRows`,
`Advance`, `RequeueRows` and `FlushStatus`. `Without` is the loop that skips known
blobs, and `setdefault`'s merge; it is a recursive function, so that it can be
reasoned about. Dropped rows are counted as the (group, place) pairs that go, which
needs no sum. `interleaved` records that two
threads were inside the sink at once, `raised` the blobs whose PUT raised.

* `BlobLossIsCounted` holds under any interleaving; `BlobsGoFirst`,
  `PointerShowsLoss` for calls that come one after the other (section 4).

### RemoteCommand = LogCapture + SsmDispatch + ResourceKill

`LogCapture` is `ssm_log_capture.run`: the select loop, the drain clock, the
reap, the kill of the process group, the classification, and the answer 127 when
its own work raises. `SsmDispatch` is `ssm_dispatcher.run` with the SSM service
around it: status, truncated inline output, the lagging upload. `ResourceKill`
holds the classifier's decision over the tokens a line matches; a line is the
set of tokens it matches, never a string. A stream is written in *pieces*, of which
one that does not end its line is continued by the next: SSM's inline head is cut
within a line, and the dispatcher passes it on as it is (`Delta`), so that what it
says next, the cause among it, may go on with that line (`LinesOf`). `RemoteCommand` EXTENDS the first and
instantiates the second with the dispatcher's output being the capture's pipe
(`INSTANCE SsmDispatch WITH out <- pipe`); it adds the launcher, which exits
with the dispatcher's answer, and the heartbeat it may leave behind.

* `SuccessIsReal`, `NothingIsLost`, `KillIsNamed` are checked when the capture
  has returned; `KillIsNamed` excepts a cause written behind half a line of the
  workload's own logger (`glued`, section 4). `StageEnds` is liveness.

### AlertPublish (`publish`, `publish_clear`)

One condition with one identity, its streak marker and its dedup marker in S3,
and processes that publish or clear it. The callers use the default `dedup_bucket`
or, all of them, another (`bucket`); what a clear does to the streak depends on it
(`AfterClear`). A call's `mode` is how the process is
set up: it sends, writes to a digest environment's record, is silenced by its own
`dry_run`, or by the test guard or the environment's dry run (`suppressed`). A
call that sends goes `CheckMute`, `ChooseTier`, `ReadStreak`, `RecordOpen`,
`CheckMarker`, `PublishSns`, `PublishTelegram`, `ReadPrior`, `WriteMarker`,
`EmitEvent`, one request each; `ClearStreak` comes before any of it. A registry
is a sequence of rows with the claim each makes on the alert: the model finds the
row that matches best (`Match`), a dynamic row takes its tier from the severity
(`ResolveTier`), and the tier decides on the destinations, the log chat among
them. Telegram's POST is repeated as plain text when the first is refused for its
markup (`SendMessage`). Registry and mute list are chosen afresh at every call,
which covers what a cache may still hold. History variables record what was
delivered, detected and held.

* `LossIsLoud`, `MarkerIsEarned` hold under any interleaving; `OnePerWindow`,
  `GateOpens` and, in the default bucket, `CreditIsOwn` for calls that come one after the other, which is
  all the unconditional writes allow: two overlapping publishers do both publish,
  and two overlapping detections can count as one.

### BoundedStream and IdleStream (`llm._iter_with_idle_timeout` and around it)

`BoundedStream` is the abstract promise: the caller is given the provider's
chunks in order, and the call ends by returning, in the transport's error, idle
or over its total budget, each only where it is true of the provider, and no
later than a grace after the budget. `IdleStream` is the code: the provider, the
pump thread (`Put`, `Exhausted`, `ReadFails`, `PutDone`), its queue, the caller
(`CheckTotal`, `TakeItem`, `Empty`) with the wait it computed before, the close
of the abandoned stream, and time that passes in between, with the caller up to
`Lag` late at each step. A chunk is content or one of those that carry the count of tokens,
which the two transports place differently; the accumulators decide whether the
call knows its usage.

* `Contract` is the refinement (`INSTANCE BoundedStream WITH`, grace
  2 * `Lag`): a stream that ended is never called silent, one that was cut off
  never whole. `StreamEnds` and `ThreadGoes` are liveness. With a total budget a
  call ends whatever the provider does; without one it is unbounded by design, and
  `StreamEnds` promises an end only where the provider falls silent at some time.

### LlmCall (`complete`, `structured`, `complete_grounded`)

One client and its calls, one after the other. A call enters a dispatch
(`Enter`), scans the request (`Scan`), gets any answer a provider may give
(`Answer`: transport failure, a stream's time-out, garbled body, no choices, schema refused, budget
exhausted, unresolvable model, invalid object, ungrounded text, or a good one,
with or without a count), goes a rung down the schema ladder, retries within
`attempts`, escalates its budget once, and ends in `Finalize`, which stamps the
facts that had been waiting on the client. Every
route a `ModelSpec` may name and every answer is enumerated.

* `SpendIsWhole`, `FactsAreOwn`, `DegradationIsRecorded` speak of the call that
  has just ended, against a history of what really happened in it. An exception is
  an LLMError with a usage ("rejected"), one raised with `usage=None` ("bare": the
  scan's refusals and a stream's two time-outs), or any other ("failed");
  `SpendIsWhole` is about what is reported, so about results and the first kind.
  `FactsAreOwn` says that each *dispatch*, the escalated one too, is scanned before
  it sends; not that each attempt's body is (section 4).

### Registry and Router (`router.py`)

`Registry` holds the pure part as operators over a registry: which entries are
active, parsed, reachable and capable, the edge's fallback chain and capability
groups, the walk of a direct route. A chain is the function from the places of a
group's declared order that are left to their ids (`LiveIds`); its `Leader` is the
id at the `First` of them. `Router` has the callers, one request or lock
operation per action: `Find`'s order (path, AppConfig with its cache file, walk),
the cache file's truncation and writing, the routes by group, pinned model or
in-process pick, the edge's own admission and walk over its chain with entries
that fail, cool down or refuse, and the billing from the name the edge reports.
Deployments, the edge's reload and the cache's expiry happen at any moment.

* `ServedIsEligible`, `BilledIsServed`, `FallbackIsReported` relate who served,
  who is billed and what is said of it, over two registry versions. The last one is
  exact but for a group that names its first entry again further on: falling back
  from an entry to itself is reported as the fallback it is.
* `CallEnds` is liveness, except for a get_router that waits for itself;
  `GetRouterReturns` is the promise without the exception, which fails (finding).

### SpotRun = SpotBox + SpotEvidence + the launcher

`SpotBox` runs the rendered script block by block in the order of
`render_bootstrap`; a block succeeds, fails or never ends. Beside it act the
periodic shipper with its upload in transit, the exit trap (`Trap`), the timers
(`Tick` lets a second pass only when none is due), the recorder a terminating
timer runs first, the unit of a self-starting box (`Systemd`) and AWS. `SpotEvidence`
is the teardown: list, copy, list again, delete in part, sweep both trees, one
request each, each of which may fail, and `Dies` at any point. `SpotRun` adds the
launcher, an external script that waits for the box, tears down and asks
`classify_termination` and `relaunch_decision`, with EC2's two answers unreadable
or behind, and with the time of the outer state machine given or not (`Budgets`). One behaviour is one attempt.

* `KillIsNamed`, `LogNeverShrinks` (except writers of the log that overlap, which
  the code cannot rule out), `EvidenceSurvives`, `RelaunchIsEarned`; `BoxEnds` is
  liveness for every box that something guards.

### LambdaEnv (`merge_`, `remove_lambda_environment_keys`)

Scripts edit one function: `Read`, `Check` and `ListAliases` before the write,
`Update`, `Settle` (the waiter), `Publish`, `MoveAlias` one by one; a call may
fail with or without its effect, and the script is run again. A removal that
finds a pinned alias needs a claim (promote, defer, unaliased). Only the aliases on
the first page of the listing are seen (`FirstPage`). `outdated` and `overrun`
record that another script wrote, or moved an alias, in the meantime.

* `RefusalIsFree` holds always; `OthersSurvive` and `SuccessReachesTraffic` where
  nobody else wrote since the reading. The latter excepts by name a promotion of no
  alias (`PromotesNone`), and speaks of the first page (section 4).

### Proof modules

`WriterLockProofs`, `CostSinkProofs`, `AlertPublishProofs`, `LambdaEnvProofs` and
`SpotRunProofs` prove about the module they are named after. `StageProofs` proves
about both ends of the work on a box, `SpotLaunch` and `RemoteCommand`;
`TransportProofs` about how a completion travels, `IdleStream` and `Router`;
`CompletionProofs` about a completion and its trace, `LlmCall` and `TraceSink`. A
module that shares its proofs extends both specifications, so their initial
predicates and next-state relations carry distinct names (`StageSpec`,
`RouterSpec`, `TraceSpec`). See section 5.

## 3. Runs

| Run | Instance | Shows |
|---|---|---|
| `writer_lock` | 2 writers, clocks 1 s apart, TTL 2, clock to 4, all faults; 302,000 states | `OneProtectedWriter`, `RefusalIsEarned`, `AttemptEnds` |
| `cost_sink` | 2 threads, 3 records of one group and 1 of another, threshold 2, cap 2; 1.1 million states | `ReportedIsStored`, the refinement `FateIsFinal` |
| `spot_launch` | 2 deliveries, 2 pools in each market; 177,000 states | the four invariants and `Answers` |
| `trace_sink` | 2 threads, 3 rows of one group, 2 blobs of which one is shared, cap of one blob; 3 million states | `BlobLossIsCounted`, `BlobsGoFirst`, `PointerShowsLoss` |
| `remote_command` | scripts of 1 line, shown in halves, 1 line in the tail, 1 left-behind process, all faults; 516,000 states | the three invariants and `StageEnds` |
| `alert_publish` | 2 processes, 3 calls of 6 kinds, 2 buckets, 3 registries, 3 mutes, window 2, clock to 2, all faults; 870,000 states | the five invariants |
| `idle_stream` | both transports, up to 6 chunks, `Idle` 2, total 4 or none, `Lag` 1; 241,000 states | the refinement `Contract`, `StreamEnds`, `ThreadGoes` |
| `llm_call` | every route, 2 attempts, with and without escalation, 2 calls on one client; 134,000 states | the three invariants |
| `router` | 2 registries of 3 models in one group, an edge caller and an in-process one, one deployment, one expiry, one call more | the three invariants and `CallEnds` |
| `router_lock` | the same | `GetRouterReturns` fails: get_router waits for the lock it holds |
| `spot_run` | 6 kinds of box, cap 1, dead-man 2, delay 1, 2 log lines, 2 objects, with and without a time budget; 461,000 states | the five properties |
| `lambda_env` | 2 scripts, 7 edits, 2 variables, 3 aliases, 2 of them listed, 2 tries each; 1.4 million states | the three properties |

**Bounds and why they are enough.**

* *Lock*: two writers show every pair of requests in every order, which is what
  the properties speak of; a third party, where one is needed, is a second
  acquisition by one of the two. `MaxClock` 4 with TTL 2 lets one lock expire, be
  recovered, and the recovering one's expire too. The proofs do away with these.
* *Cost sink*: two flushes at once suffice for every race on a group; three rows
  with a cap of two make the cap bite; the fourth gives a flush a group that
  succeeds while another fails.
* *Launch*: two deliveries give a killed predecessor and its retry; two pools
  give a rotation with a first and a last pool in both markets.
* *Trace sink*: two rows share a blob, so that deduplication has something to be
  wrong about; the cap is one blob, so that a merge after a failure overflows.
  `MCView` leaves out of the fingerprint what the sink only writes (row objects,
  sequence numbers, pointer) once the run is interleaved: no guard reads it, and
  the properties that do speak of calls one after the other. Threads are
  interchangeable (symmetry); no liveness is checked in the runs with symmetry.
* *Remote command*: a line in two halves is what a cut can separate: `InlineCap` 2
  half-lines show none, half or all of it, and a line of any tokens may be cut into
  any two parts that make it up; the proofs have any number of lines. One drain tick
  separates "quiet" from "silent for long enough"; `Attempts` 2 gives an upload that
  is late and one that is too late; `MaxStreamed` 1 lets one interim reply be
  streamed before one that shows less; `MaxBeats` 1 lets the left-behind process
  write while the capture drains. Exit codes are 0, 1 and 137. `Next` stops when the
  capture has returned, because nothing after it is observed.
* *Alerts*: three calls are a detection, what comes between, and a detection, and
  also the fewest that can hold a class too long or count an old streak; a window
  of 2 with a clock to 2 has a repeat inside it, at its last minute and after it.
  The three registries hold rows of which some match better, some page only after
  several detections, a dynamic row and a tracked-only one; the mute is absent,
  live or without an offset. `MCView` keeps of a call's outcome only whether it is a
  loss nobody heard of, and leaves out the histories that only speak of calls one
  after the other once two calls have overlapped; no guard reads either.

* *Stream*: three chunks are a first, one in the middle and the one that completes
  the count; six are one for each tick until every call with a total budget is over
  (total + 2 * `Lag`), so that none of those ends because the provider has run out of
  chunks. A call without a budget does not get an end from this bound either:
  `StreamEnds` asks that the provider fall silent, which any bound makes true. With a
  total of twice the silence both budgets can end a call, in
  either order, and `Lag` 1 lets a chunk arrive in the very step in which the wait
  runs out. The refinement is proved without these bounds.
* *Calls*: two attempts are a failure and a success after it, also on either side
  of an escalation; a second call on the client is what could inherit facts.
* *Router*: the registries differ in who is active, in the order of the chain, in
  what is declared and in who shares a model, so that the edge and the consumer
  can disagree in each of these ways; one deployment and one expiry put the edge,
  the cache file and the in-process router each on either version.
* *Spot run*: the six kinds of box have, between them, either guard and both, a log
  plain and compressed, a trap with and without a hook, a staging area, and no trap
  at all; one starts itself. The dead-man
  outlives the cap by one tick; days 1, 3 and 4 are inside the first retention,
  between the two and past both.
* *Lambda*: the seven edits are a merge beside and across the other's variable, and
  removals with each claim, a promotion of nothing among them; the third alias is
  behind the first page; two tries are a half-done edit and its retry.

Deadlock is checked wherever the system cannot stop. `spot_launch`,
`remote_command`, `alert_publish`, `router`, `router_lock`, `spot_run` and
`lambda_env` switch it off: an event is delivered a bounded number of times, a
stage ends, calls are bounded, a box may stay on with nothing armed, and scripts
end.

**Fairness.** `WriterLock`: weak fairness of each writer's acquisition, for a
process that has not died runs on; the block's body is not assumed to end.
`SpotLaunch`: weak fairness of an invocation's step; `Kill` ends it, so a killed
one is not required to go on. `RemoteCommand`: weak fairness of the capture
(its loop polls), of the dispatcher's own steps, of a poll that gets an answer
(a registered command is not throttled for ever; the code sets no deadline of
its own, so this is an assumption about SSM), and of the box, whose script
`executionTimeout` ends. `IdleStream`: weak fairness of the caller, of the
thread's last put, of time, and of a read on a closed stream, which fails; nothing
is assumed of the provider. `LlmCall` has fairness of a call's own steps.
`Router`: weak fairness of each caller's step, in which a request is answered or
fails. `SpotRun`: weak fairness of the exit trap without the workload's hook, of
the AWS client, which has timeouts, of the recorder, of systemd and of time; none
of a block, the workload or the hook, which may hang. A recorder that hangs is
excluded by this, and would strand the box (section 4). The other specifications have no fairness and no
liveness property: a sink promises nothing that must happen without a call.

## 4. Abstractions

Names, hashes, JSON and message texts are model values or sets of tokens; a
conversion that matters is modelled by what it does (a cause line matches
`timeout` because its text contains `executionTimeout`; a client token stands
for the market and pool it is hashed from). In the remote command a script's
stdout and stderr are one sequence, lines that only inform are left out, a line is
cut at one place at most, and a SIGKILL of the capture itself and the reuse of
process ids are not modelled; `rss_budget.publish` cannot change the answer and
is left out. In the alerts, topics and destinations are one channel each (a chat
or the console), `still_open` is treated by the code as `opened` and is not told
apart, `raise_on_total_failure` has its default, and an alert taken by a channel
whose reply was lost counts as having reached somebody.

In the stream, a chunk is its place in the order of its transport; in the calls,
the request and the answer's text are left out and a DLP verdict is free. In the
router a model's row is its status, capabilities, contexts, wires, route and
provider's name; the command line, the rendering for shells, LiteLLM's parameters,
log pinning, `ContractAwareRouter` and the cache minimums are left out. In the
spot run the launcher is an external script, its teardown begins once the box is
off though an upload in transit may land after that, a second TERM into the trap
is folded into the first, and the staging area exists where the spec has
`config_copies`. In the Lambda edits a variable's value is absent, old or new,
aliases are moved in any order (the code sorts them), and the canary's invocation
is left out.

Things met while modelling that no property states, or that a property excepts:

* *Lock*: A's PUT is refused by B's lock, B releases, A's read finds nothing, C
  acquires, A's unconditional delete removes C's lock (`locks.py` 295) and A's
  retry succeeds beside C: the `misdirected` delete that `OneProtectedWriter`
  excepts. A second refusal can raise `LockHeld` with a holder that has expired or
  with a placeholder (303-312 against 140-142). The expiry is fixed on entry, so a
  slow acquisition can hold a lock that has already expired. A lost PUT repeated
  inside boto gets a 412 against the writer's own lock.
* *Cost sink*: two flushes that hold one group read one sequence number, and the
  second PUT replaces the first's object (`cost_sink.py` 251): what
  `ReportedIsStored` excepts. `records_written` and `flush_errors` are incremented
  outside the lock. `json.dumps` is outside the `try` (320). Records are accepted
  after `close`.
* *Launch*: the page about a quota raises when it reaches nobody, and the
  on-demand walk that was to follow never starts (`ec2_spot.py` 526). After a
  degraded lookup, a token that had launched before returns the old box with
  `replayed=False` (385-386). A failing lookup in the resolution of a mismatch
  leaves untranslated. A terminated instance is no longer listed after about an
  hour, and a retry with other types or subnets than its predecessor's is outside
  the guarantee.
* *Trace sink*: with several threads a row buffered between a flush's blobs and
  its rows is readable before its own blob (`trace_sink.py` 292-300), which
  `BlobsGoFirst` excepts. A `_flush_blobs` that `record` triggers can drop blobs
  without rewriting the pointer; the sequence-number race of the cost sink is in
  this one too.
* *Remote command*: the streamed head of the output is written as SSM cut it, with
  no newline (`ssm_dispatcher.py` 704-706), so the cause line (816) goes on with the
  cut line. If that was of the workload's own logger, the whole line counts as the
  logger's (`ssm_log_capture.py` 714-718, `resource_kill.py` `STRUCTURED_LOG_LINE_RE`)
  and the stage ends without naming the kill: `KillIsNamed` excepts it (`glued`). A
  memory kill known only from response code 137 is rendered
  with the word `executionTimeout` in its cause line, and the capture reads that
  line as a TIMEOUT (`ssm_dispatcher.py` 798). Any output restarts the silence, so
  a left-behind process that writes more often than the drain budget keeps the
  capture alive (`ssm_log_capture.py` 188-190 says otherwise); `StageEnds` holds
  because `MaxBeats` bounds what it writes. `Cancelling` is treated as terminal. A
  poll error returns 1 while the command may still run. A resource kill vetoed by
  a measured reading falls through to the rendered line.
* *Alerts*: "The NEXT occurrence is a fresh first detection and must not inherit credit
  from this one" (`alerts.py` 2064-2066), but the clear looks for the
  streak in `DEFAULT_DEDUP_BUCKET` (2067) while `publish` counts in the caller's
  `dedup_bucket` (1754): with a bucket of one's own the next occurrence does inherit.
  `CreditIsOwn` excepts it (`bucket`). The streak gate decides on what it counted, stored or not, so that
  with writes that keep failing each detection is the first and never pages
  (`alert_tiers.py` 488, 499-500); `GateOpens` excepts it. A held first detection
  writes the dedup marker when it is delivered silently, so that a second
  detection inside the window, which would page, is skipped as a repeat; with
  `dedup_window_min=None` the class never pages. A tracked-only alert whose SNS
  publish and event both fail returns as delivered, for its unsent Telegram leg
  counts as ok (`LossIsLoud` excepts it). A mute whose expiry has no UTC offset
  raises `TypeError` out of `publish` (`alerts.py` 1307-1338), though malformed
  entries are meant never to suppress; so does, as `AttributeError`, a dedup marker
  that is not an object (`_dedup.py` 106). `publish_clear` resets the streak also
  in processes that will send nothing (only its own `dry_run` is looked at). Two
  rows that tie take the first one's `page_after_consecutive`, not the smallest.
* *LLM*: `attempts` is said to count transport calls (`llm.py` 1396-1398), but a
  refused schema and a garbled body are not counted as answers. An escalated
  re-dispatch starts with fresh bounds (3157, 3171). An LLMError "carries `usage`
  ... accumulated across the failed attempts" (570-572) and the stream's time-outs "the
  usage accumulated so far" (766-767, 812-814), but both time-outs are raised without
  `usage=` (1131, 1148, 1253, 1268), and so is what the scan refuses (1988, 2002,
  2018): the attempts billed before are lost, also those of an exhausted dispatch whose
  spend "must not vanish because the escalated one also failed" (3283-3284, which
  absorbs only if there is a usage). `SpendIsWhole` excepts these by their kind
  ("bare"). A transport that fails after billed attempts raises without their spend
  (3580), for which its exception has no place ("failed"). "The `structured` retry loop
  scans each attempt's payload", so that the verdict is of "the body that actually
  produced the returned answer" (1962-1965); the code scans `if attempt == 0` only
  (3336, 3499, 3818), so a corrective retry and a descent go out unscanned, under the
  first body's verdict. `FactsAreOwn` claims the scan of each dispatch's first body and
  no more. Without a total budget a stream has no end of its own (1854-1860, 2630-2631, 2997-2999).
* *Router*: while no `get_router` has made the shared lock each caller locks one
  of its own, and the cache file, written in place, can be read torn
  (`ValueError`). The handler of a failed poll reads `poll_interval` before it is
  bound (`router.py` 858-859). An empty configuration returns nothing even with a
  cached file at hand. A comment says that the walk wins over AppConfig
  (696-698); the code asks AppConfig first. An echo of a group is billed to the
  consumer's primary, which may not be the edge's.
* *Spot box*: "Stop the periodic shipper FIRST so it cannot race this final copy"
  (`spot_bootstrap.py` 911) does not stop an upload in transit; `LogNeverShrinks`
  and `KillIsNamed` except that overlap. A recorder that hangs keeps its timer from
  powering the box off (763-765); a box whose only guard is the dead-man, cancelled
  in the trap, stays on if the hook hangs. Without `shutdown_delay` the log is
  shipped for the last time only on TERM or INT. The launch record's `deadline_at`
  precedes the cap that is really armed.
* *Teardown*: deletion works from a second listing, so an object uploaded between
  the two goes unpreserved; per-key `Errors` of `delete_objects` are not looked at.
* *Lambda environment*: without a `RevisionId` concurrent edits lose each other's
  variables, though the docstring says that every other variable survives
  untouched; a slower deployer's late alias move undoes another's success. A retry
  after a partial failure without `missing_ok` is refused, with the key gone from
  `$LATEST` and an alias still serving it. Two removals return what the docstring
  rules out, "a success that changed nothing" (`aws.py` 372-379), and
  `SuccessReachesTraffic` excepts both: with `promote_aliases=[]` the check takes the
  call for a promotion (480-481) and the write for none (514), so `$LATEST` is edited
  and a pinned alias goes on serving the variable; and a pinned alias behind the first
  page of `list_aliases` (557) is not seen.

## 5. What is proved

The theorems hold for every value of the constants, under nothing but the named
assumptions of each module (TTL and thresholds positive, offsets within the skew,
retentions natural numbers, edits, calls and registries as the code accepts them,
`None` not one of the values it stands in for), which TLC evaluates on every run.

* **WriterLock.** `LockInvariant` proves the inductive `IInv`; `LockTypeOK`,
  `LockOwnership`, `LockExclusion` and `RefusalsAreEarned` follow (the first two, like
  `LaunchTypeOK` below, state facts no run repeats).
  `OneProtectedWriter` is not inductive: what makes a second writer wait is the
  object in the bucket. `ProtectedOwnsLock` says that it is the right one, and
  needs two more facts: `OwnHolder`, that a writer's body names it (two owners of
  one object are one writer) and is not dated ahead, and `JudgedStale`, that
  whoever is about to delete has seen no lock live by *anyone's* clock, so that a
  delete that hits a protected writer's lock is misdirected by definition.
  `RefusalsAreEarned` rests on `DatedByPut`, that no body's expiry lies further ahead
  of its PUT than TTL and skew, and on `ClearedBefore`, that what stands where a
  recovery deleted a stale lock was put after that writer came.
* **CostSink.** `SinkInvariant` and `SinkKeepsReported`. `ReportedIsStored` rests
  on numbers: while no two flushes hold a group, the number a flush read is
  still the group's (`Numbered`), no object has a higher one (`StoreNumbers`),
  and an object with that very number is the trace of a PUT whose reply was lost,
  so it has no reported row to lose. The last half needs `OneCopy` and `InGroup`:
  a row in memory is in one place and is not reported. `LossesAreCounted` makes the
  count exact. `LossInv` adds that no list holds a record twice, so that what a flush
  gives up is as many records as the counter grows by. Lists are counted through
  their ranges, with the library's facts about finite sets, and a step either moves
  rows, with the set of the lost unchanged, or loses some of one group, disjoint from
  those lost before. `FatesAreFinal` is the refinement `Spec => FateIsFinal` by step
  simulation: the lemma of each action also says which step of `CountedLog` it is
  (`Call` accepts, a reported PUT writes, `Requeue` and `CloseRest` lose or stutter,
  the rest stutter).
* **RemoteCommand.** `StageInvariant`; `StageSuccessIsReal`, `StageLosesNothing`,
  `StageNamesKills`. The three processes meet in a pipe, and the invariant says what
  each may conclude from it: what was printed has been read or is in the pipe, and
  the capture goes on only when the pipe is empty and nobody who prints is left
  (`CaptureInv`); the launcher exits with its dispatcher's answer (`LauncherInv`); an
  answer of 0 is a Success, and a recognised kill is in the output in words the
  capture knows (`DispatchInv`), on a line of its own or behind half a line that does
  not disqualify it. That the classifier finds the *last* such line
  among whatever else was printed rests on the greatest element of a set of places
  (`LastPlace`).
* **SpotLaunch.** `LaunchInvariant`; `LaunchTypeOK`, `LaunchOnce`,
  `LaunchOncePerDelivery`, `LaunchTruth`, `LaunchLastResort`. The strengthening
  says that while lookups are sound an invocation that is launching sees no box
  at all (`NoBoxWhileLaunching`), how far its rotation has come
  (`RotationCovers`), that boxes belong to invocations that have ended
  (`OwnersEnded`) and outcomes name boxes that exist (`OutcomeHasBox`).
* **IdleStream.** `StreamInvariant` and `StreamKeepsContract`, the refinement
  `Spec => Contract` by step simulation. `QueueIsRest` says that the queue is
  exactly what was sent and not yet given, then the error, then the end;
  `InTime` bounds how late the caller can be, which gives the grace of 2 * `Lag`;
  `WaitIsEarned` that a wait that has run out with an empty queue was a silence or
  the end of the budget; `UsageIsLast` and `ReturnedWhole` carry the count.
* **LlmCall.** `CallInvariant`; `SpendIsReported`, `FactsStayWithTheirCall`,
  `DegradationIsStamped`. The facts waiting on the client are those of the call
  under way (`FactsMatch`), no request leaves unscanned (`ScannedFirst`), the
  dispatch's usage and the one it abandoned add up to what was answered
  (`UsageMatches`, `SpendIsKept`), and a rung below the declared one was recorded
  (`DescentIsNoted`).
* **TraceSink.** `TraceInvariant`; `BlobLossesAreCounted`, `BlobsLeadRows`,
  `PointersShowLosses`. The count of lost blobs is carried from step to step by one
  lemma (`LossStep`): a step keeps every blob held or in the bucket but for a finite
  set no larger than what it adds to the counter. That rests on what each thread
  holds at each step of a flush (`ThreadOK`: nothing outside `put blob` and `mark`;
  a blob is marked stored only when it is in the bucket; a flush with no work holds
  no row). While calls do not overlap, `InOrderInv` says where the blobs of a row
  are: those of a buffered row are in the bucket, held or failed, and when a flush
  comes to take its rows all that is still held has failed. `PointerInv` says that
  the pointer is behind only while it is about to be written. What `Without` and the
  cut of a requeue do to a sequence is proved by the least place at which it would
  go wrong (`WithoutFacts`, `Cut`).
* **SpotRun.** `EvidenceInvariant`, `EvidenceIsKept`, `RelaunchesAreEarned`. The
  invariant gives each phase of the teardown what it may rely on: while copying,
  what is not durable is still on the list and in staging (`Copied`); whatever
  deletes begins with everything durable (`Durable`). `LogInvariant`,
  `KillsStayNamed` and `LogsNeverShrink` are about the log of the run. As long as no
  two writers have overlapped, the log on disk covers both of its objects in S3 and
  what a timer has pushed, and so does an upload under way, which is then the only
  one (`LogCovers`, `FlightCovers`, `ShipCovers`); the plain object is removed only
  when the compressed one has all of it (`RemoveIsSafe`).
* **AlertPublish.** `ReturnedIsDelivered` follows a call's local variables: what is
  ok has been reached, and nothing is ok before it was asked (`LocalOK`).
  `MarkersAreEarned` counts: the marker, and any count about to be written to it,
  leaves each process that has published and not yet read the marker a publish of
  its own (`Covered`), so that readers and writers in any order never add one.
  `CreditStaysOwn` and `WindowsHold` are for calls that do not overlap (`Alone`):
  a streak is backed by detections, and the last delivery is in the marker
  (`Noted`) or owed to it by the one call on its way there (`Owes`). `GatesOpen`
  needs that the streak counts no less than was held in a row, and that the number a
  call compares it with is one a row that pages asks for (`GateInv`); the row that
  matches best exists and has a strictest one among its ties, for any registry.
* **Router.** `RouterInvariant`; `ServedEligibly`, `BilledAsServed`,
  `FallbacksReported`. `RouterInv` says of each call what its label promises
  (`CallOK`): where its registry comes from and that it is there to be loaded
  (`RegistryAtHand`), that its route is what that registry makes of its request
  (`RouteOK`), and that what served it is an entry of the chain the edge had for the
  name *when it served*, reported by that name or by another (`EdgeServed`).
  Deployments and reloads change none of it, since each version is a value a call
  carries. The rest is about the operators: a chain has a leader and every later
  place another report (`LeaderIsFirst`, `EdgeServedIs`), a capability group's chain
  is what a resolution with that requirement would have found (`CapableIsLive`), and
  a walk passes over an entry only for what the registry says of it or because an
  egress proxy is down (`WalkIsJustified`).
* **LambdaEnv.** `EnvInvariant`; `RefusalsAreFree`, `OtherVariablesSurvive`,
  `RemovalsReachTraffic`. The invariant follows an edit: what its reading is worth
  (`ReadingIsCurrent`), what its write has done to `$LATEST` (`WriteHolds`), what
  the version it published holds, and which aliases it has still to move
  (`PublishedHolds`).

Each inductive invariant was first checked as an invariant by TLC on the bounds
above.

**Only model-checked.** Liveness (`AttemptEnds`, `Answers`, `StageEnds`,
`StreamEnds`, `ThreadGoes`, `CallEnds`, `BoxEnds`), which the prover does not
handle under fairness; the fairness of `IdleStream` plays no part in its
refinement, which is one of safety. Every safety property of section 3 is a
theorem. No theorem says what `Bytes` sums up to: the buffers' byte counts decide
when a flush starts and how much is cut, and the theorems hold whatever they are.

## 6. Not modelled

* *Retries* (`http_retry.py`): one bounded loop around a callable, with no state of
  its own; components that retry do so in code of theirs, which is modelled.
* *Budgets and heartbeats*: arithmetic over a reading and a threshold, and one
  best-effort write of a console row on which nothing depends.
* *Stage coverage*: one sequential evaluation per call, a decision table over
  declared artifacts and dates of objects, and a best-effort write of its verdict.
* *Cost pricing, calendar and dates*: arithmetic and lookups over tables.
* *Data-loss prevention, trace rows, judge and payload builders, formatting and
  escaping of messages*: conversions of text, without state; their outcomes are
  free choices in the models of their callers.
* *Configuration, repository scripts*: lookups of the environment and release
  helpers.
* *Parts of modelled components*: the command lines; the alerts' `diff_conditions`
  and episode overrides; e-mail and web push; the router's shell rendering and
  LiteLLM parameters; the construction of prompts and schemas; quoting and the
  text of the bootstrap's blocks.

## 7. What could come next

Theorems: the trace sink as a counted log too, over its blobs; abstract
specifications for the writer lock and for the marker of an alert, with the modules
shown to implement them. Models: several attempts of a spot run in one
behaviour, with the launch of `SpotLaunch` in place of the external relaunch; the
alerts' episode overrides.
