# harnx: a TLA+ model of session execution over NATS

harnx runs LLM agents. A *session* is a durable log in a JetStream stream;
frontends (TUI, HTTP, ACP, A2A) append prompts to it and ask for them to be run
by publishing *activations*; any worker process may take an activation, and a
*lease* keeps two workers from running one session at a time. Everything that
is hard in harnx is there: leases that expire behind a worker's back, crashes
between two appends, Cancels that race the output of the turn they stop,
prompts that arrive while a turn runs, acknowledgements that are lost, tool
calls replayed by a worker that cannot know whether they ran. This project
models that core, checks it with TLC, and proves every safety property the runs
check, for every value of the constants, with TLAPS.

## 1. Inventory

Paths are relative to `src/crates/`; `runtime` stands for `harnx-runtime/src`.

| Component | State | Operations | Interacts with | Hard behaviour |
|---|---|---|---|---|
| Session lease (`runtime/nats_lease.rs`) | one KV key per session; `LeaseState` (held, fence token, confirmed_until) | acquire, reclaim a dead holder, renew, revalidate, release, drop | broker KV; every leased append | loss unnoticed by the holder, late CAS, TTL |
| Session log (`runtime/nats_session_log.rs`, `harnx-core/src/session.rs`) | stream of entries, one sequence per entry | append, fenced append | all of the below | lost acks, deduplication |
| Replay (`harnx-core/src/session_reconstruct.rs`, `turn_status.rs`) | pure fold | status of the last turn, queued input, orphan calls | preflight, turn input, wind-up | Cancels in series, compaction copies, barriers |
| Admission (`runtime/nats_session.rs`, `nats_session_metadata/admission.rs`) | head key and bindings in KV | admit a prompt, active invocation | frontends, turn input, close-out | prompts between invocations |
| Interrupts (`runtime/nats_session/interrupt.rs`) | – | decide, append a Cancel, announce | log, activations | ambiguous appends |
| Wind-up (`runtime/nats_worker/wind_up.rs`, `backend.rs`) | – | answer the calls a Cancel cut off | log, lease | two workers doing it at once |
| Activation (`runtime/nats_worker/daemon_runtime*`, `activation_delivery.rs`) | JetStream consumer, reservations of a worker | deliver, reserve, preflight, claim, acknowledge, terminate, hand back, shut down | lease, log, counter | redelivery, duplicates, lost acks, limits |
| Failure counter (`runtime/nats_worker/activation_failure.rs`, `harnx-nats-common/src/cas.rs`) | one KV entry per activation | increment, clear | activation | several writers, ambiguous acks |
| Turn (`runtime/nats_worker/session_turn.rs`, `daemon_session_exec.rs`, `execution_control.rs`, `session_watcher.rs`, `agent_loop/`) | cursors, observer, abort signal | derive input, validate, repair, model and tool rounds, inject, end, drain, close out | everything above | every read is stale when it is used |
| Tool provider (`runtime/nats_tool_provider*`) | calls in flight of a worker | journal, dispatch, wait, cancel, replay | tool servers, journal | giving up on a call that still runs |
| Tool server (`harnx-toolset-server`) | journal rows and tombstones in KV; reply cache, running calls | receive, run, complete, cancel, drain, purge | provider, journal | restarts in the middle of a call, two runs of one call, cancels at any moment |
| HITL approvals, hand-offs, sub-agents, hooks, compaction | log entries, processes | – | turn | not modelled yet |
| Frontends, tools, model clients, credentials, packaging | – | – | – | I/O and data conversion |

What makes them correct, in a line each: a confirmed lease holder is the only
one; the replay of a log queues exactly the input nobody has answered and owes
exactly the calls a Cancel cut off; output stops at a Cancel; a round is wound
up once; an activation is given up only when its prompt is settled, and always
by a worker that says why; one interrupt request is one Cancel; a tool call has
one outcome, whoever asks and however often it was sent. `PROJECT.json` lists all components and, under
`hazards`, where in the code each of these can go wrong.

## 2. Modules

| Module | Models | Notes |
|---|---|---|
| `LeaseRegister` | what the lease promises | abstract: one holder at a time, and a gap between two |
| `SessionLease` | `nats_lease.rs` with the retries of `recovery.rs` | worker calls and broker steps are separate actions |
| `SessionLog` | the readers of the log | operators on a log; no state |
| `SessionTurn` | frontends, workers, watcher, lease (reduced), log | uses `SessionLog` for every read |
| `CallOutcome` | what the invocation journal promises about a call | abstract: one outcome, and nobody learns another |
| `ToolInvocation` | provider, tool server, journal for one call | shown to implement `CallOutcome` |
| `ActivationDelivery` | one activation, its deliveries and its failures before the turn | complements `SessionTurn`, which has many activations and no limits |
| `SessionLeaseProofs`, `ToolInvocationProofs`, `ActivationDeliveryProofs`, `ActivationBudgetProofs`, `SessionTurnProofs` | – | TLAPS proofs about the module they are named after; the budget of failures has a module of its own |
| `SessionLogProofs`, `MCSessionLogProofs` | – | what the readers of a log compute, and from it the properties of the run `SessionLog` |
| `MCSessionLease`, `MCSessionLog`, `MCSessionTurn`, `MCToolInvocation`, `MCActivationDelivery` | – | constants, symmetry; `MCSessionLog` also grows the logs and holds the reference definitions |

**SessionLease.** The key is its list of messages (`stream`, the index is the
revision) with the time left to the last one. A request goes on `wire` and the
broker takes it whenever it likes: once its sender gave up, twice (a retry puts
an equal message on the wire), or never. `phase` is where the lease code of a
worker is; `Held` is what `is_held()` returns, and `conf` the time to
`confirmed_until`. `Tick` moves all countdowns, so time is not bounded. A
worker is a process incarnation: it never comes back from "dead". The two
reads that the code takes care with are kept: the stale read of
`try_reclaim_stale_lease` (any earlier revision may be seen) and the
confirmation dated from before the send. `revalidate_ownership` renews from
inside the turn task, and `await_turn_body` aborts that task wherever it waits:
`RevalidationAborted` drops a renewal in mid-await, which frees `renew_lock` with
the old token and the old `confirmed_until` while the renewal may still be
stored. `dropped` is the history of the revisions this happened at. Two
properties are about everything but that case. A release after it may name a
revision the stored renewal has replaced (`ReleaseHits` excepts `dropped`). And
the next renewal sends the same `Nats-Msg-Id` (worker, generation, expected
revision): if the dropped one was stored, the broker answers with *that* record,
older than the `sent_at` the new confirmation is dated from (`Misdated`);
`ConfirmedHolderOwnsRecord` and the refinement speak of the other holders
(`Assured`).

**SessionLog.** An entry keeps what some reader tells apart. The operators
have the names of the Rust functions. `reconstruct_state` is the fold over the
window after the last barrier, a recursive function on the sequence numbers
(`Replay`); `new_user_messages_since`, `find_orphan_tool_calls` and `decide` are
the readers that do not use it. The orphan rounds are a set of sequence numbers,
repaired from the oldest on as the code's list is. The logs `MCSessionLog` grows
include those of a hand-off (`LogHandoffEnd`): a turn whose tool results switch
the agent ends in `HandoffDispatched` and writes its TurnEnd without an
assistant Message (`session_turn.rs:205-221`). The hand-off's own entries are
left out.

**SessionTurn.** One session. A worker is a record (`wk[w]`), and each place
where the code awaits something is a value of its `pc`. Reading the log and
appending what the read decided are different steps. Appends are of three
kinds, as in the code: turn output under `WriterRule::Turn` (`AppendLands`,
`AppendConflicts`), wind-ups under `WriterRule::WindUp` (`WindUpAppend`), and
unfenced appends (`Repair`, `EndTurn`, `RecordError`). The lease is reduced to
who owns the record (`owner`) and who believes to (`held`), the two between
which `SessionLease` allows a gap: `LoseLease` opens it, `NoticeLoss` closes it.

Abstractions of `SessionTurn`: frontends do not crash; the reservation of an
invocation is one step; the append of the worker's own stop and its
announcement are one step; a publish in flight when a turn is aborted lands
before the abort or not at all; a fenced append may give up at any conflict
(the code allows eight, and writers that are not modelled use them up too);
delivery limits (`Nak` never terminates at the hundredth delivery, as
`redeliver_later` does), the failure budget and graceful shutdown are
`ActivationDelivery`'s; HITL approvals, hand-offs, sub-agents, compaction, log
edits and deadlines are left out, the latter with both places that write for
them: `recover_completed_before_deadline` at the start, and the Cancel of
`DeadlineExpired` at the end. What the model and the tools answer is chosen
freely.

**ToolInvocation.** One call of a session. An *attempt* is one request for it:
attempt 0 is journaled and sent by the worker that ran the round, the others are
replays by workers that resumed it. `caller[a]` is the worker's side of an
attempt, `path[a]` where its request is in the server that took it
(`process_tool_request` to `serve_cached`), `owner[a]` the task that owns the
handler (`InvocationExecution`), which outlives the request path: after a
cancel the path answers while the owner still drains the handler. A replica has
`in_flight` (the handle control messages find) and `reply_cache`. The journal is
one `row` with a revision, and `deleted`, the session's tombstone. Reads and
compare-and-set writes of the row are separate steps, and an acknowledgement of
a write may be lost (`Recheck`, `Checkpoint`). `decided` and `ack` are history
variables. Merged steps: `prepare`, `validate_replay` and `reserve_cache_entry`
(`Receive`); `load`, `completed_reply`, `check_policy` and the claim (`Admit`);
the poll of a ready handler and the look at the accepted cancellation
(`HandlerReady`, `Decision`). The code has no await in the latter; the row reads
of the former two are of the same row and only their last one matters, since
replies are never removed but by a purge. A full cache is a refusal that may
happen at any time. Left out: the smaller retry of a reply that is too large,
partial results and progress, calls by clients that journal nothing, and
discovery of servers. Three error paths are coarser than the code: a caller that
stops waiting because nobody works on its request sends no cancel
(`nats_tool_provider.rs:449` schedules one; a caller that gives up with one is the
other branch of `GiveUp`); the purge of a row that was created after the
tombstone does not fail (`invocation_journal.rs:131`); and a cancel of a call no
replica runs does not note whether the tool accepted it (`control.rs:86`).

**ActivationDelivery.** One message in the work queue. `msg`, `delivered` and
`fate` are the broker's; `fate` is the first reason a worker removed the message
for, other than the limit. `wk[w]` is the handler of a worker, from delivery to
the release of its reservation. The `payload` is good, malformed or misrouted
(terminated at once), or without its metadata (terminated once no one holds the
lease). `counter` is the KV entry of `ActivationFailureTracker` with its revision;
an increment is a read (`Snapshot`) and a write (`Create`, `Update`), and an
update without an answer reads back what it did (`Confirm`). Such a write was
applied, or is in `flying` and may land at any later time (`LandsLate`), also
after the read-back found the old revision and the update was sent again: then
the second one is a conflict, and the failure is counted twice. The bucket's TTL
of an hour is `CounterExpires`. `log` is whether an entry settles the prompt,
whether a later invocation has replaced the prompt's (`InvocationReplaced`), and
how many Errors there are. An Error that is reported as failed may have been
stored (`RecordError`), and an ack or Term may be lost or fail to be published
(`PublishLost`, `PublishFails`), in which case the counter is not cleared and a
claim in progress hands the delivery back. `slips` is the history of such
misreports, of late writes and of expiries. The lease is reduced as in
`SessionTurn`. A turn ends with its prompt settled or not, or in an error, a size
rejection included (durable without its Error); `Finish` releases the lease and
decides: `has_queued_input` looks only at the session's latest invocation, so a
turn is complete when the prompt is settled *or* when another invocation has the
head.

Merged steps: the reads of `activation_is_ready` up to the metadata
(`Preflight`), and everything between the claim and the turn (`Startup`), which
fails in one of three ways: plain, refused, too large. The heartbeat is the
guard of `AckWaitExpires`: under a live handler the ack wait runs out only while
`excused < MaxEarly`. Other work of the session holds the lease as "other". When
a claim fails, the code releases the reservation before the NAK
(`daemon_runtime.rs:958` and 1031), the model after it; a redelivery cannot come
before the NAK, so only an early ack wait could tell them apart, and there the
model drops a duplicate that the code would handle.

## 3. Runs

| Run | Checks | Instance | Result |
|---|---|---|---|
| `SessionLease` | safety of the lease, refinement of `LeaseRegister` | two processes of one host (symmetric), TTL 2, four revisions, renewals of one revision dropped | holds |
| `SessionLeaseLive` | `ZombieNotices`, `DeadHolderFreed` | two processes of different hosts, three revisions, renewals of one revision dropped | holds |
| `SessionLeaseSplitBrain` | `OneWorkerThinksItIsActive` | as `SessionLease` | violated |
| `SessionLog` | the fold against reference definitions | all logs of up to seven entries, two prompts, two calls | holds |
| `SessionTurn` | interrupt and settlement with a steering prompt | one worker, two prompts, one interrupt, one loss | holds |
| `SessionTurnFailover` | the same and single wind-up under failover | two workers, one prompt, two interrupts, two losses | holds |
| `SessionTurnLive` | `AnnouncedInterruptIsWoundUp` | two workers, one prompt, one interrupt, two losses | holds |
| `SessionTurnInterrupt` | `CancelEndsTheTurn` | one worker, one interrupt, one loss | violated |
| `SessionTurnSettle` | `ActivatedPromptIsSettled` | one worker, one prompt, one loss | violated |
| `ToolInvocation` | one outcome (refinement of `CallOutcome`), one run of a tool that cannot replay, one job of one that resumes, cancels, waiters, purge | one replica and its successors, two replays of which one or two reach it, one fault | holds |
| `ToolInvocationCancel` | `AcceptedCancelDecides` | as `ToolInvocation` | violated |
| `ActivationDelivery` | when a message may go, what the counter and the log say of it, that it does go | two workers, limit 2 of 8 deliveries, budget 2, one fault or expiry of the counter, one early ack wait | holds |

Deadlock is not checked: a session in which everything is settled, and a worker
that is dead, stop for good, and the bounds stop the rest.

**Bounds.** `MaxRev` bounds the puts of the lease key: four revisions hold an
acquisition, a renewal, a removal and the next acquisition, which is what it
takes to supersede a worker with a request of its own still on the way;
`MaxDrops` bounds the revisions at which a renewal is dropped. TTL 2
tells "in time", "at the deadline" and "late" apart. `MaxLog` of `SessionTurn`
bounds only the appends a process may choose not to make (a prompt, model
output, an interrupt); the ones that must follow are always possible, so no
process is stuck at the bound. Five entries hold a prompt, a steering prompt, a
round and a Cancel; with four the two-worker run still has prompt, round and
two Cancels with their wind-ups. `MaxLosses` counts crashes and lost leases
together; two are needed for a second worker to be superseded in turn.
In `SessionLog` seven entries hold two complete interrupted rounds.
`ToolInvocation` has two requests in the servers at once (`MaxSent`): an original and a
replay, or two equal replays, which is what a duplicate, a second run and a race
for the row take; `MaxFaults` counts deletions, interrupts, deaths, shutdowns,
lost acknowledgements and refusals, while takeovers by a replaying worker are
free. Restarted replicas stand for other replicas; the invariants were also
checked with two replicas (2.1 million states, by hand). In `ActivationDelivery`
the limits are small enough to be met and keep their order (the workers' limit
below the consumer's); the gap between them covers the deliveries that faults
and early ack waits can cost, as 100 and the consumer's 200 do in the code. Two
deliveries decided on by workers, with the ones that are not, hold two failures,
the budget, and an update that competes with another or times out and lands
late. Expiries of the counter share `MaxFaults` with the faults, so that the two
together are bounded; `InvocationReplaced` is a step only where it matters, at
the end of a turn.

**Fairness.** The lease: the renew task, the clock and the broker's expiry go
on; delivery of requests and replies is not assumed. `DeadHolderFreed` needs no
worker at all, which is the point of the TTL. Turns: a live process takes its
next step (`WF` of `Worker`, `Watch`, `NoticeLoss`), and the broker does not
withhold all activations for ever (`SF` of *some* delivery: a delivery is
disabled whenever the lease is taken, hence strong; no particular worker or
activation is favoured, since redelivery backs off but does not starve). Nothing
is assumed of frontends: a prompt or an interrupt may stop half-way, and the
announcement of a Cancel, one detached best-effort publish (`interrupt.rs:539-591`),
may never be made. `AnnouncedInterruptIsWoundUp` is therefore about a turn that is
interrupted while the activation of a Cancel is in the stream, ready or with a
worker. Without one, the calls may stay owed: TLC shows a worker that dies, a
redelivered prompt whose preflight finds nothing to wind up, the Cancel landing
behind that look, and the covered prompt acknowledged. The session's next
activation winds up. The delivery limit is not in `SessionTurn`: an announcement
that is handed back a hundred times is terminated in the code, which is
`ActivationDelivery`'s; here the result is for activations below the limit.
Tool calls: tasks of a live server are polled, control messages that
arrived are handled, and a caller whose request nobody works on stops waiting
(its activity pulses stop); no fairness of a handler or of the delivery of a
cancel, so `CancelEndsTheWait` holds for tools that never stop. Activations:
handlers go on (each await in them is bounded), a worker that was shut down is
started again, the consumer delivers what is ready, and redelivers what nobody
has once its ack wait is over.

**What the violations show.**

* `SessionLeaseSplitBrain`: docs/nats-ha.md says a worker that loses its lease
  aborts at once and two workers never think they are active. `is_held()` reads
  a flag: a holder whose record has expired reports it as held until its own
  deadline or the broker's answer reaches it, and a new holder may be there
  before. What the code does guarantee is `ConfirmedHolderOwnsRecord` and
  `FencesOrdered`, both proved below.
* `SessionTurnInterrupt`: a worker dies after a tool round. Its replacement
  scans for orphan rounds, a Cancel lands, and the repair appends its results
  without an expected tail. The worker's own-append mark is now past the
  Cancel, so the watcher skips it, and the next output expects the repaired
  tail and lands behind the Cancel. `OutputStopsAtCancel`, which does hold,
  says that *fenced* output never does this.
* `SessionTurnSettle`: a worker dies between the assistant message and its
  TurnEnd. The fold of that log is Idle with nothing queued, so the redelivered
  activation runs nothing; the admission is still active, so it is handed back.
  In the code this ends when the delivery limit drops the activation, with the
  prompt unsettled.

* `ToolInvocationCancel`: a comment in `execution.rs` says an accepted cancel
  decides the call. The handle stays in `in_flight` for a moment after the owner
  task has sent the handler's result; a cancel that finds it there is answered
  Accepted, and the result stands. `EarlyCancelInterrupts` is what holds.

Seen while modelling and not a run:

* The two refusals that must agree (`REFUSAL_CONFIRMATIONS`, "Deliveries that
  must refuse an activation before the refusal is recorded") share a counter
  with all other failures before the turn: one plain failure and one refusal
  record the refusal.
* A release after an aborted revalidation may miss: the comment at
  `nats_lease.rs:273` says that "deleting with the old revision otherwise strands
  the lease until TTL" and takes `renew_lock` against it, but the abort frees the
  lock while the renewal is under way. The delete is then refused, the refusal
  swallowed (`:298`), and the session waits out the TTL.
* A TurnEnd is no barrier to the replay, so a log that ends in a hand-off replays
  as `InFlightResumable`, and a prompt injected with the last round is queued
  again although the TurnEnd covers it. `session_turn.rs` returns at once after
  dispatching a hand-off ("Reconstructing the source tool result as an in-flight
  round would dispatch it a second time"), which guards the same activation
  and not a later one. `SettledInputIsNotQueuedAgain` is about turns that were
  answered, failed or cancelled.
* `has_queued_input` looks at the latest invocation: a prompt logged after its
  own invocation ended, and replaced at the head by another, is acknowledged
  unsettled (the last disjunct of `SafeToRemove`).
* An Error that was stored and reported as failed is recorded a second time by
  the metadata path, which does not look at the log (`activation_preflight.rs:74`).
* The counter's TTL runs from its last write; deferrals do not refresh it, so an
  activation that is deferred for an hour between failures may reach the delivery
  limit without an Error.
* A redelivery that reaches a worker before it has released its reservation is
  dropped without a disposition (`SameDelivery`) and costs an ack wait and a
  delivery.
* `confirms_update` takes an equal value of another writer for its own, so the
  failure counter may count one failure too few. An update that is sent again
  while the first request is under way may count one too many, though `cas.rs`
  says it resolves acknowledgements "without applying a mutation twice";
  `CountsRealFailures` bounds the excess by the writes that landed late.
* The Term at the delivery limit neither clears the counter nor logs anything.
* A worker that dies between the creation of a row and its second look at the
  tombstone leaves a row of a deleted session; it never runs
  (`PurgeIsFinal`).
* Output of a superseded worker that has not noticed its loss can land behind
  its replacement's (docs/nats-ha.md, "Every write to the durable log is gated
  by this token"; the gate is the local flag).
* A TurnEnd, which is unfenced, can land behind a Cancel.

Each property of a passing run has a mutant in `PROJECT.json`: a definition
commented "Mutant:" next to the one it replaces, with a plausible bug.

## 4. Proofs

Every invariant, action property and refinement of a passing run is a theorem.
The runs show it on a small instance; the theorem holds for every set of
workers, prompts, interrupts, replicas and attempts, for logs of every length,
and for every value of the limits and bounds that meets the assumptions. What a
component's invariant says was checked with TLC before it was proved.

| Module | Theorems | State |
|---|---|---|
| `SessionLeaseProofs` | `TypeCorrect`, `LeaseInvariant` | `TypeOK`, `IInv` |
| | `ConfirmedHolder` | `ConfirmedHolderOwnsRecord` |
| | `FencesAreOrdered` | `FencesOrdered` |
| | `LiveHoldersStay` | `NeverEvictsLiveHolder` |
| | `ReleasesHit` | `ReleaseHits` |
| | `LeaseImplementsRegister` | `SessionLease` implements `LeaseRegister` |
| `ToolInvocationProofs` | `CallTypeCorrect`, `CallInvariant` | `TypeOK`, `IInv` |
| | `CacheFollowsJournal` | `CachedIsJournaled` |
| | `OneJobPerCall` | `OneJob` |
| | `MutatingToolStartsOnce` | `MutatingToolRunsOnce` |
| | `PurgeStaysFinal` | `PurgeIsFinal` |
| | `EarlyCancelWins` | `EarlyCancelInterrupts` |
| | `NobodyWaitsForNobody` | `WaiterHasExecution` |
| | `HandlesOutliveRuns` | `HandleOutlivesItsRun` |
| | `CallImplementsOutcome` | `ToolInvocation` implements `CallOutcome` |
| `ActivationDeliveryProofs` | `DeliveryTypeCorrect`, `DeliveryInvariant` | `TypeOK`, `IInv` |
| | `RemovalIsSafe` | `SafeToRemove` |
| | `CounterIsHonest` | `CountsRealFailures` |
| | `LimitHolds` | `LimitLeavesRoom` |
| | `ErrorsEndTheActivation` | `ErrorsAreNotRepeated` |
| `ActivationBudgetProofs` | `BudgetReachesTheLog` | `FailuresReachTheLog` |
| `MCSessionLogProofs` | `ReplayTypeCorrect` | `TypeOK` |
| | `WindUpOwesTheCutOff` | `WindUpOwesWhatWasCutOff` |
| | `QueueIsTheInput` | `QueueIsUnansweredInput` |
| | `OneWindUpSettles` | `WindUpSettlesTheTurn` |
| | `SettledStaysSettled` | `SettledInputIsNotQueuedAgain` |
| | `NoInputIsDropped` | `InputAboveBarrierIsKept` |
| `SessionTurnProofs` | `TurnTypeCorrect`, `TurnInvariant` | `TypeOK`, `IInv` |
| | `OneCancelEach` | `OneCancelPerRequest` |
| | `WindUpsAnswerOnce` | `WindUpAnswersOnce` |
| | `OutputStops` | `OutputStopsAtCancel` |
| | `SettledBeforeGivingUp` | `SettledBeforeAck` |

**Lease.** Assumptions: `LeaseConstants` (positive numbers, `None` is neither a
worker nor a number) and `WholeSeconds`. The second is a real condition on the
configuration: the record's TTL header is in whole seconds while
`confirmed_until` is not, and `validate()` only rejects zero. With a fractional
TTL the broker drops the record before the holder's deadline.

`ConfirmedHolderOwnsRecord` is not inductive, because requests a worker has
given up on may still reach the broker. `IInv` adds that the current lease is an
unbroken run of its holder's own records (`ChainOK`), that a worker awaits one
request at a time (`LiveOK`), that every CAS on the wire names a record its
sender wrote, or for a reclaim one of a dead process (`NamesOK`), and per worker
(`LeaseOK`) that abandoned requests name no later revision than the token it
relies on, and no release names the token (`Bounded`); that between renewals they
name only *older* revisions, unless a renewal of the token was dropped
(`RestingOK`, `Fresh`); that the key is at the token or at a renewal of it, and
outlives the confirmation, unless that is misdated (`Current`); and that the
record a renewal's reply names outlives the confirmation dated from the send. Worker steps go through two lemmas (a request leaves, a call ends),
broker steps through "a reply is set" and "the stream grows". `ReleaseHits`
needs two more parts: every record is a create's or directly follows the one it
renews (`HistoryOK`), and nothing renews what a release on the wire names,
neither a renewal still on its way nor one that was stored (`UnrivalledOK`), where
no renewal of that revision was dropped.

**Tool calls.** Assumptions: `CallConstants` (a replay's request never has the
digest of the original: the replay field is hashed) and `NoneIsNoMessage`. That
no two outcomes exist is not inductive, since outcomes are on request paths, in
caches and in the row at the same time. `IInv` says where each of them may come
from; its core (`PathOK`) is that an outcome is written only at the revision its
writer read, and that while the row has that revision it is live and has no
reply. So the first write wins, every loser reads the winner's reply, and caches
and callers hold `decided` or nothing. `RunOK` says who may run at all (only the
original, for a tool that cannot replay), `JobOK` that a handler adopts the
checkpoint the row has, `CancelOK` what an early cancel leaves possible.

**Activations.** Assumption: `DeliveryConstants` (positive limits, the workers'
delivery limit below the consumer's, no more confirmations of a refusal than
failures in the budget; all three hold of the constants in the code). `IInv`
counts: a delivery ends by one worker's decision or is excused, so the
deliveries still open bound those that may be handed back and, with the
misreports (`slips.unsure`), the Errors recorded and the handlers that may still
record one. The counter together with the handlers whose write may still be
applied is bounded by the failures that happened and the writes that landed
late, because a write waits at the revision it read, also after its answer was
lost, and so does one that is still in flight.

`BudgetReachesTheLog` is about behaviours without a fault or an expiry of the
counter, and its invariant `JInv` says what holds until one happens: a worker's
lease is held from the claim to the end, so one failure under a lease is under
way at a time, and the counter is behind by that one at most; a message that is
malformed or has no metadata never gets to a claim (`UnclaimedOK`). It has a
hypothesis that the others do not need: `MaxEarly <
CAS_RETRY_LIMIT`. Two handlers of one activation overlap only where an ack wait
ran out under one of them. With as many such overlaps as there are attempts at
the counter's compare-and-set, a failure can lose every race and stay uncounted;
TLC shows it for one attempt and one overlap. The code tries 16 times
(`activation_failure.rs`), so the failure needs 16 early ack waits of one
activation under live heartbeats.

**Log.** The provers have no induction on predicates, and the replay is a fold.
`InductFrom` is induction with a set in place of the predicate, from the
well-foundedness of the naturals. With it `ReplayIsDefined` shows that the
recursive function satisfies its equation, and `ReplayMeaning` what the
accumulator is after any prefix, said of the log as a set of entries and not as
a history of steps: the last Cancel of the window (`CancelMeaning`), the open
and owed calls (`CallsMeaning`), whether a round has taken input
(`RoundMeaning`), the queue (`QueueMeaning`) and the last prompt taken
(`LastUserMeaning`). The properties of `MCSessionLog` follow without further
induction; of the writers they need only that entries are typed (`LogInv`), so
they hold whoever appends what.

**Turns.** Assumption: `TurnConstants` (no prompt id is the id of an interrupt).
None of the four properties is inductive: each is about an append decided by a
read that is stale when the append is made. The predicates of `IInv` therefore
take the log they speak of, and `WorkerGrows` says that what holds of a worker
survives an append by anybody else; it is proved once and used by every action.
`LogOK`: prompts are logged once, results answer earlier calls, a call id is in
one round, and no wind-up answers an answered call. `FrontOK`: once the Cancel
of a request is logged, its frontend only retries with a tail that is stale.
`WorkersOK`: where each worker is (`PlaceOK`); between its own last append and
the tail it expects there is no Cancel, and the calls of a wind-up it is about
to append are unanswered up to that tail (`PendOK`); what settles the prompt of
its delivery, once the code relies on it (`SettleOK`); and no two workers are
about to log the same call (`Apart`). `EndsSettled` is the case analysis of who
gives a delivery up.

**Only model-checked.** `ZombieNotices`, `DeadHolderFreed`,
`AnnouncedInterruptIsWoundUp`, `CancelEndsTheWait` and `EventuallyRemoved` are
liveness under fairness, which is out of TLAPS's reach (as is ENABLED).
The four properties that fail are shown by their counterexamples. There is no
RECURSIVE operator in the project.

## 5. Plan

1. *Extend.* `Admission`: the CAS loops of the head key with three prompts, where
   `InvocationReplaced` of `ActivationDelivery` becomes a consequence. HITL approvals as an extension of `SessionTurn`.
   Tool reservations and result budgets. The session actor of the HTTP server
   and the start of the local broker.
2. *Compose.* A refinement from `SessionTurn` to an abstract prompt lifecycle
   (queued, running, settled by exactly one of TurnEnd, Error, Cancel), and of
   the reduced lease of `SessionTurn` and `ActivationDelivery` by
   `SessionLease`: `LoseLease` opens, and `NoticeLoss` closes, the gap that
   `FencesOrdered` and `ConfirmedHolderOwnsRecord` bound.
3. *Prove.* Both refinements, step by step from the invariants above.

## 6. Not modelled

Model clients, tools, hooks, sandboxes, credentials, packaging, telemetry and
the user interfaces: I/O and data conversion around the protocol above.
They are most of the repository's lines, and have no state of their own that
several actors share; the map covers the protocol code only. Sub-agents are
sessions of their own; two composed sessions do not fit the bounds. The broker is modelled only as far as the code relies on it:
compare-and-set by revision or expected sequence, deduplication by message id,
per-message TTL, at-least-once delivery of activations.
