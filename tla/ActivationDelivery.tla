------------------------- MODULE ActivationDelivery -------------------------
(* One activation message of one session on its way through JetStream and   *)
(* the workers: delivered, counted when it fails before its turn, handed    *)
(* back, acknowledged or terminated (nats_worker/daemon_runtime.rs,         *)
(* activation_preflight.rs, activation_delivery.rs, daemon_session_exec.rs) *)
(* with the durable failure counter (activation_failure.rs) and the         *)
(* compare-and-swap below it (harnx-nats-common/src/cas.rs).  What a turn   *)
(* appends is SessionTurn's: here the log only knows whether the prompt is  *)
(* settled, whether its invocation is still the session's latest, and how   *)
(* often an Error was recorded.                                             *)
EXTENDS Naturals

CONSTANTS
    Workers,
    MAX_ACTIVATION_DELIVERIES,  \* a worker hands nothing back after these
    WORK_NOTIFY_MAX_DELIVER,    \* the consumer's max_deliver
    MAX_ACTIVATION_FAILURES, REFUSAL_CONFIRMATIONS,   \* the failure budgets
    CAS_RETRY_LIMIT,
    Targeted,                   \* WorkerActivationMode::WorkerTargeted
    MaxFaults,                  \* crashes, shutdowns, lost messages and leases, and
                                \* expiries of the counter
    MaxEarly,                   \* an ack wait runs out under a live handler only
                                \* while excused is below this
    None

(* Why the message left the stream *)
Fates == {"unusable", "covered", "completed", "failed", "refusal", "size", "limit"}

(* The failures that are counted *)
Kinds == {"metadata", "plain", "refusal"}

ASSUME DeliveryConstants ==
    /\ {MAX_ACTIVATION_DELIVERIES, WORK_NOTIFY_MAX_DELIVER, MAX_ACTIVATION_FAILURES,
        REFUSAL_CONFIRMATIONS, CAS_RETRY_LIMIT} \subseteq Nat \ {0}
    /\ MAX_ACTIVATION_DELIVERIES < WORK_NOTIFY_MAX_DELIVER
    /\ REFUSAL_CONFIRMATIONS <= MAX_ACTIVATION_FAILURES
    /\ Targeted \in BOOLEAN /\ {MaxFaults, MaxEarly} \subseteq Nat
    /\ None \notin Workers \union Fates \union Kinds /\ "other" \notin Workers

VARIABLES
    payload,    \* good, malformed (or misrouted), or without its metadata
    msg,        \* ready to be delivered, out, gone or dropped at max_deliver
    delivered,  \* how often it was delivered
    fate,       \* why it is gone: the first reason other than the limit
    excused,    \* deliveries that ended without a worker's decision on them
    counter,    \* the counter's KV entry
    flying,     \* counter writes that timed out and may still land
    log,        \* what the session log holds for the prompt
    lease,      \* the session's holder: a worker, or "other" for other work
    shutdown,   \* the workers whose shutdown token is cancelled
    wk,         \* what a worker does with its delivery
    failed,     \* failures that happened, by kind
    slips,      \* what the workers' accounts miss: counter writes that landed
                \* late, appends and acks that were reported as failed,
                \* and expiries of the counter
    faults

broker == <<msg, delivered, fate, excused>>
counting == <<counter, flying, failed>>
vars == <<payload, broker, counting, log, lease, shutdown, wk, slips, faults>>

-----------------------------------------------------------------------------
(* pc where the handler is; d the delivery's count; held what the lease's   *)
(* watch says; err the failure; n and rev the value and revision of a       *)
(* counter write, tries its attempts                                        *)
Idle == [pc |-> "idle", d |-> 0, held |-> FALSE, err |-> None,
         n |-> 0, rev |-> 0, tries |-> 0]

Init ==
    /\ payload \in {"good", "malformed", "orphan"}
    /\ msg = "ready" /\ delivered = 0 /\ fate = None /\ excused = 0
    /\ counter = [op |-> "none", count |-> 0, rev |-> 0] /\ flying = {}
    /\ log = [covered |-> FALSE, replaced |-> FALSE, errors |-> 0]
    /\ lease = None /\ shutdown = {}
    /\ wk = [w \in Workers |-> Idle]
    /\ failed = [unclaimed |-> 0, claimed |-> 0]
    /\ slips = [late |-> 0, unsure |-> 0, expired |-> 0]
    /\ faults = 0

At(w, pc) == wk[w].pc = pc

Go(w, pc) == wk' = [wk EXCEPT ![w].pc = pc]

Freed(w) == IF lease = w THEN None ELSE lease

Fault == faults + slips.expired < MaxFaults /\ faults' = faults + 1

-----------------------------------------------------------------------------
(* Dispositions.  Each stops the heartbeat, then publishes an acknowledgment *)
(* nobody confirms: it may be lost                                           *)

Redelivered == IF delivered < WORK_NOTIFY_MAX_DELIVER THEN "ready" ELSE "dropped"

Disposed(w, pc) == wk' = [wk EXCEPT ![w] = [Idle EXCEPT !.pc = pc, !.held = wk[w].held]]

PublishLost == Fault /\ UNCHANGED <<broker, slips>>

(* claim_activation and what it calls: an error is passed on to             *)
(* handle_activation, which hands the delivery back                         *)
Claiming(w) ==
    \/ wk[w].pc \in {"preflight", "status", "acquire"}
    \/ wk[w].err = "metadata" /\ ~At(w, "handback")

(* An ack or Term that cannot be published: the counter is not cleared      *)
PublishFails(w) ==
    /\ Fault /\ UNCHANGED broker
    /\ slips' = [slips EXCEPT !.unsure = @ + 1]
    /\ IF Claiming(w) THEN Go(w, "handback") ELSE Disposed(w, "release")

nak(w) ==
    /\ Disposed(w, "release")
    /\ UNCHANGED <<counting, log>>
    /\ \/ /\ msg' = IF msg = "out" THEN Redelivered ELSE msg
          /\ UNCHANGED <<delivered, fate, slips, faults>>
       \/ PublishLost

shutdown_nak(w) == nak(w) /\ excused' = IF msg' = msg THEN excused ELSE excused + 1

(* ack, terminate: the message leaves the stream *)
remove(w, reason, pc) ==
    /\ UNCHANGED <<counting, log>>
    /\ \/ /\ Disposed(w, pc)
          /\ msg' = "gone" /\ fate' = IF fate \in {None, "limit"} THEN reason ELSE fate
          /\ UNCHANGED <<delivered, excused, slips, faults>>
       \/ Disposed(w, pc) /\ PublishLost
       \/ PublishFails(w)

(* Mutant: hands back the last delivery too *)
redeliver_once_more(w) ==
    IF wk[w].d <= MAX_ACTIVATION_DELIVERIES
    THEN nak(w) /\ UNCHANGED excused
    ELSE remove(w, "limit", "release")

(* delayed_nak and busy_nak; at the limit the failure counter is not cleared *)
redeliver_later(w) ==
    IF wk[w].d < MAX_ACTIVATION_DELIVERIES
    THEN nak(w) /\ UNCHANGED excused
    ELSE remove(w, "limit", "release")

(* handle_activation's error path *)
HandBack(w) == IF w \in shutdown THEN shutdown_nak(w) ELSE redeliver_later(w)

(* acknowledge_activation, terminate_activation: then clear the counter *)
acknowledge_activation(w, reason) == remove(w, reason, "clear")
terminate_activation(w, reason) == remove(w, reason, "clear")

-----------------------------------------------------------------------------
(* Delivery *)

(* handle_activation: progress starts with the handler.  A worker that      *)
(* still has this message reserved drops the duplicate undisposed           *)
Deliver(w) ==
    /\ msg = "ready" /\ w \notin shutdown
    /\ msg' = "out" /\ delivered' = delivered + 1
    /\ wk' = IF At(w, "idle")
             THEN [wk EXCEPT ![w].pc = "preflight", ![w].d = delivered']
             ELSE wk
    /\ UNCHANGED <<payload, fate, excused, counting, log, lease, shutdown, slips, faults>>

(* JetStream's ack wait runs out: nobody has the message, or the heartbeat  *)
(* of the handler that has it ended with its lease or did not arrive in     *)
(* time                                                                     *)
AckWaitExpires ==
    /\ msg = "out"
    /\ (\A w \in Workers : At(w, "idle")) \/ excused < MaxEarly
    /\ msg' = Redelivered /\ excused' = excused + 1
    /\ UNCHANGED <<payload, delivered, fate, counting, log, lease, shutdown, wk, slips, faults>>

-----------------------------------------------------------------------------
(* Preflight *)

(* A failure before the turn: counted, unless it is a size rejection, which *)
(* goes straight to the log                                                 *)
Fails(w, kind) ==
    /\ wk' = [wk EXCEPT ![w].err = kind, ![w].tries = 0,
                        ![w].pc = IF kind = "size" THEN "record" ELSE "count"]
    /\ failed' = CASE kind = "size" -> failed
                 [] kind = "metadata" -> [failed EXCEPT !.unclaimed = @ + 1]
                 [] OTHER -> [failed EXCEPT !.claimed = @ + 1]
    /\ UNCHANGED <<broker, counter, flying, log, slips, faults>>

(* The handler goes on with its delivery *)
GoOn(w, pc) == Go(w, pc) /\ UNCHANGED <<broker, counting, log, slips, faults>>

(* activation_is_ready up to the metadata: a message that cannot be read or *)
(* is routed wrongly is terminated, a live holder is deferred to            *)
(* (lease_holder_preflight_passes), a message without metadata terminated,  *)
(* and a metadata read that fails is counted                                *)
ActivationIsReady(w) ==
    \/ payload = "malformed" /\ terminate_activation(w, "unusable")
    \/ payload # "malformed" /\ lease # None /\ redeliver_later(w)
    \/ payload # "malformed" /\ GoOn(w, "handback")
    \/ payload = "orphan" /\ lease = None /\ terminate_activation(w, "unusable")
    \/ payload = "good" /\ lease = None /\ GoOn(w, "status")
    \/ payload # "malformed" /\ lease = None /\ Fails(w, "metadata")

(* claim_activation: a worker that shuts down hands back                     *)
Preflight(w) ==
    /\ At(w, "preflight")
    /\ UNCHANGED <<payload, lease, shutdown>>
    /\ IF w \in shutdown THEN shutdown_nak(w) ELSE ActivationIsReady(w)

(* wind_up_preflight and activation_status_preflight_finished: a settled    *)
(* prompt is acknowledged; a log that cannot be read is left for later      *)
CheckStatus(w) ==
    /\ At(w, "status")
    /\ UNCHANGED <<payload, lease, shutdown>>
    /\ IF w \in shutdown THEN shutdown_nak(w)
       ELSE \/ log.covered /\ acknowledge_activation(w, "covered")
            \/ ~log.covered /\ GoOn(w, "acquire")
            \/ redeliver_later(w)

Holding(w, pc) ==
    /\ lease = None /\ lease' = w
    /\ wk' = [wk EXCEPT ![w].pc = pc, ![w].held = TRUE]
    /\ UNCHANGED <<broker, counting, log, slips, faults>>

(* acquire_or_defer_activation: taken, held by another, or failed *)
AcquireOrDefer(w, pc) ==
    \/ Holding(w, pc)
    \/ lease # None /\ redeliver_later(w) /\ UNCHANGED lease
    \/ GoOn(w, "handback") /\ UNCHANGED lease

(* claim_reserved_activation *)
Acquire(w) ==
    /\ At(w, "acquire")
    /\ UNCHANGED <<payload, shutdown>>
    /\ IF w \in shutdown THEN shutdown_nak(w) /\ UNCHANGED lease
       ELSE AcquireOrDefer(w, "startup")

-----------------------------------------------------------------------------
(* A claimed activation *)

(* claim_reserved_activation's last check, prepare_claimed_activation,       *)
(* prepare_session_runtime and start_session_runtime_services: whatever     *)
(* fails before the turn                                                    *)
Startup(w) ==
    /\ At(w, "startup")
    /\ UNCHANGED <<payload, shutdown>>
    /\ IF w \in shutdown THEN lease' = Freed(w) /\ shutdown_nak(w)
       ELSE /\ UNCHANGED lease
            /\ \/ GoOn(w, "turn")
               \/ \E kind \in {"plain", "refusal", "size"} : Fails(w, kind)

Settled == [log EXCEPT !.covered = TRUE]

Recorded == [log EXCEPT !.covered = TRUE, !.errors = @ + 1]

(* record_session_error: the Error entry is skipped without the lease and   *)
(* may be too large itself; an append that is reported as failed may have   *)
(* been stored                                                              *)
RecordError(w, err, recorded, otherwise) ==
    \/ /\ wk[w].held /\ log' = Recorded
       /\ wk' = [wk EXCEPT ![w].pc = recorded, ![w].err = err]
       /\ UNCHANGED <<slips, faults>>
    \/ /\ ~wk[w].held \/ err = "size"
       /\ wk' = [wk EXCEPT ![w].pc = otherwise, ![w].err = err]
       /\ UNCHANGED <<log, slips, faults>>
    \/ /\ wk[w].held /\ Fault
       /\ wk' = [wk EXCEPT ![w].pc = otherwise, ![w].err = err]
       /\ \/ UNCHANGED <<log, slips>>
          \/ log' = Recorded /\ slips' = [slips EXCEPT !.unsure = @ + 1]

(* The turn ends, with the prompt settled or not, or fails:                 *)
(* record_execution_error.  A size rejection is durable however its Error   *)
(* fares                                                                    *)
Turn(w) ==
    /\ At(w, "turn")
    /\ UNCHANGED <<payload, broker, counting, lease, shutdown>>
    /\ \/ /\ Go(w, "ended") /\ UNCHANGED <<slips, faults>>
          /\ log' = log \/ (wk[w].held /\ log' = Settled)
       \/ RecordError(w, None, "turnFailed", "erred")
       \/ RecordError(w, "size", "turnFailed", "turnFailed")

(* Mutant: completes without a look at the queued input *)
FinishRegardless(w) ==
    /\ wk[w].pc \in {"ended", "turnFailed", "erred"}
    /\ UNCHANGED <<payload, broker, counting, log, shutdown, slips, faults>>
    /\ lease' = IF wk[w].held THEN Freed(w) ELSE lease
    /\ \/ (w \in shutdown \/ ~wk[w].held) /\ Go(w, "failover")
       \/ At(w, "ended") /\ w \notin shutdown /\ wk[w].held /\ Go(w, "done")
       \/ wk[w].pc \in {"ended", "erred"} /\ Go(w, "retry")
       \/ At(w, "turnFailed") /\ Go(w, "durable")

(* finish_execution, determine_finish_cause, finish_completed: the lease is *)
(* released before the delivery is disposed of.  A worker that shuts down   *)
(* or lost its lease hands the delivery back, though an error may come      *)
(* first; a turn is complete when the session's latest invocation has no    *)
(* queued input (has_queued_input), whichever invocation that is, and is    *)
(* otherwise run again, as when finishing it failed                         *)
Finish(w) ==
    /\ wk[w].pc \in {"ended", "turnFailed", "erred"}
    /\ UNCHANGED <<payload, broker, counting, log, shutdown, slips, faults>>
    /\ lease' = IF wk[w].held THEN Freed(w) ELSE lease
    /\ \/ (w \in shutdown \/ ~wk[w].held) /\ Go(w, "failover")
       \/ /\ At(w, "ended") /\ w \notin shutdown /\ wk[w].held
          /\ (log.covered \/ log.replaced) /\ Go(w, "done")
       \/ wk[w].pc \in {"ended", "erred"} /\ Go(w, "retry")
       \/ At(w, "turnFailed") /\ Go(w, "durable")

(* settle_session_delivery of a turn that ended without an error            *)
Settle(w) ==
    /\ \/ At(w, "done") /\ acknowledge_activation(w, "completed")
       \/ At(w, "failover") /\ shutdown_nak(w)
    /\ UNCHANGED <<payload, lease, shutdown>>

-----------------------------------------------------------------------------
(* The failure counter *)

Put(n) == [op |-> "put", count |-> n, rev |-> counter.rev + 1]

CounterStep == UNCHANGED <<payload, broker, log, lease, shutdown, failed, slips>>

(* increment is over: its locals are gone *)
Counted(w, pc) == wk' = [wk EXCEPT ![w].pc = pc, ![w].n = 0, ![w].rev = 0, ![w].tries = 0]

(* A counter that cannot be updated leaves the budget unspent: back to the  *)
(* stream, by retry_metadata_preflight_failure or classify_pre_turn_failure *)
Unavailable(w) ==
    Counted(w, IF wk[w].err = "metadata" /\ ~Targeted THEN "handback" ELSE "retry")

Conflict(w) ==
    IF wk[w].tries + 1 < CAS_RETRY_LIMIT
    THEN wk' = [wk EXCEPT ![w].pc = "count", ![w].tries = @ + 1]
    ELSE Unavailable(w)

(* snapshot: a deleted or expired counter counts as none *)
Snapshot(w) ==
    /\ At(w, "count") /\ CounterStep /\ UNCHANGED <<counter, flying>>
    /\ \/ /\ UNCHANGED faults
          /\ wk' = [wk EXCEPT ![w].pc = "write",
                        ![w].n = IF counter.op = "put" THEN counter.count + 1 ELSE 1,
                        ![w].rev = IF counter.op = "put" THEN counter.rev ELSE 0]
       \/ Fault /\ Unavailable(w)

(* The broker applies a write to the revision it names, 0 for no record     *)
Applies(rev) == IF rev = 0 THEN counter.op # "put" ELSE counter.rev = rev

(* A write without an answer was applied, or is on its way                  *)
Unanswered(w) ==
    \/ Applies(wk[w].rev) /\ counter' = Put(wk[w].n) /\ UNCHANGED flying
    \/ flying' = flying \union {[n |-> wk[w].n, rev |-> wk[w].rev]} /\ UNCHANGED counter

(* write: applied or a conflict *)
Answered(w) ==
    /\ UNCHANGED <<flying, faults>>
    /\ \/ Applies(wk[w].rev) /\ counter' = Put(wk[w].n) /\ Go(w, "counted")
       \/ ~Applies(wk[w].rev) /\ Conflict(w) /\ UNCHANGED counter

(* write with revision 0: kv create; an error other than a conflict is not  *)
(* looked into                                                              *)
Create(w) ==
    /\ At(w, "write") /\ wk[w].rev = 0 /\ CounterStep
    /\ Answered(w) \/ (Fault /\ Unavailable(w) /\ Unanswered(w))

(* cas::update: a request that timed out is looked into                     *)
Update(w) ==
    /\ At(w, "write") /\ wk[w].rev # 0 /\ CounterStep
    /\ Answered(w) \/ (Fault /\ Go(w, "confirm") /\ Unanswered(w))

(* A write lands after its request had timed out                            *)
LandsLate ==
    \E f \in flying :
        /\ Applies(f.rev) /\ counter' = Put(f.n) /\ flying' = flying \ {f}
        /\ slips' = [slips EXCEPT !.late = @ + 1]
        /\ UNCHANGED <<payload, broker, log, lease, shutdown, wk, failed, faults>>

(* The bucket's ACTIVATION_FAILURE_TTL runs out.  The key's next write gets *)
(* a new revision                                                           *)
CounterExpires ==
    /\ counter.op = "put" /\ faults + slips.expired < MaxFaults
    /\ counter' = [op |-> "none", count |-> 0, rev |-> counter.rev + 1]
    /\ slips' = [slips EXCEPT !.expired = @ + 1]
    /\ UNCHANGED <<payload, broker, flying, log, lease, shutdown, wk, failed, faults>>

(* Mutant: reports a record someone advanced as a conflict *)
ConfirmOrConflict(w) ==
    /\ At(w, "confirm") /\ CounterStep /\ UNCHANGED <<counter, flying>>
    /\ \/ /\ UNCHANGED faults
          /\ IF counter.op = "put" /\ counter.rev > wk[w].rev /\ counter.count = wk[w].n
             THEN Go(w, "counted")
             ELSE IF counter.rev # wk[w].rev THEN Conflict(w) ELSE Go(w, "write")
       \/ Fault /\ Unavailable(w)

(* cas::update after a lost answer, confirms_update: the value it wrote at  *)
(* a later revision is taken for its own, any other advance is an error     *)
(* that is no conflict, and the same revision is tried again, although the  *)
(* first request may still be on its way                                    *)
Confirm(w) ==
    /\ At(w, "confirm") /\ CounterStep /\ UNCHANGED <<counter, flying>>
    /\ \/ /\ UNCHANGED faults
          /\ IF counter.op = "put" /\ counter.rev > wk[w].rev /\ counter.count = wk[w].n
             THEN Go(w, "counted")
             ELSE IF counter.rev # wk[w].rev THEN Unavailable(w) ELSE Go(w, "write")
       \/ Fault /\ Unavailable(w)

(* Mutant: one failure more than the budget *)
OverBudget(w) ==
    wk[w].n > IF wk[w].err = "refusal" THEN REFUSAL_CONFIRMATIONS ELSE MAX_ACTIVATION_FAILURES

(* classify_pre_turn_failure, handle_metadata_preflight_failure *)
BudgetSpent(w) ==
    wk[w].n >= IF wk[w].err = "refusal" THEN REFUSAL_CONFIRMATIONS ELSE MAX_ACTIVATION_FAILURES

(* A spent budget is recorded under the lease, which a metadata failure has *)
(* still to take                                                            *)
Classify(w) ==
    /\ At(w, "counted")
    /\ UNCHANGED <<payload, shutdown>>
    /\ IF BudgetSpent(w) /\ wk[w].err = "metadata" THEN AcquireOrDefer(w, "record")
       ELSE /\ IF BudgetSpent(w) THEN Counted(w, "record") ELSE Unavailable(w)
            /\ UNCHANGED <<broker, counting, log, lease, slips, faults>>

(* durabilize_pre_turn_failure, is_durable_activation_error: only a size    *)
(* rejection is durable without its Error                                   *)
Durabilize(w) ==
    /\ At(w, "record")
    /\ UNCHANGED <<payload, broker, counting, lease, shutdown>>
    /\ RecordError(w, wk[w].err, "durable", IF wk[w].err = "size" THEN "durable" ELSE "retry")

(* durable_termination_reason *)
Reason(w) == IF wk[w].err \in {"refusal", "size"} THEN wk[w].err ELSE "failed"

(* Mutant: hands back an activation whose failure is recorded *)
HandBackRecorded(w) ==
    /\ At(w, "durable") /\ redeliver_later(w)
    /\ UNCHANGED <<payload, lease, shutdown>>

(* A durable failure terminates the activation *)
Terminate(w) ==
    /\ At(w, "durable") /\ terminate_activation(w, Reason(w))
    /\ UNCHANGED <<payload, lease, shutdown>>

Retry(w) ==
    /\ \/ At(w, "retry") /\ redeliver_later(w)
       \/ At(w, "handback") /\ HandBack(w)
    /\ UNCHANGED <<payload, lease, shutdown>>

(* clear_activation_failures, after an ack or a Term only: an unconditional *)
(* delete that may fail                                                     *)
Cleared(w) ==
    \/ /\ counter' = IF At(w, "clear")
                     THEN [op |-> "del", count |-> 0, rev |-> counter.rev + 1]
                     ELSE counter
       /\ UNCHANGED faults
    \/ At(w, "clear") /\ Fault /\ UNCHANGED counter

(* Mutant: the handler ends with its reservation still in the map *)
ReleaseLease(w) ==
    /\ wk[w].pc \in {"clear", "release"} /\ Cleared(w)
    /\ lease' = Freed(w) /\ Go(w, "reserved")
    /\ UNCHANGED <<payload, broker, flying, log, shutdown, failed, slips>>

(* Mutant: forgets the delivery, not the lease *)
ReleaseReservation(w) ==
    /\ wk[w].pc \in {"clear", "release"} /\ Cleared(w)
    /\ Go(w, "idle")
    /\ UNCHANGED <<payload, broker, flying, log, lease, shutdown, failed, slips>>

(* The end of a handler: clear_activation_failures, lease.release,          *)
(* release_activation_reservation, release_activation_tracking              *)
Release(w) ==
    /\ wk[w].pc \in {"clear", "release"} /\ Cleared(w)
    /\ lease' = Freed(w) /\ wk' = [wk EXCEPT ![w] = Idle]
    /\ UNCHANGED <<payload, broker, flying, log, shutdown, failed, slips>>

-----------------------------------------------------------------------------
(* The surroundings *)

(* The lease expires or is taken over under its holder *)
LoseLease(w) ==
    /\ lease = w /\ Fault /\ lease' = None
    /\ UNCHANGED <<payload, broker, counting, log, shutdown, wk, slips>>

(* lost_watch *)
NoticeLoss(w) ==
    /\ wk[w].held /\ lease # w
    /\ wk' = [wk EXCEPT ![w].held = FALSE]
    /\ UNCHANGED <<payload, broker, counting, log, lease, shutdown, slips, faults>>

(* A dead worker's lease runs out or is reclaimed as stale *)
LeaseExpires(w) ==
    /\ lease = w /\ ~wk[w].held /\ lease' = None
    /\ UNCHANGED <<payload, broker, counting, log, shutdown, wk, slips, faults>>

Crash(w) ==
    /\ ~At(w, "idle") /\ Fault
    /\ wk' = [wk EXCEPT ![w] = Idle] /\ shutdown' = shutdown \ {w}
    /\ UNCHANGED <<payload, broker, counting, log, lease, slips>>

Shutdown(w) ==
    /\ w \notin shutdown /\ ~At(w, "idle") /\ Fault
    /\ shutdown' = shutdown \union {w}
    /\ UNCHANGED <<payload, broker, counting, log, lease, wk, slips>>

(* shutdown_active_sessions awaits the handlers; then the worker comes back *)
Restart(w) ==
    /\ w \in shutdown /\ At(w, "idle") /\ shutdown' = shutdown \ {w}
    /\ UNCHANGED <<payload, broker, counting, log, lease, wk, slips, faults>>

(* Other work of the session holds its lease and may settle the prompt; of  *)
(* no more interest once the message is gone                                *)
OtherHolder ==
    /\ \/ lease = None /\ msg # "gone" /\ lease' = "other" /\ UNCHANGED log
       \/ /\ lease = "other" /\ lease' = None
          /\ log' \in {log, Settled}
    /\ UNCHANGED <<payload, broker, counting, shutdown, wk, slips, faults>>

(* reserve_admission: a later invocation becomes the session's latest, also *)
(* while a prompt that was logged after its own invocation's end waits; of  *)
(* interest only to a turn that ends with the prompt unsettled              *)
InvocationReplaced ==
    /\ ~log.replaced /\ ~log.covered /\ \E w \in Workers : At(w, "ended")
    /\ log' = [log EXCEPT !.replaced = TRUE]
    /\ UNCHANGED <<payload, broker, counting, lease, shutdown, wk, slips, faults>>

-----------------------------------------------------------------------------
Handler(w) ==
    \/ Preflight(w) \/ CheckStatus(w) \/ Acquire(w)
    \/ Startup(w) \/ Turn(w) \/ Finish(w) \/ Settle(w)
    \/ Snapshot(w) \/ Create(w) \/ Update(w) \/ Confirm(w) \/ Classify(w)
    \/ Durabilize(w) \/ Terminate(w) \/ Retry(w) \/ Release(w)

Next ==
    \/ AckWaitExpires \/ OtherHolder \/ InvocationReplaced \/ LandsLate \/ CounterExpires
    \/ \E w \in Workers :
        \/ Deliver(w) \/ Handler(w) \/ NoticeLoss(w)
        \/ LoseLease(w) \/ LeaseExpires(w)
        \/ Crash(w) \/ Shutdown(w) \/ Restart(w)

(* A live handler goes on, a worker that was shut down comes back, and the  *)
(* consumer delivers what is ready and redelivers what nobody has           *)
Fairness ==
    /\ \A w \in Workers : WF_vars(Handler(w)) /\ WF_vars(Restart(w))
    /\ WF_vars(\E w \in Workers : Deliver(w))
    /\ WF_vars((\A w \in Workers : At(w, "idle")) /\ AckWaitExpires)

Spec == Init /\ [][Next]_vars
FairSpec == Spec /\ Fairness

-----------------------------------------------------------------------------
Failures == failed.unclaimed + failed.claimed

(* The module's types; a worker that is done with a delivery keeps neither  *)
(* its lease nor its failure for the next one                               *)
TypeOK ==
    /\ payload \in {"good", "malformed", "orphan"} /\ msg \in {"ready", "out", "gone", "dropped"}
    /\ delivered \in 0..WORK_NOTIFY_MAX_DELIVER /\ excused \in 0..delivered
    /\ fate \in Fates \union {None}
    /\ (msg = "gone") = (fate # None)
    /\ counter.op \in {"none", "put", "del"} /\ {counter.count, counter.rev} \subseteq Nat
    /\ \A f \in flying : f.n \in Nat \ {0} /\ f.rev \in 0..counter.rev
    /\ log.covered \in BOOLEAN /\ log.replaced \in BOOLEAN /\ log.errors \in Nat
    /\ lease \in Workers \union {None, "other"} /\ shutdown \subseteq Workers
    /\ {failed.unclaimed, failed.claimed} \subseteq 0..WORK_NOTIFY_MAX_DELIVER
    /\ {slips.late, slips.unsure} \subseteq Nat /\ slips.expired \in 0..MaxFaults
    /\ faults \in 0..MaxFaults
    /\ \A w \in Workers :
        /\ At(w, "idle") => wk[w] = Idle
        /\ wk[w].d \in 0..delivered /\ wk[w].err \in Kinds \union {None, "size"}

(* DurableActivationError: an activation is "safe to remove from            *)
(* JetStream" because a durable entry settles its prompt.  Unless it was    *)
(* unusable, too large, or given up at the delivery limit, a message is     *)
(* gone only when the log settles the prompt, whichever worker removed it   *)
(* and whatever lease it had; or, has_queued_input looking at the latest    *)
(* invocation only, when a turn completed after another invocation had      *)
(* replaced the prompt's                                                    *)
SafeToRemove ==
    \/ fate \in {None, "unusable", "size", "limit"}
    \/ log.covered
    \/ fate = "completed" /\ log.replaced

(* activation_failure.rs: the counter "advances only when worker admission  *)
(* or session setup actually fails", and cas.rs resolves a lost             *)
(* acknowledgement without applying a mutation twice, unless the request it *)
(* repeats lands after the look at the record.  The counter exceeds the     *)
(* failures that happened by the writes that landed late at most            *)
CountsRealFailures == counter.count <= Failures + slips.late

(* MAX_ACTIVATION_DELIVERIES "kept below the consumer's max_deliver, so a   *)
(* worker sees the activation and says why it gave up": every delivery past *)
(* the workers' limit is owed to one that no worker decided on, because it  *)
(* shut down, lost its lease, died or had its answer lost                   *)
LimitLeavesRoom == delivered <= MAX_ACTIVATION_DELIVERIES + excused

(* MAX_ACTIVATION_DELIVERIES: "Failures after the lease is claimed are      *)
(* recorded on the session by the failure budget long before".  While       *)
(* neither the counter, the log or a worker fails nor the counter runs out  *)
(* of its TTL, an activation given up at the delivery limit with nothing in *)
(* the log has failed less often under its lease than the budget allows,    *)
(* also when two workers counted at once                                    *)
FailuresReachTheLog ==
    (/\ fate = "limit" /\ faults = 0 /\ slips.expired = 0
     /\ ~log.covered /\ \A w \in Workers : At(w, "idle"))
        => failed.claimed < MAX_ACTIVATION_FAILURES

(* DurableActivationError, terminate_activation: a recorded failure ends    *)
(* the activation, so an Error is repeated only for a delivery that no      *)
(* worker had decided on (its Term was lost, its worker died, was shut down *)
(* or lost the lease, or its ack wait ran out under it) or whose Error or   *)
(* Term the worker was told had failed                                      *)
ErrorsAreNotRepeated == log.errors <= 1 + excused + slips.unsure

(* Every activation leaves the stream in the end through a worker's ack or  *)
(* Term: however it is redelivered, duplicated, counted or refused, none is *)
(* left to JetStream's silent limit or to a handler that forgot it          *)
EventuallyRemoved == <>(msg = "gone")

=============================================================================
