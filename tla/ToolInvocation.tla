--------------------------- MODULE ToolInvocation ---------------------------
(***************************************************************************)
(* One tool call of a session, from crates/harnx-toolset-server/src and    *)
(* crates/harnx-runtime/src/nats_tool_provider: the worker journals the    *)
(* call and sends it to a queue group of server replicas; a worker that    *)
(* takes the session over replays it; each replica has a reply cache and a *)
(* table of running calls that cancels reach; the journal row keeps the    *)
(* first reply and the first checkpoint; the session may be deleted at any *)
(* time, and servers and workers may die at any step.                      *)
(*                                                                         *)
(* An attempt is one request for the call: attempt 0 is the original, the  *)
(* others are replays.  Reads and writes of the row are separate steps and *)
(* writes are compare-and-set on the revision that was read.               *)
(***************************************************************************)
EXTENDS Naturals, FiniteSets

CONSTANTS
    Servers,         \* replicas of the tool server: one queue group
    MaxReplays,      \* bound: replays of the call
    Key,             \* Key[a]: digest of the request of attempt a
    Results,         \* what a handler that is not cancelled may return
    CANCEL_ATTEMPTS, \* times a worker that gives up publishes its cancel
    MaxSent,         \* bound: attempts that reach the servers
    MaxFaults,       \* bound: disturbances in one behaviour
    None

Attempts == 0 .. MaxReplays
Keys == {Key[a] : a \in Attempts}

ASSUME CallConstants ==
    /\ MaxReplays \in Nat /\ CANCEL_ATTEMPTS \in Nat /\ MaxSent \in Nat /\ MaxFaults \in Nat
    /\ Results \subseteq {"ok", "err"}
    /\ None \notin Servers /\ None \notin Attempts
    /\ \A a \in Attempts \ {0} : Key[a] # Key[0]   \* the replay field is hashed

VARIABLES
    \* the tool that is called
    tool,
    \* the journal: the call's row and the session's tombstone
    row, deleted, decided,
    \* purge_session, and the disturbances so far
    purger, faults,
    \* worker side of each attempt, what it was told, cancels it still sends
    caller, heard, sends,
    \* request path of each attempt in the server that took it
    path, at, seen, out,
    \* owner task of each attempt: handler, cancellation slot, acknowledgement
    owner, slot, ack, job,
    \* replicas: lifecycle, running calls, cached replies, control handlers
    server, in_flight, reply_cache, control

journal == <<row, deleted, decided>>
worker == <<caller, heard, sends>>
request == <<path, at, seen, out>>
task == <<owner, slot, ack, job>>
replica == <<server, in_flight, reply_cache, control>>
vars == <<tool, journal, purger, faults, worker, request, task, replica>>

-----------------------------------------------------------------------------
(* Replies.  A reply that carries a run is what the tool did; the others    *)
(* are this server's own and are never journaled.                           *)

Reply(a, k) == [by |-> a, kind |-> k]
Outcomes == [by : Attempts, kind : Results \union {"intr"}]
Fatal == Reply(None, "fatal")
Refused == Reply(None, "refused")
Unjournaled == {Fatal, Refused}
Replies == Outcomes \union Unjournaled

Absent == [op |-> "none", rev |-> 0, reply |-> None, checkpoint |-> None]
Purged(r) == [op |-> "purge", rev |-> r.rev + 1, reply |-> None, checkpoint |-> None]
Live == row.op = "put"

(* Toolset::can_replay holds for idempotent tools, and for resumable ones,  *)
(* which checkpoint a job handle before they start the job.                 *)
Tools == {"mutating", "idempotent", "resumable"}
can_replay == tool # "mutating"

InProgress == Reply(None, "in progress")
Cancel(a) == [found |-> a]   \* a control message, and the handle found for it

ASSUME NoneIsNoMessage ==
    None \notin Replies \union {InProgress} \union {Cancel(a) : a \in Attempts \union {None}}

Running == {"handler", "draining", "leaving"}
Busy == {"wait", "admit", "await", "complete", "update", "recheck", "finish", "serve"}

Init ==
    /\ tool \in Tools
    /\ row = Absent /\ deleted = FALSE /\ decided = None /\ purger = "idle" /\ faults = 0
    /\ caller = [a \in Attempts |-> "idle"]
    /\ heard = {}
    /\ sends = 0
    /\ path = [a \in Attempts |-> "none"]
    /\ at = [a \in Attempts |-> None]
    /\ seen = [a \in Attempts |-> 0]
    /\ out = [a \in Attempts |-> None]
    /\ owner = [a \in Attempts |-> "none"]
    /\ slot = [a \in Attempts |-> FALSE]
    /\ ack = [a \in Attempts |-> "none"]
    /\ job = [a \in Attempts |-> None]
    /\ server = [s \in Servers |-> "up"]
    /\ in_flight = [s \in Servers |-> None]
    /\ reply_cache = [s \in Servers |-> [k \in Keys |-> None]]
    /\ control = [s \in Servers |-> None]

(* Deletions, interrupts, deaths, failed calls: any of them, MaxFaults in   *)
(* all.  Takeovers by a replaying worker are not counted.                   *)
Disturb == faults < MaxFaults /\ faults' = faults + 1

-----------------------------------------------------------------------------
(* The worker *)

CallerAt(a, p) == caller' = [caller EXCEPT ![a] = p]

(* The attempt ends with reply r for its caller.                            *)
Told(a, r) ==
    /\ CallerAt(a, "over")
    /\ heard' = heard \union ({r} \intersect Outcomes)

(* Publish the request for attempt a to the queue group.                    *)
Dispatch(a) ==
    /\ Cardinality({b \in Attempts : path[b] # "none"}) < MaxSent
    /\ CallerAt(a, "waiting")
    /\ path' = [path EXCEPT ![a] = "queued"]
    /\ UNCHANGED <<heard, sends, at, seen, out>>

(* InvocationJournal::record, first check                                   *)
RecordStart ==
    /\ caller[0] = "idle"
    /\ IF deleted THEN Told(0, Fatal)
                  ELSE CallerAt(0, "creating") /\ UNCHANGED heard
    /\ UNCHANGED <<tool, journal, purger, faults, sends, request, task, replica>>

RecordCreate ==
    /\ caller[0] = "creating"
    /\ row' = [op |-> "put", rev |-> row.rev + 1, reply |-> None, checkpoint |-> None]
    /\ CallerAt(0, "created")
    /\ UNCHANGED <<tool, deleted, decided, purger, faults, heard, sends, request, task, replica>>

(* Mutant: the row is created without a second look at the tombstone *)
RecordedAnyway ==
    /\ caller[0] = "created"
    /\ Dispatch(0)
    /\ UNCHANGED <<tool, journal, purger, faults, task, replica>>

(* Second check: the session may have been deleted before the row existed. *)
Recorded ==
    /\ caller[0] = "created"
    /\ \/ /\ ~deleted
          /\ Dispatch(0)
          /\ UNCHANGED row
       \/ /\ deleted
          /\ row' = Purged(row)
          /\ Told(0, Fatal)
          /\ UNCHANGED <<sends, request>>
    /\ UNCHANGED <<tool, deleted, decided, purger, faults, task, replica>>

(* replay_recorded_call: a worker that resumed the round answers from the   *)
(* row, or sends the recorded request again, tagged as a replay.            *)
ReplayRecordedCall(a) ==
    /\ a > 0 /\ caller[a] = "idle" /\ caller[a - 1] # "idle"
    /\ Live
    /\ \/ deleted /\ Told(a, Fatal) /\ UNCHANGED <<sends, request>>
       \/ /\ ~deleted /\ row.reply # None
          /\ Told(a, row.reply)
          /\ UNCHANGED <<sends, request>>
       \/ ~deleted /\ row.reply = None /\ Dispatch(a)
    /\ UNCHANGED <<tool, journal, purger, faults, task, replica>>

(* Nobody works on the request: its activity pulses have stopped.           *)
Unattended(a) == path[a] \in {"queued", "over"}

(* await_response ends with an error: aborted, the registration lost, or no *)
(* activity.  Only a failover leaves the remote work alone.                 *)
GiveUp(a) ==
    /\ caller[a] = "waiting"
    /\ Told(a, Fatal)
    /\ \/ Disturb /\ (sends' = CANCEL_ATTEMPTS \/ UNCHANGED sends)
       \/ Unattended(a) /\ UNCHANGED <<faults, sends>>
    /\ UNCHANGED <<tool, journal, purger, request, task, replica>>

(* The worker process dies before it has looked at the tombstone again.     *)
WorkerDies ==
    /\ caller[0] \in {"creating", "created"} /\ Disturb
    /\ CallerAt(0, IF caller[0] = "created" THEN "stranded" ELSE "over") /\ UNCHANGED heard
    /\ UNCHANGED <<tool, journal, purger, sends, request, task, replica>>

(* publish_tool_cancel: every replica subscribes to the control subject; a  *)
(* message may be lost on the way to any of them.                           *)
PublishCancel ==
    /\ sends > 0
    /\ sends' = sends - 1
    /\ \E S \in SUBSET {s \in Servers : server[s] = "up" /\ control[s] = None} :
         control' = [s \in Servers |-> IF s \in S THEN Cancel(None) ELSE control[s]]
    /\ UNCHANGED <<tool, journal, purger, faults, caller, heard, request, task,
                   server, in_flight, reply_cache>>

(* The session watcher, or wind-up, cancels the call beside its caller.     *)
Interrupt ==
    /\ sends = 0 /\ Disturb
    /\ (\E a \in Attempts : caller[a] = "waiting") \/ (Live /\ row.reply = None)
    /\ sends' = 1
    /\ UNCHANGED <<tool, journal, purger, caller, heard, request, task, replica>>

-----------------------------------------------------------------------------
(* Deletion of the session: purge_session *)

PutTombstone ==
    /\ purger = "idle" /\ Disturb
    /\ deleted' = TRUE
    /\ purger' = "marked"
    /\ UNCHANGED <<tool, row, decided, worker, request, task, replica>>

ListKeys ==
    /\ purger = "marked"
    /\ purger' = IF row.op = "none" THEN "done" ELSE "listed"
    /\ UNCHANGED <<tool, journal, faults, worker, request, task, replica>>

PurgeRow ==
    /\ purger = "listed"
    /\ row' = Purged(row)
    /\ purger' = "done"
    /\ UNCHANGED <<tool, deleted, decided, faults, worker, request, task, replica>>

-----------------------------------------------------------------------------
(* The request path of a server, up to the running tool *)

PathAt(a, p) == path' = [path EXCEPT ![a] = p]
With(a, p, r) == PathAt(a, p) /\ out' = [out EXCEPT ![a] = r]

(* publish_reply, retransmitted until a caller that still waits has it      *)
Published(a, r) ==
    IF caller[a] = "waiting" THEN Told(a, r) ELSE UNCHANGED <<caller, heard>>

(* reserve_cache_entry: execute, wait, serve, or refuse when the entries of *)
(* other calls fill the cache and none of them is complete.                 *)
Reserve(a, s) ==
    LET entry == reply_cache[s][Key[a]]
    IN \/ /\ entry = None
          /\ reply_cache' = [reply_cache EXCEPT ![s][Key[a]] = InProgress]
          /\ PathAt(a, "admit") /\ UNCHANGED <<faults, caller, heard>>
       \/ /\ entry = None /\ Disturb
          /\ PathAt(a, "over") /\ Published(a, Refused) /\ UNCHANGED reply_cache
       \/ /\ entry = InProgress
          /\ PathAt(a, "wait") /\ UNCHANGED <<faults, caller, heard, reply_cache>>
       \/ /\ entry \notin {None, InProgress}
          /\ PathAt(a, "over") /\ Published(a, entry) /\ UNCHANGED <<faults, reply_cache>>

(* process_tool_request on replica s: prepare and validate_replay, then the *)
(* cache.  A missing row means a deleted session, which prepare may not     *)
(* record again.                                                            *)
Receive(a, s) ==
    /\ path[a] = "queued" /\ server[s] = "up"
    /\ at' = [at EXCEPT ![a] = s]
    /\ \/ Live /\ Reserve(a, s)
       \/ /\ ~Live
          /\ PathAt(a, "over") /\ Published(a, Fatal) /\ UNCHANGED <<faults, reply_cache>>
    /\ UNCHANGED <<tool, journal, purger, sends, seen, out, task, server, in_flight, control>>

(* A complete entry leaves after its TTL, or for another call's entry.      *)
Evict(s, k) ==
    /\ reply_cache[s][k] \notin {None, InProgress}
    /\ reply_cache' = [reply_cache EXCEPT ![s][k] = None]
    /\ UNCHANGED <<tool, journal, purger, faults, worker, request, task, server,
                   in_flight, control>>

(* Mutant: any tool is run again for a replay *)
PolicyAdmitsAll(a) == TRUE

(* check_policy *)
PolicyAdmits(a) == a = 0 \/ can_replay

(* Mutant: the refusal is recorded like an outcome of the tool *)
RefuseAndRecord(a) == With(a, "complete", Refused)

Refuse(a) == With(a, "finish", Refused)

(* invoke_uncached_tool: the checkpoint an earlier attempt left (load), its *)
(* reply (completed_reply), check_policy, and invoke_claimed up to the      *)
(* owner task.                                                              *)
Admit(a) ==
    /\ path[a] = "admit"
    /\ \/ (~Live \/ deleted) /\ With(a, "finish", Fatal) /\ UNCHANGED <<owner, job, in_flight>>
       \/ /\ Live /\ ~deleted /\ row.reply # None
          /\ With(a, "finish", row.reply) /\ UNCHANGED <<owner, job, in_flight>>
       \/ /\ Live /\ ~deleted /\ row.reply = None /\ ~PolicyAdmits(a)
          /\ Refuse(a) /\ UNCHANGED <<owner, job, in_flight>>
       \/ /\ Live /\ ~deleted /\ row.reply = None /\ PolicyAdmits(a)
          /\ PathAt(a, "await") /\ UNCHANGED out
          /\ owner' = [owner EXCEPT ![a] = "handler"]
          /\ job' = [job EXCEPT ![a] = row.checkpoint]
          /\ in_flight' = [in_flight EXCEPT ![at[a]] = a]
    /\ UNCHANGED <<tool, journal, purger, faults, worker, at, seen, slot, ack,
                   server, reply_cache, control>>

-----------------------------------------------------------------------------
(* The owner task and the handler it polls *)

OwnerAt(a, p) == owner' = [owner EXCEPT ![a] = p]

(* Mutant: every attempt's checkpoint replaces the one before *)
CheckpointLast(a) ==
    /\ tool = "resumable" /\ owner[a] \in {"handler", "draining"}
    /\ job[a] = None /\ Live
    /\ row' = [row EXCEPT !.checkpoint = a, !.rev = @ + 1]
    /\ job' = [job EXCEPT ![a] = a]
    /\ UNCHANGED <<tool, deleted, decided, purger, faults, worker, request, owner, slot, ack, replica>>

(* A handler that was given no checkpoint publishes its job handle before   *)
(* it starts the job (JournalCheckpointStore, first_value), and gets back   *)
(* the handle to use; the acknowledgement of its write may be lost.         *)
Checkpoint(a) ==
    /\ tool = "resumable" /\ owner[a] \in {"handler", "draining"}
    /\ job[a] = None /\ Live
    /\ IF row.checkpoint = None
         THEN /\ row' = [row EXCEPT !.checkpoint = a, !.rev = @ + 1]
              /\ \/ job' = [job EXCEPT ![a] = a] /\ UNCHANGED faults
                 \/ Disturb /\ UNCHANGED job
         ELSE job' = [job EXCEPT ![a] = row.checkpoint] /\ UNCHANGED <<row, faults>>
    /\ UNCHANGED <<tool, deleted, decided, purger, worker, request, owner, slot, ack, replica>>

(* Mutant: a ready handler wins over a cancellation accepted since the poll *)
ResultOf(a, k) == Reply(a, k)

(* A ready handler has won the poll that read an uncancelled token; it has  *)
(* not won the call if a cancellation was accepted since.                   *)
Decision(a, k) == IF slot[a] THEN Reply(a, "intr") ELSE Reply(a, k)

(* InvocationExecution::invoke, the handler being ready                     *)
HandlerReady(a) ==
    /\ owner[a] = "handler"
    /\ OwnerAt(a, "leaving")
    /\ \E k \in Results : /\ k = "ok" /\ tool = "resumable" => job[a] # None
                          /\ With(a, "complete", Decision(a, k))
    /\ UNCHANGED <<tool, journal, purger, faults, worker, at, seen, slot, ack, job, replica>>

(* Mutant: the interruption is reported when the handler has stopped *)
InterruptedLater(a) ==
    /\ owner[a] = "handler" /\ slot[a]
    /\ OwnerAt(a, "draining")
    /\ out' = [out EXCEPT ![a] = Reply(a, "intr")]
    /\ UNCHANGED <<tool, journal, purger, faults, worker, path, at, seen, slot, ack, job, replica>>

(* The poll that finds the token cancelled answers at once; a cooperative   *)
(* handler is polled on until it stops, any other is dropped (it stops at   *)
(* once).                                                                   *)
Interrupted(a) ==
    /\ owner[a] = "handler" /\ slot[a]
    /\ OwnerAt(a, "draining")
    /\ With(a, "complete", Reply(a, "intr"))
    /\ UNCHANGED <<tool, journal, purger, faults, worker, at, seen, slot, ack, job, replica>>

DrainHandler(a) ==
    /\ owner[a] = "draining"
    /\ OwnerAt(a, "leaving")
    /\ UNCHANGED <<tool, journal, purger, faults, worker, request, slot, ack, job, replica>>

(* Mutant: whatever handle is registered for the call is removed *)
OwnerExitsBlindly(a) ==
    /\ owner[a] = "leaving"
    /\ OwnerAt(a, "gone")
    /\ in_flight' = [in_flight EXCEPT ![at[a]] = None]
    /\ slot' = [slot EXCEPT ![a] = FALSE]
    /\ job' = [job EXCEPT ![a] = None]
    /\ UNCHANGED <<tool, journal, purger, faults, worker, request, ack,
                   server, reply_cache, control>>

(* is_same_call: a later attempt at the call may have taken the entry.      *)
OwnerExits(a) ==
    /\ owner[a] = "leaving"
    /\ OwnerAt(a, "gone")
    /\ in_flight' = [in_flight EXCEPT ![at[a]] = IF @ = a THEN None ELSE @]
    /\ slot' = [slot EXCEPT ![a] = FALSE]
    /\ job' = [job EXCEPT ![a] = None]
    /\ UNCHANGED <<tool, journal, purger, faults, worker, request, ack,
                   server, reply_cache, control>>

-----------------------------------------------------------------------------
(* record_outcome: complete_checked, then the cache and the reply *)

(* complete_bounded reads the row; a recorded reply is the answer.          *)
CompleteRead(a) ==
    /\ path[a] = "complete"
    /\ \/ ~Live /\ With(a, "finish", Fatal) /\ UNCHANGED seen
       \/ Live /\ row.reply # None /\ With(a, "finish", row.reply) /\ UNCHANGED seen
       \/ /\ Live /\ row.reply = None
          /\ PathAt(a, "update") /\ UNCHANGED out
          /\ seen' = [seen EXCEPT ![a] = row.rev]
    /\ UNCHANGED <<tool, journal, purger, faults, worker, at, task, replica>>

(* Mutant: the row is overwritten at whatever revision it has *)
UpdateAppliesAnyway(a) == TRUE

UpdateApplies(a) == row.rev = seen[a]

(* The update at the revision that was read: saved, refused because the row *)
(* changed, or failed with its acknowledgement lost or before it arrived.   *)
CompleteUpdate(a) ==
    /\ path[a] = "update"
    /\ \/ /\ UpdateApplies(a)
          /\ row' = [op |-> "put", rev |-> row.rev + 1, reply |-> out[a],
                     checkpoint |-> row.checkpoint]
          /\ decided' = out[a]
          /\ \/ PathAt(a, "finish") /\ UNCHANGED faults
             \/ PathAt(a, "recheck") /\ Disturb
       \/ ~UpdateApplies(a) /\ PathAt(a, "complete") /\ UNCHANGED <<faults, row, decided>>
       \/ PathAt(a, "recheck") /\ Disturb /\ UNCHANGED <<row, decided>>
    /\ seen' = [seen EXCEPT ![a] = 0]
    /\ UNCHANGED <<tool, deleted, purger, worker, at, out, task, replica>>

(* complete_checked after a failed write: a durable winner is the answer,   *)
(* whoever wrote it; otherwise, or when it cannot be read, the failure is.  *)
Recheck(a) ==
    /\ path[a] = "recheck"
    /\ \/ Live /\ ~deleted /\ row.reply # None /\ With(a, "finish", row.reply)
       \/ With(a, "finish", Fatal)
    /\ UNCHANGED <<tool, journal, purger, faults, worker, at, seen, task, replica>>

(* Mutant: failures are cached too *)
KeptAlways(r) == r

(* Only successes stay in the cache: a failure may not be journaled.        *)
Kept(r) == IF r.kind = "ok" THEN r ELSE None

(* Mutant: duplicates of a failed request are forgotten *)
WaitersOfSuccess(a) ==
    {b \in Attempts : /\ path[b] = "wait" /\ at[b] = at[a] /\ Key[b] = Key[a]
                      /\ out[a].kind = "ok"}

Waiters(a) == {b \in Attempts : path[b] = "wait" /\ at[b] = at[a] /\ Key[b] = Key[a]}

(* complete_cache_entry, which also wakes the duplicates that wait, and     *)
(* serve_cached                                                             *)
Finish(a) ==
    /\ path[a] = "finish"
    /\ reply_cache' = [reply_cache EXCEPT ![at[a]][Key[a]] = Kept(out[a])]
    /\ path' = [b \in Attempts |-> IF b = a THEN "over"
                                   ELSE IF b \in Waiters(a) THEN "serve" ELSE path[b]]
    /\ out' = [b \in Attempts |-> IF b = a THEN None
                                  ELSE IF b \in Waiters(a) THEN out[a] ELSE out[b]]
    /\ Published(a, out[a])
    /\ UNCHANGED <<tool, journal, purger, faults, sends, at, seen, task, server,
                   in_flight, control>>

(* serve_cached, for a duplicate that waited                                *)
ServeCached(a) ==
    /\ path[a] = "serve"
    /\ With(a, "over", None)
    /\ Published(a, out[a])
    /\ UNCHANGED <<tool, journal, purger, faults, sends, at, seen, task, replica>>

-----------------------------------------------------------------------------
(* Control: handle_control on replica s *)

(* decide: the handle is cloned out of the table and its lock released.     *)
FindActiveCall(s) ==
    /\ control[s] = Cancel(None) /\ in_flight[s] # None
    /\ control' = [control EXCEPT ![s] = Cancel(in_flight[s])]
    /\ UNCHANGED <<tool, journal, purger, faults, worker, request, task, server, in_flight, reply_cache>>

(* stop_call: names the cancellation, cancels the token, answers Accepted.  *)
StopCall(s) ==
    /\ control[s] # None /\ control[s].found # None
    /\ LET a == control[s].found
       IN /\ slot' = [slot EXCEPT ![a] = owner[a] \in Running]
          /\ ack' = [ack EXCEPT ![a] =
                       IF @ = "none"
                       THEN IF owner[a] = "handler" THEN "early" ELSE "late"
                       ELSE @]
    /\ control' = [control EXCEPT ![s] = None]
    /\ UNCHANGED <<tool, journal, purger, faults, worker, request, owner, job,
                   server, in_flight, reply_cache>>

(* orphan_cancel: answered from the row, or by the toolset's own cancel;    *)
(* nothing of the call changes here.                                        *)
OrphanCancel(s) ==
    /\ control[s] = Cancel(None) /\ in_flight[s] = None
    /\ control' = [control EXCEPT ![s] = None]
    /\ UNCHANGED <<tool, journal, purger, faults, worker, request, task, server, in_flight, reply_cache>>

-----------------------------------------------------------------------------
(* Lifecycle of a replica *)

(* finish_shutdown: the replica leaves the queue group and its control      *)
(* subscription, and works on for the requests it has.                      *)
Shutdown(s) ==
    /\ server[s] = "up" /\ Disturb
    /\ server' = [server EXCEPT ![s] = "draining"]
    /\ control' = [control EXCEPT ![s] = IF @ = Cancel(None) THEN None ELSE @]
    /\ UNCHANGED <<tool, journal, purger, worker, request, task, in_flight, reply_cache>>

(* The process ends: drained, past its deadline, or killed.  Everything it  *)
(* held in memory is gone; a new process takes its place.                   *)
Exit(s) ==
    /\ IF server[s] = "up" THEN Disturb ELSE UNCHANGED faults
    /\ server' = [server EXCEPT ![s] = "up"]
    /\ path' = [a \in Attempts |-> IF at[a] = s /\ path[a] \in Busy THEN "over" ELSE path[a]]
    /\ out' = [a \in Attempts |-> IF at[a] = s THEN None ELSE out[a]]
    /\ seen' = [a \in Attempts |-> IF at[a] = s THEN 0 ELSE seen[a]]
    /\ owner' = [a \in Attempts |-> IF at[a] = s /\ owner[a] \in Running THEN "gone" ELSE owner[a]]
    /\ slot' = [a \in Attempts |-> IF at[a] = s THEN FALSE ELSE slot[a]]
    /\ job' = [a \in Attempts |-> IF at[a] = s THEN None ELSE job[a]]
    /\ in_flight' = [in_flight EXCEPT ![s] = None]
    /\ reply_cache' = [reply_cache EXCEPT ![s] = [k \in Keys |-> None]]
    /\ control' = [control EXCEPT ![s] = None]
    /\ UNCHANGED <<tool, journal, purger, worker, at, ack>>

-----------------------------------------------------------------------------
Step(a) ==
    \/ \E s \in Servers : Receive(a, s)
    \/ Admit(a) \/ Interrupted(a) \/ OwnerExits(a)
    \/ CompleteRead(a) \/ CompleteUpdate(a) \/ Recheck(a)
    \/ Finish(a) \/ ServeCached(a)

Handler(a) == Checkpoint(a) \/ HandlerReady(a) \/ DrainHandler(a)

Control(s) == FindActiveCall(s) \/ StopCall(s) \/ OrphanCancel(s)

Purge == PutTombstone \/ ListKeys \/ PurgeRow

Record == RecordStart \/ RecordCreate \/ Recorded

Next ==
    \/ Record \/ WorkerDies \/ Interrupt \/ PublishCancel \/ Purge
    \/ \E a \in Attempts : ReplayRecordedCall(a) \/ GiveUp(a) \/ Step(a) \/ Handler(a)
    \/ \E s \in Servers : Control(s) \/ Shutdown(s) \/ Exit(s)
                          \/ \E k \in Keys : Evict(s, k)

Spec == Init /\ [][Next]_vars

(* Tasks of a live process are polled; a caller whose request nobody works  *)
(* on stops waiting.  Nothing makes a tool finish or a cancel be sent.      *)
Fairness ==
    /\ \A a \in Attempts : WF_vars(Step(a)) /\ WF_vars(Unattended(a) /\ GiveUp(a))
    /\ \A s \in Servers : WF_vars(Control(s))

FairSpec == Spec /\ Fairness

-----------------------------------------------------------------------------
(* Properties *)

(* Every variable keeps its type: attempts, requests, owner tasks and       *)
(* replicas are in states the code has, and the row only holds outcomes.    *)
TypeOK ==
    /\ tool \in Tools /\ deleted \in BOOLEAN
    /\ row \in [op : {"none", "put", "purge"}, rev : Nat,
                reply : Outcomes \union {None}, checkpoint : Attempts \union {None}]
    /\ decided \in Outcomes \union {None}
    /\ purger \in {"idle", "marked", "listed", "done"} /\ faults \in 0 .. MaxFaults
    /\ caller \in [Attempts -> {"idle", "creating", "created", "waiting", "over",
                                "stranded"}]
    /\ heard \subseteq Outcomes
    /\ sends \in Nat
    /\ path \in [Attempts -> Busy \union {"none", "queued", "over"}]
    /\ at \in [Attempts -> Servers \union {None}]
    /\ seen \in [Attempts -> Nat]
    /\ out \in [Attempts -> Replies \union {None}]
    /\ owner \in [Attempts -> Running \union {"none", "gone"}]
    /\ slot \in [Attempts -> BOOLEAN]
    /\ ack \in [Attempts -> {"none", "early", "late"}]
    /\ job \in [Attempts -> Attempts \union {None}]
    /\ server \in [Servers -> {"up", "draining"}]
    /\ in_flight \in [Servers -> Attempts \union {None}]
    /\ reply_cache \in [Servers -> [Keys -> Replies \union {None, InProgress}]]
    /\ control \in [Servers -> {Cancel(a) : a \in Attempts \union {None}} \union {None}]

Call == INSTANCE CallOutcome

(* One call, one outcome: whatever the servers, caches, replays, failed     *)
(* writes and crashes do, no attempt learns an outcome other than the first *)
(* that the journal kept (complete_checked, complete_cache_entry, replay).  *)
ImplementsCallOutcome == Call!Spec

(* Every cached reply is the outcome the journal decided: the cache is a    *)
(* shortcut past the journal and never an authority of its own.             *)
CachedIsJournaled ==
    \A s \in Servers, k \in Keys :
        reply_cache[s][k] \notin {None, InProgress} => reply_cache[s][k] = decided

(* Every handler that works on a job works on the one the row names, so a   *)
(* replay that runs beside the original never starts a second job           *)
(* (JournalCheckpointStore, first_value).                                   *)
OneJob ==
    \A a \in Attempts : Live /\ job[a] # None => job[a] = row.checkpoint

(* A tool that cannot replay is started at most once for the call, however  *)
(* often the call is dispatched, lost and recovered (check_policy).         *)
MutatingToolRunsOnce ==
    ~can_replay => Cardinality({a \in Attempts : owner[a] # "none"}) <= 1

(* A deleted session stays deleted: after purge_session no row is left, but *)
(* for one whose recorder is still between its create and its second look   *)
(* at the tombstone, or died there; and that row never ran.                 *)
PurgeIsFinal ==
    purger = "done" /\ Live =>
        /\ caller[0] \in {"created", "stranded"}
        /\ row.reply = None /\ row.checkpoint = None

(* A cancel accepted before the owner task decides leaves no other outcome  *)
(* of that run in the journal than an interruption.                         *)
EarlyCancelInterrupts ==
    \A a \in Attempts :
        ack[a] = "early" /\ decided # None /\ decided.by = a => decided.kind = "intr"

(* "An accepted cancellation decides the call at the moment control accepts *)
(* it" (execution.rs): no run whose cancel was accepted reports a result.   *)
AcceptedCancelDecides ==
    \A a \in Attempts :
        ack[a] # "none" /\ decided # None /\ decided.by = a => decided.kind = "intr"

(* The handle that cancels reach a run through is dropped only when that    *)
(* run ends, or a later run of the call takes its place (is_same_call).     *)
HandleOutlivesItsRun ==
    [][\A s \in Servers :
         in_flight[s] # None /\ in_flight'[s] # in_flight[s] =>
             \/ owner'[in_flight[s]] = "gone"
             \/ in_flight'[s] # None /\ owner[in_flight'[s]] = "none"]_vars

(* An accepted cancel ends the caller's wait, even if the tool never stops. *)
CancelEndsTheWait ==
    \A a \in Attempts : slot[a] ~> caller[a] # "waiting"

(* Nobody waits for nobody: a duplicate that waits in the reply cache has   *)
(* an execution in progress on its replica that will wake it.               *)
WaiterHasExecution ==
    \A a \in Attempts : path[a] = "wait" =>
        \E b \in Attempts : /\ at[b] = at[a] /\ Key[b] = Key[a]
                            /\ path[b] \in Busy \ {"wait", "serve"}
=============================================================================
