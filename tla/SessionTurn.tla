---------------------------- MODULE SessionTurn -----------------------------
(***************************************************************************)
(* One session served by leased workers: frontends admit, log and activate *)
(* prompts and append Cancels; a worker that gets an activation runs the   *)
(* preflight, winds up an interrupted turn, takes the lease and runs turns *)
(* until the log is drained; the lease can be lost without the worker      *)
(* knowing it, and a worker can die at any step.                           *)
(*   crates/harnx-runtime/src/nats_session.rs, nats_session/interrupt.rs,  *)
(*   nats_session_metadata/admission.rs, nats_worker/*.rs                  *)
(*                                                                         *)
(* A read of the log and the append it leads to are separate steps: what a *)
(* worker decides from a read may be stale when it writes.  The lease is   *)
(* SessionLease reduced to who owns the record and who believes it does.   *)
(* Not modelled: log edits, HITL approvals, hand-offs, sub-agents,         *)
(* compaction, deadlines; the delivery of an activation and its failures   *)
(* before the turn are ActivationDelivery's.                               *)
(***************************************************************************)
EXTENDS SessionLog

CONSTANTS
    Workers,     \* worker processes
    PromptIds,   \* user message ids
    CancelIds,   \* cancellation ids of frontend interrupts
    CallIds,     \* tool call ids the model may use
    MaxLog,      \* bound: no optional append makes the log longer
    MaxLosses,   \* bound: crashes and leases lost while in use
    None

ASSUME TurnConstants ==
    /\ MaxLog \in Nat \ {0} /\ MaxLosses \in Nat
    /\ None \notin Workers \union PromptIds \union CancelIds
    /\ PromptIds \intersect CancelIds = {}

VARIABLES
    log,      \* the session's stream
    ready,    \* requested_seq of the activations waiting for delivery
    head,     \* the admission head key: root prompt of the latest invocation
    bound,    \* bound[p]: the invocation a prompt is admitted to
    prompt,   \* how far its frontend has got with a prompt
    req,      \* a frontend's interrupt request
    owner,    \* holder of the lease record; None when it is free
    losses,   \* crashes and lost leases so far
    wk        \* a worker's activation and turn state

vars == <<log, ready, head, bound, prompt, req, owner, losses, wk>>
frontend == <<head, bound, prompt, req>>

(* pc       where the activation's code is; job its requested_seq          *)
(* held     is_held(), the worker's belief; abort the AbortSignal's flags  *)
(* own      after_seq_observer; watch the session watcher's position       *)
(* input    pending_input; more: wind_up_preflight saw queued input        *)
(* inv      the invocation of the frozen run context                       *)
(* cursor   turn_cursor; hw activation_high_water                          *)
(* pend     the entry being appended; tail its expected last sequence      *)
(* repair   orphan rounds still to repair; stop the prompt being stopped;  *)
(*          failed: a durable Error was recorded                           *)
(* newer    workers that took the lease after this one; fenced: one of     *)
(*          them has stamped an entry of the log                           *)
IdleWorker ==
    [pc |-> "idle", job |-> 0, held |-> FALSE, abort |-> {}, own |-> 0,
     watch |-> 0, input |-> FALSE, more |-> FALSE, inv |-> None,
     cursor |-> 0, hw |-> 0, pend |-> Blank, tail |-> 0, repair |-> {},
     stop |-> 0, failed |-> FALSE, newer |-> {}, fenced |-> FALSE]

InTurn == {"derive", "validate", "load", "repair", "model", "append", "tools", "inject",
           "end", "drain"}
Watched == InTurn \union {"error"}
Executing == Watched \union {"finish"}
Winding == {"windUp", "windAppend", "wound"}
Stopping == {"stop", "stopAppend"}
Phases == Executing \union Winding \union Stopping \union
          {"idle", "preflight", "covered", "claimWindUp", "claimTurn",
           "start", "watcher"}

(* The worker-stop:{invocation} cancellation id: the invocation names it,  *)
(* and no frontend's cancellation id is of this form                       *)
StopId(inv) == inv

Room == Len(log) < MaxLog

-----------------------------------------------------------------------------
(* Admission: which invocation is active, read off a log *)

invocation_prompt_seq(l, inv) ==
    Max({0} \union {i \in Prompts(l) : bound[l[i].id] = inv})

admission_is_terminal(l, inv) ==
    LET p == invocation_prompt_seq(l, inv)
    IN  p # 0 /\ invocation_terminal_seq(l, p) # 0

active_admission(l) == head # None /\ ~ admission_is_terminal(l, head)

-----------------------------------------------------------------------------
Init ==
    /\ log = <<>>
    /\ ready = {}
    /\ head = None
    /\ bound = [p \in PromptIds |-> None]
    /\ prompt = [p \in PromptIds |-> "new"]
    /\ req = [c \in CancelIds |-> [phase |-> "new", from |-> 0, tail |-> 0]]
    /\ owner = None
    /\ losses = 0
    /\ wk = [w \in Workers |-> IdleWorker]

-----------------------------------------------------------------------------
(* Frontends *)

(* admit_prompt: bind a prompt to the active invocation (steering), or     *)
(* reserve a new one                                                       *)
AdmitPrompt(p) ==
    /\ prompt[p] = "new"
    /\ prompt' = [prompt EXCEPT ![p] = "admitted"]
    /\ IF active_admission(log)
       THEN bound' = [bound EXCEPT ![p] = head] /\ UNCHANGED head
       ELSE bound' = [bound EXCEPT ![p] = p] /\ head' = p
    /\ UNCHANGED <<log, ready, req, owner, losses, wk>>

(* append_prompt_entry: the retry loop ends with one entry at the tail     *)
LogPrompt(p) ==
    /\ prompt[p] = "admitted" /\ Room
    /\ prompt' = [prompt EXCEPT ![p] = "logged"]
    /\ log' = Append(log, User(p))
    /\ UNCHANGED <<ready, head, bound, req, owner, losses, wk>>

ActivatePrompt(p) ==
    /\ prompt[p] = "logged"
    /\ prompt' = [prompt EXCEPT ![p] = "activated"]
    /\ ready' = ready \union {i \in Prompts(log) : log[i].id = p}
    /\ UNCHANGED <<log, head, bound, req, owner, losses, wk>>

(* interrupt_target without a prompt: decide on the last entry             *)
RequestInterrupt(c) ==
    /\ req[c].phase = "new" /\ log # <<>> /\ Room
    /\ req' = [req EXCEPT ![c] =
            [phase |-> IF decide(log, Len(log)) = "append" THEN "trying" ELSE "over",
             from |-> Len(log), tail |-> Len(log)]]
    /\ UNCHANGED <<log, ready, head, bound, prompt, owner, losses, wk>>

IsLogged(c) == \E i \in DOMAIN log : log[i].kind = "cancel" /\ log[i].id = c

(* append_fenced at the tail; the acknowledgement may be lost              *)
InterruptLands(c) ==
    /\ req[c].phase = "trying" /\ req[c].tail = Len(log)
    /\ log' = Append(log, Cancel(c))
    /\ \E acked \in BOOLEAN :
        req' = [req EXCEPT ![c].phase = IF acked THEN "landed" ELSE "trying"]
    /\ UNCHANGED <<ready, head, bound, prompt, owner, losses, wk>>

(* Mutant: a conflict is always taken for someone else's entry *)
InterruptRetriesBlindly(c) ==
    /\ req[c].phase = "trying" /\ req[c].tail # Len(log)
    /\ log' = Append(log, Cancel(c))
    /\ req' = [req EXCEPT ![c].phase = "landed"]
    /\ UNCHANGED <<ready, head, bound, prompt, owner, losses, wk>>

(* The append was deduplicated, or the conflict shows our own Cancel: it   *)
(* landed.  Any other conflict widens the window and decides again.        *)
InterruptConflicts(c) ==
    /\ req[c].phase = "trying" /\ req[c].tail # Len(log)
    /\ req' = [req EXCEPT ![c] =
            [@ EXCEPT !.tail = Len(log),
                      !.phase = IF IsLogged(c) THEN "landed"
                                ELSE IF decide(log, req[c].from) = "append" THEN "trying"
                                ELSE "over"]]
    /\ UNCHANGED <<log, ready, head, bound, prompt, owner, losses, wk>>

(* announce: publish an activation for the Cancel, once and best-effort; a *)
(* publish that fails is a request that stays as it landed                 *)
Announce(c) ==
    /\ req[c].phase = "landed"
    /\ req' = [req EXCEPT ![c].phase = "over"]
    /\ ready' = ready \union {i \in DOMAIN log : log[i].kind = "cancel" /\ log[i].id = c}
    /\ UNCHANGED <<log, head, bound, prompt, owner, losses, wk>>

-----------------------------------------------------------------------------
(* Worker bookkeeping *)

Become(w, r) == wk' = [wk EXCEPT ![w] = r]

(* Mutant: the worker goes on believing in a lease it has given up *)
RetiredButHolding(w) ==
    [v \in Workers |-> IF v = w THEN [IdleWorker EXCEPT !.held = wk[w].held]
                       ELSE [wk[v] EXCEPT !.newer = @ \ {w}]]

(* The activation is over for this worker *)
Retired(w) ==
    [v \in Workers |-> IF v = w THEN IdleWorker
                       ELSE [wk[v] EXCEPT !.newer = @ \ {w}]]

(* The entry carries a fence token older leases are refused by             *)
Stamped(w, r) ==
    [v \in Workers |-> IF v = w THEN r
                       ELSE [wk[v] EXCEPT !.fenced = @ \/ w \in wk[v].newer]]

Ack(w) == wk' = Retired(w) /\ UNCHANGED ready
Nak(w) == wk' = Retired(w) /\ ready' = ready \union {wk[w].job}

(* An error of the close-out: terminated if a durable Error was recorded   *)
GiveBack(w) == IF wk[w].failed THEN Ack(w) ELSE Nak(w)

Released(w) == IF owner = w THEN None ELSE owner

HasLease(v) == wk[v].pc \notin {"idle", "preflight", "covered", "claimWindUp", "claimTurn"}

-----------------------------------------------------------------------------
(* The lease *)

(* The record expires while its holder is cut off; the holder still        *)
(* believes it holds the lease                                             *)
LoseLease(w) ==
    /\ owner = w /\ losses < MaxLosses
    /\ owner' = None
    /\ losses' = losses + 1
    /\ UNCHANGED <<log, ready, frontend, wk>>

(* mark_lost, and spawn_lease_loss_watch while a turn runs                 *)
NoticeLoss(w) ==
    /\ wk[w].held /\ owner # w
    /\ Become(w, [wk[w] EXCEPT !.held = FALSE,
                               !.abort = IF wk[w].pc \in Watched THEN @ \union {"failover"} ELSE @])
    /\ UNCHANGED <<log, ready, frontend, owner, losses>>

(* The process dies: its delivery is redelivered, its lease expires or is  *)
(* reclaimed                                                               *)
Crash(w) ==
    /\ wk[w].pc # "idle" /\ losses < MaxLosses
    /\ losses' = losses + 1
    /\ Nak(w)
    /\ owner' = Released(w)
    /\ UNCHANGED <<log, frontend>>

-----------------------------------------------------------------------------
(* Activation preflight *)

(* A delivery; lease_holder_preflight hands it back while a holder lives   *)
Deliver(w, n) ==
    /\ wk[w].pc = "idle" /\ owner = None
    /\ n \in ready
    /\ ready' = ready \ {n}
    /\ Become(w, [IdleWorker EXCEPT !.pc = "preflight", !.job = n])
    /\ UNCHANGED <<log, frontend, owner, losses>>

(* wind_up_preflight *)
Preflight(w) ==
    /\ wk[w].pc = "preflight"
    /\ LET state == reconstruct_state(log)
       IN  \/ /\ state.status = "InterruptedPendingWindUp"
              /\ Become(w, [wk[w] EXCEPT !.pc = "claimWindUp", !.more = state.queue # <<>>])
              /\ UNCHANGED ready
           \/ /\ state.status = "Idle" /\ log[wk[w].job].kind = "cancel"
              /\ Ack(w)
           \/ /\ state.status # "InterruptedPendingWindUp"
              /\ ~ (state.status = "Idle" /\ log[wk[w].job].kind = "cancel")
              /\ Become(w, [wk[w] EXCEPT !.pc = "covered"])
              /\ UNCHANGED ready
    /\ UNCHANGED <<log, frontend, owner, losses>>

(* activation_status_preflight_finished *)
CheckCovered(w) ==
    /\ wk[w].pc = "covered"
    /\ IF prompt_is_covered(log, wk[w].job)
       THEN Ack(w)
       ELSE Become(w, [wk[w] EXCEPT !.pc = "claimTurn"]) /\ UNCHANGED ready
    /\ UNCHANGED <<log, frontend, owner, losses>>

(* acquire_or_defer_activation *)
Claim(w) ==
    /\ wk[w].pc \in {"claimWindUp", "claimTurn"}
    /\ IF owner = None
       THEN /\ owner' = w
            /\ wk' = [v \in Workers |->
                IF v = w
                THEN [wk[w] EXCEPT !.held = TRUE, !.newer = {}, !.fenced = FALSE,
                        !.pc = IF @ = "claimWindUp" THEN "windUp" ELSE "start"]
                ELSE [wk[v] EXCEPT !.newer = IF HasLease(v) THEN @ \union {w} ELSE @]]
            /\ UNCHANGED ready
       ELSE Nak(w) /\ UNCHANGED owner
    /\ UNCHANGED <<log, frontend, losses>>

-----------------------------------------------------------------------------
(* wind_up_interrupted_turn, from the preflight (stop = 0) or from the     *)
(* close-out of a turn this worker ran                                     *)

WindUpLoad(w) ==
    /\ wk[w].pc = "windUp"
    /\ Become(w,
        IF reconstruct_state(log).status = "InterruptedPendingWindUp"
        THEN [wk[w] EXCEPT !.pc = "windAppend", !.pend = WindUpOf(log), !.tail = Len(log)]
        ELSE [wk[w] EXCEPT !.pc = "wound"])
    /\ UNCHANGED <<log, ready, frontend, owner, losses>>

(* The broker drops a publish whose message id it saw not too long ago     *)
IsPublished(e) == e.mid # 0 /\ \E i \in DOMAIN log : log[i].mid = e.mid

(* Mutant: two wind-ups of a round are the same only when they are equal *)
answers_the_same_entry(ours, written) == ours = written

answers_the_same_calls(ours, written) ==
    written.kind = "results" /\ ours.calls \intersect written.calls # {}

(* resolve_conflict, WriterRule::WindUp *)
AnsweredBetween(w) ==
    \E i \in (wk[w].tail + 1)..Len(log) : answers_the_same_calls(wk[w].pend, log[i])

(* append_under_writer_rule, WriterRule::WindUp.  A lost acknowledgement   *)
(* leaves the worker to send the same message again.                       *)
WindUpAppend(w) ==
    LET me == wk[w]
        wound == [me EXCEPT !.pc = "wound", !.pend = Blank, !.tail = 0]
    IN  /\ me.pc = "windAppend" /\ me.held
        /\ \/ /\ IsPublished(me.pend)
              /\ Become(w, wound)
              /\ UNCHANGED log
           \/ /\ me.tail = Len(log)
              /\ log' = Append(log, me.pend)
              /\ \E acked \in BOOLEAN : Become(w, IF acked THEN wound ELSE me)
           \/ /\ AnsweredBetween(w)
              /\ Become(w, wound)
              /\ UNCHANGED log
           \/ /\ me.tail # Len(log) /\ ~ AnsweredBetween(w)
              /\ Become(w, [me EXCEPT !.tail = Len(log)])
              /\ UNCHANGED log
        /\ UNCHANGED <<ready, frontend, owner, losses>>

(* Mutant: a wind-up that failed is taken for one that is done *)
WindUpFailsQuietly(w) ==
    /\ wk[w].pc = "windAppend"
    /\ \/ ~ wk[w].held
       \/ wk[w].tail # Len(log) /\ ~ AnsweredBetween(w)
    /\ Ack(w)
    /\ owner' = Released(w)
    /\ UNCHANGED <<log, frontend, losses>>

(* The lease went in the meantime, or this conflict was the last of the    *)
(* FENCED_APPEND_ATTEMPTS, which writers outside this model (HITL entries, *)
(* sub-agent and hand-off markers) use up too: the error hands the         *)
(* delivery back                                                           *)
WindUpFails(w) ==
    /\ wk[w].pc = "windAppend"
    /\ \/ ~ wk[w].held
       \/ wk[w].tail # Len(log) /\ ~ AnsweredBetween(w)
    /\ GiveBack(w)
    /\ owner' = Released(w)
    /\ UNCHANGED <<log, frontend, losses>>

(* The preflight goes on with the input it saw BEFORE the wind-up; a       *)
(* close-out is the end of a cancelled turn, FinishCause::UserCancelled    *)
WindUpDone(w) ==
    /\ wk[w].pc = "wound"
    /\ IF wk[w].stop = 0 /\ wk[w].more
       THEN /\ Become(w, [IdleWorker EXCEPT !.pc = "covered", !.job = wk[w].job])
            /\ UNCHANGED ready
       ELSE Ack(w)
    /\ owner' = Released(w)
    /\ UNCHANGED <<log, frontend, losses>>

-----------------------------------------------------------------------------
(* Starting a turn *)

(* start_session_runtime: the observer is seeded with the stream's last    *)
(* sequence and the run context frozen on the requested prompt's admission *)
Start(w) ==
    /\ wk[w].pc = "start"
    /\ LET p == Max({0} \union {i \in Prompts(log) : i <= wk[w].job})
       IN  Become(w, [wk[w] EXCEPT !.pc = "watcher", !.own = Len(log),
                                   !.inv = bound[log[p].id]])
    /\ UNCHANGED <<log, ready, frontend, owner, losses>>

(* start_session_runtime_services: the watcher follows the log from here   *)
StartWatcher(w) ==
    /\ wk[w].pc = "watcher"
    /\ Become(w, [wk[w] EXCEPT !.pc = "derive", !.watch = Len(log)])
    /\ UNCHANGED <<log, ready, frontend, owner, losses>>

(* watch_from: entries up to the observer's mark are taken for our own     *)
Watch(w) ==
    /\ wk[w].pc \in Watched /\ wk[w].watch < Len(log)
    /\ LET me == wk[w]
           n == me.watch + 1
           foreign == n > me.own
       IN  Become(w, [me EXCEPT
                !.watch = n,
                !.abort = IF foreign /\ log[n].kind = "cancel" THEN @ \union {"ctrlc"} ELSE @,
                !.input = @ \/ (foreign /\ log[n].kind = "user")])
    /\ UNCHANGED <<log, ready, frontend, owner, losses>>

(* await_turn_body drops the turn as soon as the signal is set             *)
AbortTurn(w) ==
    /\ wk[w].pc \in InTurn /\ wk[w].abort # {}
    /\ Become(w, [wk[w] EXCEPT !.pc = "finish", !.pend = Blank, !.repair = {}])
    /\ UNCHANGED <<log, ready, frontend, owner, losses>>

is_running(w) == wk[w].held /\ wk[w].abort = {}

(* derive_turn_input: where the turn's input ends, 0 when there is none,   *)
(* and None when the code refuses to resume.  A continuation reads past    *)
(* the high-water mark, a first turn replays the log.                      *)
derive_turn_input(w, l) ==
    LET state == reconstruct_state(l)
        queued == Max({0} \union Range(state.queue))
        newer == new_user_messages_since(l, wk[w].hw)
    IN  IF wk[w].hw # 0 /\ newer # {} THEN Max(newer)
        ELSE IF state.status # "InFlightResumable" THEN queued
        ELSE IF state.lastUser = 0 THEN None
        ELSE Max({state.lastUser, queued})

(* validate_pending_input_admissions *)
CanCoalesce(w, l) ==
    \A i \in Prompts(l) : prompt_is_covered(l, i) \/ bound[l[i].id] = wk[w].inv

(* next_turn_input, derive_input: no input ends the activation             *)
Derive(w) ==
    /\ wk[w].pc = "derive"
    /\ LET n == derive_turn_input(w, log)
       IN  Become(w,
            IF ~ is_running(w) \/ n = 0 THEN [wk[w] EXCEPT !.pc = "finish"]
            ELSE IF n = None THEN [wk[w] EXCEPT !.pc = "error"]
            ELSE [wk[w] EXCEPT !.pc = "validate", !.cursor = n])
    /\ UNCHANGED <<log, ready, frontend, owner, losses>>

(* validate_input_admissions reads the log anew: input of another          *)
(* invocation is left to that one's activation                             *)
Validate(w) ==
    /\ wk[w].pc = "validate"
    /\ LET me == wk[w]
       IN  Become(w,
            IF bound[log[me.cursor].id] # me.inv THEN [me EXCEPT !.pc = "finish"]
            ELSE IF ~ CanCoalesce(w, log) THEN [me EXCEPT !.pc = "error"]
            ELSE [me EXCEPT !.pc = "load", !.hw = Max({@, me.cursor})])
    /\ UNCHANGED <<log, ready, frontend, owner, losses>>

(* abort_resume_if_fenced, then the orphan scan of load_or_repair_session  *)
Load(w) ==
    /\ wk[w].pc = "load"
    /\ LET orphans == find_orphan_tool_calls(log)
       IN  Become(w,
            IF wk[w].fenced THEN [wk[w] EXCEPT !.pc = "error"]
            ELSE [wk[w] EXCEPT !.pc = IF orphans = {} THEN "model" ELSE "repair",
                               !.repair = orphans])
    /\ UNCHANGED <<log, ready, frontend, owner, losses>>

(* repair_orphan_tool_calls_with_hints appends without the lease and       *)
(* without an expected tail, for the oldest round first                    *)
Repair(w) ==
    LET round == Min(wk[w].repair)
        left  == wk[w].repair \ {round}
    IN  /\ wk[w].pc = "repair"
        /\ log' = Append(log, ToolResults(log[round].calls))
        /\ Become(w, [wk[w] EXCEPT !.own = Len(log) + 1, !.repair = left,
                                   !.pc = IF left = {} THEN "model" ELSE "repair"])
        /\ UNCHANGED <<ready, frontend, owner, losses>>

-----------------------------------------------------------------------------
(* The agent loop's output, appended under WriterRule::Turn *)

(* append_event_with_lease: expect the tail this worker last observed      *)
Writing(w, e) == [wk[w] EXCEPT !.pc = "append", !.pend = e, !.tail = wk[w].own]

UsedCalls == (UNION {log[i].calls : i \in DOMAIN log})
                \union (UNION {wk[v].pend.calls : v \in Workers})

(* The model calls tools, answers, or fails                                *)
ModelReplies(w) ==
    /\ wk[w].pc = "model"
    /\ \/ /\ Room
          /\ \E k \in CallIds \ UsedCalls : Become(w, Writing(w, ToolCalls({k})))
       \/ Room /\ Become(w, Writing(w, Assistant))
       \/ Become(w, [wk[w] EXCEPT !.pc = "error"])
    /\ UNCHANGED <<log, ready, frontend, owner, losses>>

ToolsReturn(w) ==
    /\ wk[w].pc = "tools"
    /\ Become(w, Writing(w, ToolResults(log[wk[w].own].calls)))
    /\ UNCHANGED <<log, ready, frontend, owner, losses>>

AfterAppend(kind) ==
    CASE kind = "calls" -> "tools" [] kind = "results" -> "inject"
      [] kind = "assistant" -> "end"

AppendLands(w) ==
    LET me == wk[w]
        r  == [me EXCEPT !.pc = AfterAppend(me.pend.kind), !.own = Len(log) + 1,
                         !.pend = Blank, !.tail = 0]
    IN  /\ me.pc = "append" /\ me.held /\ me.tail = Len(log)
        /\ log' = Append(log, me.pend)
        /\ IF me.pend.kind = "results" THEN Become(w, r) ELSE wk' = Stamped(w, r)
        /\ UNCHANGED <<ready, frontend, owner, losses>>

(* Mutant: every conflict is retried at the new tail *)
InterruptedBetweenNever(from, to) == FALSE

(* resolve_conflict, WriterRule::Turn *)
InterruptedBetween(from, to) == \E i \in (from + 1)..to : log[i].kind = "cancel"

AppendFailed(w) == [wk[w] EXCEPT !.pc = "error", !.pend = Blank]

(* A newer Cancel ended the turn (TurnInterrupted, then set_ctrlc); any    *)
(* other entry just moves the expected tail, unless the attempts are over  *)
AppendConflicts(w) ==
    LET me == wk[w]
        cut == InterruptedBetween(me.tail, Len(log))
    IN  /\ me.pc = "append" /\ me.held /\ me.tail # Len(log)
        /\ \/ /\ cut
              /\ Become(w, [me EXCEPT !.pc = "finish", !.pend = Blank,
                                      !.abort = @ \union {"ctrlc"}])
           \/ ~ cut /\ Become(w, [me EXCEPT !.tail = Len(log)])
           \/ ~ cut /\ Become(w, AppendFailed(w))
        /\ UNCHANGED <<log, ready, frontend, owner, losses>>

AppendFencedOut(w) ==
    /\ wk[w].pc = "append" /\ ~ wk[w].held
    /\ Become(w, AppendFailed(w))
    /\ UNCHANGED <<log, ready, frontend, owner, losses>>

(* build_mid_turn_injection_callback: prompts queued behind the round join *)
(* the turn, unless one belongs to another invocation                      *)
Inject(w) ==
    /\ wk[w].pc = "inject"
    /\ LET new == new_user_messages_since(log, wk[w].cursor)
       IN  Become(w,
            IF \E i \in new : bound[log[i].id] # wk[w].inv
            THEN [wk[w] EXCEPT !.pc = "error"]
            ELSE [wk[w] EXCEPT !.pc = "model", !.cursor = Max({@} \union new)])
    /\ UNCHANGED <<log, ready, frontend, owner, losses>>

(* record_turn_end and record_session_turn_end: an unfenced append, after  *)
(* a look at the abort signal and the lease                                *)
EndTurn(w) ==
    LET me == wk[w]
        r  == [me EXCEPT !.pc = "drain", !.hw = Max({@, me.cursor})]
    IN  /\ me.pc = "end"
        /\ IF is_running(w)
           THEN /\ log' = Append(log, TurnEnd(me.cursor))
                /\ wk' = Stamped(w, [r EXCEPT !.own = Len(log) + 1])
           ELSE Become(w, r) /\ UNCHANGED log
        /\ UNCHANGED <<ready, frontend, owner, losses>>

(* finish_if_drained *)
Drain(w) ==
    /\ wk[w].pc = "drain"
    /\ LET drained == /\ ~ wk[w].input
                      /\ new_user_messages_since(log, wk[w].hw) = {}
                      /\ reconstruct_state(log).status # "InFlightResumable"
       IN  Become(w, [wk[w] EXCEPT
                !.pc = IF ~ is_running(w) \/ drained THEN "finish" ELSE "derive",
                !.input = IF is_running(w) THEN FALSE ELSE @])
    /\ UNCHANGED <<log, ready, frontend, owner, losses>>

-----------------------------------------------------------------------------
(* Finishing an activation *)

(* record_session_error: an unfenced append, only while the lease is held  *)
RecordError(w) ==
    LET r == [wk[w] EXCEPT !.pc = "finish"]
    IN  /\ wk[w].pc = "error"
        /\ IF wk[w].held
           THEN /\ log' = Append(log, Error)
                /\ wk' = Stamped(w, [r EXCEPT !.failed = TRUE])
           ELSE Become(w, r) /\ UNCHANGED log
        /\ UNCHANGED <<ready, frontend, owner, losses>>

(* Mutant: what the log fold queues decides, not the admission *)
has_queued_input_by_replay(w) == reconstruct_state(log).queue # <<>>

(* has_queued_input with a metadata store *)
has_queued_input(w) == active_admission(log)

(* determine_finish_cause and settle_session_delivery: failover first,     *)
(* then a cancelled turn that is closed out under the lease, then          *)
(* completion.  A recorded Error terminates the activation unless an abort *)
(* overrides it.                                                           *)
Finish(w) ==
    LET me == wk[w]
        over == me.failed /\ me.abort = {}
    IN  /\ me.pc = "finish"
        /\ \/ /\ "failover" \in me.abort \/ ~ me.held
              /\ IF over THEN Ack(w) ELSE Nak(w)
              /\ owner' = IF me.held THEN Released(w) ELSE owner
           \/ /\ me.abort = {"ctrlc"} /\ me.held
              /\ Become(w, [me EXCEPT !.pc = "stop"])
              /\ UNCHANGED <<ready, owner>>
           \/ /\ me.abort = {} /\ me.held
              /\ IF over \/ ~ has_queued_input(w) THEN Ack(w) ELSE Nak(w)
              /\ owner' = Released(w)
        /\ UNCHANGED <<log, frontend, losses>>

(* record_cancel, interrupt_invocation: stop the latest prompt of the      *)
(* invocation unless it already has a terminal entry                       *)
StopLoad(w) ==
    LET p == invocation_prompt_seq(log, wk[w].inv)
    IN  /\ wk[w].pc = "stop"
        /\ IF wk[w].held
           THEN /\ Become(w, [wk[w] EXCEPT !.stop = p, !.tail = Len(log),
                    !.pc = IF invocation_terminal_seq(log, p) # 0
                           THEN "windUp" ELSE "stopAppend"])
                /\ UNCHANGED ready
           ELSE GiveBack(w)
        /\ UNCHANGED <<log, frontend, owner, losses>>

StopAppend(w) ==
    LET me == wk[w]
    IN  /\ me.pc = "stopAppend"
        /\ IF me.tail = Len(log)
           THEN /\ log' = Append(log, Cancel(StopId(me.inv)))
                /\ ready' = ready \union {Len(log) + 1}
                /\ Become(w, [me EXCEPT !.pc = "windUp"])
           ELSE /\ Become(w, [me EXCEPT !.tail = Len(log),
                        !.pc = IF invocation_terminal_seq(log, me.stop) # 0
                               THEN "windUp" ELSE @])
                /\ UNCHANGED <<log, ready>>
        /\ UNCHANGED <<frontend, owner, losses>>

-----------------------------------------------------------------------------
Frontend ==
    \/ \E p \in PromptIds : AdmitPrompt(p) \/ LogPrompt(p) \/ ActivatePrompt(p)
    \/ \E c \in CancelIds : \/ RequestInterrupt(c) \/ InterruptLands(c)
                            \/ InterruptConflicts(c) \/ Announce(c)

Worker(w) ==
    \/ Preflight(w) \/ CheckCovered(w) \/ Claim(w)
    \/ WindUpLoad(w) \/ WindUpAppend(w) \/ WindUpFails(w) \/ WindUpDone(w)
    \/ Start(w) \/ StartWatcher(w) \/ Derive(w) \/ Validate(w) \/ Load(w) \/ Repair(w)
    \/ ModelReplies(w) \/ AppendLands(w) \/ AppendConflicts(w) \/ AppendFencedOut(w)
    \/ ToolsReturn(w) \/ Inject(w) \/ EndTurn(w) \/ Drain(w)
    \/ AbortTurn(w) \/ RecordError(w) \/ Finish(w) \/ StopLoad(w) \/ StopAppend(w)

Next ==
    \/ Frontend
    \/ \E w \in Workers : \/ Worker(w) \/ Watch(w) \/ NoticeLoss(w)
                          \/ LoseLease(w) \/ Crash(w)
                          \/ \E n \in ready : Deliver(w, n)

Spec == Init /\ [][Next]_vars

(* A live process goes on, its watcher and its lease renewal run, and the  *)
(* broker does not withhold every unacknowledged activation forever.       *)
(* Nothing is assumed of the frontends: an interrupt may stop half-way,    *)
(* and its announcement, one detached publish nobody retries, may never be *)
(* made                                                                    *)
Fairness ==
    /\ \A w \in Workers : WF_vars(Worker(w)) /\ WF_vars(Watch(w)) /\ WF_vars(NoticeLoss(w))
    /\ SF_vars(\E w \in Workers, n \in ready : Deliver(w, n))

FairSpec == Spec /\ Fairness

-----------------------------------------------------------------------------
Entries == [kind : {"none", "user", "assistant", "calls", "results", "cancel",
                    "error", "turnEnd"},
            id : {""} \union PromptIds \union CancelIds,
            calls : SUBSET CallIds, thru : Nat, mid : Nat]

WorkerStates ==
    [pc : Phases, job : Nat, held : BOOLEAN, abort : SUBSET {"ctrlc", "failover"},
     own : Nat, watch : Nat, input : BOOLEAN, more : BOOLEAN,
     inv : PromptIds \union {None}, cursor : Nat, hw : Nat, pend : Entries, tail : Nat,
     repair : SUBSET Nat, stop : Nat, failed : BOOLEAN, newer : SUBSET Workers,
     fenced : BOOLEAN]

(* An entry refers to entries before it only, every worker's view of the   *)
(* log stays within the log (positions it has observed, watched or expects *)
(* exist), and only a lease makes it run                                   *)
TypeOK ==
    /\ log \in Seq(Entries)
    /\ \A i \in DOMAIN log : log[i].thru < i /\ log[i].mid < i
    /\ ready \subseteq 1..Len(log)
    /\ head \in PromptIds \union {None} /\ owner \in Workers \union {None}
    /\ bound \in [PromptIds -> PromptIds \union {None}]
    /\ prompt \in [PromptIds -> {"new", "admitted", "logged", "activated"}]
    /\ req \in [CancelIds -> [phase : {"new", "trying", "landed", "over"},
                              from : 0..Len(log), tail : 0..Len(log)]]
    /\ losses \in 0..MaxLosses
    /\ wk \in [Workers -> WorkerStates]
    /\ \A w \in Workers :
        LET me == wk[w]
        IN  /\ {me.job, me.own, me.watch, me.cursor, me.hw, me.tail, me.stop} \union me.repair
                    \subseteq 0..Len(log)
            /\ w \notin me.newer
            /\ me.held => HasLease(w)

(* interrupt_target: "Our own lost ack shows up as a Cancel carrying our   *)
(* id".  However often its append is retried and whatever lands in         *)
(* between, one interrupt request stops one turn: it logs at most one      *)
(* Cancel                                                                  *)
OneCancelPerRequest ==
    \A i, j \in DOMAIN log :
        (log[i].kind = "cancel" /\ log[j].kind = "cancel" /\ log[i].id = log[j].id
            /\ log[i].id \in CancelIds) => i = j

(* resolve_conflict, answers_the_same_calls: a wind-up never answers a     *)
(* call that the log already answers, also when a worker that lost its     *)
(* lease winds up the same round, a second Cancel moves the round to       *)
(* another message id or the first acknowledgement is lost                 *)
WindUpAnswersOnce ==
    \A i \in DOMAIN log : log[i].mid # 0 =>
        \A j \in 1..(i - 1) : log[j].kind = "results" =>
            log[i].calls \intersect log[j].calls = {}

OutputLands(w) == wk[w].pc = "append" /\ wk'[w].pc \in {"tools", "inject", "end"}

(* append_under_writer_rule: turn output never lands behind a Cancel above *)
(* the last sequence its worker has appended, however often the tail moved *)
OutputStopsAtCancel ==
    [][\A w \in Workers :
        OutputLands(w) => \A i \in (wk[w].own + 1)..Len(log) : log[i].kind # "cancel"]_vars

(* settle_session_delivery, has_queued_input: the delivery of a prompt     *)
(* whose invocation is still the session's latest is given up only once a  *)
(* durable entry settles the prompt                                        *)
SettledBeforeAck ==
    [][\A w \in Workers :
        LET n == wk[w].job
        IN  (/\ n # 0 /\ wk'[w].job = 0 /\ n \notin ready'
             /\ log[n].kind = "user" /\ bound[log[n].id] = head)
            => prompt_is_covered(log', n)]_vars

Interrupted == reconstruct_state(log).status = "InterruptedPendingWindUp"

(* The activation of entry i is on the stream, ready or with a worker      *)
Outstanding(i) == i \in ready \/ \E w \in Workers : wk[w].job = i

(* wind_up_interrupted_turn: the log still owes the interrupted calls a    *)
(* result.  While the activation of a Cancel is on the stream, whoever     *)
(* died, lost the lease or conflicted on the way, an interrupted turn with *)
(* unanswered tool calls is wound up                                       *)
AnnouncedInterruptIsWoundUp ==
    (Interrupted /\ \E i \in DOMAIN log : log[i].kind = "cancel" /\ Outstanding(i))
        ~> ~ Interrupted

(* docs/nats-ha.md, "The model": "A `Cancel` at sequence `S` ends the turn *)
(* running at `S`", and session_watcher.rs: "A frontend's Cancel always    *)
(* lands at a higher sequence than this worker's last append at the moment *)
(* it is observed here".  No output of a turn lands once a Cancel follows  *)
(* the turn's input                                                        *)
CancelEndsTheTurn ==
    [][\A w \in Workers :
        OutputLands(w) => \A c \in (wk[w].cursor + 1)..Len(log) : log[c].kind # "cancel"]_vars

(* execution_control.rs, has_queued_input: "Whether the log holds user     *)
(* input no turn has answered. A redelivered activation is the only thing  *)
(* that will run it."  Every prompt that was activated is settled by a     *)
(* TurnEnd, an Error or a Cancel in the end                                *)
ActivatedPromptIsSettled ==
    \A p \in PromptIds :
        (prompt[p] = "activated")
            ~> (\E i \in Prompts(log) : log[i].id = p /\ prompt_is_covered(log, i))

=============================================================================
