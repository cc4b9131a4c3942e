----------------------------- MODULE SessionLog -----------------------------
(***************************************************************************)
(* What the durable session log says: the fold that rebuilds the state a   *)
(* turn resumes from (harnx-core/src/session_reconstruct.rs), the boundary *)
(* predicates next to it (session_reconstruct/turn_status.rs), the         *)
(* interrupt decision and the orphan scan.  Everything here is a pure      *)
(* operator on a log; SessionTurn has the processes that write it.         *)
(*                                                                         *)
(* A log is a sequence whose index is the JetStream sequence.  An entry    *)
(* keeps only what some reader tells apart: message text, tool names,      *)
(* results and timestamps are dropped.  Timing notices, runtime notes and  *)
(* log edits, which the readers filter out first, are not entries.         *)
(***************************************************************************)
EXTENDS Naturals, Sequences, SequencesExt, FiniteSetsExt

-----------------------------------------------------------------------------
(* Entries.  id is a prompt's or a Cancel's identity, calls the tool call  *)
(* ids of a round, thru a TurnEnd's through_seq, and mid the Cancel whose  *)
(* wind-up this is (its Nats-Msg-Id is made of it), 0 for other entries.   *)
(* Fence tokens are left to the processes of SessionTurn.                  *)

Blank == [kind |-> "none", id |-> "", calls |-> {}, thru |-> 0, mid |-> 0]

User(p)         == [Blank EXCEPT !.kind = "user", !.id = p]
Assistant       == [Blank EXCEPT !.kind = "assistant"]
ToolCalls(ks)   == [Blank EXCEPT !.kind = "calls", !.calls = ks]
ToolResults(ks) == [Blank EXCEPT !.kind = "results", !.calls = ks]
WoundUp(ks, s)  == [ToolResults(ks) EXCEPT !.mid = s]
Cancel(c)       == [Blank EXCEPT !.kind = "cancel", !.id = c]
Error           == [Blank EXCEPT !.kind = "error"]
TurnEnd(n)      == [Blank EXCEPT !.kind = "turnEnd", !.thru = n]

is_terminator(e) == e.kind \in {"turnEnd", "error", "cancel"}
is_terminal_barrier(e) == e.kind \in {"assistant", "error"}

(* Sequence of the last entry that satisfies P, 0 when there is none       *)
LastWhere(l, P(_)) == Max({0} \union {i \in DOMAIN l : P(l[i])})
FirstOf(S) == IF S = {} THEN 0 ELSE Min(S)

(* Compaction logs a kept prompt again under its own id: not a new prompt  *)
IsCopy(l, i) == \E j \in 1..(i - 1) : l[j].kind = "user" /\ l[j].id = l[i].id
Prompts(l) == {i \in DOMAIN l : l[i].kind = "user" /\ ~ IsCopy(l, i)}

-----------------------------------------------------------------------------
(* turn_status.rs *)

last_terminator_seq(l) == LastWhere(l, is_terminator)

last_terminator_is_cancel(l) ==
    LET t == last_terminator_seq(l) IN t > 0 /\ l[t].kind = "cancel"

Covers(l, i, p) ==
    \/ l[i].kind = "turnEnd" /\ l[i].thru >= p
    \/ l[i].kind \in {"error", "cancel"} /\ i > p

(* First durable terminal of a prompt, and 0 while it has none             *)
prompt_terminal_entry(l, p) == FirstOf({i \in DOMAIN l : Covers(l, i, p)})

prompt_is_covered(l, p) == prompt_terminal_entry(l, p) # 0

(* nats_session.rs: the same question asked by the admission code          *)
invocation_terminal_seq(l, p) ==
    FirstOf({i \in DOMAIN l : i > p /\ Covers(l, i, p)})

-----------------------------------------------------------------------------
(* ReplayAccumulator.  queue is next_turn_messages by sequence, round says *)
(* that resumable_last_assistant is a tool round, lastUser is              *)
(* resumable_last_user (0: none), open is open_calls, and cancel, owed are *)
(* the parts of `interrupted` (cancel = 0: not interrupted).  Open calls   *)
(* are <<sequence of the round, call id>> pairs.                           *)

StartReplay == [queue |-> <<>>, round |-> FALSE, lastUser |-> 0,
                open |-> {}, cancel |-> 0, owed |-> {}]

Unanswered(S, ks) == {o \in S : o[2] \notin ks}

(* Mutant: the second of two Cancels forgets what the first one owed *)
on_cancel_forgetting(acc, i) ==
    [StartReplay EXCEPT !.cancel = i, !.owed = acc.open]

(* Mutant: input queued before the Cancel runs as a turn of its own *)
on_cancel_keeping_queue(acc, i) ==
    [StartReplay EXCEPT !.cancel = i, !.owed = acc.owed \union acc.open,
                        !.queue = acc.queue]

on_cancel(acc, i) ==
    [StartReplay EXCEPT !.cancel = i, !.owed = acc.owed \union acc.open]

on_user_message(acc, i) ==
    LET queued == [acc EXCEPT !.queue = Append(@, i)]
    IN  IF acc.round THEN queued ELSE [queued EXCEPT !.lastUser = 0]

(* Mutant: the round is recorded without its sequence *)
on_tool_calls_unnumbered(acc, i, ks) ==
    [acc EXCEPT !.open = @ \union ({0} \X ks), !.queue = <<>>,
                !.round = acc.cancel = 0]

(* Mutant: a round drops the prompts it consumes instead of promoting one *)
on_tool_calls_unpromoted(acc, i, ks) ==
    [acc EXCEPT !.open = @ \union ({i} \X ks), !.queue = <<>>,
                !.round = acc.cancel = 0]

on_tool_calls(acc, i, ks) ==
    LET opened == [acc EXCEPT !.open = @ \union ({i} \X ks)]
    IN  IF acc.cancel # 0 THEN opened
        ELSE [opened EXCEPT
                !.lastUser = IF acc.queue = <<>> THEN @ ELSE Last(acc.queue),
                !.queue = <<>>,
                !.round = TRUE]

(* Mutant: an answer closes the running turn's calls only *)
close_calls_of_turn(acc, ks) == [acc EXCEPT !.open = Unanswered(@, ks)]

close_calls(acc, ks) ==
    [acc EXCEPT !.open = Unanswered(@, ks), !.owed = Unanswered(@, ks)]

(* Mutant: ids seen before the barrier are not seeded *)
IsKnownInWindow(l, split, i) ==
    \E j \in (split + 1)..(i - 1) : l[j].kind = "user" /\ l[j].id = l[i].id

(* seed_settled_user_ids and seen_user_ids: a repeated id is never queued  *)
IsKnown(l, split, i) == IsCopy(l, i)

(* No assistant Message or Error is ever applied: the window starts after  *)
(* the last of them                                                        *)
apply_entry_with_seq(l, split, acc, i) ==
    CASE l[i].kind = "cancel"  -> on_cancel(acc, i)
      [] l[i].kind = "user"    -> IF IsKnown(l, split, i) THEN acc
                                  ELSE on_user_message(acc, i)
      [] l[i].kind = "calls"   -> on_tool_calls(acc, i, l[i].calls)
      [] l[i].kind = "results" -> close_calls(acc, l[i].calls)
      [] OTHER -> acc

(* TurnStatus with its payload, the queued input and the resume cursor's   *)
(* initiating user                                                         *)
Outcome(status, cancel, orphans, queue, lastUser) ==
    [status |-> status, cancel |-> cancel, orphans |-> orphans,
     queue |-> queue, lastUser |-> lastUser]

finish(acc) ==
    IF acc.owed # {}
    THEN Outcome("InterruptedPendingWindUp", acc.cancel, acc.owed, acc.queue, 0)
    ELSE IF acc.round
         THEN Outcome("InFlightResumable", 0, acc.open, acc.queue, acc.lastUser)
         ELSE Outcome("Idle", 0, {}, acc.queue, 0)

(* Replay(l, split)[i] is the accumulator after entry i                    *)
Replay(l, split) ==
    LET replay[i \in split..Len(l)] ==
            IF i = split THEN StartReplay
            ELSE apply_entry_with_seq(l, split, replay[i - 1], i)
    IN  replay

reconstruct_state(l) ==
    finish(Replay(l, LastWhere(l, is_terminal_barrier))[Len(l)])

CallsOf(orphans) == {o[2] : o \in orphans}

(* What a wind-up owes the log: one ToolResults for every call cut off     *)
WindUpOf(l) ==
    LET s == reconstruct_state(l) IN WoundUp(CallsOf(s.orphans), s.cancel)

-----------------------------------------------------------------------------
(* Readers that do not use the fold *)

(* fold_new_user_messages_since: prompts past a cursor, Cancel or not      *)
new_user_messages_since(l, cursor) == {i \in Prompts(l) : i > cursor}

(* find_orphan_tool_calls: rounds that no ToolResults or Cancel closed     *)
(* before the next round began                                             *)
IsOrphanRound(l, i) ==
    /\ l[i].kind = "calls"
    /\ LET next == FirstOf({j \in DOMAIN l : j > i /\ l[j].kind = "calls"})
           end  == IF next = 0 THEN Len(l) + 1 ELSE next
       IN  \A j \in (i + 1)..(end - 1) : l[j].kind \notin {"results", "cancel"}

find_orphan_tool_calls(l) == {i \in DOMAIN l : IsOrphanRound(l, i)}

(* interrupt.rs decide(), on the window of the log from `from` on: "append" *)
(* is the code's None                                                      *)
decide(l, from) ==
    LET w == SubSeq(l, from, Len(l))
        t == last_terminator_seq(w)
    IN  IF w = <<>> THEN "Idle"
        ELSE IF t = 0 \/ \E i \in (t + 1)..Len(w) : w[i].kind = "user"
        THEN "append"
        ELSE IF last_terminator_is_cancel(w) THEN "AlreadyInterrupted" ELSE "Idle"

=============================================================================
