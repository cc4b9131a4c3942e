---------------------------- MODULE MCSessionLog ----------------------------
(***************************************************************************)
(* The readers of SessionLog on every log its writers can produce up to a  *)
(* bound.  The log grows one entry at a time.  Frontends append prompts    *)
(* and Cancels at any point, and a fenced-out worker may still write, so   *)
(* the only discipline left is the one each writer has on its own: call    *)
(* ids are fresh, results answer calls of the log, a TurnEnd follows the   *)
(* turn's assistant Message or the answered round it handed off with.      *)
(***************************************************************************)
EXTENDS SessionLog, TLC

CONSTANTS PromptIds, CallIds,
          MaxLog     \* bound: entries in the log

VARIABLE log

Symmetry == Permutations(PromptIds) \union Permutations(CallIds)

CallsLogged == UNION {log[i].calls : i \in {j \in DOMAIN log : log[j].kind = "calls"}}
Answered == UNION {log[i].calls : i \in {j \in DOMAIN log : log[j].kind = "results"}}
Started == \E i \in DOMAIN log : log[i].kind = "user"

Grow(e) == Len(log) < MaxLog /\ log' = Append(log, e)

Init == log = <<>>

(* Every id but a fresh one is a compaction copy *)
LogPrompt == \E p \in PromptIds : Grow(User(p))

LogCalls == \E ks \in SUBSET (CallIds \ CallsLogged) \ {{}} :
                Started /\ Grow(ToolCalls(ks))

LogResults == \E ks \in SUBSET (CallsLogged \ Answered) \ {{}} : Grow(ToolResults(ks))

LogAssistant == Started /\ Grow(Assistant)

LogCancel == Started /\ Grow(Cancel("c"))

LogError == Started /\ Grow(Error)

LogTurnEnd ==
    \E p \in Prompts(log) :
        /\ \E i \in DOMAIN log : i > p /\ log[i].kind = "assistant"
        /\ Grow(TurnEnd(p))

(* A turn whose tool results switch agents ends in HandoffDispatched: no   *)
(* assistant Message, and prompts injected with the round are covered too  *)
LogHandoffEnd ==
    \E p \in Prompts(log) :
        /\ \E i \in DOMAIN log : log[i].kind = "results"
        /\ Grow(TurnEnd(p))

Next == LogPrompt \/ LogCalls \/ LogResults \/ LogAssistant \/ LogCancel
        \/ LogError \/ LogTurnEnd \/ LogHandoffEnd

Spec == Init /\ [][Next]_log

-----------------------------------------------------------------------------
(* References: what the fold should say, read off the log as a set         *)

Barrier == LastWhere(log, is_terminal_barrier)
LastCancel == Max({0} \union {i \in DOMAIN log : i > Barrier /\ log[i].kind = "cancel"})

OwedReference ==
    {o \in (Barrier..LastCancel) \X CallIds :
        /\ o[1] > Barrier /\ o[1] < LastCancel
        /\ log[o[1]].kind = "calls" /\ o[2] \in log[o[1]].calls
        /\ \A j \in (o[1] + 1)..Len(log) :
                log[j].kind = "results" => o[2] \notin log[j].calls}

(* A round takes the queue with it, unless the turn before it was cut off  *)
QueueReference ==
    {i \in Prompts(log) :
        /\ i > Barrier /\ i > LastCancel
        /\ LastCancel = 0 => \A j \in (i + 1)..Len(log) : log[j].kind # "calls"}

State == reconstruct_state(log)

(* reconstruct_state_with_seq returns a TurnStatus, its orphans and queued *)
(* input that are all entries of the log, and only a tool round has an     *)
(* initiating user                                                         *)
TypeOK ==
    /\ State.status \in {"Idle", "InterruptedPendingWindUp", "InFlightResumable"}
    /\ State.orphans \subseteq (1..Len(log)) \X CallIds
    /\ State.queue \in Seq(1..Len(log))
    /\ State.status # "InFlightResumable" => State.lastUser = 0

(* close_calls, on_cancel: whatever the order of rounds, answers, repeated *)
(* Cancels and late entries of an interrupted turn, the calls a wind-up    *)
(* has to answer are exactly the calls that precede the last Cancel of the *)
(* window and that no later ToolResults answers                            *)
WindUpOwesWhatWasCutOff ==
    LET owed == IF State.status = "InterruptedPendingWindUp" THEN State.orphans ELSE {}
    IN  owed = OwedReference

(* on_user_message, on_tool_calls: the input of the next turn is the       *)
(* prompts after the last barrier and the last Cancel that no tool round   *)
(* has taken, each once, in log order                                      *)
QueueIsUnansweredInput ==
    /\ Range(State.queue) = QueueReference
    /\ \A m, n \in DOMAIN State.queue : m < n => State.queue[m] < State.queue[n]

(* wind_up.rs: "Wind-up is idempotent by construction".  The one           *)
(* ToolResults it appends leaves no call owed, so a second pass appends    *)
(* nothing, and it neither drops nor revives queued input                  *)
WindUpSettlesTheTurn ==
    State.status = "InterruptedPendingWindUp" =>
        LET after == reconstruct_state(Append(log, WindUpOf(log)))
        IN  after.status = "Idle" /\ after.queue = State.queue

(* What ended the turn of prompt i for good: an Error, a Cancel, or the    *)
(* TurnEnd that follows its assistant Message.  A TurnEnd alone, which is  *)
(* all a handed-off turn leaves, is no barrier to the fold                 *)
EndedAt(i, t) ==
    /\ Covers(log, t, i)
    /\ log[t].kind = "turnEnd" => \E j \in (i + 1)..t : log[j].kind = "assistant"

(* reconstruct_state (issue #2493 in its comments): a prompt whose turn    *)
(* was answered, failed or cancelled is never queued again, also when      *)
(* compaction has logged it a second time                                  *)
SettledInputIsNotQueuedAgain ==
    \A n \in DOMAIN State.queue :
        LET i == State.queue[n]
        IN  /\ \A t \in DOMAIN log : ~ EndedAt(i, t)
            /\ \A j \in 1..(i - 1) : log[j].id = log[i].id => log[j].kind # "user"

(* finish(): replay drops no input that is above the last barrier.  An     *)
(* unsettled prompt there is queued or has been taken by the tool round    *)
(* that resumes                                                            *)
InputAboveBarrierIsKept ==
    \A i \in Prompts(log) :
        (i > Barrier /\ ~ prompt_is_covered(log, i)) =>
            \/ \E n \in DOMAIN State.queue : State.queue[n] = i
            \/ State.status = "InFlightResumable" /\ State.lastUser >= i

=============================================================================
