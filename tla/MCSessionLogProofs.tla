------------------------- MODULE MCSessionLogProofs -------------------------
(***************************************************************************)
(* The invariants of MCSessionLog, for logs of every length.  Each follows *)
(* from what the accumulator means (SessionLogProofs) and from what is     *)
(* left of the writers' discipline: entries name calls of the model.       *)
(***************************************************************************)
EXTENDS MCSessionLog, SessionLogProofs

Kind == {"user", "assistant", "calls", "results", "cancel", "error", "turnEnd"}

LogEntries == [kind : Kind, id : PromptIds \union {"", "c"}, calls : SUBSET CallIds,
               thru : Nat, mid : {0}]

LogInv == log \in Seq(LogEntries)

(* The entries of a log are typed                                          *)
LEMMA EntryTyped ==
    ASSUME LogInv, NEW i \in DOMAIN log
    PROVE  log[i].calls \subseteq CallIds /\ log[i].thru \in Nat /\ i \in Nat
<1>1. log[i] \in LogEntries /\ i \in Nat
  BY DEF LogInv
<1> QED
  BY <1>1 DEF LogEntries

(* What the writers append keeps their discipline                          *)
LEMMA GrowKeeps ==
    ASSUME LogInv, NEW e \in LogEntries, Grow(e)
    PROVE  LogInv'
  BY DEF LogInv, Grow

(* The discipline is an invariant                                          *)
LEMMA LogInvariant == Spec => []LogInv
<1>1. Init => LogInv
  BY DEF Init, LogInv
<1>2. LogInv /\ [Next]_log => LogInv'
  <2> SUFFICES ASSUME LogInv, [Next]_log PROVE LogInv'
    OBVIOUS
  <2>1. CASE LogPrompt
    <3>1. PICK p \in PromptIds : Grow(User(p))
      BY <2>1 DEF LogPrompt
    <3>2. User(p) \in LogEntries /\ User(p).kind = "user"
      BY DEF User, Blank, LogEntries, Kind
    <3> QED
      BY <3>1, <3>2, GrowKeeps
  <2>2. CASE LogCalls
    <3>1. PICK ks \in SUBSET (CallIds \ CallsLogged) : Grow(ToolCalls(ks))
      BY <2>2 DEF LogCalls
    <3>2. ToolCalls(ks) \in LogEntries /\ ToolCalls(ks).kind = "calls"
      BY DEF ToolCalls, Blank, LogEntries, Kind
    <3> QED
      BY <3>1, <3>2, GrowKeeps
  <2>3. CASE LogResults
    <3>1. PICK ks \in SUBSET (CallsLogged \ Answered) : Grow(ToolResults(ks))
      BY <2>3 DEF LogResults
    <3>2. CallsLogged \subseteq CallIds
      <4>1. \A i \in DOMAIN log : log[i].calls \subseteq CallIds
        BY EntryTyped
      <4> QED
        BY <4>1 DEF CallsLogged
    <3>3. ks \in SUBSET CallIds
      BY <3>1, <3>2
    <3>4. ToolResults(ks) \in LogEntries /\ ToolResults(ks).kind = "results"
      BY <3>3 DEF ToolResults, Blank, LogEntries, Kind
    <3> QED
      BY <3>1, <3>4, GrowKeeps
  <2>4. CASE LogAssistant
    <3>1. Assistant \in LogEntries /\ Assistant.kind = "assistant"
      BY DEF Assistant, Blank, LogEntries, Kind
    <3> QED
      BY <2>4, <3>1, GrowKeeps DEF LogAssistant
  <2>5. CASE LogCancel
    <3>1. Cancel("c") \in LogEntries /\ Cancel("c").kind = "cancel"
      BY DEF Cancel, Blank, LogEntries, Kind
    <3> QED
      BY <2>5, <3>1, GrowKeeps DEF LogCancel
  <2>6. CASE LogError
    <3>1. Error \in LogEntries /\ Error.kind = "error"
      BY DEF Error, Blank, LogEntries, Kind
    <3> QED
      BY <2>6, <3>1, GrowKeeps DEF LogError
  <2>7. CASE LogTurnEnd \/ LogHandoffEnd
    <3>1. PICK p \in Prompts(log) : Grow(TurnEnd(p))
      BY <2>7 DEF LogTurnEnd, LogHandoffEnd
    <3>2. p \in Nat
      BY DEF Prompts, LogInv
    <3>3. TurnEnd(p) \in LogEntries
      BY <3>2 DEF TurnEnd, Blank, LogEntries, Kind
    <3> QED
      BY <3>1, <3>3, GrowKeeps
  <2>8. CASE UNCHANGED log
    BY <2>8 DEF LogInv
  <2> QED
    BY <2>1, <2>2, <2>3, <2>4, <2>5, <2>6, <2>7, <2>8 DEF Next
<1> QED
  BY <1>1, <1>2, PTL DEF Spec

-----------------------------------------------------------------------------
(* The references are what the accumulator means *)

(* The state that is read, and its accumulator                             *)
LEMMA StateMeaning ==
    ASSUME LogInv
    PROVE  /\ FinalAcc(log) \in Accumulators(log)
           /\ Meaning(log, Barrier, Len(log), FinalAcc(log))
           /\ State = finish(FinalAcc(log))
           /\ Barrier = BarrierOf(log) /\ Barrier \in 0..Len(log)
           /\ LastCancel = FinalAcc(log).cancel
           /\ Len(log) \in Nat /\ DOMAIN log = 1..Len(log)
           /\ CallsIn(log) \subseteq CallIds
<1> DEFINE acc == FinalAcc(log)
<1>1. log \in Seq(LogEntries) /\ Len(log) \in Nat /\ DOMAIN log = 1..Len(log)
  BY DEF LogInv
<1>2. Barrier = BarrierOf(log) /\ Barrier \in 0..Len(log)
  BY <1>1, BarrierIsLast DEF Barrier, BarrierOf
<1>3. /\ acc \in Accumulators(log) /\ Meaning(log, Barrier, Len(log), acc)
      /\ State = finish(acc)
  BY <1>1, <1>2, ReplayMeaning DEF State
<1> HIDE DEF acc
<1>4. LastCancel = acc.cancel
  <2> DEFINE S == {0} \union {i \in DOMAIN log : i > Barrier /\ log[i].kind = "cancel"}
  <2>1. S \in SUBSET (0..Len(log)) /\ S # {} /\ S \subseteq Nat
    BY <1>1
  <2>2. acc.cancel \in S /\ acc.cancel \in Nat
    BY <1>1, <1>2, <1>3 DEF Meaning, CancelMeaning, Accumulators
  <2>3. \A y \in S : y <= acc.cancel
    BY <1>1, <1>2, <1>3, <2>2 DEF Meaning, CancelMeaning
  <2>4. LastCancel = Max(S)
    BY DEF LastCancel
  <2> HIDE DEF S
  <2>5. Max(S) \in S /\ \A y \in S : y <= Max(S)
    BY <1>1, <2>1, MaxOfBounded
  <2>6. Max(S) \in Nat
    BY <1>1, <2>1, <2>5
  <2> QED
    BY <2>2, <2>3, <2>4, <2>5, <2>6
<1>5. CallsIn(log) \subseteq CallIds
  <2>1. \A i \in DOMAIN log : log[i].calls \subseteq CallIds
    BY EntryTyped
  <2> QED
    BY <2>1 DEF CallsIn
<1> QED
  BY <1>1, <1>2, <1>3, <1>4, <1>5 DEF acc

(* The fields of the state                                                 *)
LEMMA StateFields ==
    ASSUME LogInv
    PROVE  LET acc == FinalAcc(log)
           IN  /\ State.status \in {"Idle", "InterruptedPendingWindUp", "InFlightResumable"}
               /\ State.status = "InterruptedPendingWindUp" <=> acc.owed # {}
               /\ State.status = "InFlightResumable" <=> acc.owed = {} /\ acc.round
               /\ State.queue = acc.queue
               /\ acc.owed # {} => State.orphans = acc.owed /\ State.cancel = acc.cancel
               /\ acc.owed = {} => State.orphans = IF acc.round THEN acc.open ELSE {}
               /\ State.lastUser = IF acc.owed = {} /\ acc.round THEN acc.lastUser ELSE 0
<1>1. FinalAcc(log).round \in BOOLEAN
  BY StateMeaning DEF Accumulators
<1>2. State = finish(FinalAcc(log))
  BY StateMeaning
<1> QED
  BY <1>1, <1>2, FinishFields

(* A reconstructed state is made of entries of the log                     *)
LEMMA StateIsTyped ==
    ASSUME LogInv
    PROVE  TypeOK
<1> DEFINE acc == FinalAcc(log)
<1>1. /\ acc.queue \in Seq(1..Len(log)) /\ acc.round \in BOOLEAN
      /\ acc.open \subseteq (1..Len(log)) \X CallsIn(log)
      /\ acc.owed \subseteq (1..Len(log)) \X CallsIn(log)
  BY StateMeaning DEF Accumulators
<1>2. (1..Len(log)) \X CallsIn(log) \subseteq (1..Len(log)) \X CallIds
  BY StateMeaning
<1>3. State.orphans \in {acc.owed, acc.open, {}}
  BY <1>1, StateFields
<1> HIDE DEF acc
<1>4. State.orphans \subseteq (1..Len(log)) \X CallIds
  BY <1>1, <1>2, <1>3
<1>5. State.queue \in Seq(1..Len(log)) /\ (State.status # "InFlightResumable" => State.lastUser = 0)
  BY <1>1, StateFields DEF acc
<1> QED
  BY <1>4, <1>5, StateFields DEF TypeOK

(* What is owed is what was open at the last Cancel and is still open      *)
LEMMA OwedIsCutOff ==
    ASSUME LogInv
    PROVE  WindUpOwesWhatWasCutOff
<1> DEFINE acc == FinalAcc(log)
<1>1. acc.owed = OwedCalls(log, Barrier, LastCancel, Len(log))
  BY StateMeaning DEF Meaning, CallsMeaning
<1>2. Barrier \in Nat /\ LastCancel \in Nat /\ LastCancel <= Len(log) /\ Len(log) \in Nat
  BY StateMeaning DEF Accumulators
<1>3. OwedReference = OwedCalls(log, Barrier, LastCancel, Len(log))
  <2>1. ASSUME NEW o \in OwedReference
        PROVE  o \in OwedCalls(log, Barrier, LastCancel, Len(log))
    <3>1. /\ o \in (Barrier..LastCancel) \X CallIds
          /\ o[1] > Barrier /\ o[1] < LastCancel
          /\ log[o[1]].kind = "calls" /\ o[2] \in log[o[1]].calls
          /\ \A j \in (o[1] + 1)..Len(log) :
                log[j].kind = "results" => o[2] \notin log[j].calls
      BY DEF OwedReference
    <3>2. o[1] \in 1..Len(log)
      BY <1>2, <3>1
    <3>3. o[2] \in CallsIn(log)
      BY <3>1, <3>2, StateMeaning DEF CallsIn
    <3>4. o \in Pairs(log)
      BY <3>1, <3>2, <3>3 DEF Pairs
    <3> QED
      BY <1>2, <3>1, <3>2, <3>4 DEF OwedCalls, IsOpen
  <2>2. ASSUME NEW o \in OwedCalls(log, Barrier, LastCancel, Len(log))
        PROVE  o \in OwedReference
    <3>1. /\ o \in Pairs(log) /\ Barrier < o[1] /\ o[1] < LastCancel
          /\ IsOpen(log, o, Len(log))
      BY DEF OwedCalls
    <3>2. o[1] \in Barrier..LastCancel /\ o[2] \in CallIds
      BY <1>2, <3>1, StateMeaning DEF Pairs
    <3>3. o \in (Barrier..LastCancel) \X CallIds
      BY <3>1, <3>2 DEF Pairs
    <3> QED
      BY <1>2, <3>1, <3>2, <3>3 DEF OwedReference, IsOpen
  <2> QED
    BY <2>1, <2>2
<1> QED
  BY <1>1, <1>3, StateFields DEF WindUpOwesWhatWasCutOff

(* The queue is the input no turn has taken, in log order                  *)
LEMMA QueueIsInput ==
    ASSUME LogInv
    PROVE  QueueIsUnansweredInput
<1> DEFINE acc == FinalAcc(log)
<1>1. QueueMeaning(log, Barrier, Len(log), acc) /\ acc.cancel = LastCancel /\ State.queue = acc.queue
  BY StateMeaning, StateFields DEF Meaning
<1> HIDE DEF acc
<1>2. QueueReference = Queued(log, Barrier, LastCancel, Len(log))
  <2>1. \A p \in Prompts(log) : p \in Nat /\ p <= Len(log)
    BY StateMeaning DEF Prompts
  <2> QED
    BY <2>1, StateMeaning DEF QueueReference, Queued
<1>3. Range(acc.queue) = Queued(log, Barrier, LastCancel, Len(log))
  BY <1>1 DEF QueueMeaning, Range
<1> QED
  BY <1>1, <1>2, <1>3 DEF QueueIsUnansweredInput, QueueMeaning, Increasing

(* A settled prompt is not queued                                          *)
LEMMA QueuedIsUnsettled ==
    ASSUME LogInv
    PROVE  SettledInputIsNotQueuedAgain
<1> DEFINE acc == FinalAcc(log)
<1>1. /\ QueueMeaning(log, Barrier, Len(log), acc) /\ acc.cancel = LastCancel
      /\ State.queue = acc.queue /\ CancelMeaning(log, Barrier, Len(log), acc)
      /\ acc.cancel \in Nat /\ Barrier \in Nat /\ Barrier = BarrierOf(log)
      /\ DOMAIN log = 1..Len(log) /\ Len(log) \in Nat
  BY StateMeaning, StateFields DEF Meaning, Accumulators
<1>2. \A i \in 1..Len(log) : log[i].kind \in {"assistant", "error"} => i <= Barrier
  BY <1>1, BarrierIsLast DEF LogInv, is_terminal_barrier
<1> HIDE DEF acc
<1>3. SUFFICES ASSUME NEW n \in DOMAIN State.queue, NEW i, i = State.queue[n]
               PROVE  /\ \A t \in DOMAIN log : ~ EndedAt(i, t)
                      /\ \A j \in 1..(i - 1) : log[j].id = log[i].id => log[j].kind # "user"
  BY DEF SettledInputIsNotQueuedAgain
<1>4. /\ i \in Prompts(log) /\ i > Barrier /\ i > acc.cancel /\ i \in Nat
  BY <1>1, <1>3 DEF QueueMeaning, Queued, Prompts
<1>5. ASSUME NEW t \in DOMAIN log PROVE ~ EndedAt(i, t)
  <2>1. t \in 1..Len(log) /\ t \in Nat
    BY <1>1
  <2>2. ~ \E j \in (i + 1)..t : log[j].kind = "assistant"
    <3>1. SUFFICES ASSUME NEW j \in (i + 1)..t, log[j].kind = "assistant" PROVE FALSE
      OBVIOUS
    <3>2. j \in 1..Len(log) /\ j > i
      BY <1>1, <1>4, <2>1
    <3> QED
      BY <1>1, <1>2, <1>4, <3>1, <3>2
  <2>3. log[t].kind = "error" => t <= i
    BY <1>1, <1>2, <1>4, <2>1
  <2>4. log[t].kind = "cancel" => t <= i
    BY <1>1, <1>4, <2>1 DEF CancelMeaning
  <2> QED
    BY <1>4, <2>1, <2>2, <2>3, <2>4 DEF EndedAt, Covers
<1>6. \A j \in 1..(i - 1) : log[j].id = log[i].id => log[j].kind # "user"
  BY <1>4 DEF Prompts, IsCopy
<1> QED
  BY <1>5, <1>6

(* An unsettled prompt above the barrier is queued or resumes              *)
LEMMA InputIsKept ==
    ASSUME LogInv
    PROVE  InputAboveBarrierIsKept
<1> DEFINE acc == FinalAcc(log)
<1>1. /\ Meaning(log, Barrier, Len(log), acc) /\ acc \in Accumulators(log)
      /\ State.queue = acc.queue /\ Barrier \in Nat
      /\ State.status = "InFlightResumable" <=> acc.owed = {} /\ acc.round
      /\ State.lastUser = IF acc.owed = {} /\ acc.round THEN acc.lastUser ELSE 0
      /\ DOMAIN log = 1..Len(log) /\ Len(log) \in Nat
  BY StateMeaning, StateFields
<1> HIDE DEF acc
<1>2. SUFFICES ASSUME NEW i \in Prompts(log), i > Barrier, ~ prompt_is_covered(log, i)
               PROVE  \/ \E n \in DOMAIN State.queue : State.queue[n] = i
                      \/ State.status = "InFlightResumable" /\ State.lastUser >= i
  BY DEF InputAboveBarrierIsKept
<1>3. i \in 1..Len(log) /\ log[i].kind = "user" /\ acc.cancel \in Nat
  BY <1>1 DEF Prompts, Accumulators
<1>4. acc.cancel < i
  <2>1. SUFFICES ASSUME acc.cancel >= i PROVE FALSE
    BY <1>3
  <2>2. acc.cancel \in DOMAIN log /\ log[acc.cancel].kind = "cancel" /\ acc.cancel > i
    BY <1>1, <1>3, <2>1 DEF Meaning, CancelMeaning
  <2>3. acc.cancel \in {t \in DOMAIN log : Covers(log, t, i)}
    BY <2>2 DEF Covers
  <2>4. {t \in DOMAIN log : Covers(log, t, i)} \in SUBSET (Nat \ {0})
    BY <1>1
  <2>5. FirstOf({t \in DOMAIN log : Covers(log, t, i)}) # 0
    BY <2>3, <2>4, FirstOfSequences
  <2> QED
    BY <1>2, <2>5 DEF prompt_is_covered, prompt_terminal_entry
<1>5. CASE i \in Queued(log, Barrier, acc.cancel, Len(log))
  BY <1>1, <1>5 DEF Meaning, QueueMeaning
<1>6. CASE i \notin Queued(log, Barrier, acc.cancel, Len(log))
  <2>1. /\ acc.cancel = 0
        /\ \E j \in (i + 1)..Len(log) : log[j].kind = "calls"
    BY <1>1, <1>2, <1>3, <1>4, <1>6 DEF Queued
  <2>2. acc.round
    <3>1. PICK j \in (i + 1)..Len(log) : log[j].kind = "calls"
      BY <2>1
    <3>2. j \in (Barrier + 1)..Len(log)
      BY <1>1, <1>2, <1>3, <3>1
    <3> QED
      BY <1>1, <2>1, <3>1, <3>2 DEF Meaning, RoundMeaning
  <2>3. acc.owed = {}
    <3>1. \A o \in Pairs(log) : o[1] \in Nat
      BY DEF Pairs
    <3> QED
      BY <1>1, <2>1, <3>1 DEF Meaning, CallsMeaning, OwedCalls
  <2>4. i <= acc.lastUser
    BY <1>1, <1>2, <1>3, <1>6, <2>2 DEF Meaning, LastUserMeaning
  <2>5. acc.lastUser \in Nat
    BY <1>1 DEF Accumulators
  <2> QED
    BY <1>1, <1>3, <2>2, <2>3, <2>4, <2>5
<1> QED
  BY <1>5, <1>6

(* The wind-up closes what is owed and touches nothing else                *)
LEMMA WindUpSettles ==
    ASSUME LogInv
    PROVE  WindUpSettlesTheTurn
<1> DEFINE acc == FinalAcc(log)
           n == Len(log) + 1
           e == WindUpOf(log)
           k == Append(log, e)
           ks == CallsOf(State.orphans)
           Ext == LogEntries \union {e}
<1>1. SUFFICES ASSUME State.status = "InterruptedPendingWindUp"
               PROVE  /\ reconstruct_state(k).status = "Idle"
                      /\ reconstruct_state(k).queue = State.queue
  BY DEF WindUpSettlesTheTurn
<1>2. /\ Meaning(log, Barrier, Len(log), acc) /\ acc \in Accumulators(log)
      /\ acc.owed # {} /\ State.orphans = acc.owed /\ State.queue = acc.queue
      /\ Barrier = BarrierOf(log) /\ Barrier \in 0..Len(log) /\ Len(log) \in Nat
  BY <1>1, StateMeaning, StateFields
<1>3. e.kind = "results" /\ e.calls = ks
  BY DEF WindUpOf, WoundUp, ToolResults, Blank, State
<1> HIDE DEF e
<1>4. log \in Seq(Ext) /\ e \in Ext
  BY DEF LogInv
<1> HIDE DEF Ext
<1>5. /\ k \in Seq(Ext) /\ Len(k) = n /\ k[n] = e
      /\ \A i \in 1..Len(log) : k[i] = log[i]
  BY <1>4, PrefixStays
<1>6. BarrierOf(k) = Barrier
  BY <1>2, <1>3, <1>4, BarrierStays DEF is_terminal_barrier
<1>7. Replay(k, Barrier)[Len(log)] = acc
  BY <1>2, <1>4, ReplayExtends DEF FinalAcc
<1> HIDE DEF k, acc
<1>8. FinalAcc(k) = close_calls(acc, ks)
  <2>1. /\ Barrier \in 0..Len(k) /\ n \in (Barrier + 1)..Len(k) /\ n - 1 = Len(log)
    BY <1>2, <1>5
  <2>2. Replay(k, Barrier)[n] = apply_entry_with_seq(k, Barrier, acc, n)
    BY <1>5, <1>7, <2>1, ReplayIsDefined
  <2> QED
    BY <1>3, <1>5, <1>6, <2>2 DEF FinalAcc, apply_entry_with_seq
<1>9. /\ FinalAcc(k).owed = Unanswered(acc.owed, ks) /\ FinalAcc(k).round = acc.round
      /\ FinalAcc(k).queue = acc.queue
  BY <1>2, <1>8 DEF close_calls, Accumulators
<1>10. Unanswered(acc.owed, ks) = {}
  BY <1>2 DEF Unanswered, CallsOf
<1>11. acc.round = FALSE
  <2>1. \A o \in Pairs(log) : o[1] \in Nat
    BY DEF Pairs
  <2>2. acc.cancel # 0
    BY <1>2, <2>1 DEF Meaning, CallsMeaning, OwedCalls
  <2> QED
    BY <1>2, <2>2 DEF Meaning, RoundMeaning
<1>12. reconstruct_state(k) = finish(FinalAcc(k)) /\ FinalAcc(k).round \in BOOLEAN
  BY <1>5, ReplayMeaning DEF Accumulators
<1> QED
  BY <1>2, <1>9, <1>10, <1>11, <1>12, FinishFields

-----------------------------------------------------------------------------
(* reconstruct_state_with_seq yields a state that is made of entries of    *)
(* the log, for every log                                                  *)
THEOREM ReplayTypeCorrect == Spec => []TypeOK
BY LogInvariant, StateIsTyped, PTL

(* close_calls, on_cancel: a wind-up owes exactly the calls that the last  *)
(* Cancel cut off and that are unanswered since                            *)
THEOREM WindUpOwesTheCutOff == Spec => []WindUpOwesWhatWasCutOff
BY LogInvariant, OwedIsCutOff, PTL

(* on_user_message, on_tool_calls: the input of the next turn is exactly   *)
(* what no turn has taken, in log order                                    *)
THEOREM QueueIsTheInput == Spec => []QueueIsUnansweredInput
BY LogInvariant, QueueIsInput, PTL

(* wind_up.rs: one wind-up settles the turn, and the queue survives it     *)
THEOREM OneWindUpSettles == Spec => []WindUpSettlesTheTurn
BY LogInvariant, WindUpSettles, PTL

(* reconstruct_state: a prompt whose turn was answered, failed or          *)
(* cancelled is never queued again                                         *)
THEOREM SettledStaysSettled == Spec => []SettledInputIsNotQueuedAgain
BY LogInvariant, QueuedIsUnsettled, PTL

(* finish(): no unsettled input above the barrier is dropped               *)
THEOREM NoInputIsDropped == Spec => []InputAboveBarrierIsKept
BY LogInvariant, InputIsKept, PTL

=============================================================================
