----------------------- MODULE ActivationBudgetProofs -----------------------
(***************************************************************************)
(* FailuresReachTheLog for every set of workers and every budget, where    *)
(* early expiries of the ack wait are fewer than the CAS attempts.         *)
(*                                                                         *)
(* As long as nothing faults and the counter does not expire, a worker's   *)
(* lease is held from the claim to the end of the turn, or of the failure  *)
(* before it, so at most one failure under a lease is under way, and while *)
(* it is counted nobody else can begin to fail.  The handlers that overlap *)
(* are those whose ack wait ran out early, so the write of that failure    *)
(* loses at most MaxEarly races and is applied within its attempts.  Hence *)
(* the counter is never behind the failures under a lease by more than the *)
(* one that is being counted, and the failure that finds the budget spent  *)
(* records its Error under the lease it has.  All this until the prompt is *)
(* settled or a worker takes the message out for a reason other than the   *)
(* limit, which clears the counter.                                        *)
(***************************************************************************)
EXTENDS ActivationDeliveryProofs

(* Handlers that have a delivery overlap only where an ack wait ran out     *)
(* under one of them.                                                       *)
Handling == {w \in Workers : wk[w].pc \in Handlers}
Pending == Cardinality(Handling) + IF msg = "ready" THEN 1 ELSE 0

OverlapOK == IsFiniteSet(Handling) /\ Pending <= 1 + excused /\ Pending <= 1 + MaxEarly

(* A handler that failed under its lease.                                   *)
ClaimedError(w) == wk[w].pc \in Handlers /\ wk[w].err \in {"plain", "refusal"}

(* A lease is where its watch says, but for a turn that ended; whoever has  *)
(* claimed it, or is about to record, has it, and so has one that failed    *)
(* under it; and no handler is where only a settled prompt, a removed       *)
(* message or a fault brings it.                                            *)
LeaseOK(w) ==
    /\ lease = w => wk[w].held
    /\ wk[w].held => lease = w \/ wk[w].pc \in {"done", "durable", "retry", "release"}
    /\ wk[w].pc \in {"startup", "turn", "ended", "turnFailed", "record"} => wk[w].held
    /\ ClaimedError(w) =>
          lease = w /\ wk[w].pc \in {"count", "write", "counted", "record", "retry"}
    /\ wk[w].pc \in {"count", "write", "counted"} => wk[w].err \in Kinds
    /\ wk[w].pc \notin {"confirm", "erred", "failover", "clear"}

(* Failures under a lease, up to their Error.                               *)
Counting(w) == wk[w].pc \in {"count", "write"} /\ ClaimedError(w)
Failing(w) == wk[w].pc \in {"count", "write", "counted", "record"} /\ ClaimedError(w)

(* The counter has changed since it was read.                               *)
Stale(w) == At(w, "write") /\ ~Applies(wk[w].rev)

(* The races that a failure under a lease has lost, with those it may still *)
(* lose to the failures of others.                                          *)
Races(w) == wk[w].tries + (IF Stale(w) THEN 1 ELSE 0) + Cardinality(Uncounted \ {w})

(* No failure under a lease is lost to the counter, and the one that        *)
(* reaches the budget is on its way to the log.                             *)
BudgetOK ==
    /\ counter.op # "del"
    /\ \A w \in Workers : Counting(w) => Races(w) <= MaxEarly
    /\ \A w \in Workers : At(w, "counted") /\ ClaimedError(w) => failed.claimed <= wk[w].n
    /\ failed.claimed <= counter.count + IF \E w \in Workers : Counting(w) THEN 1 ELSE 0
    /\ (\E w \in Workers : Failing(w)) \/ failed.claimed < MAX_ACTIVATION_FAILURES

(* An activation that is to run and is not settled yet.                     *)
UnsettledOK == OverlapOK /\ (\A w \in Workers : LeaseOK(w)) /\ BudgetOK

(* No worker has taken the message out of the stream, but at the limit.     *)
Undecided == fate \in {None, "limit"}

FaultlessOK ==
    /\ shutdown = {} /\ flying = {}
    /\ payload = "good" /\ ~log.covered /\ Undecided => UnsettledOK

(* A message that is malformed or has no metadata never gets to its claim.  *)
Claims == {"status", "acquire", "startup"}
UnclaimedOK == failed.claimed = 0 /\ \A w \in Workers : wk[w].pc \notin Claims

(* The inductive invariant, added to that of ActivationDeliveryProofs.      *)
JInv ==
    /\ payload # "good" => UnclaimedOK
    /\ faults = 0 /\ slips.expired = 0 => FaultlessOK

(* A step without a fault before the prompt of the activation is settled.   *)
Smooth ==
    /\ IInv /\ IInv' /\ UnsettledOK /\ payload = "good" /\ shutdown = {} /\ flying = {}
    /\ faults = 0 /\ faults' = 0 /\ slips.expired = 0 /\ slips'.expired = 0
    /\ ~log.covered /\ ~log'.covered /\ Undecided' /\ MaxEarly < CAS_RETRY_LIMIT

-----------------------------------------------------------------------------
(* The lease moves to one worker at a time, from nobody and back to nobody. *)
LEMMA LeaseKeeps ==
    ASSUME NEW w \in Workers, \A v \in Workers : LeaseOK(v), LeaseOK(w)',
           \A v \in Workers \ {w} : wk'[v] = wk[v],
           \/ lease' = lease
           \/ lease = None /\ lease' = w
           \/ lease = w /\ lease' = None
    PROVE  \A v \in Workers : LeaseOK(v)'
  <1> SUFFICES ASSUME NEW v \in Workers \ {w} PROVE LeaseOK(v)'
    OBVIOUS
  <1>1. lease' = v <=> lease = v
    BY DeliveryConstants
  <1> QED BY <1>1 DEF LeaseOK, ClaimedError

(* One failure under a lease is under way at most: its worker has the lease *)
LEMMA OneClaim ==
    ASSUME NEW v \in Workers, LeaseOK(v), ClaimedError(v)
    PROVE  lease = v
  BY DEF LeaseOK, ClaimedError

(* The handlers with a delivery, and the message that is ready for one, do  *)
(* not get more by a worker's step.                                         *)
LEMMA OverlapKeeps ==
    ASSUME IInv, IInv', OverlapOK, NEW w \in Workers, excused' = excused,
           \A v \in Workers \ {w} : wk'[v] = wk[v],
           \/ msg' = msg /\ (w \in Handling' => w \in Handling)
           \/ w \in Handling /\ w \notin Handling'
           \/ msg = "ready" /\ msg' # "ready"
    PROVE  OverlapOK'
  <1>1. IsFiniteSet(Handling) /\ Pending <= 1 + excused /\ Pending <= 1 + MaxEarly
    BY DEF OverlapOK
  <1>2. Cardinality(Handling) \in Nat /\ excused \in Nat /\ MaxEarly \in Nat
    BY <1>1, FS_CardinalityType, DeliveryConstants DEF IInv, RecordsOK
  <1>3. \A v \in Workers \ {w} : v \in Handling' <=> v \in Handling
    BY DEF Handling
  <1>4. CASE w \in Handling' => w \in Handling
    <2>1. Handling' \subseteq Handling
      BY <1>3, <1>4 DEF Handling
    <2>2. /\ IsFiniteSet(Handling') /\ Cardinality(Handling') \in Nat
          /\ Cardinality(Handling') <= Cardinality(Handling)
      BY <1>1, <2>1, CountSame
    <2>3. ASSUME w \in Handling, w \notin Handling'
          PROVE  Cardinality(Handling') + 1 <= Cardinality(Handling)
      <3>1. Handling' \subseteq Handling \ {w}
        BY <2>1, <2>3
      <3> QED BY <1>1, <2>3, <3>1, CountLess
    <2> QED BY <1>1, <1>2, <2>2, <2>3 DEF OverlapOK, Pending
  <1>5. CASE msg = "ready" /\ msg' # "ready"
    <2>1. Handling' \subseteq Handling \union {w}
      BY <1>3 DEF Handling
    <2>2. /\ IsFiniteSet(Handling') /\ Cardinality(Handling') \in Nat
          /\ Cardinality(Handling') <= Cardinality(Handling) + 1
      BY <1>1, <2>1, CountMore
    <2> QED BY <1>1, <1>2, <1>5, <2>2 DEF OverlapOK, Pending
  <1> QED BY <1>4, <1>5

(* The numbers of the budget.                                               *)
LEMMA BudgetTypes ==
    ASSUME IInv
    PROVE  /\ counter.count \in Nat /\ counter.rev \in Nat /\ failed.claimed \in Nat
           /\ \A v \in Workers : wk[v].tries \in Nat /\ wk[v].n \in Nat /\ wk[v].rev \in Nat
           /\ IsFiniteSet(Uncounted)
           /\ \A v \in Workers : /\ IsFiniteSet(Uncounted \ {v})
                                /\ Cardinality(Uncounted \ {v}) \in Nat
           /\ MaxEarly \in Nat /\ MAX_ACTIVATION_FAILURES \in Nat \ {0}
           /\ CAS_RETRY_LIMIT \in Nat \ {0}
  <1>1. IsFiniteSet(Uncounted)
    BY DEF IInv, CountsOK
  <1>2. ASSUME NEW v \in Workers
        PROVE  IsFiniteSet(Uncounted \ {v}) /\ Cardinality(Uncounted \ {v}) \in Nat
    <2>1. Uncounted \ {v} \subseteq Uncounted
      OBVIOUS
    <2> QED BY <1>1, <2>1, CountSame
  <1> QED BY <1>1, <1>2, DeliveryConstants DEF IInv, RecordsOK, HandlerStates

(* A step of a worker that is not counting a failure under a lease: other   *)
(* workers lose no more races, unless nobody had a lease to lose them.      *)
LEMMA QuietBudget ==
    ASSUME Smooth, NEW w \in Workers, \A v \in Workers \ {w} : wk'[v] = wk[v],
           UNCHANGED counter, failed'.claimed = failed.claimed,
           ~Counting(w), ~Counting(w)', ~(At(w, "counted")' /\ ClaimedError(w)'),
           Failing(w) => Failing(w)' \/ failed.claimed < MAX_ACTIVATION_FAILURES,
           w \in Uncounted' => w \in Uncounted \/ lease = None
    PROVE  BudgetOK'
  <1>1. IInv /\ BudgetOK /\ \A v \in Workers : LeaseOK(v)
    BY DEF Smooth, UnsettledOK
  <1>2. \A v \in Workers \ {w} : /\ Counting(v)' <=> Counting(v)
                                 /\ Failing(v)' <=> Failing(v)
                                 /\ ClaimedError(v)' <=> ClaimedError(v)
                                 /\ Stale(v)' <=> Stale(v)
                                 /\ v \in Uncounted' <=> v \in Uncounted
    BY DEF Counting, Failing, ClaimedError, Stale, At, Uncounted, Applies
  <1>3. counter'.op # "del"
    BY <1>1 DEF BudgetOK
  <1>4. ASSUME NEW v \in Workers, Counting(v)'
        PROVE  Races(v)' <= MaxEarly
    <2>1. v # w /\ Counting(v)
      BY <1>2, <1>4
    <2>2. lease = v
      BY <1>1, <2>1, OneClaim DEF Counting
    <2>3. Uncounted' \ {v} \subseteq Uncounted \ {v}
      BY <1>2, <2>2, DeliveryConstants DEF Uncounted
    <2>4. /\ Cardinality(Uncounted' \ {v}) \in Nat
          /\ Cardinality(Uncounted' \ {v}) <= Cardinality(Uncounted \ {v})
      BY <1>1, <2>3, CountSame, BudgetTypes
    <2>5. wk'[v].tries = wk[v].tries /\ (Stale(v)' <=> Stale(v))
      BY <1>2, <2>1
    <2>6. Races(v) <= MaxEarly
      BY <1>1, <2>1 DEF BudgetOK
    <2> QED BY <1>1, <2>4, <2>5, <2>6, BudgetTypes DEF Races
  <1>5. ASSUME NEW v \in Workers, At(v, "counted")', ClaimedError(v)'
        PROVE  failed'.claimed <= wk'[v].n
    BY <1>1, <1>2, <1>5 DEF BudgetOK, At
  <1>6. failed'.claimed <= counter'.count + IF \E v \in Workers : Counting(v)' THEN 1 ELSE 0
    <2>1. (\E v \in Workers : Counting(v)') <=> (\E v \in Workers : Counting(v))
      BY <1>2
    <2> QED BY <1>1, <2>1 DEF BudgetOK
  <1>7. (\E v \in Workers : Failing(v)') \/ failed'.claimed < MAX_ACTIVATION_FAILURES
    BY <1>1, <1>2 DEF BudgetOK
  <1> QED BY <1>3, <1>4, <1>5, <1>6, <1>7 DEF BudgetOK

(* The write of a failure is applied: whoever read the counter before has   *)
(* lost a race, and has one rival less.                                     *)
LEMMA PutBudget ==
    ASSUME Smooth, NEW w \in Workers, \A v \in Workers \ {w} : wk'[v] = wk[v],
           UNCHANGED failed, counter'.op = "put", counter'.count = counter.count + 1,
           wk[w].n = counter.count + 1, wk'[w].n = wk[w].n, wk'[w].err = wk[w].err,
           At(w, "write"), At(w, "counted")'
    PROVE  BudgetOK'
  <1>1. IInv /\ IInv' /\ BudgetOK /\ \A v \in Workers : LeaseOK(v)
    BY DEF Smooth, UnsettledOK
  <1>2. \A v \in Workers \ {w} : /\ Counting(v)' <=> Counting(v)
                                 /\ Failing(v)' <=> Failing(v)
                                 /\ ClaimedError(v)' <=> ClaimedError(v)
                                 /\ v \in Uncounted' => v \in Uncounted
    BY <1>1 DEF Counting, Failing, ClaimedError, At, Uncounted, LeaseOK
  <1>3. /\ ~Counting(w)' /\ w \in Uncounted /\ w \notin Uncounted'
        /\ Failing(w)' <=> Failing(w)
        /\ ClaimedError(w)' => Counting(w)
    BY DEF Counting, Failing, ClaimedError, At, Uncounted, Handlers
  <1>4. ASSUME NEW v \in Workers, Counting(v)'
        PROVE  Races(v)' <= MaxEarly
    <2>1. v # w /\ Counting(v) /\ wk'[v].tries = wk[v].tries
      BY <1>2, <1>3, <1>4
    <2>2. Uncounted' \ {v} \subseteq (Uncounted \ {v}) \ {w} /\ w \in Uncounted \ {v}
      BY <1>2, <1>3, <2>1 DEF Uncounted
    <2>3. Cardinality(Uncounted' \ {v}) + 1 <= Cardinality(Uncounted \ {v})
      BY <1>1, <2>2, CountLess, BudgetTypes
    <2>4. Cardinality(Uncounted' \ {v}) \in Nat
      BY <1>1, <2>2, CountSame, BudgetTypes
    <2>5. Races(v) <= MaxEarly
      BY <1>1, <2>1 DEF BudgetOK
    <2>6. /\ wk[v].tries \in Nat /\ MaxEarly \in Nat
          /\ Cardinality(Uncounted \ {v}) \in Nat
      BY <1>1, BudgetTypes
    <2>7. wk[v].tries + Cardinality(Uncounted \ {v}) <= MaxEarly
      BY <2>5, <2>6 DEF Races
    <2>8. wk'[v].tries + 1 + Cardinality(Uncounted' \ {v}) <= MaxEarly
      BY <2>1, <2>3, <2>4, <2>6, <2>7
    <2> QED BY <2>1, <2>4, <2>6, <2>8 DEF Races
  <1>5. ASSUME NEW v \in Workers, At(v, "counted")', ClaimedError(v)'
        PROVE  failed'.claimed <= wk'[v].n
    <2>1. CASE v = w
      BY <1>1, <1>3, <1>5, <2>1, BudgetTypes DEF BudgetOK
    <2>2. CASE v # w
      BY <1>1, <1>2, <1>5, <2>2 DEF BudgetOK, At
    <2> QED BY <2>1, <2>2
  <1>6. failed'.claimed <= counter'.count + IF \E v \in Workers : Counting(v)' THEN 1 ELSE 0
    BY <1>1, BudgetTypes DEF BudgetOK
  <1>7. (\E v \in Workers : Failing(v)') \/ failed'.claimed < MAX_ACTIVATION_FAILURES
    BY <1>1, <1>2, <1>3 DEF BudgetOK
  <1> QED BY <1>4, <1>5, <1>6, <1>7 DEF BudgetOK

(* A failure under a lease begins: its rivals are the other handlers that   *)
(* have a delivery.                                                         *)
LEMMA FailBudget ==
    ASSUME Smooth, NEW w \in Workers, \A v \in Workers \ {w} : wk'[v] = wk[v],
           UNCHANGED counter, failed'.claimed = failed.claimed + 1,
           At(w, "startup"), At(w, "count")', ClaimedError(w)', wk'[w].tries = 0
    PROVE  BudgetOK'
  <1>1. IInv /\ IInv' /\ OverlapOK /\ BudgetOK /\ \A v \in Workers : LeaseOK(v)
    BY DEF Smooth, UnsettledOK
  <1>2. lease = w
    BY <1>1 DEF LeaseOK, At
  <1>3. \A v \in Workers \ {w} : ~ClaimedError(v) /\ ~ClaimedError(v)'
    BY <1>1, <1>2, OneClaim DEF ClaimedError
  <1>4. ~Counting(w) /\ Counting(w)' /\ Failing(w)'
    BY DEF Counting, Failing, At
  <1>5. Races(w)' <= MaxEarly
    <2>1. Uncounted' \ {w} \subseteq Handling \ {w} /\ w \in Handling
      BY DEF Uncounted, Handling, Handlers, At
    <2>2. Cardinality(Uncounted' \ {w}) + 1 <= Cardinality(Handling)
      BY <1>1, <2>1, CountLess DEF OverlapOK
    <2>3. Cardinality(Handling) \in Nat /\ Cardinality(Handling) <= 1 + MaxEarly
      BY <1>1, FS_CardinalityType, DeliveryConstants DEF OverlapOK, Pending
    <2>4. ~Stale(w)'
      BY DEF Stale, At
    <2>5. Cardinality(Uncounted' \ {w}) \in Nat /\ MaxEarly \in Nat
      BY <1>1, <2>1, CountSame, DeliveryConstants DEF OverlapOK
    <2>6. Cardinality(Uncounted' \ {w}) <= MaxEarly
      BY <2>2, <2>3, <2>5
    <2> QED BY <2>4, <2>5, <2>6 DEF Races
  <1>6. failed'.claimed <= counter'.count + IF \E v \in Workers : Counting(v)' THEN 1 ELSE 0
    <2>1. ~\E v \in Workers : Counting(v)
      BY <1>3, <1>4 DEF Counting
    <2>2. failed.claimed <= counter.count + IF \E v \in Workers : Counting(v) THEN 1 ELSE 0
      BY <1>1 DEF BudgetOK
    <2>3. failed.claimed <= counter.count
      BY <1>1, <2>1, <2>2, BudgetTypes
    <2> QED BY <1>1, <1>4, <2>3, BudgetTypes
  <1> QED BY <1>1, <1>3, <1>4, <1>5, <1>6 DEF BudgetOK, Counting, At

(* A failure under a lease reads the counter, or tries again after a lost   *)
(* race.                                                                    *)
LEMMA CountBudget ==
    ASSUME Smooth, NEW w \in Workers, \A v \in Workers \ {w} : wk'[v] = wk[v],
           UNCHANGED <<counter, failed>>, Counting(w), Counting(w)', ~Stale(w)',
           wk'[w].tries = IF Stale(w) THEN wk[w].tries + 1 ELSE wk[w].tries
    PROVE  BudgetOK'
  <1>1. IInv /\ IInv' /\ BudgetOK /\ \A v \in Workers : LeaseOK(v)
    BY DEF Smooth, UnsettledOK
  <1>2. lease = w
    BY <1>1, OneClaim DEF Counting
  <1>3. \A v \in Workers \ {w} : ~ClaimedError(v) /\ ~ClaimedError(v)'
    BY <1>1, <1>2, OneClaim DEF ClaimedError
  <1>4. Uncounted' = Uncounted
    BY DEF Uncounted, Counting, At
  <1>5. Races(w)' <= MaxEarly
    <2>1. Races(w) <= MaxEarly
      BY <1>1 DEF BudgetOK
    <2> QED BY <1>1, <1>4, <2>1, BudgetTypes DEF Races
  <1>6. Failing(w)' /\ ~At(w, "counted")'
    BY DEF Counting, Failing, At
  <1> QED BY <1>1, <1>3, <1>5, <1>6 DEF BudgetOK, Counting

-----------------------------------------------------------------------------
(* Without a fault nothing is lost on its way and nobody shuts down.        *)
LEMMA NoFault ==
    ASSUME Smooth
    PROVE  ~Fault /\ ~PublishLost /\ \A w : w \notin shutdown /\ ~PublishFails(w)
  BY DEF Smooth, Fault, PublishLost, PublishFails

(* A worker's step keeps the lease, the overlap and the budget.             *)
LEMMA WorkerStep ==
    ASSUME Smooth, NEW w \in Workers, \A v \in Workers \ {w} : wk'[v] = wk[v],
           LeaseOK(w)', excused' = excused, BudgetOK',
           \/ lease' = lease
           \/ lease = None /\ lease' = w
           \/ lease = w /\ lease' = None,
           \/ msg' = msg /\ (w \in Handling' => w \in Handling)
           \/ w \in Handling /\ w \notin Handling'
           \/ msg = "ready" /\ msg' # "ready"
    PROVE  UnsettledOK'
  <1>1. \A v \in Workers : LeaseOK(v)'
    BY LeaseKeeps DEF Smooth, UnsettledOK
  <1>2. OverlapOK'
    BY OverlapKeeps DEF Smooth, UnsettledOK
  <1> QED BY <1>1, <1>2 DEF UnsettledOK

(* A delivery is handed back, or given up at the limit.                     *)
LEMMA RedeliverSmooth ==
    ASSUME Smooth, NEW w \in Workers, wk[w].pc \in Handlers, ~Failing(w),
           redeliver_later(w), UNCHANGED lease
    PROVE  UnsettledOK'
  <1>1. /\ Disposed(w, "release") /\ UNCHANGED <<counter, log, failed, excused>>
    BY NoFault DEF redeliver_later, nak, remove, counting
  <1>2. wk \in [Workers -> HandlerStates] /\ wk[w].held \in BOOLEAN
    BY DEF Smooth, IInv, RecordsOK, HandlerStates
  <1>3. /\ \A v \in Workers \ {w} : wk'[v] = wk[v]
        /\ wk'[w].pc = "release" /\ wk'[w].err = None /\ wk'[w].held = wk[w].held
    BY <1>1, <1>2 DEF Disposed, Idle
  <1>4. ~Counting(w) /\ ~Counting(w)' /\ ~At(w, "counted")' /\ w \notin Uncounted'
    BY <1>3 DEF Counting, Failing, At, Uncounted
  <1>5. BudgetOK'
    BY <1>1, <1>3, <1>4, QuietBudget
  <1>6. LeaseOK(w)
    BY DEF Smooth, UnsettledOK
  <1>7. LeaseOK(w)'
    BY <1>1, <1>3, <1>6 DEF LeaseOK, ClaimedError, Handlers
  <1>8. w \in Handling /\ w \notin Handling'
    BY <1>3 DEF Handling, Handlers
  <1> QED BY <1>1, <1>3, <1>5, <1>7, <1>8, WorkerStep

(* A handler goes from one place to another where no failure is under way.  *)
LEMMA IdleMoveSmooth ==
    ASSUME Smooth, NEW w \in Workers, wk[w].pc \in Handlers, ~Failing(w),
           \A v \in Workers \ {w} : wk'[v] = wk[v],
           UNCHANGED <<broker, counting>>, LeaseOK(w)',
           \/ lease' = lease
           \/ lease = None /\ lease' = w
           \/ lease = w /\ lease' = None,
           wk'[w].pc \in {"status", "acquire", "startup", "turn", "ended", "turnFailed", "done",
                          "durable", "handback", "retry"}
    PROVE  UnsettledOK'
  <1>1. w \in Handling /\ w \notin Uncounted' /\ ~At(w, "counted")'
    BY DEF Handling, Uncounted, At
  <1>2. ~Counting(w) /\ ~Counting(w)'
    BY DEF Counting, Failing
  <1>3. BudgetOK'
    BY <1>1, <1>2, QuietBudget DEF counting
  <1> QED BY <1>1, <1>3, WorkerStep DEF broker

(* A failure is noted where it happened.                                    *)
LEMMA FailsFacts ==
    ASSUME IInv, NEW w \in Workers, NEW kind \in Kinds \union {"size"}, Fails(w, kind)
    PROVE  /\ \A v \in Workers \ {w} : wk'[v] = wk[v]
           /\ wk'[w].pc = IF kind = "size" THEN "record" ELSE "count"
           /\ wk'[w].held = wk[w].held /\ wk'[w].err = kind /\ wk'[w].tries = 0
           /\ failed'.claimed = IF kind \in {"plain", "refusal"} THEN failed.claimed + 1
                                ELSE failed.claimed
           /\ UNCHANGED <<broker, counter, log, faults>>
  <1> DEFINE q == IF kind = "size" THEN "record" ELSE "count"
             r == [wk[w] EXCEPT !.err = kind, !.tries = 0, !.pc = q]
  <1>1. wk \in [Workers -> HandlerStates] /\ wk[w] \in HandlerStates
    BY DEF IInv, RecordsOK
  <1>2. r.pc = q /\ r.held = wk[w].held /\ r.err = kind /\ r.tries = 0
    BY <1>1 DEF HandlerStates
  <1>3. wk' = [wk EXCEPT ![w] = r]
    BY DEF Fails
  <1> HIDE DEF r
  <1>4. wk'[w] = r /\ \A v \in Workers \ {w} : wk'[v] = wk[v]
    BY <1>1, <1>3
  <1>5. failed'.claimed = IF kind \in {"plain", "refusal"} THEN failed.claimed + 1
                          ELSE failed.claimed
    BY DEF Fails, Kinds, IInv, RecordsOK
  <1> QED BY <1>2, <1>4, <1>5 DEF Fails

(* A handler goes on with its delivery before it has failed under a lease.  *)
LEMMA GoOnSmooth ==
    ASSUME Smooth, NEW w \in Workers, ~ClaimedError(w), UNCHANGED lease,
           wk[w].pc \in {"preflight", "status", "acquire", "startup", "counted"},
           NEW p \in {"status", "acquire", "turn", "handback"}, p = "turn" => At(w, "startup"),
           GoOn(w, p)
    PROVE  UnsettledOK'
  <1>1. /\ wk[w].pc \in Handlers /\ ~Failing(w) /\ LeaseOK(w) /\ IInv /\ p \in Handlers
        /\ Go(w, p) /\ UNCHANGED <<broker, counting>>
    BY DEF GoOn, Handlers, Failing, Smooth, UnsettledOK
  <1>2. /\ \A v \in Workers \ {w} : wk'[v] = wk[v]
        /\ wk'[w].pc = p /\ wk'[w].held = wk[w].held /\ wk'[w].err = wk[w].err
    BY <1>1, GoFacts
  <1>3. ~ClaimedError(w)'
    BY <1>1, <1>2 DEF ClaimedError
  <1>4. LeaseOK(w)'
    BY <1>1, <1>2, <1>3 DEF LeaseOK, At
  <1> QED BY <1>1, <1>2, <1>4, IdleMoveSmooth

(* Before it failed, a handler has no failure under a lease.                *)
LEMMA Unclaimed ==
    ASSUME Smooth, NEW w \in Workers,
           wk[w].pc \in {"preflight", "status", "acquire", "startup", "turn", "ended", "turnFailed"}
    PROVE  /\ ~ClaimedError(w) /\ ~Failing(w) /\ ~Counting(w) /\ LeaseOK(w)
           /\ wk[w].pc \in Handlers /\ w \in Handling
  BY DEF Smooth, UnsettledOK, LeaseOK, Failing, Counting, Handlers, Handling

(* activation_is_ready: a metadata failure begins only where nobody has the *)
(* lease.                                                                   *)
LEMMA PreflightSmooth ==
    ASSUME Smooth, NEW w \in Workers, Preflight(w)
    PROVE  UnsettledOK'
  <1>1. /\ At(w, "preflight") /\ UNCHANGED lease /\ ActivationIsReady(w) /\ payload = "good"
        /\ wk[w].pc \in {"preflight", "status", "acquire", "startup", "counted"}
        /\ ~ClaimedError(w) /\ ~Failing(w) /\ ~Counting(w) /\ LeaseOK(w)
        /\ wk[w].pc \in Handlers /\ w \in Handling
    BY NoFault, Unclaimed DEF Preflight, At, Smooth
  <1>2. CASE redeliver_later(w)
    BY <1>1, <1>2, RedeliverSmooth
  <1>3. CASE GoOn(w, "status") \/ GoOn(w, "handback")
    BY <1>1, <1>3, GoOnSmooth
  <1>4. CASE lease = None /\ Fails(w, "metadata")
    <2>1. /\ \A v \in Workers \ {w} : wk'[v] = wk[v]
          /\ wk'[w].pc = "count" /\ wk'[w].held = wk[w].held /\ wk'[w].err = "metadata"
          /\ failed'.claimed = failed.claimed /\ UNCHANGED <<broker, counter>>
      BY <1>4, FailsFacts DEF Smooth, Kinds
    <2>2. LeaseOK(w)' /\ ~ClaimedError(w)'
      BY <1>1, <2>1 DEF LeaseOK, ClaimedError, Kinds, At
    <2>3. ~Counting(w)'
      BY <2>2 DEF Counting
    <2>4. BudgetOK'
      BY <1>1, <1>4, <2>1, <2>2, <2>3, QuietBudget
    <2> QED BY <1>1, <2>1, <2>2, <2>4, WorkerStep DEF broker
  <1> QED BY <1>1, <1>2, <1>3, <1>4 DEF ActivationIsReady

(* wind_up_preflight and activation_status_preflight_finished.              *)
LEMMA CheckStatusSmooth ==
    ASSUME Smooth, NEW w \in Workers, CheckStatus(w)
    PROVE  UnsettledOK'
  <1>1. /\ wk[w].pc = "status" /\ UNCHANGED lease /\ ~log.covered
        /\ ~ClaimedError(w) /\ ~Failing(w) /\ wk[w].pc \in Handlers
    BY Unclaimed DEF CheckStatus, At, Smooth
  <1>2. CASE redeliver_later(w)
    BY <1>1, <1>2, RedeliverSmooth
  <1>3. CASE GoOn(w, "acquire")
    BY <1>1, <1>3, GoOnSmooth
  <1> QED BY <1>1, <1>2, <1>3, NoFault DEF CheckStatus

(* acquire_or_defer_activation.                                             *)
LEMMA AcquireOrDeferSmooth ==
    ASSUME Smooth, NEW w \in Workers, wk[w].pc \in {"acquire", "counted"}, ~ClaimedError(w),
           NEW p \in {"startup", "record"}, AcquireOrDefer(w, p)
    PROVE  UnsettledOK'
  <1>1. LeaseOK(w) /\ wk[w].pc \in Handlers /\ ~Failing(w)
    BY DEF Smooth, UnsettledOK, Handlers, Failing
  <1>2. CASE Holding(w, p)
    <2> DEFINE r == [wk[w] EXCEPT !.pc = p, !.held = TRUE]
    <2>1. wk \in [Workers -> HandlerStates] /\ wk[w] \in HandlerStates
      BY DEF Smooth, IInv, RecordsOK
    <2>2. r.pc = p /\ r.held = TRUE /\ r.err = wk[w].err
      BY <2>1 DEF HandlerStates
    <2>3. wk' = [wk EXCEPT ![w] = r]
      BY <1>2 DEF Holding
    <2> HIDE DEF r
    <2>4. wk'[w] = r /\ \A v \in Workers \ {w} : wk'[v] = wk[v]
      BY <2>1, <2>3
    <2>5. lease = None /\ lease' = w /\ UNCHANGED <<broker, counter, log, failed, faults>>
      BY <1>2 DEF Holding, counting
    <2>6. ~ClaimedError(w)'
      BY <1>1, <2>2, <2>4 DEF ClaimedError
    <2>7. LeaseOK(w)'
      BY <2>2, <2>4, <2>5, <2>6 DEF LeaseOK
    <2>8. /\ w \in Handling /\ w \notin Uncounted' /\ ~At(w, "counted")'
          /\ ~Counting(w) /\ ~Counting(w)'
      BY <1>1, <2>2, <2>4 DEF Handling, Uncounted, At, Counting, Failing
    <2>9. BudgetOK'
      BY <1>1, <2>4, <2>5, <2>8, QuietBudget
    <2> QED BY <2>4, <2>5, <2>7, <2>8, <2>9, WorkerStep DEF broker
  <1>3. CASE redeliver_later(w) /\ UNCHANGED lease
    BY <1>1, <1>3, RedeliverSmooth
  <1>4. CASE GoOn(w, "handback") /\ UNCHANGED lease
    BY <1>4, GoOnSmooth
  <1> QED BY <1>2, <1>3, <1>4 DEF AcquireOrDefer

(* claim_reserved_activation.                                               *)
LEMMA AcquireSmooth ==
    ASSUME Smooth, NEW w \in Workers, Acquire(w)
    PROVE  UnsettledOK'
  <1>1. wk[w].pc = "acquire" /\ AcquireOrDefer(w, "startup")
    BY NoFault DEF Acquire, At
  <1> QED BY <1>1, Unclaimed, AcquireOrDeferSmooth

(* prepare_claimed_activation: a failure here happens under the lease.      *)
LEMMA StartupSmooth ==
    ASSUME Smooth, NEW w \in Workers, Startup(w)
    PROVE  UnsettledOK'
  <1>1. /\ At(w, "startup") /\ wk[w].pc = "startup" /\ UNCHANGED lease /\ wk[w].held /\ IInv
        /\ ~ClaimedError(w) /\ ~Failing(w) /\ ~Counting(w) /\ LeaseOK(w)
        /\ wk[w].pc \in Handlers /\ w \in Handling
    BY NoFault, Unclaimed DEF Startup, At, Smooth, LeaseOK
  <1>2. CASE GoOn(w, "turn")
    BY <1>1, <1>2, GoOnSmooth
  <1>3. ASSUME NEW kind \in {"plain", "refusal", "size"}, Fails(w, kind)
        PROVE  UnsettledOK'
    <2>1. /\ \A v \in Workers \ {w} : wk'[v] = wk[v]
          /\ wk'[w].pc = IF kind = "size" THEN "record" ELSE "count"
          /\ wk'[w].held = wk[w].held /\ wk'[w].err = kind /\ wk'[w].tries = 0
          /\ failed'.claimed = IF kind \in {"plain", "refusal"} THEN failed.claimed + 1
                               ELSE failed.claimed
          /\ UNCHANGED <<broker, counter, log, faults>>
      BY <1>1, <1>3, FailsFacts DEF Kinds
    <2>2. LeaseOK(w)'
      BY <1>1, <2>1 DEF LeaseOK, Kinds, ClaimedError
    <2>3. CASE kind = "size"
      <3>1. ~Counting(w)' /\ ~At(w, "counted")' /\ w \notin Uncounted'
        BY <2>1, <2>3 DEF Counting, At, Uncounted
      <3>2. BudgetOK'
        BY <1>1, <2>1, <2>3, <3>1, QuietBudget
      <3> QED BY <1>1, <2>1, <2>2, <3>2, WorkerStep DEF broker
    <2>4. CASE kind # "size"
      <3>1. ClaimedError(w)' /\ At(w, "count")'
        BY <2>1, <2>4 DEF ClaimedError, Handlers, At
      <3>2. BudgetOK'
        BY <1>1, <2>1, <2>4, <3>1, FailBudget
      <3> QED BY <1>1, <2>1, <2>2, <3>2, WorkerStep DEF broker
    <2> QED BY <2>3, <2>4
  <1> QED BY <1>2, <1>3, NoFault DEF Startup

(* A turn that settles nothing ended with its prompt queued, or could not   *)
(* record that it was too large.                                            *)
LEMMA TurnSmooth ==
    ASSUME Smooth, NEW w \in Workers, Turn(w)
    PROVE  UnsettledOK'
  <1>1. /\ wk[w].pc = "turn" /\ UNCHANGED lease /\ wk[w].held /\ IInv
        /\ UNCHANGED <<broker, counting>> /\ lease = w
        /\ ~Failing(w) /\ LeaseOK(w) /\ wk[w].pc \in Handlers
    BY Unclaimed DEF Turn, At, Smooth, LeaseOK
  <1>2. log' # Recorded
    BY LogFacts DEF Smooth
  <1>3. CASE Go(w, "ended")
    <2>1. /\ \A v \in Workers \ {w} : wk'[v] = wk[v]
          /\ wk'[w].pc = "ended" /\ wk'[w].held = wk[w].held /\ wk'[w].err = wk[w].err
      BY <1>1, <1>3, GoFacts DEF Handlers
    <2>2. ~ClaimedError(w)'
      BY <1>1, <2>1, Unclaimed DEF ClaimedError, Handlers
    <2>3. LeaseOK(w)'
      BY <1>1, <2>1, <2>2 DEF LeaseOK
    <2> QED BY <1>1, <2>1, <2>3, IdleMoveSmooth
  <1>4. ~RecordError(w, None, "turnFailed", "erred")
    BY <1>1, <1>2, NoFault, DeliveryConstants DEF RecordError, Fates
  <1>5. CASE RecordError(w, "size", "turnFailed", "turnFailed")
    <2> DEFINE r == [wk[w] EXCEPT !.pc = "turnFailed", !.err = "size"]
    <2>1. wk \in [Workers -> HandlerStates] /\ wk[w] \in HandlerStates
      BY <1>1 DEF IInv, RecordsOK
    <2>2. r.pc = "turnFailed" /\ r.held = wk[w].held /\ r.err = "size"
      BY <2>1 DEF HandlerStates
    <2>3. wk' = [wk EXCEPT ![w] = r]
      BY <1>2, <1>5, NoFault DEF RecordError
    <2> HIDE DEF r
    <2>4. wk'[w] = r /\ \A v \in Workers \ {w} : wk'[v] = wk[v]
      BY <2>1, <2>3
    <2>5. LeaseOK(w)'
      BY <1>1, <2>2, <2>4 DEF LeaseOK, ClaimedError
    <2> QED BY <1>1, <2>2, <2>4, <2>5, IdleMoveSmooth
  <1> QED BY <1>3, <1>4, <1>5 DEF Turn

(* finish_execution: the lease goes before the delivery.                    *)
LEMMA FinishSmooth ==
    ASSUME Smooth, NEW w \in Workers, Finish(w)
    PROVE  UnsettledOK'
  <1>1. /\ wk[w].pc \in {"ended", "turnFailed"} /\ wk[w].held /\ lease = w /\ IInv
        /\ ~ClaimedError(w) /\ ~Failing(w) /\ LeaseOK(w) /\ wk[w].pc \in Handlers
        /\ UNCHANGED <<broker, counting>> /\ lease' = None
    <2>1. wk[w].pc \in {"ended", "turnFailed"} /\ UNCHANGED <<broker, counting>> /\ IInv
      BY DEF Finish, Smooth, UnsettledOK, LeaseOK
    <2>2. /\ ~ClaimedError(w) /\ ~Failing(w) /\ LeaseOK(w) /\ wk[w].pc \in Handlers
      BY <2>1, Unclaimed
    <2>3. wk[w].held /\ lease = w
      BY <2>1, <2>2 DEF LeaseOK
    <2> QED BY <2>1, <2>2, <2>3 DEF Finish, Freed
  <1>2. PICK p \in {"done", "retry", "durable"} : Go(w, p)
    BY <1>1, NoFault DEF Finish
  <1>3. p \in Handlers
    BY DEF Handlers
  <1>4. /\ \A v \in Workers \ {w} : wk'[v] = wk[v]
        /\ wk'[w].pc = p /\ wk'[w].held = wk[w].held /\ wk'[w].err = wk[w].err
    BY <1>1, <1>2, <1>3, GoFacts
  <1>5. ~ClaimedError(w)' /\ lease' # w
    BY <1>1, <1>4, DeliveryConstants DEF ClaimedError
  <1>6. LeaseOK(w)'
    BY <1>1, <1>4, <1>5 DEF LeaseOK
  <1> QED BY <1>1, <1>4, <1>6, IdleMoveSmooth

(* The ways back after a failure, and the ways out of the stream, which are *)
(* none that the limit explains.                                            *)
LEMMA SettleSmooth ==
    ASSUME Smooth, NEW w \in Workers, Settle(w) \/ Terminate(w) \/ Retry(w)
    PROVE  UnsettledOK'
  <1>1. LeaseOK(w)
    BY DEF Smooth, UnsettledOK
  <1>2. ASSUME NEW reason \in Fates \ {"limit"} PROVE ~remove(w, reason, "clear")
    BY NoFault, DeliveryConstants DEF remove, Smooth, Undecided
  <1>3. ~Settle(w) /\ ~Terminate(w)
    BY <1>1, <1>2, NoFault
       DEF Settle, Terminate, Reason, Fates, At, LeaseOK, acknowledge_activation,
           terminate_activation
  <1>4. wk[w].pc \in {"retry", "handback"} /\ redeliver_later(w) /\ UNCHANGED lease
    BY <1>3, NoFault DEF Retry, At, HandBack
  <1>5. wk[w].pc \in Handlers /\ ~Failing(w)
    BY <1>4 DEF Handlers, Failing
  <1> QED BY <1>4, <1>5, RedeliverSmooth

-----------------------------------------------------------------------------
(* A step of increment: of a failure under a lease that goes on counting, a *)
(* race lost or not, or of one that no lease covers.                        *)
LEMMA CountSmooth ==
    ASSUME Smooth, NEW w \in Workers, wk[w].pc \in {"count", "write"},
           \A v \in Workers \ {w} : wk'[v] = wk[v],
           UNCHANGED <<broker, counter, lease, failed>>,
           wk'[w].held = wk[w].held, wk'[w].err = wk[w].err,
           \/ wk'[w].pc \in {"count", "write"} /\ ~Stale(w)'
           \/ wk'[w].pc \in {"retry", "handback"} /\ ~ClaimedError(w),
           ClaimedError(w) =>
              wk'[w].tries = IF Stale(w) THEN wk[w].tries + 1 ELSE wk[w].tries
    PROVE  UnsettledOK'
  <1>1. LeaseOK(w) /\ w \in Handling /\ w \in Uncounted
    BY DEF Smooth, UnsettledOK, Handling, Handlers, Uncounted
  <1>2. LeaseOK(w)' /\ (ClaimedError(w)' <=> ClaimedError(w))
    BY <1>1 DEF LeaseOK, ClaimedError, Handlers
  <1>3. BudgetOK'
    <2>1. CASE ClaimedError(w)
      <3>1. Counting(w) /\ Counting(w)'
        BY <1>2, <2>1 DEF Counting
      <3> QED BY <2>1, <3>1, CountBudget
    <2>2. CASE ~ClaimedError(w)
      <3>1. ~Counting(w) /\ ~Counting(w)' /\ ~Failing(w)
        BY <1>2, <2>2 DEF Counting, Failing
      <3> QED BY <1>1, <1>2, <2>2, <3>1, QuietBudget
    <2> QED BY <2>1, <2>2
  <1> QED BY <1>1, <1>2, <1>3, WorkerStep DEF broker

(* snapshot.                                                                *)
LEMMA SnapshotSmooth ==
    ASSUME Smooth, NEW w \in Workers, Snapshot(w)
    PROVE  UnsettledOK'
  <1> DEFINE m == IF counter.op = "put" THEN counter.count + 1 ELSE 1
             k == IF counter.op = "put" THEN counter.rev ELSE 0
             r == [wk[w] EXCEPT !.pc = "write", !.n = m, !.rev = k]
  <1>1. /\ At(w, "count") /\ UNCHANGED <<broker, counter, lease, failed>>
        /\ wk' = [wk EXCEPT ![w].pc = "write", ![w].n = m, ![w].rev = k]
    BY NoFault DEF Snapshot, CounterStep
  <1>2. wk \in [Workers -> HandlerStates] /\ wk[w] \in HandlerStates
    BY DEF Smooth, IInv, RecordsOK
  <1>3. wk' = [wk EXCEPT ![w] = r]
    BY <1>1
  <1>4. /\ r.pc = "write" /\ r.rev = k /\ r.held = wk[w].held /\ r.err = wk[w].err
        /\ r.tries = wk[w].tries
    BY <1>2 DEF HandlerStates
  <1>5. k = 0 <=> counter.op # "put"
    BY DEF Smooth, IInv, CounterOK
  <1>6. k # 0 => k = counter.rev
    OBVIOUS
  <1> HIDE DEF r, k
  <1>7. wk'[w] = r /\ \A v \in Workers \ {w} : wk'[v] = wk[v]
    BY <1>2, <1>3
  <1>8. ~Stale(w)' /\ ~Stale(w)
    BY <1>1, <1>4, <1>5, <1>6, <1>7 DEF Stale, At, Applies
  <1> QED BY <1>1, <1>4, <1>7, <1>8, CountSmooth DEF At

(* A race is lost; a failure under a lease has attempts left.               *)
LEMMA ConflictSmooth ==
    ASSUME Smooth, NEW w \in Workers, At(w, "write"), Stale(w), Conflict(w),
           UNCHANGED <<broker, counter, lease, failed>>
    PROVE  UnsettledOK'
  <1>1. /\ wk \in [Workers -> HandlerStates] /\ wk[w] \in HandlerStates /\ LeaseOK(w)
        /\ IInv /\ BudgetOK
    BY DEF Smooth, IInv, RecordsOK, UnsettledOK
  <1>2. ClaimedError(w) => wk[w].tries + 1 < CAS_RETRY_LIMIT
    <2> SUFFICES ASSUME ClaimedError(w) PROVE wk[w].tries + 1 < CAS_RETRY_LIMIT
      OBVIOUS
    <2>1. Races(w) <= MaxEarly /\ MaxEarly < CAS_RETRY_LIMIT
      BY <1>1 DEF BudgetOK, Counting, At, Smooth
    <2>2. /\ wk[w].tries \in Nat /\ Cardinality(Uncounted \ {w}) \in Nat
          /\ MaxEarly \in Nat /\ CAS_RETRY_LIMIT \in Nat
      BY <1>1, BudgetTypes
    <2>3. wk[w].tries + 1 + Cardinality(Uncounted \ {w}) <= MaxEarly
      BY <2>1 DEF Races
    <2> QED BY <2>1, <2>2, <2>3
  <1>3. CASE wk[w].tries + 1 < CAS_RETRY_LIMIT
    <2> DEFINE r == [wk[w] EXCEPT !.pc = "count", !.tries = @ + 1]
    <2>1. wk' = [wk EXCEPT ![w] = r]
      BY <1>3 DEF Conflict
    <2>2. /\ r.pc = "count" /\ r.held = wk[w].held /\ r.err = wk[w].err
          /\ r.tries = wk[w].tries + 1
      BY <1>1 DEF HandlerStates
    <2> HIDE DEF r
    <2>3. wk'[w] = r /\ \A v \in Workers \ {w} : wk'[v] = wk[v]
      BY <1>1, <2>1
    <2>4. ~Stale(w)'
      BY <2>2, <2>3 DEF Stale, At
    <2> QED BY <2>2, <2>3, <2>4, CountSmooth DEF At
  <1>4. CASE ~(wk[w].tries + 1 < CAS_RETRY_LIMIT)
    <2> DEFINE p == IF wk[w].err = "metadata" /\ ~Targeted THEN "handback" ELSE "retry"
    <2>1. Counted(w, p) /\ ~ClaimedError(w) /\ p \in Handlers /\ p \in {"handback", "retry"}
      BY <1>2, <1>4 DEF Conflict, Unavailable, Handlers
    <2> HIDE DEF p
    <2>2. /\ \A v \in Workers \ {w} : wk'[v] = wk[v]
          /\ wk'[w].pc = p /\ wk'[w].held = wk[w].held /\ wk'[w].err = wk[w].err
      BY <1>1, <2>1, CountedFacts
    <2> QED BY <2>1, <2>2, CountSmooth DEF At
  <1> QED BY <1>3, <1>4

(* A write that is applied at the revision it read.                         *)
LEMMA PutSmooth ==
    ASSUME Smooth, NEW w \in Workers, At(w, "write"), ~Stale(w), counter' = Put(wk[w].n),
           Go(w, "counted"), UNCHANGED <<broker, lease, failed>>
    PROVE  UnsettledOK'
  <1>1. IInv /\ LeaseOK(w) /\ HandlerOK(w) /\ CounterOK /\ counter.count \in Nat
    BY BudgetTypes DEF Smooth, UnsettledOK, IInv
  <1>2. wk[w].n = counter.count + 1
    BY <1>1 DEF HandlerOK, CounterOK, Stale, At, Applies
  <1>3. /\ \A v \in Workers \ {w} : wk'[v] = wk[v]
        /\ wk'[w].pc = "counted" /\ wk'[w].n = wk[w].n /\ wk'[w].held = wk[w].held
        /\ wk'[w].err = wk[w].err
    BY <1>1, GoFacts DEF Handlers
  <1>4. counter'.op = "put" /\ counter'.count = counter.count + 1
    BY <1>2 DEF Put
  <1>5. BudgetOK'
    BY <1>2, <1>3, <1>4, PutBudget DEF At
  <1>6. LeaseOK(w)' /\ w \in Handling
    BY <1>1, <1>3 DEF LeaseOK, ClaimedError, At, Handling, Handlers
  <1> QED BY <1>3, <1>5, <1>6, WorkerStep DEF broker

(* Create and Update.                                                       *)
LEMMA WriteSmooth ==
    ASSUME Smooth, NEW w \in Workers, Create(w) \/ Update(w)
    PROVE  UnsettledOK'
  <1>1. At(w, "write") /\ UNCHANGED <<broker, lease, failed>>
    BY DEF Create, Update, CounterStep
  <1>2. \/ ~Stale(w) /\ counter' = Put(wk[w].n) /\ Go(w, "counted")
        \/ Stale(w) /\ Conflict(w) /\ UNCHANGED counter
    BY NoFault DEF Create, Update, Answered, Stale, At
  <1> QED BY <1>1, <1>2, PutSmooth, ConflictSmooth

(* classify_pre_turn_failure: a failure under a lease that finds the budget *)
(* spent goes to the log, and one that does not is below the budget.        *)
LEMMA ClassifySmooth ==
    ASSUME Smooth, NEW w \in Workers, Classify(w)
    PROVE  UnsettledOK'
  <1>1. /\ At(w, "counted") /\ LeaseOK(w) /\ IInv /\ BudgetOK /\ wk[w].err \in Kinds
        /\ wk[w].pc \in Handlers /\ w \in Handling /\ ~Counting(w)
    BY DEF Classify, Smooth, UnsettledOK, LeaseOK, At, Handlers, Handling, Counting
  <1>2. CASE BudgetSpent(w) /\ wk[w].err = "metadata"
    <2>1. AcquireOrDefer(w, "record") /\ ~ClaimedError(w) /\ wk[w].pc = "counted"
      BY <1>1, <1>2 DEF Classify, ClaimedError, At
    <2> QED BY <2>1, AcquireOrDeferSmooth
  <1>3. CASE BudgetSpent(w) /\ wk[w].err # "metadata"
    <2>1. Counted(w, "record") /\ UNCHANGED <<broker, counter, log, lease, failed, faults>>
      BY <1>3 DEF Classify, counting
    <2>2. /\ \A v \in Workers \ {w} : wk'[v] = wk[v]
          /\ wk'[w].pc = "record" /\ wk'[w].held = wk[w].held /\ wk'[w].err = wk[w].err
      BY <1>1, <2>1, CountedFacts DEF Handlers
    <2>3. ClaimedError(w) /\ ClaimedError(w)' /\ wk[w].held
      BY <1>1, <1>3, <2>2 DEF ClaimedError, Kinds, Handlers, LeaseOK
    <2>4. LeaseOK(w)'
      BY <1>1, <2>1, <2>2, <2>3 DEF LeaseOK
    <2>5. Failing(w)' /\ ~Counting(w)' /\ ~At(w, "counted")' /\ w \notin Uncounted'
      BY <2>2, <2>3 DEF Failing, Counting, At, Uncounted
    <2>6. BudgetOK'
      BY <1>1, <2>1, <2>2, <2>5, QuietBudget
    <2> QED BY <1>1, <2>1, <2>2, <2>4, <2>6, WorkerStep DEF broker
  <1>4. CASE ~BudgetSpent(w)
    <2> DEFINE p == IF wk[w].err = "metadata" /\ ~Targeted THEN "handback" ELSE "retry"
    <2>1. /\ Counted(w, p) /\ p \in Handlers /\ p \in {"handback", "retry"}
          /\ p = "handback" => ~ClaimedError(w)
          /\ UNCHANGED <<broker, counter, log, lease, failed, faults>>
      BY <1>4 DEF Classify, Unavailable, Handlers, counting, ClaimedError
    <2> HIDE DEF p
    <2>2. /\ \A v \in Workers \ {w} : wk'[v] = wk[v]
          /\ wk'[w].pc = p /\ wk'[w].held = wk[w].held /\ wk'[w].err = wk[w].err
      BY <1>1, <2>1, CountedFacts
    <2>3. LeaseOK(w)' /\ ~Counting(w)' /\ ~At(w, "counted")' /\ w \notin Uncounted'
      BY <1>1, <2>1, <2>2 DEF LeaseOK, ClaimedError, Counting, At, Uncounted
    <2>4. Failing(w) => failed.claimed < MAX_ACTIVATION_FAILURES
      <3> SUFFICES ASSUME Failing(w) PROVE failed.claimed < MAX_ACTIVATION_FAILURES
        OBVIOUS
      <3>1. failed.claimed <= wk[w].n
        BY <1>1 DEF Failing, BudgetOK
      <3>2. /\ wk[w].n < MAX_ACTIVATION_FAILURES
            /\ wk[w].n \in Nat /\ failed.claimed \in Nat /\ MAX_ACTIVATION_FAILURES \in Nat
        BY <1>1, <1>4, BudgetTypes, DeliveryConstants DEF BudgetSpent
      <3> QED BY <3>1, <3>2
    <2>5. BudgetOK'
      BY <1>1, <2>1, <2>2, <2>3, <2>4, QuietBudget
    <2> QED BY <1>1, <2>1, <2>2, <2>3, <2>5, WorkerStep DEF broker
  <1> QED BY <1>2, <1>3, <1>4

(* The end of a handler that clears nothing: its prompt is not settled.     *)
LEMMA ReleaseSmooth ==
    ASSUME Smooth, NEW w \in Workers, Release(w)
    PROVE  UnsettledOK'
  <1>1. LeaseOK(w) /\ wk \in [Workers -> HandlerStates]
    BY DEF Smooth, UnsettledOK, IInv, RecordsOK
  <1>2. /\ wk[w].pc = "release" /\ lease' = Freed(w)
        /\ UNCHANGED <<broker, counter, log, failed>>
    BY <1>1 DEF Release, LeaseOK, Cleared, At
  <1>3. /\ \A v \in Workers \ {w} : wk'[v] = wk[v]
        /\ wk'[w].pc = "idle" /\ wk'[w].held = FALSE
    BY <1>1 DEF Release, Idle
  <1>4. (lease' = lease \/ (lease = w /\ lease' = None)) /\ lease' # w
    BY <1>2, DeliveryConstants DEF Freed
  <1>5. LeaseOK(w)'
    BY <1>3, <1>4 DEF LeaseOK, ClaimedError, Handlers
  <1>6. /\ ~Counting(w) /\ ~Counting(w)' /\ ~Failing(w) /\ ~At(w, "counted")'
        /\ w \notin Uncounted' /\ w \notin Handling'
    BY <1>2, <1>3 DEF Counting, Failing, At, Uncounted, Handling, Handlers
  <1>7. BudgetOK'
    BY <1>2, <1>3, <1>6, QuietBudget
  <1> QED BY <1>2, <1>3, <1>4, <1>5, <1>6, <1>7, WorkerStep DEF broker

(* The message reaches a worker, which may still be busy with it.           *)
LEMMA DeliverSmooth ==
    ASSUME Smooth, NEW w \in Workers, Deliver(w)
    PROVE  UnsettledOK'
  <1>1. LeaseOK(w) /\ BudgetOK /\ wk \in [Workers -> HandlerStates] /\ wk[w] \in HandlerStates
    BY DEF Smooth, UnsettledOK, IInv, RecordsOK
  <1>2. /\ msg = "ready" /\ msg' # "ready" /\ UNCHANGED <<excused, counter, lease, failed>>
    BY DEF Deliver, counting
  <1>3. CASE At(w, "idle")
    <2> DEFINE r == [wk[w] EXCEPT !.pc = "preflight", !.d = delivered']
    <2>1. wk' = [wk EXCEPT ![w] = r]
      BY <1>3 DEF Deliver
    <2>2. r.pc = "preflight" /\ r.held = wk[w].held /\ r.err = wk[w].err
      BY <1>1 DEF HandlerStates
    <2> HIDE DEF r
    <2>3. wk'[w] = r /\ \A v \in Workers \ {w} : wk'[v] = wk[v]
      BY <1>1, <2>1
    <2>4. /\ ~Counting(w) /\ ~Counting(w)' /\ ~Failing(w) /\ ~At(w, "counted")'
          /\ w \notin Uncounted'
      BY <1>3, <2>2, <2>3 DEF Counting, Failing, At, Uncounted
    <2>5. wk[w].err = None /\ wk[w].held = FALSE
      BY <1>3 DEF Smooth, IInv, HandlerOK, Idle
    <2>6. LeaseOK(w)'
      BY <1>1, <1>2, <2>2, <2>3, <2>5, DeliveryConstants
         DEF LeaseOK, ClaimedError, Kinds
    <2>7. BudgetOK'
      BY <1>2, <2>3, <2>4, QuietBudget
    <2> QED BY <1>2, <2>3, <2>6, <2>7, WorkerStep
  <1>4. CASE ~At(w, "idle")
    <2>1. wk' = wk
      BY <1>4 DEF Deliver
    <2>2. LeaseOK(w)'
      BY <1>1, <1>2, <2>1 DEF LeaseOK, ClaimedError
    <2>3. BudgetOK'
      BY <1>1, <1>2, <2>1
         DEF BudgetOK, Counting, Failing, ClaimedError, Races, Stale, At, Uncounted, Applies
    <2> QED BY <1>2, <2>1, <2>2, <2>3, WorkerStep
  <1> QED BY <1>3, <1>4

(* An ack wait runs out: only below MaxEarly under a handler.               *)
LEMMA AckWaitExpiresSmooth ==
    ASSUME Smooth, AckWaitExpires
    PROVE  UnsettledOK'
  <1>1. /\ IInv /\ OverlapOK /\ BudgetOK /\ \A v \in Workers : LeaseOK(v)
        /\ msg = "out" /\ excused' = excused + 1 /\ UNCHANGED <<counter, lease, wk, failed>>
    BY DEF Smooth, UnsettledOK, AckWaitExpires, counting
  <1>2. (\A v \in Workers : LeaseOK(v)') /\ BudgetOK'
    BY <1>1
       DEF LeaseOK, BudgetOK, Counting, Failing, ClaimedError, Races, Stale, At, Uncounted, Applies
  <1>3. OverlapOK'
    <2>1. /\ Handling' = Handling /\ IsFiniteSet(Handling) /\ Cardinality(Handling) \in Nat
          /\ excused \in Nat /\ MaxEarly \in Nat
      BY <1>1, FS_CardinalityType, DeliveryConstants DEF Handling, OverlapOK, IInv, RecordsOK
    <2>2. CASE excused < MaxEarly
      BY <1>1, <2>1, <2>2 DEF OverlapOK, Pending
    <2>3. CASE \A v \in Workers : At(v, "idle")
      <3>1. Handling = {}
        BY <2>3 DEF Handling, Handlers, At
      <3>2. Cardinality(Handling) = 0
        BY <3>1, FS_EmptySet
      <3> QED BY <1>1, <2>1, <3>2 DEF OverlapOK, Pending
    <2> QED BY <2>2, <2>3 DEF AckWaitExpires
  <1> QED BY <1>2, <1>3 DEF UnsettledOK

(* Other work of the session takes or leaves the lease, or nothing happens. *)
LEMMA SurroundingsSmooth ==
    ASSUME Smooth, UNCHANGED <<msg, excused, counter, wk, failed>>,
           \/ lease' = lease
           \/ lease \notin Workers /\ lease' \notin Workers
    PROVE  UnsettledOK'
  <1>1. OverlapOK /\ BudgetOK /\ \A v \in Workers : LeaseOK(v)
    BY DEF Smooth, UnsettledOK
  <1>2. BudgetOK'
    BY <1>1 DEF BudgetOK, Counting, Failing, ClaimedError, Races, Stale, At, Uncounted, Applies
  <1>3. OverlapOK'
    BY <1>1 DEF OverlapOK, Pending, Handling
  <1>4. \A v \in Workers : LeaseOK(v)'
    BY <1>1 DEF LeaseOK, ClaimedError
  <1> QED BY <1>2, <1>3, <1>4 DEF UnsettledOK

(* A turn that released its lease sees that it has it no more.              *)
LEMMA NoticeLossSmooth ==
    ASSUME Smooth, NEW w \in Workers, NoticeLoss(w)
    PROVE  UnsettledOK'
  <1> DEFINE r == [wk[w] EXCEPT !.held = FALSE]
  <1>1. /\ LeaseOK(w) /\ wk \in [Workers -> HandlerStates] /\ wk[w] \in HandlerStates
        /\ wk' = [wk EXCEPT ![w] = r] /\ wk[w].held /\ lease # w
        /\ UNCHANGED <<broker, counter, lease, failed>>
    BY DEF Smooth, UnsettledOK, IInv, RecordsOK, NoticeLoss, counting
  <1>2. r.pc = wk[w].pc /\ r.held = FALSE /\ r.err = wk[w].err
    BY <1>1 DEF HandlerStates
  <1> HIDE DEF r
  <1>3. wk'[w] = r /\ \A v \in Workers \ {w} : wk'[v] = wk[v]
    BY <1>1
  <1>4. wk[w].pc \in {"done", "durable", "retry", "release"} /\ ~ClaimedError(w)
    BY <1>1 DEF LeaseOK
  <1>5. ~ClaimedError(w)'
    BY <1>2, <1>3, <1>4 DEF ClaimedError
  <1>6. LeaseOK(w)'
    BY <1>1, <1>2, <1>3, <1>4, <1>5 DEF LeaseOK
  <1>7. /\ ~Counting(w) /\ ~Counting(w)' /\ ~Failing(w) /\ ~At(w, "counted")'
        /\ w \notin Uncounted' /\ (w \in Handling' => w \in Handling)
    BY <1>2, <1>3, <1>4 DEF Counting, Failing, At, Uncounted, Handling
  <1>8. BudgetOK'
    BY <1>1, <1>3, <1>7, QuietBudget
  <1> QED BY <1>1, <1>3, <1>6, <1>7, <1>8, WorkerStep DEF broker

(* durabilize_pre_turn_failure: only a size rejection records nothing.      *)
LEMMA DurabilizeSmooth ==
    ASSUME Smooth, NEW w \in Workers, Durabilize(w)
    PROVE  UnsettledOK'
  <1> DEFINE r == [wk[w] EXCEPT !.pc = "durable", !.err = wk[w].err]
  <1>1. /\ wk[w].pc = "record" /\ wk[w].held /\ LeaseOK(w) /\ wk[w] \in HandlerStates
        /\ wk \in [Workers -> HandlerStates] /\ UNCHANGED <<broker, counting, lease>>
    BY DEF Smooth, UnsettledOK, IInv, RecordsOK, LeaseOK, Durabilize, At
  <1>2. log' # Recorded
    BY LogFacts DEF Smooth
  <1>3. wk[w].err = "size" /\ wk' = [wk EXCEPT ![w] = r]
    BY <1>1, <1>2, NoFault DEF Durabilize, RecordError
  <1>4. r.pc = "durable" /\ r.held = wk[w].held /\ r.err = wk[w].err
    BY <1>1 DEF HandlerStates
  <1> HIDE DEF r
  <1>5. wk'[w] = r /\ \A v \in Workers \ {w} : wk'[v] = wk[v]
    BY <1>1, <1>3
  <1>6. LeaseOK(w)' /\ ~Failing(w) /\ wk[w].pc \in Handlers
    BY <1>1, <1>3, <1>4, <1>5 DEF LeaseOK, ClaimedError, Failing, Handlers
  <1> QED BY <1>1, <1>4, <1>5, <1>6, IdleMoveSmooth

(* Every step of a handler.  The others are those of a settled prompt or of *)
(* a fault.                                                                 *)
LEMMA HandlerSmooth ==
    ASSUME Smooth, NEW w \in Workers, Handler(w)
    PROVE  UnsettledOK'
  <1>1. ~Confirm(w)
    BY DEF Smooth, UnsettledOK, LeaseOK, Confirm, At
  <1> QED BY <1>1, PreflightSmooth, CheckStatusSmooth, AcquireSmooth, StartupSmooth,
             TurnSmooth, FinishSmooth, SettleSmooth, SnapshotSmooth, WriteSmooth,
             ClassifySmooth, DurabilizeSmooth, ReleaseSmooth DEF Handler

(* Every step without a fault, before the prompt is settled.                *)
LEMMA NextSmooth ==
    ASSUME Smooth, [Next]_vars
    PROVE  UnsettledOK'
  <1>1. CASE AckWaitExpires
    BY <1>1, AckWaitExpiresSmooth
  <1>2. CASE OtherHolder \/ InvocationReplaced \/ UNCHANGED vars
    <2>1. \/ lease' = lease
          \/ lease \notin Workers /\ lease' \notin Workers
      BY <1>2, DeliveryConstants DEF OtherHolder, InvocationReplaced, vars
    <2>2. UNCHANGED <<msg, excused, counter, wk, failed>>
      BY <1>2 DEF OtherHolder, InvocationReplaced, vars, broker, counting
    <2> QED BY <2>1, <2>2, SurroundingsSmooth
  <1>3. ~LandsLate /\ ~CounterExpires
    BY DEF Smooth, LandsLate, CounterExpires, IInv, RecordsOK, SlipStates
  <1>4. ASSUME NEW w \in Workers, Deliver(w) \/ Handler(w) \/ NoticeLoss(w)
        PROVE  UnsettledOK'
    BY <1>4, DeliverSmooth, HandlerSmooth, NoticeLossSmooth
  <1>5. ASSUME NEW w \in Workers
        PROVE  ~LoseLease(w) /\ ~LeaseExpires(w) /\ ~Crash(w) /\ ~Shutdown(w) /\ ~Restart(w)
    <2>1. lease = w => wk[w].held
      BY DEF Smooth, UnsettledOK, LeaseOK
    <2> QED BY <2>1, NoFault DEF LoseLease, LeaseExpires, Crash, Shutdown, Restart
  <1> QED BY <1>1, <1>2, <1>3, <1>4, <1>5 DEF Next

-----------------------------------------------------------------------------
(* A step of a worker that does not take it to a claim.                     *)
Elsewhere(w) ==
    /\ failed'.claimed = failed.claimed /\ wk'[w].pc \notin Claims
    /\ \A v \in Workers \ {w} : wk'[v] = wk[v]

(* A delivery is disposed of, or its ack could not be published.            *)
LEMMA DisposedElsewhere ==
    ASSUME IInv, NEW w \in Workers, UNCHANGED failed, NEW p \in {"clear", "release"},
           Disposed(w, p) \/ Go(w, "handback")
    PROVE  Elsewhere(w)
  <1>1. wk \in [Workers -> HandlerStates]
    BY DEF IInv, RecordsOK
  <1>2. CASE Disposed(w, p)
    <2> DEFINE r == [Idle EXCEPT !.pc = p, !.held = wk[w].held]
    <2>1. r.pc = p /\ wk' = [wk EXCEPT ![w] = r]
      BY <1>2 DEF Disposed, Idle
    <2> HIDE DEF r
    <2>2. wk'[w] = r /\ \A v \in Workers \ {w} : wk'[v] = wk[v]
      BY <1>1, <2>1
    <2> QED BY <2>1, <2>2 DEF Elsewhere, Claims
  <1>3. CASE Go(w, "handback")
    <2>1. "handback" \in Handlers
      BY DEF Handlers
    <2> QED BY <1>3, <2>1, GoFacts DEF Elsewhere, Claims
  <1> QED BY <1>2, <1>3

(* nak, ack and Term.                                                       *)
LEMMA DispositionElsewhere ==
    ASSUME IInv, NEW w \in Workers
    PROVE  /\ nak(w) => Elsewhere(w)
           /\ shutdown_nak(w) => Elsewhere(w)
           /\ \A reason : terminate_activation(w, reason) => Elsewhere(w)
           /\ \A reason : acknowledge_activation(w, reason) => Elsewhere(w)
           /\ redeliver_later(w) => Elsewhere(w)
  <1>1. nak(w) => Elsewhere(w)
    BY DisposedElsewhere DEF nak, counting
  <1>2. ASSUME NEW reason, NEW p \in {"clear", "release"}, remove(w, reason, p)
        PROVE  Elsewhere(w)
    <2>1. UNCHANGED failed
      BY <1>2 DEF remove, counting
    <2>2. Disposed(w, p) \/ Disposed(w, "release") \/ Go(w, "handback")
      BY <1>2 DEF remove, PublishFails
    <2> QED BY <2>1, <2>2, DisposedElsewhere
  <1> QED BY <1>1, <1>2
          DEF shutdown_nak, terminate_activation, acknowledge_activation, redeliver_later

(* A worker is at p, the others where they were.                            *)
Goes(w, p) == wk'[w].pc = p /\ \A v \in Workers \ {w} : wk'[v] = wk[v]

(* The handler's ways from one place to another.                            *)
LEMMA GoesFacts ==
    ASSUME IInv, NEW w \in Workers, NEW p
    PROVE  /\ Go(w, p) => Goes(w, p)
           /\ \A e : wk' = [wk EXCEPT ![w].pc = p, ![w].err = e] => Goes(w, p)
           /\ Holding(w, p) => Goes(w, p)
           /\ Counted(w, p) => Goes(w, p)
  <1>1. wk \in [Workers -> HandlerStates] /\ wk[w] \in HandlerStates
    BY DEF IInv, RecordsOK
  <1>2. ASSUME NEW r, r.pc = p, wk' = [wk EXCEPT ![w] = r]
        PROVE  Goes(w, p)
    BY <1>1, <1>2 DEF Goes
  <1>3. Go(w, p) => Goes(w, p)
    <2>1. [wk[w] EXCEPT !.pc = p].pc = p
      BY <1>1 DEF HandlerStates
    <2> QED BY <1>2, <2>1 DEF Go
  <1>4. ASSUME NEW e, wk' = [wk EXCEPT ![w].pc = p, ![w].err = e]
        PROVE  Goes(w, p)
    <2>1. [wk[w] EXCEPT !.pc = p, !.err = e].pc = p
      BY <1>1 DEF HandlerStates
    <2> QED BY <1>2, <1>4, <2>1
  <1>5. Holding(w, p) => Goes(w, p)
    <2>1. [wk[w] EXCEPT !.pc = p, !.held = TRUE].pc = p
      BY <1>1 DEF HandlerStates
    <2> QED BY <1>2, <2>1 DEF Holding
  <1>6. Counted(w, p) => Goes(w, p)
    <2>1. [wk[w] EXCEPT !.pc = p, !.n = 0, !.rev = 0, !.tries = 0].pc = p
      BY <1>1 DEF HandlerStates
    <2> QED BY <1>2, <2>1 DEF Counted
  <1> QED BY <1>3, <1>4, <1>5, <1>6

(* The handler goes on to a place that is no claim.                         *)
LEMMA GoesElsewhere ==
    ASSUME IInv, NEW w \in Workers, UNCHANGED failed, NEW p, p \notin Claims, Goes(w, p)
    PROVE  Elsewhere(w)
  BY DEF Goes, Elsewhere

(* A message that is malformed or has no metadata is terminated, deferred   *)
(* or counted in its preflight: nothing fails under a lease.                *)
LEMMA HandlerElsewhere ==
    ASSUME IInv, UnclaimedOK, payload # "good", NEW w \in Workers, Handler(w)
    PROVE  Elsewhere(w)
  <1> USE DEF At, Claims
  <1>1. ~CheckStatus(w) /\ ~Acquire(w) /\ ~Startup(w)
    BY DEF UnclaimedOK, CheckStatus, Acquire, Startup
  <1>2. CASE Preflight(w)
    <2>1. CASE w \in shutdown
      BY <1>2, <2>1, DispositionElsewhere DEF Preflight
    <2>2. CASE terminate_activation(w, "unusable") \/ redeliver_later(w)
      BY <2>2, DispositionElsewhere
    <2>3. CASE GoOn(w, "handback")
      BY <2>3, GoesFacts, GoesElsewhere DEF GoOn, counting
    <2>4. CASE Fails(w, "metadata")
      BY <2>4, FailsFacts DEF Kinds, Elsewhere
    <2> QED BY <1>2, <2>1, <2>2, <2>3, <2>4 DEF Preflight, ActivationIsReady
  <1>3. ASSUME NEW e, NEW p, NEW q, p \notin Claims, q \notin Claims, UNCHANGED counting,
               RecordError(w, e, p, q)
        PROVE  Elsewhere(w)
    <2>1. UNCHANGED failed
      BY <1>3 DEF counting
    <2>2. Goes(w, p) \/ Goes(w, q)
      BY <1>3, GoesFacts DEF RecordError
    <2> QED BY <1>3, <2>1, <2>2, GoesElsewhere
  <1>4. CASE Turn(w)
    <2>1. UNCHANGED counting /\ UNCHANGED failed
      BY <1>4 DEF Turn, counting
    <2>2. CASE Go(w, "ended")
      BY <2>1, <2>2, GoesFacts, GoesElsewhere
    <2>3. CASE RecordError(w, None, "turnFailed", "erred")
      BY <1>3, <2>1, <2>3
    <2>4. CASE RecordError(w, "size", "turnFailed", "turnFailed")
      BY <1>3, <2>1, <2>4
    <2> QED BY <1>4, <2>2, <2>3, <2>4 DEF Turn
  <1>5. CASE Finish(w)
    <2>1. UNCHANGED failed
      BY <1>5 DEF Finish, counting
    <2>2. Go(w, "failover") \/ Go(w, "done") \/ Go(w, "retry") \/ Go(w, "durable")
      BY <1>5 DEF Finish
    <2> QED BY <2>1, <2>2, GoesFacts, GoesElsewhere
  <1>6. CASE Settle(w) \/ Terminate(w) \/ Retry(w)
    BY <1>6, DispositionElsewhere DEF Settle, Terminate, Retry, HandBack
  <1>7. Unavailable(w) /\ UNCHANGED failed => Elsewhere(w)
    <2>1. Unavailable(w) => Counted(w, "handback") \/ Counted(w, "retry")
      BY DEF Unavailable
    <2> QED BY <2>1, GoesFacts, GoesElsewhere
  <1>8. Conflict(w) /\ UNCHANGED failed => Elsewhere(w)
    <2> DEFINE r == [wk[w] EXCEPT !.pc = "count", !.tries = @ + 1]
    <2>1. Conflict(w) => wk' = [wk EXCEPT ![w] = r] \/ Unavailable(w)
      BY DEF Conflict
    <2>2. r.pc = "count" /\ wk \in [Workers -> HandlerStates]
      BY DEF IInv, RecordsOK, HandlerStates
    <2> HIDE DEF r
    <2>3. ASSUME wk' = [wk EXCEPT ![w] = r] PROVE Goes(w, "count")
      BY <2>2, <2>3 DEF Goes
    <2> QED BY <1>7, <2>1, <2>3, GoesElsewhere
  <1>9. CASE Snapshot(w)
    <2> DEFINE m == IF counter.op = "put" THEN counter.count + 1 ELSE 1
               k == IF counter.op = "put" THEN counter.rev ELSE 0
               r == [wk[w] EXCEPT !.pc = "write", !.n = m, !.rev = k]
    <2>1. UNCHANGED failed /\ (wk' = [wk EXCEPT ![w] = r] \/ Unavailable(w))
      BY <1>9 DEF Snapshot, CounterStep
    <2>2. r.pc = "write" /\ wk \in [Workers -> HandlerStates]
      BY DEF IInv, RecordsOK, HandlerStates
    <2> HIDE DEF r
    <2>3. ASSUME wk' = [wk EXCEPT ![w] = r] PROVE Goes(w, "write")
      BY <2>2, <2>3 DEF Goes
    <2> QED BY <1>7, <2>1, <2>3, GoesElsewhere
  <1>10. CASE Create(w) \/ Update(w) \/ Confirm(w)
    <2>1. UNCHANGED failed
      BY <1>10 DEF Create, Update, Confirm, CounterStep
    <2>2. \/ Go(w, "counted") \/ Go(w, "confirm") \/ Go(w, "write")
          \/ Conflict(w) \/ Unavailable(w)
      BY <1>10 DEF Create, Update, Confirm, Answered
    <2> QED BY <1>7, <1>8, <2>1, <2>2, GoesFacts, GoesElsewhere
  <1>11. CASE Classify(w)
    <2>1. CASE AcquireOrDefer(w, "record")
      <3>1. CASE Holding(w, "record")
        <4>1. UNCHANGED failed /\ Goes(w, "record")
          BY <3>1, GoesFacts DEF Holding, counting
        <4> QED BY <4>1, GoesElsewhere
      <3>2. CASE redeliver_later(w)
        BY <3>2, DispositionElsewhere
      <3>3. CASE GoOn(w, "handback")
        BY <3>3, GoesFacts, GoesElsewhere DEF GoOn, counting
      <3> QED BY <2>1, <3>1, <3>2, <3>3 DEF AcquireOrDefer
    <2>2. CASE (Counted(w, "record") \/ Unavailable(w)) /\ UNCHANGED counting
      BY <1>7, <2>2, GoesFacts, GoesElsewhere DEF counting
    <2> QED BY <1>11, <2>1, <2>2 DEF Classify
  <1>12. CASE Durabilize(w)
    <2> DEFINE q == IF wk[w].err = "size" THEN "durable" ELSE "retry"
    <2>1. q \notin Claims /\ UNCHANGED counting /\ RecordError(w, wk[w].err, "durable", q)
      BY <1>12 DEF Durabilize
    <2> HIDE DEF q
    <2> QED BY <1>3, <2>1
  <1>13. CASE Release(w)
    <2>1. /\ wk' = [wk EXCEPT ![w] = Idle] /\ UNCHANGED failed /\ Idle.pc = "idle"
          /\ wk \in [Workers -> HandlerStates]
      BY <1>13 DEF Release, Idle, IInv, RecordsOK
    <2> QED BY <2>1 DEF Elsewhere
  <1> QED BY <1>1, <1>2, <1>4, <1>5, <1>6, <1>9, <1>10, <1>11, <1>12, <1>13 DEF Handler

(* It stays so with every step.                                             *)
LEMMA NextUnclaimed ==
    ASSUME IInv, UnclaimedOK, payload # "good", [Next]_vars
    PROVE  UnclaimedOK'
  <1>1. /\ failed.claimed = 0 /\ wk \in [Workers -> HandlerStates]
        /\ \A w \in Workers : wk[w].pc \notin Claims
    BY DEF UnclaimedOK, IInv, RecordsOK
  <1>2. CASE UNCHANGED <<wk, failed>>
    BY <1>1, <1>2 DEF UnclaimedOK
  <1>3. ASSUME NEW w \in Workers, Elsewhere(w)
        PROVE  UnclaimedOK'
    BY <1>1, <1>3 DEF Elsewhere, UnclaimedOK
  <1>4. ASSUME NEW w \in Workers, Deliver(w)
        PROVE  UnclaimedOK'
    <2> DEFINE r == [wk[w] EXCEPT !.pc = "preflight", !.d = delivered']
    <2>1. wk' \in {wk, [wk EXCEPT ![w] = r]} /\ UNCHANGED failed
      BY <1>4 DEF Deliver, counting
    <2>2. r.pc = "preflight"
      BY <1>1 DEF HandlerStates
    <2> HIDE DEF r
    <2> QED BY <1>1, <2>1, <2>2 DEF UnclaimedOK, Claims
  <1>5. ASSUME NEW w \in Workers, NoticeLoss(w)
        PROVE  UnclaimedOK'
    <2> DEFINE r == [wk[w] EXCEPT !.held = FALSE]
    <2>1. wk' = [wk EXCEPT ![w] = r] /\ UNCHANGED failed
      BY <1>5 DEF NoticeLoss, counting
    <2>2. r.pc = wk[w].pc
      BY <1>1 DEF HandlerStates
    <2> HIDE DEF r
    <2> QED BY <1>1, <2>1, <2>2 DEF UnclaimedOK
  <1>6. ASSUME NEW w \in Workers, Crash(w)
        PROVE  UnclaimedOK'
    <2>1. wk' = [wk EXCEPT ![w] = Idle] /\ UNCHANGED failed /\ Idle.pc = "idle"
      BY <1>6 DEF Crash, Idle, counting
    <2> QED BY <1>1, <2>1 DEF UnclaimedOK, Claims
  <1> QED BY <1>2, <1>3, <1>4, <1>5, <1>6, HandlerElsewhere
          DEF Next, vars, AckWaitExpires, OtherHolder, InvocationReplaced, LandsLate,
              CounterExpires, LoseLease, LeaseExpires, Shutdown, Restart, counting

(* An append settles the prompt or leaves the log.                          *)
LEMMA RecordErrorLog ==
    ASSUME IInv, NEW w, NEW e, NEW p, NEW q, RecordError(w, e, p, q)
    PROVE  (log.covered => log'.covered) /\ (Fault \/ UNCHANGED faults)
           /\ slips'.expired = slips.expired
  <1>1. slips.unsure \in Nat /\ slips \in SlipStates
    BY DEF IInv, RecordsOK, SlipStates
  <1>2. [slips EXCEPT !.unsure = @ + 1].expired = slips.expired
    BY <1>1 DEF SlipStates
  <1> QED BY <1>2, LogFacts DEF RecordError

(* What a disposition leaves alone, and what fails it.                      *)
LEMMA DispositionFacts ==
    ASSUME IInv, NEW w
    PROVE  /\ nak(w) => UNCHANGED <<counting, log, slips>> /\ (Fault \/ UNCHANGED faults)
                        /\ fate' = fate
           /\ \A reason, p : remove(w, reason, p) =>
                 /\ UNCHANGED <<counting, log>> /\ (Fault \/ UNCHANGED faults)
                 /\ slips'.expired = slips.expired
                 /\ fate' = fate \/ Undecided
  <1>1. [slips EXCEPT !.unsure = @ + 1].expired = slips.expired
    BY DEF IInv, RecordsOK, SlipStates
  <1> QED BY <1>1 DEF nak, remove, PublishLost, PublishFails, broker, Undecided

(* A settled prompt stays settled and a decided fate decided; the payload   *)
(* does not change, nor is a fault or an expiry taken back; and without a   *)
(* fault nobody shuts down and no write is left on its way.                 *)
Advances ==
    /\ payload' = payload /\ (log.covered => log'.covered) /\ (Undecided' => Undecided)
    /\ Fault \/ UNCHANGED faults
    /\ slips'.expired = slips.expired \/ slips'.expired = slips.expired + 1
    /\ Fault \/ (shutdown' \subseteq shutdown /\ flying' \subseteq flying)

LEMMA HandlerAdvances ==
    ASSUME IInv, NEW w \in Workers, Handler(w)
    PROVE  Advances
  <1>1. ASSUME nak(w) \/ redeliver_later(w) \/ shutdown_nak(w) \/ HandBack(w)
               \/ (\E reason : terminate_activation(w, reason) \/ acknowledge_activation(w, reason)),
               UNCHANGED <<payload, shutdown>>
        PROVE  Advances
    BY <1>1, DispositionFacts
       DEF redeliver_later, shutdown_nak, HandBack, terminate_activation, acknowledge_activation,
           Advances, Undecided, counting
  <1>2. ASSUME UNCHANGED <<payload, broker, flying, shutdown, log, slips>>,
               Fault \/ UNCHANGED faults
        PROVE  Advances
    BY <1>2 DEF Advances, Undecided, broker
  <1>3. CASE Preflight(w) \/ CheckStatus(w)
    BY <1>1, <1>2, <1>3
       DEF Preflight, ActivationIsReady, CheckStatus, Fails, GoOn, counting
  <1>4. CASE Acquire(w) \/ Startup(w) \/ Classify(w)
    BY <1>1, <1>2, <1>4
       DEF Acquire, Startup, Classify, AcquireOrDefer, Holding, Fails, GoOn, counting
  <1>5. CASE Turn(w) \/ Durabilize(w)
    BY <1>5, LogFacts, RecordErrorLog
       DEF Turn, Durabilize, Advances, Undecided, broker, counting
  <1>6. CASE Finish(w) \/ Release(w)
    BY <1>2, <1>6 DEF Finish, Release, Cleared, counting
  <1>7. CASE Settle(w) \/ Terminate(w) \/ Retry(w)
    BY <1>1, <1>7 DEF Settle, Terminate, Retry
  <1>8. CASE Snapshot(w) \/ Confirm(w)
    BY <1>2, <1>8 DEF Snapshot, Confirm, CounterStep
  <1>9. CASE Create(w) \/ Update(w)
    BY <1>9 DEF Create, Update, Answered, Unanswered, CounterStep, Advances, Undecided, broker
  <1> QED BY <1>3, <1>4, <1>5, <1>6, <1>7, <1>8, <1>9, Zenon DEF Handler

LEMMA NextAdvances ==
    ASSUME IInv, [Next]_vars
    PROVE  Advances
  <1>1. ASSUME NEW w \in Workers, Handler(w)
        PROVE  Advances
    BY <1>1, HandlerAdvances
  <1>2. CASE AckWaitExpires \/ OtherHolder \/ InvocationReplaced \/ UNCHANGED vars
    <2>1. [log EXCEPT !.replaced = TRUE].covered = log.covered
      BY DEF IInv, RecordsOK, LogStates
    <2> QED BY <1>2, <2>1, LogFacts
            DEF AckWaitExpires, OtherHolder, InvocationReplaced, vars, counting, broker,
                Advances, Undecided
  <1>3. CASE LandsLate \/ CounterExpires
    <2>1. /\ [slips EXCEPT !.late = @ + 1].expired = slips.expired
          /\ [slips EXCEPT !.expired = @ + 1].expired = slips.expired + 1
      BY DEF IInv, RecordsOK, SlipStates
    <2> QED BY <1>3, <2>1 DEF LandsLate, CounterExpires, broker, Advances, Undecided
  <1>4. ASSUME NEW w \in Workers, Deliver(w) \/ NoticeLoss(w) \/ LoseLease(w) \/ LeaseExpires(w)
                                  \/ Crash(w) \/ Shutdown(w) \/ Restart(w)
        PROVE  Advances
    BY <1>4 DEF Deliver, NoticeLoss, LoseLease, LeaseExpires, Crash, Shutdown, Restart,
                counting, broker, Advances, Undecided
  <1> QED BY <1>1, <1>2, <1>3, <1>4 DEF Next

(* The budget's invariant holds before the first delivery.                  *)
LEMMA InitBudget == Init => JInv
  <1> SUFFICES ASSUME Init PROVE FaultlessOK /\ UnclaimedOK
    BY DEF JInv
  <1>1. \A w \in Workers : wk[w].pc = "idle" /\ wk[w].held = FALSE
    BY DEF Init, Idle
  <1>2. Handling = {} /\ IsFiniteSet({}) /\ Cardinality({}) = 0
    BY <1>1, FS_EmptySet DEF Handling, Handlers
  <1>3. OverlapOK
    BY <1>2, DeliveryConstants DEF OverlapOK, Pending, Init
  <1>4. \A w \in Workers : LeaseOK(w)
    BY <1>1, DeliveryConstants DEF LeaseOK, ClaimedError, Handlers, Init
  <1>5. BudgetOK
    BY <1>1, DeliveryConstants DEF BudgetOK, Counting, At, Init
  <1> QED BY <1>1, <1>3, <1>4, <1>5 DEF FaultlessOK, UnclaimedOK, Claims, UnsettledOK, Init

(* Every step keeps it.                                                     *)
LEMMA NextBudget ==
    ASSUME MaxEarly < CAS_RETRY_LIMIT
    PROVE  IInv /\ IInv' /\ JInv /\ [Next]_vars => JInv'
  <1> SUFFICES ASSUME IInv, IInv', JInv, [Next]_vars PROVE JInv'
    OBVIOUS
  <1>1. Advances
    BY NextAdvances
  <1>2. payload' # "good" => UnclaimedOK'
    BY <1>1, NextUnclaimed DEF Advances, JInv
  <1>3. ASSUME faults' = 0, slips'.expired = 0
        PROVE  FaultlessOK'
    <2>1. faults \in Nat /\ slips.expired \in Nat
      BY DeliveryConstants DEF IInv, RecordsOK
    <2>2. faults = 0 /\ ~Fault /\ slips.expired = 0
      BY <1>1, <1>3, <2>1 DEF Advances, Fault
    <2>3. FaultlessOK
      BY <2>2 DEF JInv
    <2>4. shutdown' = {} /\ flying' = {}
      BY <1>1, <2>2, <2>3 DEF Advances, FaultlessOK
    <2>5. ASSUME payload' = "good", ~log'.covered, Undecided'
          PROVE  UnsettledOK'
      <3>1. payload = "good" /\ ~log.covered /\ Undecided
        BY <1>1, <2>5 DEF Advances
      <3>2. Smooth
        BY <1>3, <2>2, <2>3, <2>5, <3>1 DEF Smooth, FaultlessOK
      <3> QED BY <3>2, NextSmooth
    <2> QED BY <2>4, <2>5 DEF FaultlessOK
  <1> QED BY <1>2, <1>3 DEF JInv

(* FailuresReachTheLog: where early expiries of the ack wait are fewer than *)
(* the CAS attempts, an activation without a fault whose counter did not    *)
(* run out of its TTL is given up at the delivery limit with an unsettled   *)
(* prompt only when it has failed under its lease less often than the       *)
(* budget allows.                                                           *)
THEOREM BudgetReachesTheLog ==
    ASSUME MaxEarly < CAS_RETRY_LIMIT
    PROVE  Spec => []FailuresReachTheLog
  <1>1. IInv /\ JInv => FailuresReachTheLog
    <2> SUFFICES ASSUME IInv, JInv, fate = "limit", faults = 0, slips.expired = 0, ~log.covered,
                        \A w \in Workers : At(w, "idle")
                 PROVE  failed.claimed < MAX_ACTIVATION_FAILURES
      BY DEF FailuresReachTheLog
    <2>1. FaultlessOK /\ MAX_ACTIVATION_FAILURES \in Nat \ {0}
      BY DeliveryConstants DEF JInv
    <2>2. CASE payload = "good"
      <3>1. BudgetOK /\ \A w \in Workers : ~Failing(w)
        BY <2>1, <2>2 DEF FaultlessOK, UnsettledOK, Undecided, Failing, At
      <3> QED BY <3>1 DEF BudgetOK
    <2>3. CASE payload # "good"
      BY <2>1, <2>3 DEF JInv, UnclaimedOK
    <2> QED BY <2>2, <2>3
  <1>2. IInv /\ IInv' /\ JInv /\ [Next]_vars => JInv'
    BY NextBudget
  <1> QED BY <1>1, <1>2, InitBudget, DeliveryInvariant, PTL DEF Spec
=============================================================================
