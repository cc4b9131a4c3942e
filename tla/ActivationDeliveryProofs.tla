---------------------- MODULE ActivationDeliveryProofs ----------------------
(***************************************************************************)
(* Proofs about ActivationDelivery for every set of workers, every pair of *)
(* delivery limits and every budget of failures, CAS attempts and faults.  *)
(*                                                                         *)
(* IInv counts.  A delivery ends by one worker's decision or is excused,   *)
(* so the open deliveries (excused, or out) bound, at any time, the ones   *)
(* that a worker may still hand back, together with the deliveries so far, *)
(* and, with the appends and acks that were reported as failed, the Errors *)
(* recorded together with the handlers that may still record one; each     *)
(* delivery fails once at most; and the counter, together with the         *)
(* handlers whose write may still be applied, is bounded by the failures   *)
(* that happened and the writes that landed late.  The last needs that a   *)
(* write waits at the revision it read (HandlerOK), also after its answer  *)
(* was lost, and that one on its way to the broker does (CounterOK).       *)
(***************************************************************************)
EXTENDS ActivationDelivery, FiniteSetTheorems, TLAPS

(* The handler's states, and those in which it has no delivery to decide    *)
(* on: before one arrives and after it was disposed of.                     *)
Handlers == {"preflight", "status", "acquire", "startup", "turn", "ended", "turnFailed",
             "erred", "done", "failover", "count", "write", "confirm", "counted", "record",
             "durable", "retry", "handback"}
Resting == {"idle", "clear", "release"}

HandlerStates == [pc : Handlers \union Resting, d : Nat, held : BOOLEAN,
                  err : Kinds \union {None, "size"}, n : Nat, rev : Nat, tries : Nat]

LogStates == [covered : BOOLEAN, replaced : BOOLEAN, errors : Nat]
SlipStates == [late : Nat, unsure : Nat, expired : Nat]

(* The shape of the records.                                                *)
RecordsOK ==
    /\ payload \in {"good", "malformed", "orphan"} /\ msg \in {"ready", "out", "gone", "dropped"}
    /\ fate \in Fates \union {None} /\ excused \in Nat /\ delivered \in Nat
    /\ counter \in [op : {"none", "put", "del"}, count : Nat, rev : Nat]
    /\ flying \subseteq [n : Nat, rev : Nat]
    /\ log \in LogStates /\ slips \in SlipStates /\ slips.expired \in 0..MaxFaults
    /\ lease \in Workers \union {None, "other"} /\ shutdown \subseteq Workers
    /\ failed \in [unclaimed : Nat, claimed : Nat] /\ faults \in 0..MaxFaults
    /\ wk \in [Workers -> HandlerStates]

(* The message is delivered below max_deliver only, each excuse is for a    *)
(* delivery that was out, and a message that is gone has a reason, which    *)
(* is safe.                                                                 *)
BrokerOK ==
    /\ delivered <= WORK_NOTIFY_MAX_DELIVER /\ excused <= delivered
    /\ msg = "ready" => delivered < WORK_NOTIFY_MAX_DELIVER
    /\ msg = "out" => excused < delivered
    /\ msg = "gone" <=> fate # None
    /\ SafeToRemove

(* A counter that is not there counts nothing; one that is has a revision.  *)
(* A write on its way to it is one more than what it read, as long as the   *)
(* counter has not changed.                                                 *)
CounterOK ==
    /\ IF counter.op = "put" THEN counter.rev # 0 ELSE counter.count = 0
    /\ \A f \in flying :
        /\ f.rev <= counter.rev /\ f.n # 0
        /\ f.rev = 0 => f.n = 1
        /\ f.rev # 0 /\ f.rev = counter.rev => counter.op = "put" /\ f.n = counter.count + 1

(* A handler has a delivery of its own until it disposes of it; it removes  *)
(* only what the log settles, what another invocation replaced or what is   *)
(* too large; and what it is about to write to the counter is one more than *)
(* what it read, as long as the counter has not changed.                    *)
HandlerOK(w) ==
    /\ At(w, "idle") => wk[w] = Idle
    /\ wk[w].pc \in Resting => wk[w].d = 0
    /\ wk[w].pc \in Handlers => wk[w].d \in 1..delivered
    /\ At(w, "done") => log.covered \/ log.replaced
    /\ wk[w].pc \in {"turnFailed", "durable"} /\ wk[w].err # "size" => log.covered
    /\ wk[w].pc \in {"write", "confirm"} =>
          /\ wk[w].rev <= counter.rev /\ wk[w].n # 0
          /\ wk[w].rev = 0 => wk[w].n = 1 /\ At(w, "write")
          /\ wk[w].rev # 0 /\ wk[w].rev = counter.rev =>
                counter.op = "put" /\ wk[w].n = counter.count + 1

(* Deliveries that a worker may still hand back; handlers that may record   *)
(* an Error or hand back; ones that have not failed yet; failures that may  *)
(* still be counted                                                         *)
Returnable == {w \in Workers : wk[w].d \in 1..(MAX_ACTIVATION_DELIVERIES - 1)}
Unrecorded ==
    {w \in Workers : wk[w].pc \in Handlers \ {"durable", "turnFailed", "done", "failover"}}
Unfailed == {w \in Workers : wk[w].pc \in {"preflight", "status", "acquire", "startup"}}
Uncounted == {w \in Workers : \/ wk[w].pc \in {"count", "write"}
                              \/ At(w, "confirm") /\ counter.rev = wk[w].rev}

(* Deliveries that no worker's decision accounts for: the excused ones and  *)
(* the one that is out.                                                     *)
Open == excused + IF msg = "ready" THEN 0 ELSE 1

CountsOK ==
    /\ Cardinality(Returnable) <= Open
    /\ delivered + Cardinality(Returnable) < MAX_ACTIVATION_DELIVERIES + Open
    /\ log.errors + Cardinality(Unrecorded) <= Open + slips.unsure
    /\ Failures + Cardinality(Unfailed) <= delivered
    /\ counter.count + Cardinality(Uncounted) <= Failures + slips.late
    /\ \A S \in {Returnable, Unrecorded, Unfailed, Uncounted} : IsFiniteSet(S)

(* The inductive invariant.                                                 *)
IInv == RecordsOK /\ BrokerOK /\ CounterOK /\ CountsOK /\ \A w \in Workers : HandlerOK(w)

-----------------------------------------------------------------------------
(* A part of a finite set is finite and has at most as many elements.       *)
LEMMA CountSame ==
    ASSUME NEW S, NEW T, IsFiniteSet(S), T \subseteq S
    PROVE  /\ IsFiniteSet(T) /\ Cardinality(T) \in Nat /\ Cardinality(S) \in Nat
           /\ Cardinality(T) <= Cardinality(S)
  BY FS_Subset, FS_CardinalityType

(* A set that lost an element is smaller by one at least.                   *)
LEMMA CountLess ==
    ASSUME NEW S, NEW T, IsFiniteSet(S), NEW x \in S, T \subseteq S \ {x}
    PROVE  Cardinality(T) + 1 <= Cardinality(S)
  <1>1. IsFiniteSet(S \ {x}) /\ Cardinality(S \ {x}) = Cardinality(S) - 1
    BY FS_RemoveElement
  <1>2. Cardinality(T) \in Nat /\ Cardinality(T) <= Cardinality(S \ {x}) /\ Cardinality(S) \in Nat
    BY <1>1, CountSame, FS_CardinalityType
  <1> QED BY <1>1, <1>2

(* A set that gained an element is larger by one at most.                   *)
LEMMA CountMore ==
    ASSUME NEW S, NEW T, IsFiniteSet(S), NEW x, T \subseteq S \union {x}
    PROVE  IsFiniteSet(T) /\ Cardinality(T) \in Nat /\ Cardinality(T) <= Cardinality(S) + 1
  <1>1. /\ IsFiniteSet(S \union {x}) /\ Cardinality(S) \in Nat
        /\ Cardinality(S \union {x}) \in Nat /\ Cardinality(S \union {x}) <= Cardinality(S) + 1
    BY FS_AddElement, FS_CardinalityType
  <1>2. /\ IsFiniteSet(T) /\ Cardinality(T) \in Nat
        /\ Cardinality(T) <= Cardinality(S \union {x})
    BY <1>1, CountSame
  <1> QED BY <1>1, <1>2

-----------------------------------------------------------------------------
(* What is said of a worker whose handler a step leaves alone: the counter, *)
(* if it changes, gets a revision the worker has not read.                  *)
LEMMA OtherHandler ==
    ASSUME RecordsOK, RecordsOK', NEW v \in Workers, HandlerOK(v), wk'[v] = wk[v],
           delivered <= delivered', log.covered => log'.covered,
           log.replaced => log'.replaced,
           counter' = counter \/ counter'.rev = counter.rev + 1
    PROVE  HandlerOK(v)'
  <1>1. wk[v] \in HandlerStates /\ counter.rev \in Nat /\ delivered \in Nat /\ delivered' \in Nat
    BY DEF RecordsOK
  <1>2. CASE counter' = counter
    BY <1>1, <1>2 DEF HandlerOK, At, Idle, HandlerStates
  <1>3. CASE counter'.rev = counter.rev + 1
    BY <1>1, <1>3 DEF HandlerOK, At, Idle, HandlerStates
  <1> QED BY <1>2, <1>3

(* A write that is on its way when the counter changes is for an earlier    *)
(* revision.                                                                *)
LEMMA FlyingKeep ==
    ASSUME RecordsOK, CounterOK, RecordsOK',
           IF counter'.op = "put" THEN counter'.rev # 0 ELSE counter'.count = 0,
           counter' = counter \/ counter'.rev = counter.rev + 1,
           flying' \subseteq flying
    PROVE  CounterOK'
  <1>1. counter.rev \in Nat /\ \A f \in flying : f.rev \in Nat /\ f.n \in Nat
    BY DEF RecordsOK
  <1> QED BY <1>1 DEF CounterOK

(* A step of one handler that leaves the message alone.  It may record one  *)
(* Error or be told that it failed, fail once, send one write to the        *)
(* counter, or count one failure; or clear the counter.                     *)
LEMMA InternalStep ==
    ASSUME IInv, NEW w \in Workers, RecordsOK', HandlerOK(w)', UNCHANGED broker,
           \A v \in Workers \ {w} : wk'[v] = wk[v],
           wk'[w].d \in {0, wk[w].d},
           log.covered => log'.covered, log.replaced => log'.replaced,
           w \in Unfailed' => w \in Unfailed,
           slips'.late = slips.late,
           \/ /\ log'.errors = log.errors /\ slips'.unsure = slips.unsure
              /\ w \in Unrecorded' => w \in Unrecorded
           \/ /\ log'.errors = log.errors + 1 /\ slips'.unsure = slips.unsure
              /\ w \in Unrecorded /\ w \notin Unrecorded'
           \/ /\ log'.errors = log.errors + 1 /\ slips'.unsure = slips.unsure + 1
              /\ w \in Unrecorded' => w \in Unrecorded
           \/ log'.errors = log.errors /\ slips'.unsure = slips.unsure + 1,
           \/ UNCHANGED flying
           \/ /\ At(w, "write") /\ UNCHANGED counter
              /\ flying' = flying \union {[n |-> wk[w].n, rev |-> wk[w].rev]},
           \/ UNCHANGED <<counter, failed>> /\ (w \in Uncounted' => w \in Uncounted)
           \/ UNCHANGED counter /\ Failures' = Failures + 1 /\ w \in Unfailed /\ w \notin Unfailed'
           \/ /\ UNCHANGED failed /\ counter'.op = "put" /\ counter'.rev = counter.rev + 1
              /\ counter'.count = counter.count + 1 /\ w \in Uncounted /\ w \notin Uncounted'
           \/ /\ UNCHANGED failed /\ counter'.op = "del" /\ counter'.rev = counter.rev + 1
              /\ counter'.count = 0 /\ w \notin Uncounted'
    PROVE  IInv'
  <1>1. \A v \in Workers : HandlerOK(v)'
    BY OtherHandler DEF IInv, broker, RecordsOK
  <1>2. BrokerOK' /\ CounterOK'
    <2>1. BrokerOK'
      <3>1. UNCHANGED <<msg, delivered, fate, excused>>
        BY DEF broker
      <3>2. SafeToRemove'
        BY <3>1, Zenon DEF IInv, BrokerOK, SafeToRemove
      <3> QED BY <3>1, <3>2, Zenon DEF IInv, BrokerOK
    <2>2. CASE UNCHANGED flying
      <3>1. IF counter'.op = "put" THEN counter'.rev # 0 ELSE counter'.count = 0
        BY DEF IInv, RecordsOK, CounterOK
      <3>2. counter' = counter \/ counter'.rev = counter.rev + 1
        OBVIOUS
      <3> QED BY <2>1, <2>2, <3>1, <3>2, FlyingKeep DEF IInv
    <2>3. CASE /\ At(w, "write") /\ UNCHANGED counter
               /\ flying' = flying \union {[n |-> wk[w].n, rev |-> wk[w].rev]}
      <3> DEFINE OnItsWay(f) ==
                    /\ f.rev <= counter.rev /\ f.n # 0
                    /\ f.rev = 0 => f.n = 1
                    /\ f.rev # 0 /\ f.rev = counter.rev =>
                          counter.op = "put" /\ f.n = counter.count + 1
      <3>1. OnItsWay([n |-> wk[w].n, rev |-> wk[w].rev]) /\ \A f \in flying : OnItsWay(f)
        BY <2>3 DEF IInv, CounterOK, HandlerOK, At
      <3> HIDE DEF OnItsWay
      <3>2. \A f \in flying' : OnItsWay(f)
        BY <2>3, <3>1
      <3>3. CounterOK'
        BY <2>3, <3>2 DEF IInv, CounterOK, OnItsWay
      <3> QED BY <2>1, <3>3
    <2> QED BY <2>2, <2>3
  <1>3. CountsOK'
    <2>0. /\ UNCHANGED <<delivered, Open>> /\ delivered \in Nat /\ Open \in Nat
          /\ Failures \in Nat /\ Failures' \in Nat
          /\ counter.count \in Nat /\ counter'.count \in Nat /\ counter.rev \in Nat
          /\ log.errors \in Nat /\ log'.errors \in Nat
          /\ slips.unsure \in Nat /\ slips'.unsure \in Nat /\ slips.late \in Nat
          /\ \A v \in Workers : wk[v].rev \in Nat /\ wk'[v].rev \in Nat
      BY DEF IInv, RecordsOK, Open, broker, Failures, HandlerStates, LogStates, SlipStates
    <2>1. /\ IsFiniteSet(Returnable') /\ Cardinality(Returnable') \in Nat
          /\ Cardinality(Returnable) \in Nat /\ Cardinality(Returnable') <= Cardinality(Returnable)
      <3>1. Returnable' \subseteq Returnable
        BY DEF Returnable
      <3> QED BY <3>1, CountSame DEF IInv, CountsOK
    <2>2. /\ IsFiniteSet(Unrecorded')
          /\ log'.errors + Cardinality(Unrecorded') + slips.unsure
                <= log.errors + Cardinality(Unrecorded) + slips'.unsure
          /\ Cardinality(Unrecorded') \in Nat /\ Cardinality(Unrecorded) \in Nat
      <3>1. Unrecorded' \subseteq Unrecorded \union {w} /\ IsFiniteSet(Unrecorded)
        BY DEF Unrecorded, IInv, CountsOK
      <3>2. /\ IsFiniteSet(Unrecorded') /\ Cardinality(Unrecorded') <= Cardinality(Unrecorded) + 1
            /\ Cardinality(Unrecorded') \in Nat /\ Cardinality(Unrecorded) \in Nat
        BY <3>1, CountMore, FS_CardinalityType
      <3>3. ASSUME w \in Unrecorded, w \notin Unrecorded'
            PROVE  Cardinality(Unrecorded') + 1 <= Cardinality(Unrecorded)
        <4>1. Unrecorded' \subseteq Unrecorded \ {w}
          BY <3>1, <3>3
        <4> QED BY <3>1, <3>3, <4>1, CountLess
      <3>4. ASSUME w \in Unrecorded' => w \in Unrecorded
            PROVE  Cardinality(Unrecorded') <= Cardinality(Unrecorded)
        <4>1. Unrecorded' \subseteq Unrecorded
          BY <3>1, <3>4
        <4> QED BY <3>1, <4>1, CountSame
      <3> QED BY <2>0, <3>2, <3>3, <3>4
    <2>3. /\ IsFiniteSet(Unfailed')
          /\ Failures' + Cardinality(Unfailed') <= Failures + Cardinality(Unfailed)
          /\ Cardinality(Unfailed') \in Nat /\ Cardinality(Unfailed) \in Nat
      <3>1. Unfailed' \subseteq Unfailed
        BY DEF Unfailed
      <3>2. /\ IsFiniteSet(Unfailed') /\ Cardinality(Unfailed') <= Cardinality(Unfailed)
            /\ Cardinality(Unfailed') \in Nat /\ Cardinality(Unfailed) \in Nat
        BY <3>1, CountSame DEF IInv, CountsOK
      <3>3. ASSUME w \in Unfailed, w \notin Unfailed'
            PROVE  Cardinality(Unfailed') + 1 <= Cardinality(Unfailed)
        <4>1. Unfailed' \subseteq Unfailed \ {w}
          BY <3>1, <3>3
        <4> QED BY <3>3, <4>1, CountLess DEF IInv, CountsOK
      <3>4. UNCHANGED failed => Failures' = Failures
        BY DEF Failures
      <3> QED BY <2>0, <3>2, <3>3, <3>4
    <2>4. /\ IsFiniteSet(Uncounted')
          /\ counter'.count + Cardinality(Uncounted') <= Failures' + slips.late
      <3>0. \A v \in Workers \ {w} : v \in Uncounted' => v \in Uncounted
        BY <2>0 DEF Uncounted, At, IInv, HandlerOK
      <3>1. /\ IsFiniteSet(Uncounted)
            /\ counter.count + Cardinality(Uncounted) <= Failures + slips.late
        BY DEF IInv, CountsOK
      <3>2. UNCHANGED failed => Failures' = Failures
        BY DEF Failures
      <3>3. CASE w \in Uncounted' => w \in Uncounted
        <4>1. Uncounted' \subseteq Uncounted
          BY <3>0, <3>3 DEF Uncounted
        <4>2. /\ IsFiniteSet(Uncounted') /\ Cardinality(Uncounted') <= Cardinality(Uncounted)
              /\ Cardinality(Uncounted') \in Nat /\ Cardinality(Uncounted) \in Nat
          BY <3>1, <4>1, CountSame
        <4>3. ASSUME w \in Uncounted, w \notin Uncounted'
              PROVE  Cardinality(Uncounted') + 1 <= Cardinality(Uncounted)
          <5>1. Uncounted' \subseteq Uncounted \ {w}
            BY <4>1, <4>3
          <5> QED BY <3>1, <4>3, <5>1, CountLess
        <4> QED BY <2>0, <3>1, <3>2, <4>2, <4>3
      <3>4. CASE w \in Uncounted' /\ w \notin Uncounted
        <4>1. Uncounted' \subseteq Uncounted \union {w}
          BY <3>0 DEF Uncounted
        <4>2. /\ IsFiniteSet(Uncounted') /\ Cardinality(Uncounted') \in Nat
              /\ Cardinality(Uncounted') <= Cardinality(Uncounted) + 1
              /\ Cardinality(Uncounted) \in Nat
          BY <3>1, <4>1, CountMore, FS_CardinalityType
        <4> QED BY <2>0, <3>1, <3>4, <4>2
      <3> QED BY <3>3, <3>4
    <2> QED BY <2>0, <2>1, <2>2, <2>3, <2>4, DeliveryConstants DEF IInv, CountsOK
  <1> QED BY <1>1, <1>2, <1>3 DEF IInv

(* The reasons for which a message may be taken out of the stream.          *)
Removable(reason) ==
    \/ reason \in {"unusable", "size", "limit"}
    \/ log.covered
    \/ reason = "completed" /\ log.replaced

(* The deliveries that are open are counted by a number.                    *)
LEMMA OpenType == /\ excused \in Nat => Open \in Nat
                  /\ excused' \in Nat => Open' \in Nat
  BY DEF Open

(* A handler disposes of its delivery.  Handing it back on purpose is for   *)
(* deliveries below the limit that left no Error; a message that is taken   *)
(* out of the stream is settled, or its reason says why not.                *)
LEMMA DisposeStep ==
    ASSUME IInv, NEW w \in Workers, wk[w].pc \in Handlers, RecordsOK',
           NEW p \in {"clear", "release"}, Disposed(w, p),
           UNCHANGED <<counting, log, delivered>>,
           slips'.late = slips.late, slips'.unsure \in {slips.unsure, slips.unsure + 1},
           \/ UNCHANGED broker
           \/ /\ msg = "out" /\ msg' = Redelivered /\ UNCHANGED fate
              /\ \/ excused' = excused + 1
                 \/ /\ excused' = excused /\ wk[w].d < MAX_ACTIVATION_DELIVERIES
                    /\ w \in Unrecorded
           \/ /\ msg' = "gone" /\ UNCHANGED excused
              /\ \E reason \in Fates :
                    /\ fate' = IF fate \in {None, "limit"} THEN reason ELSE fate
                    /\ Removable(reason)
    PROVE  IInv'
  <1>1. /\ \A v \in Workers \ {w} : wk'[v] = wk[v]
        /\ wk'[w].pc = p /\ wk'[w].d = 0
    BY DEF IInv, RecordsOK, Disposed, Idle
  <1>2. /\ w \notin Unrecorded' /\ w \notin Unfailed'
        /\ w \notin Uncounted' /\ w \notin Returnable'
    BY <1>1, DeliveryConstants DEF Unrecorded, Unfailed, Uncounted, Returnable, At, Handlers
  <1>3. HandlerOK(w)'
    BY <1>1 DEF HandlerOK, At, Resting, Handlers
  <1>4. \A v \in Workers : HandlerOK(v)'
    BY <1>1, <1>3, OtherHandler DEF IInv, RecordsOK, counting
  <1>5. BrokerOK' /\ CounterOK'
    <2>1. BrokerOK'
      BY DeliveryConstants
         DEF IInv, RecordsOK, BrokerOK, SafeToRemove, Removable, broker, Redelivered
    <2> QED BY <2>1 DEF IInv, CounterOK, counting
  <1>6. CountsOK'
    <2>1. /\ Returnable' \subseteq Returnable /\ Unrecorded' \subseteq Unrecorded
          /\ Unfailed' \subseteq Unfailed /\ Uncounted' \subseteq Uncounted
      BY <1>1, <1>2 DEF Unrecorded, Unfailed, Uncounted, Returnable, At, counting
    <2>2. /\ IsFiniteSet(Returnable') /\ Cardinality(Returnable') <= Cardinality(Returnable)
          /\ Cardinality(Returnable') \in Nat /\ Cardinality(Returnable) \in Nat
      BY <2>1, CountSame DEF IInv, CountsOK
    <2>3. /\ IsFiniteSet(Unrecorded') /\ Cardinality(Unrecorded') <= Cardinality(Unrecorded)
          /\ Cardinality(Unrecorded') \in Nat /\ Cardinality(Unrecorded) \in Nat
      BY <2>1, CountSame DEF IInv, CountsOK
    <2>4. /\ IsFiniteSet(Unfailed') /\ Cardinality(Unfailed') <= Cardinality(Unfailed)
          /\ Cardinality(Unfailed') \in Nat /\ Cardinality(Unfailed) \in Nat
      BY <2>1, CountSame DEF IInv, CountsOK
    <2>5. /\ IsFiniteSet(Uncounted') /\ Cardinality(Uncounted') <= Cardinality(Uncounted)
          /\ Cardinality(Uncounted') \in Nat /\ Cardinality(Uncounted) \in Nat
      BY <2>1, CountSame DEF IInv, CountsOK
    <2>6. /\ delivered \in Nat /\ Open \in Nat /\ Open' \in Nat /\ log.errors \in Nat
          /\ Failures \in Nat /\ Failures' = Failures /\ counter.count \in Nat
          /\ slips.unsure \in Nat /\ slips.late \in Nat /\ UNCHANGED counter
      <3>1. excused \in Nat /\ excused' \in Nat
        BY DEF IInv, RecordsOK
      <3>2. Failures \in Nat /\ Failures' = Failures
        BY DEF IInv, RecordsOK, Failures, counting
      <3> QED BY <3>1, <3>2, OpenType DEF IInv, RecordsOK, LogStates, SlipStates, counting
    <2>7. CASE Open <= Open'
      BY <2>2, <2>3, <2>4, <2>5, <2>6, <2>7, DeliveryConstants DEF IInv, CountsOK
    <2>8. CASE Open = Open' + 1 /\ wk[w].d < MAX_ACTIVATION_DELIVERIES /\ w \in Unrecorded
      <3>1. w \in Returnable
        BY <2>8, DeliveryConstants DEF Returnable, IInv, HandlerOK, RecordsOK
      <3>2. Returnable' \subseteq Returnable \ {w} /\ Unrecorded' \subseteq Unrecorded \ {w}
        BY <1>2, <2>1
      <3>3. Cardinality(Returnable') + 1 <= Cardinality(Returnable)
        BY <3>1, <3>2, CountLess DEF IInv, CountsOK
      <3>4. Cardinality(Unrecorded') + 1 <= Cardinality(Unrecorded)
        BY <2>8, <3>2, CountLess DEF IInv, CountsOK
      <3> QED BY <2>2, <2>3, <2>4, <2>5, <2>6, <2>8, <3>3, <3>4, DeliveryConstants DEF IInv, CountsOK
    <2>9. \/ excused' = excused /\ (msg' = msg \/ msg' = "gone")
          \/ /\ msg = "out" /\ msg' \in {"ready", "dropped"}
             /\ \/ excused' = excused + 1
                \/ excused' = excused /\ wk[w].d < MAX_ACTIVATION_DELIVERIES /\ w \in Unrecorded
      BY DEF broker, Redelivered
    <2>10. excused \in Nat
      BY DEF IInv, RecordsOK
    <2> QED BY <2>7, <2>8, <2>9, <2>10 DEF Open
  <1> QED BY <1>4, <1>5, <1>6 DEF IInv

(* The consumer delivers the message: a worker that rests takes it.         *)
LEMMA DeliverKeeps ==
    ASSUME IInv, NEW w \in Workers, Deliver(w)
    PROVE  IInv'
  <1>1. /\ \A v \in Workers \ {w} : wk'[v] = wk[v]
        /\ wk'[w] = IF At(w, "idle") THEN [wk[w] EXCEPT !.pc = "preflight", !.d = delivered']
                                     ELSE wk[w]
        /\ delivered' = delivered + 1 /\ delivered \in Nat /\ wk[w] \in HandlerStates
        /\ wk' \in [Workers -> HandlerStates]
    <2>1. delivered' = delivered + 1 /\ delivered \in Nat /\ wk \in [Workers -> HandlerStates]
      BY DEF Deliver, IInv, RecordsOK
    <2>2. [wk[w] EXCEPT !.pc = "preflight", !.d = delivered'] \in HandlerStates
      <3>1. wk[w] \in HandlerStates /\ delivered' \in Nat
        BY <2>1
      <3> HIDE DEF IInv, Deliver
      <3> QED BY <3>1 DEF HandlerStates, Handlers
    <2>3. wk' = [wk EXCEPT ![w] = IF At(w, "idle")
                                  THEN [wk[w] EXCEPT !.pc = "preflight", !.d = delivered']
                                  ELSE wk[w]]
      BY <2>1 DEF Deliver
    <2> QED BY <2>1, <2>2, <2>3
  <1>2. RecordsOK'
    BY <1>1 DEF Deliver, IInv, RecordsOK, counting
  <1>3. BrokerOK' /\ CounterOK'
    BY <1>1, DeliveryConstants
       DEF Deliver, IInv, RecordsOK, BrokerOK, CounterOK, SafeToRemove, counting
  <1>4. \A v \in Workers : HandlerOK(v)'
    <2>1. At(w, "idle") => HandlerOK(w)'
      BY <1>1 DEF HandlerOK, At, HandlerStates, Handlers, Resting
    <2> QED BY <1>1, <1>2, <2>1, OtherHandler DEF IInv, Deliver, counting
  <1>5. CountsOK'
    <2>1. /\ Unrecorded' \subseteq Unrecorded \union {w}
          /\ Unfailed' \subseteq Unfailed \union {w}
          /\ delivered' < MAX_ACTIVATION_DELIVERIES => Returnable' \subseteq Returnable \union {w}
          /\ ~(delivered' < MAX_ACTIVATION_DELIVERIES) => Returnable' \subseteq Returnable
          /\ Uncounted' \subseteq Uncounted
      BY <1>1, DeliveryConstants
         DEF Unrecorded, Unfailed, Returnable, Uncounted, At, HandlerStates, Deliver, counting
    <2>2. /\ IsFiniteSet(Unrecorded') /\ Cardinality(Unrecorded') <= Cardinality(Unrecorded) + 1
          /\ Cardinality(Unrecorded') \in Nat /\ Cardinality(Unrecorded) \in Nat
      BY <2>1, CountMore, FS_CardinalityType DEF IInv, CountsOK
    <2>3. /\ IsFiniteSet(Unfailed') /\ Cardinality(Unfailed') <= Cardinality(Unfailed) + 1
          /\ Cardinality(Unfailed') \in Nat /\ Cardinality(Unfailed) \in Nat
      BY <2>1, CountMore, FS_CardinalityType DEF IInv, CountsOK
    <2>4. /\ IsFiniteSet(Uncounted') /\ Cardinality(Uncounted') <= Cardinality(Uncounted)
          /\ Cardinality(Uncounted') \in Nat /\ Cardinality(Uncounted) \in Nat
      BY <2>1, CountSame DEF IInv, CountsOK
    <2>5. /\ delivered \in Nat /\ Open \in Nat /\ Open' = Open + 1 /\ log.errors \in Nat
          /\ Failures \in Nat /\ Failures' = Failures /\ counter.count \in Nat
          /\ slips.unsure \in Nat /\ slips.late \in Nat /\ UNCHANGED <<log, counter, slips>>
      BY DEF IInv, RecordsOK, Failures, Open, Deliver, counting, LogStates, SlipStates
    <2>6. CASE delivered' < MAX_ACTIVATION_DELIVERIES
      <3>1. /\ IsFiniteSet(Returnable') /\ Cardinality(Returnable') <= Cardinality(Returnable) + 1
            /\ Cardinality(Returnable') \in Nat /\ Cardinality(Returnable) \in Nat
        BY <2>1, <2>6, CountMore, FS_CardinalityType DEF IInv, CountsOK
      <3> QED BY <1>1, <2>2, <2>3, <2>4, <2>5, <2>6, <3>1, DeliveryConstants DEF IInv, CountsOK
    <2>7. CASE ~(delivered' < MAX_ACTIVATION_DELIVERIES)
      <3>1. /\ IsFiniteSet(Returnable') /\ Cardinality(Returnable') <= Cardinality(Returnable)
            /\ Cardinality(Returnable') \in Nat /\ Cardinality(Returnable) \in Nat
        BY <2>1, <2>7, CountSame DEF IInv, CountsOK
      <3> QED BY <1>1, <2>2, <2>3, <2>4, <2>5, <3>1, DeliveryConstants DEF IInv, CountsOK
    <2> QED BY <2>6, <2>7
  <1> QED BY <1>2, <1>3, <1>4, <1>5 DEF IInv

(* The ack wait runs out: the delivery is excused.                          *)
LEMMA AckWaitExpiresKeeps ==
    ASSUME IInv, AckWaitExpires
    PROVE  IInv'
  <1> USE DEF IInv, AckWaitExpires, Redelivered, counting
  <1>1. RecordsOK'
    BY DEF RecordsOK
  <1>2. BrokerOK' /\ CounterOK'
    BY DEF RecordsOK, BrokerOK, CounterOK, SafeToRemove
  <1>3. \A v \in Workers : HandlerOK(v)'
    BY <1>1, OtherHandler DEF RecordsOK
  <1>4. CountsOK'
    <2>1. UNCHANGED <<Returnable, Unrecorded, Unfailed, Uncounted>>
      BY DEF Returnable, Unrecorded, Unfailed, Uncounted, At
    <2>2. /\ Open <= Open' /\ Open \in Nat /\ Open' \in Nat /\ delivered \in Nat
          /\ log.errors \in Nat /\ Failures' = Failures
          /\ slips.unsure \in Nat /\ UNCHANGED <<delivered, log, counter, slips>>
          /\ Cardinality(Returnable) \in Nat /\ Cardinality(Unrecorded) \in Nat
      <3>1. /\ Cardinality(Returnable) \in Nat /\ Cardinality(Unrecorded) \in Nat
            /\ Failures' = Failures /\ UNCHANGED <<delivered, log, counter, slips>>
        BY FS_CardinalityType DEF CountsOK, Failures
      <3>2. log.errors \in Nat /\ slips.unsure \in Nat /\ delivered \in Nat
        BY DEF RecordsOK, LogStates, SlipStates
      <3>3. Open <= Open' /\ Open \in Nat /\ Open' \in Nat
        BY DEF Open, RecordsOK
      <3> QED BY <3>1, <3>2, <3>3
    <2> QED BY <2>1, <2>2, DeliveryConstants DEF CountsOK
  <1> QED BY <1>1, <1>2, <1>3, <1>4

-----------------------------------------------------------------------------
(* What a handler does next *)

(* A handler goes on at p: nothing else of it changes.                      *)
LEMMA GoFacts ==
    ASSUME IInv, NEW w \in Workers, NEW p \in Handlers, Go(w, p)
    PROVE  /\ wk' \in [Workers -> HandlerStates]
           /\ wk[w] \in HandlerStates
           /\ \A v \in Workers \ {w} : wk'[v] = wk[v]
           /\ wk'[w] = [wk[w] EXCEPT !.pc = p]
           /\ wk'[w].pc = p /\ wk'[w].d = wk[w].d /\ wk'[w].held = wk[w].held
           /\ wk'[w].err = wk[w].err /\ wk'[w].n = wk[w].n /\ wk'[w].rev = wk[w].rev
  <1>1. wk \in [Workers -> HandlerStates] /\ wk[w] \in HandlerStates
    BY DEF IInv, RecordsOK
  <1>2. [wk[w] EXCEPT !.pc = p] \in HandlerStates
    BY <1>1 DEF HandlerStates
  <1>3. wk' = [wk EXCEPT ![w] = [wk[w] EXCEPT !.pc = p]]
    BY DEF Go
  <1>4. wk' \in [Workers -> HandlerStates] /\ \A v \in Workers \ {w} : wk'[v] = wk[v]
    BY <1>1, <1>2, <1>3
  <1>5. wk'[w] = [wk[w] EXCEPT !.pc = p]
    BY <1>1, <1>3
  <1> QED BY <1>1, <1>4, <1>5 DEF HandlerStates

(* increment is over: the handler goes on at p without its locals.          *)
LEMMA CountedFacts ==
    ASSUME IInv, NEW w \in Workers, NEW p \in Handlers, Counted(w, p)
    PROVE  /\ wk' \in [Workers -> HandlerStates]
           /\ wk[w] \in HandlerStates
           /\ \A v \in Workers \ {w} : wk'[v] = wk[v]
           /\ wk'[w].pc = p /\ wk'[w].d = wk[w].d /\ wk'[w].held = wk[w].held
           /\ wk'[w].err = wk[w].err
  <1>1. wk \in [Workers -> HandlerStates] /\ wk[w] \in HandlerStates
    BY DEF IInv, RecordsOK
  <1> DEFINE r == [wk[w] EXCEPT !.pc = p, !.n = 0, !.rev = 0, !.tries = 0]
  <1>2. r \in HandlerStates
    BY <1>1 DEF HandlerStates
  <1>3. wk' = [wk EXCEPT ![w] = r]
    BY DEF Counted
  <1>4. r.pc = p /\ r.d = wk[w].d /\ r.held = wk[w].held /\ r.err = wk[w].err
    BY <1>1 DEF HandlerStates
  <1> HIDE DEF r
  <1> QED BY <1>1, <1>2, <1>3, <1>4

(* A handler moves on to a state in which it has no write to the counter    *)
(* under way, with nothing recorded.                                        *)
LEMMA MoveKeeps ==
    ASSUME IInv, NEW w \in Workers, wk[w].pc \in Handlers, RecordsOK',
           UNCHANGED <<broker, counting, log>>,
           \A v \in Workers \ {w} : wk'[v] = wk[v],
           wk'[w].d = wk[w].d,
           wk'[w].pc \in Handlers \ {"count", "write", "confirm"},
           wk'[w].pc = "done" => log.covered \/ log.replaced,
           wk'[w].pc \in {"turnFailed", "durable"} /\ wk'[w].err # "size" => log.covered,
           w \in Unfailed' => w \in Unfailed,
           slips'.late = slips.late,
           \/ slips'.unsure = slips.unsure /\ (w \in Unrecorded' => w \in Unrecorded)
           \/ slips'.unsure = slips.unsure + 1
    PROVE  IInv'
  <1>1. HandlerOK(w)'
    BY DEF IInv, HandlerOK, At, Handlers, Resting, broker
  <1>2. w \notin Uncounted'
    BY DEF Uncounted, At
  <1>3. UNCHANGED <<counter, failed, flying, log>>
    BY DEF counting
  <1>4. \/ /\ log'.errors = log.errors /\ slips'.unsure = slips.unsure
           /\ w \in Unrecorded' => w \in Unrecorded
        \/ log'.errors = log.errors /\ slips'.unsure = slips.unsure + 1
    BY <1>3
  <1> QED BY <1>1, <1>2, <1>3, <1>4, InternalStep

-----------------------------------------------------------------------------
(* The dispositions *)

(* An acknowledgement that is lost takes a fault and nothing else.          *)
LEMMA FaultType ==
    ASSUME IInv, Fault \/ UNCHANGED faults
    PROVE  faults' \in 0..MaxFaults
  BY DeliveryConstants DEF IInv, RecordsOK, Fault

(* Disposed keeps the shape of the handlers.                                *)
LEMMA DisposedType ==
    ASSUME IInv, NEW w \in Workers, NEW p \in Resting, Disposed(w, p)
    PROVE  wk' \in [Workers -> HandlerStates]
  <1>1. wk \in [Workers -> HandlerStates] /\ wk[w].held \in BOOLEAN
    BY DEF IInv, RecordsOK, HandlerStates
  <1>2. [Idle EXCEPT !.pc = p, !.held = wk[w].held] \in HandlerStates
    BY <1>1 DEF Idle, HandlerStates, Resting
  <1> QED BY <1>1, <1>2 DEF Disposed

(* Handing a delivery back: on purpose below the limit and without an Error *)
(* in the log, otherwise as an excused delivery.                            *)
LEMMA NakKeeps ==
    ASSUME IInv, NEW w \in Workers, wk[w].pc \in Handlers, nak(w),
           UNCHANGED <<payload, shutdown>>, lease' \in {lease, None},
           \/ excused' = IF msg' = msg THEN excused ELSE excused + 1
           \/ /\ UNCHANGED excused /\ wk[w].d < MAX_ACTIVATION_DELIVERIES
              /\ w \in Unrecorded
    PROVE  IInv'
  <1>1. wk' \in [Workers -> HandlerStates] /\ faults' \in 0..MaxFaults
    BY DisposedType, FaultType DEF nak, PublishLost, Resting
  <1>2. /\ Disposed(w, "release") /\ UNCHANGED <<counting, log, slips, delivered, fate>>
        /\ \/ UNCHANGED broker
           \/ /\ msg = "out" /\ msg' = Redelivered /\ UNCHANGED fate
              /\ \/ excused' = excused + 1
                 \/ /\ excused' = excused /\ wk[w].d < MAX_ACTIVATION_DELIVERIES
                    /\ w \in Unrecorded
    BY DEF nak, PublishLost, broker
  <1>3. RecordsOK'
    BY <1>1, <1>2 DEF IInv, RecordsOK, Redelivered, broker, counting
  <1> QED BY <1>2, <1>3, DisposeStep

(* Taking the message out of the stream, or failing to publish that.        *)
LEMMA RemoveKeeps ==
    ASSUME IInv, NEW w \in Workers, wk[w].pc \in Handlers,
           NEW reason \in Fates, NEW p \in {"clear", "release"}, remove(w, reason, p),
           UNCHANGED <<payload, shutdown>>, lease' \in {lease, None},
           Removable(reason)
    PROVE  IInv'
  <1>1. faults' \in 0..MaxFaults /\ UNCHANGED <<counting, log, delivered, excused>>
    BY FaultType DEF remove, PublishLost, PublishFails, broker
  <1>2. CASE /\ Disposed(w, p) /\ UNCHANGED slips
             /\ \/ UNCHANGED broker
                \/ msg' = "gone" /\ fate' = IF fate \in {None, "limit"} THEN reason ELSE fate
    <2>1. wk' \in [Workers -> HandlerStates]
      BY <1>2, DisposedType DEF Resting
    <2>2. RecordsOK'
      BY <1>1, <1>2, <2>1 DEF IInv, RecordsOK, broker, counting
    <2> QED BY <1>1, <1>2, <2>2, DisposeStep
  <1>3. CASE PublishFails(w)
    <2>1. /\ UNCHANGED broker /\ slips' \in SlipStates /\ slips'.expired \in 0..MaxFaults
          /\ slips'.late = slips.late /\ slips'.unsure = slips.unsure + 1
      BY <1>3 DEF PublishFails, IInv, RecordsOK, SlipStates
    <2>2. CASE Go(w, "handback")
      <3>1. "handback" \in Handlers
        BY DEF Handlers
      <3>2. RecordsOK'
        BY <1>1, <2>1, <2>2, <3>1, GoFacts DEF IInv, RecordsOK, broker, counting
      <3>3. w \notin Unfailed'
        BY <2>2, <3>1, GoFacts DEF Unfailed
      <3> QED BY <1>1, <2>1, <2>2, <3>1, <3>2, <3>3, GoFacts, MoveKeeps
    <2>3. CASE Disposed(w, "release")
      <3>1. wk' \in [Workers -> HandlerStates]
        BY <2>3, DisposedType DEF Resting
      <3>2. RecordsOK'
        BY <1>1, <2>1, <3>1 DEF IInv, RecordsOK, broker, counting
      <3> QED BY <1>1, <2>1, <2>3, <3>2, DisposeStep
    <2> QED BY <1>3, <2>2, <2>3 DEF PublishFails
  <1> QED BY <1>2, <1>3 DEF remove, PublishLost, broker

(* redeliver_later, for a handler that has recorded nothing.                *)
LEMMA RedeliverKeeps ==
    ASSUME IInv, NEW w \in Workers, w \in Unrecorded, redeliver_later(w),
           UNCHANGED <<payload, shutdown>>, lease' \in {lease, None}
    PROVE  IInv'
  <1>1. wk[w].pc \in Handlers
    BY DEF Unrecorded
  <1>2. CASE wk[w].d < MAX_ACTIVATION_DELIVERIES
    BY <1>1, <1>2, NakKeeps DEF redeliver_later
  <1>3. CASE ~(wk[w].d < MAX_ACTIVATION_DELIVERIES)
    BY <1>1, <1>3, RemoveKeeps DEF redeliver_later, Fates, Removable
  <1> QED BY <1>2, <1>3

(* The handler of a worker that shuts down gives its delivery back.         *)
LEMMA ShutdownNakKeeps ==
    ASSUME IInv, NEW w \in Workers, wk[w].pc \in Handlers, shutdown_nak(w),
           UNCHANGED <<payload, shutdown>>, lease' \in {lease, None}
    PROVE  IInv'
  BY NakKeeps DEF shutdown_nak

(* handle_activation's error path.                                          *)
LEMMA HandBackKeeps ==
    ASSUME IInv, NEW w \in Workers, w \in Unrecorded, HandBack(w),
           UNCHANGED <<payload, shutdown>>, lease' \in {lease, None}
    PROVE  IInv'
  BY RedeliverKeeps, ShutdownNakKeeps DEF HandBack, Unrecorded

-----------------------------------------------------------------------------
(* The steps of a handler *)

(* A handler that has not failed yet has recorded nothing.                  *)
LEMMA UnfailedFacts == Unfailed \subseteq Unrecorded /\ \A w \in Unfailed : wk[w].pc \in Handlers
  BY DEF Unfailed, Unrecorded, Handlers

(* A failure before the turn.                                               *)
LEMMA FailsKeeps ==
    ASSUME IInv, NEW w \in Workers, w \in Unfailed, UNCHANGED <<payload, lease, shutdown>>,
           NEW kind \in Kinds \union {"size"}, Fails(w, kind)
    PROVE  IInv'
  <1> DEFINE q == IF kind = "size" THEN "record" ELSE "count"
             r == [wk[w] EXCEPT !.err = kind, !.tries = 0, !.pc = q]
  <1>1. wk \in [Workers -> HandlerStates] /\ wk[w] \in HandlerStates
    BY DEF IInv, RecordsOK
  <1>2. r \in HandlerStates /\ r.pc = q /\ r.d = wk[w].d /\ r.err = kind
    BY <1>1 DEF HandlerStates, Handlers
  <1>3. wk' = [wk EXCEPT ![w] = r]
    BY DEF Fails
  <1> HIDE DEF r
  <1>4. /\ wk' \in [Workers -> HandlerStates] /\ \A v \in Workers \ {w} : wk'[v] = wk[v]
        /\ wk'[w].pc = q /\ wk'[w].d = wk[w].d /\ wk'[w].err = kind
    BY <1>1, <1>2, <1>3
  <1>5. UNCHANGED <<broker, counter, flying, log, slips, faults>>
    BY DEF Fails
  <1>6. w \in Unrecorded /\ wk[w].pc \in Handlers
    BY UnfailedFacts
  <1>7. /\ failed' \in [unclaimed : Nat, claimed : Nat]
        /\ kind # "size" => Failures' = Failures + 1
        /\ kind = "size" => failed' = failed
    BY DEF Fails, IInv, RecordsOK, Failures
  <1>8. RecordsOK'
    BY <1>4, <1>5, <1>7 DEF IInv, RecordsOK, broker
  <1>9. CASE kind = "size"
    <2>1. w \notin Unfailed'
      BY <1>4, <1>9 DEF Unfailed
    <2> QED BY <1>4, <1>5, <1>6, <1>7, <1>8, <1>9, <2>1, MoveKeeps DEF Handlers, counting
  <1>10. CASE kind # "size"
    <2>1. w \notin Unfailed'
      BY <1>4, <1>10 DEF Unfailed
    <2>2. HandlerOK(w)'
      BY <1>4, <1>5, <1>6, <1>10 DEF HandlerOK, At, Resting, Handlers, IInv, broker
    <2> QED BY <1>4, <1>5, <1>6, <1>7, <1>8, <1>10, <2>1, <2>2, InternalStep DEF broker
  <1> QED BY <1>9, <1>10

(* A handler goes on to the next of its checks, or to its error path.       *)
LEMMA GoOnKeeps ==
    ASSUME IInv, NEW w \in Workers, w \in Unrecorded,
           NEW p \in {"status", "acquire", "startup", "turn", "handback"},
           p \in {"status", "acquire", "startup"} => w \in Unfailed,
           GoOn(w, p), UNCHANGED <<payload, lease, shutdown>>
    PROVE  IInv'
  <1>1. /\ p \in Handlers \ {"count", "write", "confirm", "done", "turnFailed", "durable"}
        /\ Go(w, p) /\ UNCHANGED <<broker, counting, log, slips, faults>>
        /\ wk[w].pc \in Handlers
    BY DEF Handlers, GoOn, Unrecorded
  <1>2. RecordsOK'
    BY <1>1, GoFacts DEF IInv, RecordsOK, broker, counting
  <1>3. w \in Unfailed' => w \in Unfailed
    BY <1>1, GoFacts DEF Unfailed
  <1> QED BY <1>1, <1>2, <1>3, GoFacts, MoveKeeps

(* claim_activation and activation_is_ready.                                *)
LEMMA PreflightKeeps ==
    ASSUME IInv, NEW w \in Workers, Preflight(w)
    PROVE  IInv'
  <1>1. /\ w \in Unfailed /\ w \in Unrecorded /\ wk[w].pc \in Handlers
        /\ UNCHANGED <<payload, lease, shutdown>>
    BY DEF Preflight, At, Unfailed, Unrecorded, Handlers
  <1>2. CASE shutdown_nak(w)
    BY <1>1, <1>2, ShutdownNakKeeps
  <1>3. CASE terminate_activation(w, "unusable")
    BY <1>1, <1>3, RemoveKeeps DEF terminate_activation, Fates, Removable
  <1>4. CASE redeliver_later(w)
    BY <1>1, <1>4, RedeliverKeeps
  <1>5. CASE GoOn(w, "handback")
    BY <1>1, <1>5, GoOnKeeps
  <1>6. CASE GoOn(w, "status")
    BY <1>1, <1>6, GoOnKeeps
  <1>7. CASE Fails(w, "metadata")
    BY <1>1, <1>7, FailsKeeps DEF Kinds
  <1> QED BY <1>2, <1>3, <1>4, <1>5, <1>6, <1>7 DEF Preflight, ActivationIsReady

(* activation_status_preflight_finished.                                    *)
LEMMA CheckStatusKeeps ==
    ASSUME IInv, NEW w \in Workers, CheckStatus(w)
    PROVE  IInv'
  <1>1. /\ w \in Unfailed /\ w \in Unrecorded /\ wk[w].pc \in Handlers
        /\ UNCHANGED <<payload, lease, shutdown>>
    BY DEF CheckStatus, At, Unfailed, Unrecorded, Handlers
  <1>2. CASE shutdown_nak(w)
    BY <1>1, <1>2, ShutdownNakKeeps
  <1>3. CASE log.covered /\ acknowledge_activation(w, "covered")
    BY <1>1, <1>3, RemoveKeeps DEF acknowledge_activation, Fates, Removable
  <1>4. CASE GoOn(w, "acquire")
    BY <1>1, <1>4, GoOnKeeps
  <1>5. CASE redeliver_later(w)
    BY <1>1, <1>5, RedeliverKeeps
  <1> QED BY <1>2, <1>3, <1>4, <1>5 DEF CheckStatus

(* acquire_or_defer_activation: the lease is taken, or the delivery goes    *)
(* back.                                                                    *)
LEMMA AcquireOrDeferKeeps ==
    ASSUME IInv, NEW w \in Workers, w \in Unrecorded, NEW p \in {"startup", "record"},
           p = "startup" => w \in Unfailed,
           AcquireOrDefer(w, p), UNCHANGED <<payload, shutdown>>
    PROVE  IInv'
  <1>1. CASE Holding(w, p)
    <2> DEFINE r == [wk[w] EXCEPT !.pc = p, !.held = TRUE]
    <2>1. wk \in [Workers -> HandlerStates] /\ wk[w] \in HandlerStates
      BY DEF IInv, RecordsOK
    <2>2. r \in HandlerStates /\ r.pc = p /\ r.d = wk[w].d
      BY <2>1 DEF HandlerStates, Handlers
    <2>3. wk' = [wk EXCEPT ![w] = r] /\ UNCHANGED <<broker, counting, log, slips, faults>>
      BY <1>1 DEF Holding
    <2>4. lease' \in Workers
      BY <1>1 DEF Holding
    <2> HIDE DEF r
    <2>5. /\ wk' \in [Workers -> HandlerStates] /\ \A v \in Workers \ {w} : wk'[v] = wk[v]
          /\ wk'[w].pc = p /\ wk'[w].d = wk[w].d
      BY <2>1, <2>2, <2>3
    <2>6. RecordsOK'
      BY <2>3, <2>4, <2>5 DEF IInv, RecordsOK, broker, counting
    <2>7. w \in Unfailed' => w \in Unfailed
      BY <2>5 DEF Unfailed
    <2>8. wk[w].pc \in Handlers
      BY DEF Unrecorded
    <2> QED BY <2>3, <2>5, <2>6, <2>7, <2>8, MoveKeeps DEF Handlers
  <1>2. CASE redeliver_later(w) /\ UNCHANGED lease
    BY <1>2, RedeliverKeeps
  <1>3. CASE GoOn(w, "handback") /\ UNCHANGED lease
    BY <1>3, GoOnKeeps
  <1> QED BY <1>1, <1>2, <1>3 DEF AcquireOrDefer

(* claim_reserved_activation.                                               *)
LEMMA AcquireKeeps ==
    ASSUME IInv, NEW w \in Workers, Acquire(w)
    PROVE  IInv'
  <1>1. /\ w \in Unfailed /\ w \in Unrecorded /\ wk[w].pc \in Handlers
        /\ UNCHANGED <<payload, shutdown>>
    BY DEF Acquire, At, Unfailed, Unrecorded, Handlers
  <1>2. CASE shutdown_nak(w) /\ UNCHANGED lease
    BY <1>1, <1>2, ShutdownNakKeeps
  <1>3. CASE AcquireOrDefer(w, "startup")
    BY <1>1, <1>3, AcquireOrDeferKeeps
  <1> QED BY <1>2, <1>3 DEF Acquire

(* What may fail between the claim and the turn.                            *)
LEMMA StartupKeeps ==
    ASSUME IInv, NEW w \in Workers, Startup(w)
    PROVE  IInv'
  <1>1. /\ w \in Unfailed /\ w \in Unrecorded /\ wk[w].pc \in Handlers
        /\ UNCHANGED <<payload, shutdown>>
    BY DEF Startup, At, Unfailed, Unrecorded, Handlers
  <1>2. CASE lease' = Freed(w) /\ shutdown_nak(w)
    BY <1>1, <1>2, ShutdownNakKeeps DEF Freed
  <1>3. CASE UNCHANGED lease /\ GoOn(w, "turn")
    BY <1>1, <1>3, GoOnKeeps
  <1>4. ASSUME UNCHANGED lease, NEW kind \in {"plain", "refusal", "size"}, Fails(w, kind)
        PROVE  IInv'
    BY <1>1, <1>4, FailsKeeps DEF Kinds
  <1> QED BY <1>2, <1>3, <1>4 DEF Startup

(* The log with the prompt settled, and with an Error that settles it.      *)
LEMMA LogFacts ==
    ASSUME IInv
    PROVE  /\ Settled \in LogStates /\ Recorded \in LogStates /\ log \in LogStates
           /\ Settled.covered /\ Recorded.covered
           /\ Settled.replaced = log.replaced /\ Recorded.replaced = log.replaced
           /\ Settled.errors = log.errors /\ Recorded.errors = log.errors + 1
  <1>1. log \in LogStates /\ log.errors + 1 \in Nat
    BY DEF IInv, RecordsOK, LogStates
  <1> QED BY <1>1 DEF LogStates, Settled, Recorded

(* record_session_error: the Error settles the prompt, and the handler will *)
(* not hand the delivery back unless it was told that the append failed.    *)
LEMMA RecordErrorKeeps ==
    ASSUME IInv, NEW w \in Workers, w \in Unrecorded, w \notin Unfailed,
           NEW e \in Kinds \union {None, "size"}, NEW p \in {"turnFailed", "durable"},
           NEW q \in {"turnFailed", "durable", "erred", "retry"},
           q \in {"turnFailed", "durable"} => e = "size",
           RecordError(w, e, p, q), UNCHANGED <<payload, broker, counting, lease, shutdown>>
    PROVE  IInv'
  <1> DEFINE r(x) == [wk[w] EXCEPT !.pc = x, !.err = e]
  <1>1. /\ wk \in [Workers -> HandlerStates] /\ wk[w] \in HandlerStates /\ wk[w].pc \in Handlers
        /\ wk[w].d \in 1..delivered
    BY DEF IInv, RecordsOK, Unrecorded, HandlerOK
  <1>2. \A x \in {p, q} : /\ r(x) \in HandlerStates /\ r(x).pc = x /\ r(x).d = wk[w].d
                          /\ r(x).err = e
    BY <1>1 DEF HandlerStates, Handlers
  <1>3. ASSUME NEW x \in {p, q}, wk' = [wk EXCEPT ![w] = r(x)],
               log' \in LogStates, slips' \in SlipStates, slips'.expired \in 0..MaxFaults,
               log.covered => log'.covered, log.replaced => log'.replaced,
               slips'.late = slips.late, faults' \in 0..MaxFaults,
               \/ log' = log /\ slips' = slips /\ x = q
               \/ log'.errors = log.errors + 1 /\ log'.covered /\ slips' = slips /\ x = p
               \/ /\ log'.errors = log.errors + 1 /\ log'.covered /\ x = q
                  /\ slips'.unsure = slips.unsure + 1
        PROVE  IInv'
    <2> HIDE DEF r
    <2>1. /\ wk' \in [Workers -> HandlerStates] /\ \A v \in Workers \ {w} : wk'[v] = wk[v]
          /\ wk'[w].pc = x /\ wk'[w].d = wk[w].d /\ wk'[w].err = e
      BY <1>1, <1>2, <1>3
    <2>2. RecordsOK'
      BY <1>3, <2>1 DEF IInv, RecordsOK, broker, counting
    <2>3. HandlerOK(w)'
      BY <1>1, <1>3, <2>1 DEF HandlerOK, At, Handlers, Resting, broker
    <2>4. w \notin Unfailed' /\ w \notin Uncounted' /\ (x = p => w \notin Unrecorded')
      BY <2>1 DEF Unfailed, Uncounted, Unrecorded, At
    <2>5. UNCHANGED <<counter, failed, flying>>
      BY DEF counting
    <2> QED BY <1>3, <2>1, <2>2, <2>3, <2>4, <2>5, InternalStep
  <1>4. /\ wk' = [wk EXCEPT ![w] = r(p)] \/ wk' = [wk EXCEPT ![w] = r(q)]
        /\ faults' \in 0..MaxFaults
    BY FaultType DEF RecordError
  <1>5. slips \in SlipStates /\ slips.expired \in 0..MaxFaults /\ slips.unsure + 1 \in Nat
    BY DEF IInv, RecordsOK, SlipStates
  <1>6. CASE wk' = [wk EXCEPT ![w] = r(p)] /\ log' = Recorded /\ UNCHANGED slips
    BY <1>3, <1>4, <1>5, <1>6, LogFacts
  <1>7. CASE wk' = [wk EXCEPT ![w] = r(q)] /\ UNCHANGED <<log, slips>>
    BY <1>3, <1>4, <1>5, <1>7, LogFacts
  <1>8. CASE /\ wk' = [wk EXCEPT ![w] = r(q)] /\ log' = Recorded
             /\ slips' = [slips EXCEPT !.unsure = @ + 1]
    <2>1. /\ slips' \in SlipStates /\ slips'.expired \in 0..MaxFaults
          /\ slips'.late = slips.late /\ slips'.unsure = slips.unsure + 1
      BY <1>5, <1>8 DEF SlipStates
    <2> QED BY <1>3, <1>4, <1>8, <2>1, LogFacts
  <1> QED BY <1>6, <1>7, <1>8 DEF RecordError

(* The turn ends, or fails and records its Error.                           *)
LEMMA TurnKeeps ==
    ASSUME IInv, NEW w \in Workers, Turn(w)
    PROVE  IInv'
  <1>1. /\ w \in Unrecorded /\ w \notin Unfailed /\ wk[w].d \in 1..delivered
        /\ UNCHANGED <<payload, broker, counting, lease, shutdown>>
    BY DEF Turn, At, Unfailed, Unrecorded, Handlers, IInv, HandlerOK
  <1>2. CASE Go(w, "ended") /\ UNCHANGED <<slips, faults>> /\ log' \in {log, Settled}
    <2>1. /\ log' \in LogStates /\ log'.errors = log.errors
          /\ (log.covered => log'.covered) /\ (log.replaced => log'.replaced)
      BY <1>2, LogFacts
    <2>2. RecordsOK'
      BY <1>1, <1>2, <2>1, GoFacts DEF IInv, RecordsOK, broker, counting, Handlers
    <2>3. HandlerOK(w)' /\ w \notin Unfailed' /\ w \notin Uncounted'
      BY <1>1, <1>2, GoFacts DEF HandlerOK, At, Handlers, Resting, Unfailed, Uncounted, broker
    <2>4. UNCHANGED <<counter, failed, flying>>
      BY <1>1 DEF counting
    <2> QED BY <1>1, <1>2, <2>1, <2>2, <2>3, <2>4, GoFacts, InternalStep DEF Handlers
  <1>3. CASE RecordError(w, None, "turnFailed", "erred")
    BY <1>1, <1>3, RecordErrorKeeps, DeliveryConstants
  <1>4. CASE RecordError(w, "size", "turnFailed", "turnFailed")
    BY <1>1, <1>4, RecordErrorKeeps
  <1> QED BY <1>2, <1>3, <1>4 DEF Turn

(* finish_execution: a turn is complete when its prompt is settled or its   *)
(* invocation was replaced.                                                 *)
LEMMA FinishKeeps ==
    ASSUME IInv, NEW w \in Workers, Finish(w)
    PROVE  IInv'
  <1>1. /\ wk[w].pc \in Handlers /\ lease' \in {lease, None}
        /\ UNCHANGED <<payload, broker, counting, log, shutdown, slips, faults>>
    BY DEF Finish, Freed, Handlers
  <1>2. PICK p \in {"failover", "done", "retry", "durable"} :
            /\ Go(w, p) /\ (p = "done" => log.covered \/ log.replaced)
            /\ p = "retry" => w \in Unrecorded
            /\ p = "durable" => At(w, "turnFailed")
    BY DEF Finish, Unrecorded, Handlers
  <1>3. /\ p \in Handlers \ {"count", "write", "confirm"}
        /\ p = "durable" /\ wk[w].err # "size" => log.covered
    BY <1>2 DEF Handlers, IInv, HandlerOK, At
  <1>4. RecordsOK'
    BY <1>1, <1>2, <1>3, GoFacts DEF IInv, RecordsOK, broker, counting
  <1>5. w \notin Unfailed' /\ (w \in Unrecorded' => w \in Unrecorded)
    BY <1>2, <1>3, GoFacts DEF Unfailed, Unrecorded
  <1>6. /\ \A v \in Workers \ {w} : wk'[v] = wk[v]
        /\ wk'[w].pc = p /\ wk'[w].d = wk[w].d /\ wk'[w].err = wk[w].err
    BY <1>2, <1>3, GoFacts
  <1>7. /\ wk'[w].pc = "done" => log.covered \/ log.replaced
        /\ wk'[w].pc \in {"turnFailed", "durable"} /\ wk'[w].err # "size" => log.covered
    BY <1>2, <1>3, <1>6
  <1> QED BY <1>1, <1>3, <1>4, <1>5, <1>6, <1>7, MoveKeeps

(* settle_session_delivery.                                                 *)
LEMMA SettleKeeps ==
    ASSUME IInv, NEW w \in Workers, Settle(w)
    PROVE  IInv'
  <1>1. wk[w].pc \in Handlers /\ UNCHANGED <<payload, lease, shutdown>>
    BY DEF Settle, Handlers, At
  <1>2. CASE shutdown_nak(w)
    BY <1>1, <1>2, ShutdownNakKeeps
  <1>3. CASE At(w, "done") /\ acknowledge_activation(w, "completed")
    <2>1. Removable("completed")
      BY <1>3 DEF IInv, HandlerOK, Removable
    <2> QED BY <1>1, <1>3, <2>1, RemoveKeeps DEF acknowledge_activation, Fates
  <1> QED BY <1>2, <1>3 DEF Settle

-----------------------------------------------------------------------------
(* The failure counter *)

(* increment ends: its failure will not be counted any more.                *)
LEMMA CountedKeeps ==
    ASSUME IInv, NEW w \in Workers, w \in Unrecorded, NEW p \in {"handback", "retry", "record"},
           Counted(w, p), faults' \in 0..MaxFaults,
           UNCHANGED <<payload, broker, counting, log, lease, shutdown, slips>>
    PROVE  IInv'
  <1>1. p \in Handlers \ {"count", "write", "confirm", "done", "turnFailed", "durable"}
    BY DEF Handlers
  <1>2. RecordsOK'
    BY <1>1, CountedFacts DEF IInv, RecordsOK, broker, counting
  <1>3. w \notin Unfailed' /\ wk[w].pc \in Handlers
    BY <1>1, CountedFacts DEF Unfailed, Unrecorded
  <1> QED BY <1>1, <1>2, <1>3, CountedFacts, MoveKeeps

(* The counter cannot be updated.                                           *)
LEMMA UnavailableKeeps ==
    ASSUME IInv, NEW w \in Workers, w \in Unrecorded, Unavailable(w), faults' \in 0..MaxFaults,
           UNCHANGED <<payload, broker, counting, log, lease, shutdown, slips>>
    PROVE  IInv'
  BY CountedKeeps DEF Unavailable

(* A conflict: increment reads the counter again, or gives up.              *)
LEMMA ConflictKeeps ==
    ASSUME IInv, NEW w \in Workers, At(w, "write"), Conflict(w),
           UNCHANGED <<payload, broker, counting, log, lease, shutdown, slips, faults>>
    PROVE  IInv'
  <1>0. w \in Unrecorded /\ w \in Uncounted /\ faults' \in 0..MaxFaults
    BY DEF At, Unrecorded, Uncounted, Handlers, IInv, RecordsOK
  <1>1. CASE Unavailable(w)
    BY <1>0, <1>1, UnavailableKeeps
  <1>2. CASE wk' = [wk EXCEPT ![w].pc = "count", ![w].tries = @ + 1]
    <2> DEFINE r == [wk[w] EXCEPT !.pc = "count", !.tries = @ + 1]
    <2>1. wk \in [Workers -> HandlerStates] /\ wk[w] \in HandlerStates
      BY DEF IInv, RecordsOK
    <2>2. r \in HandlerStates /\ r.pc = "count" /\ r.d = wk[w].d
      <3>1. wk[w].tries + 1 \in Nat
        BY <2>1 DEF HandlerStates
      <3> QED BY <2>1, <3>1 DEF HandlerStates, Handlers
    <2>3. wk' = [wk EXCEPT ![w] = r]
      BY <1>2
    <2> HIDE DEF r
    <2>4. /\ wk' \in [Workers -> HandlerStates] /\ \A v \in Workers \ {w} : wk'[v] = wk[v]
          /\ wk'[w].pc = "count" /\ wk'[w].d = wk[w].d
      BY <2>1, <2>2, <2>3
    <2>5. RecordsOK'
      BY <2>4 DEF IInv, RecordsOK, broker, counting
    <2>6. HandlerOK(w)' /\ w \notin Unfailed'
      BY <2>4 DEF IInv, HandlerOK, At, Handlers, Resting, Unfailed, broker
    <2>7. UNCHANGED <<counter, failed, flying>>
      BY DEF counting
    <2> QED BY <1>0, <2>4, <2>5, <2>6, <2>7, InternalStep
  <1> QED BY <1>1, <1>2 DEF Conflict

(* snapshot: what will be written is one more than what was read.           *)
LEMMA SnapshotKeeps ==
    ASSUME IInv, NEW w \in Workers, Snapshot(w)
    PROVE  IInv'
  <1>0. /\ w \in Unrecorded /\ w \in Uncounted /\ At(w, "count")
        /\ UNCHANGED <<payload, broker, counter, flying, failed, log, lease, shutdown, slips>>
    BY DEF At, Unrecorded, Uncounted, Handlers, Snapshot, CounterStep
  <1>1. CASE Fault /\ Unavailable(w)
    BY <1>0, <1>1, FaultType, UnavailableKeeps DEF counting
  <1> DEFINE m == IF counter.op = "put" THEN counter.count + 1 ELSE 1
             k == IF counter.op = "put" THEN counter.rev ELSE 0
             r == [wk[w] EXCEPT !.pc = "write", !.n = m, !.rev = k]
  <1>2. CASE UNCHANGED faults /\ wk' = [wk EXCEPT ![w].pc = "write", ![w].n = m, ![w].rev = k]
    <2>1. wk \in [Workers -> HandlerStates] /\ wk[w] \in HandlerStates /\ m \in Nat /\ k \in Nat
      BY DEF IInv, RecordsOK
    <2>2. wk' = [wk EXCEPT ![w] = r]
      BY <1>2
    <2>3. /\ k <= counter.rev /\ m # 0 /\ (k = 0 => m = 1)
          /\ k # 0 /\ k = counter.rev => counter.op = "put" /\ m = counter.count + 1
      BY DEF IInv, RecordsOK, CounterOK
    <2> HIDE DEF m, k
    <2>4. r \in HandlerStates /\ r.pc = "write" /\ r.d = wk[w].d /\ r.n = m /\ r.rev = k
      BY <2>1 DEF HandlerStates, Handlers
    <2> HIDE DEF r
    <2>5. /\ wk' \in [Workers -> HandlerStates] /\ \A v \in Workers \ {w} : wk'[v] = wk[v]
          /\ wk'[w].pc = "write" /\ wk'[w].d = wk[w].d /\ wk'[w].n = m /\ wk'[w].rev = k
      BY <2>1, <2>2, <2>4
    <2>6. RecordsOK'
      BY <1>0, <1>2, <2>5 DEF IInv, RecordsOK, broker
    <2>7. HandlerOK(w)' /\ w \notin Unfailed'
      BY <1>0, <2>3, <2>5 DEF IInv, HandlerOK, At, Handlers, Resting, Unfailed, broker
    <2> QED BY <1>0, <2>5, <2>6, <2>7, InternalStep
  <1> QED BY <1>1, <1>2 DEF Snapshot

(* A write of increment that is applied counts one failure.                 *)
LEMMA PutKeeps ==
    ASSUME IInv, NEW w \in Workers, w \in Unrecorded, w \in Uncounted, RecordsOK', HandlerOK(w)',
           UNCHANGED <<broker, log, failed, flying, slips>>, counter' = Put(wk[w].n),
           wk[w].n = counter.count + 1,
           \A v \in Workers \ {w} : wk'[v] = wk[v],
           wk'[w].d = wk[w].d,
           \/ wk'[w].pc \in {"counted", "handback", "retry"}
           \/ wk'[w].pc = "confirm" /\ wk'[w].rev = counter.rev
    PROVE  IInv'
  <1>1. /\ counter'.op = "put" /\ counter'.rev = counter.rev + 1 /\ counter.rev \in Nat
        /\ counter'.count = counter.count + 1
    BY DEF Put, IInv, RecordsOK
  <1>2. w \notin Uncounted' /\ w \notin Unfailed'
    BY <1>1 DEF Uncounted, Unfailed, At
  <1> QED BY <1>1, <1>2, InternalStep

(* The value that is written and the shape of the counter after it.         *)
LEMMA PutType ==
    ASSUME IInv, NEW w \in Workers
    PROVE  Put(wk[w].n) \in [op : {"none", "put", "del"}, count : Nat, rev : Nat]
  <1>1. wk[w].n \in Nat /\ counter.rev \in Nat
    BY DEF IInv, RecordsOK, HandlerStates
  <1> QED BY <1>1 DEF Put

(* A write is applied only at the revision that was read, where the counter *)
(* still has the value that was read, or, as a create, where no counter is: *)
(* for the first failure, or the first since it was cleared or expired.     *)
LEMMA AppliesFacts ==
    ASSUME IInv, NEW w \in Workers, At(w, "write"), Applies(wk[w].rev)
    PROVE  wk[w].n = counter.count + 1 /\ (wk[w].rev # 0 => wk[w].rev = counter.rev)
  BY DEF IInv, HandlerOK, CounterOK, Applies, At

(* A handler that writes has its delivery, and its failure is not counted.  *)
LEMMA WriteFacts ==
    ASSUME IInv, NEW w \in Workers, At(w, "write")
    PROVE  /\ w \in Unrecorded /\ w \in Uncounted /\ wk[w].d \in 1..delivered
           /\ wk[w].rev <= counter.rev /\ wk[w].n # 0
           /\ wk[w].rev # 0 /\ wk[w].rev = counter.rev =>
                 counter.op = "put" /\ wk[w].n = counter.count + 1
  BY DEF At, Unrecorded, Uncounted, Handlers, IInv, HandlerOK

(* write: applied or a conflict.                                            *)
LEMMA AnsweredKeeps ==
    ASSUME IInv, NEW w \in Workers, At(w, "write"), CounterStep, Answered(w)
    PROVE  IInv'
  <1>1. UNCHANGED <<payload, broker, log, lease, shutdown, failed, slips, flying, faults>>
    BY DEF CounterStep, Answered
  <1>2. CASE Conflict(w) /\ UNCHANGED counter
    BY <1>1, <1>2, ConflictKeeps DEF counting
  <1>3. CASE Applies(wk[w].rev) /\ counter' = Put(wk[w].n) /\ Go(w, "counted")
    <2>1. /\ wk' \in [Workers -> HandlerStates] /\ \A v \in Workers \ {w} : wk'[v] = wk[v]
          /\ wk'[w].d = wk[w].d /\ wk'[w].pc = "counted"
      BY <1>3, GoFacts DEF Handlers
    <2>2. RecordsOK'
      BY <1>1, <1>3, <2>1, PutType DEF IInv, RecordsOK, broker
    <2>3. HandlerOK(w)'
      BY <1>1, <2>1, WriteFacts DEF HandlerOK, At, Handlers, Resting, broker
    <2> QED BY <1>1, <1>3, <2>1, <2>2, <2>3, AppliesFacts, WriteFacts, PutKeeps
  <1> QED BY <1>2, <1>3 DEF Answered

(* A write whose answer does not come: applied, or on its way.              *)
LEMMA UnansweredKeeps ==
    ASSUME IInv, NEW w \in Workers, At(w, "write"), CounterStep, Unanswered(w),
           faults' \in 0..MaxFaults,
           \/ Unavailable(w)
           \/ Go(w, "confirm") /\ wk[w].rev # 0
    PROVE  IInv'
  <1>1. UNCHANGED <<payload, broker, log, lease, shutdown, failed, slips>>
    BY DEF CounterStep
  <1>2. /\ wk' \in [Workers -> HandlerStates] /\ wk[w] \in HandlerStates
        /\ \A v \in Workers \ {w} : wk'[v] = wk[v]
        /\ wk'[w].d = wk[w].d
        /\ \/ wk'[w].pc \in {"handback", "retry"}
           \/ /\ wk'[w].pc = "confirm" /\ wk[w].rev # 0
              /\ wk'[w].rev = wk[w].rev /\ wk'[w].n = wk[w].n
    BY GoFacts, CountedFacts DEF Unavailable, Handlers
  <1>3. CASE Applies(wk[w].rev) /\ counter' = Put(wk[w].n) /\ UNCHANGED flying
    <2>1. RecordsOK'
      BY <1>1, <1>2, <1>3, PutType DEF IInv, RecordsOK, broker
    <2>2. counter'.rev = counter.rev + 1 /\ counter.rev \in Nat
      BY <1>3 DEF Put, IInv, RecordsOK
    <2>3. HandlerOK(w)'
      BY <1>1, <1>2, <2>2, WriteFacts, AppliesFacts, <1>3
         DEF HandlerOK, At, Handlers, Resting, broker
    <2> QED BY <1>1, <1>2, <1>3, <2>1, <2>3, AppliesFacts, WriteFacts, PutKeeps
  <1>4. CASE UNCHANGED counter /\ flying' = flying \union {[n |-> wk[w].n, rev |-> wk[w].rev]}
    <2>1. [n |-> wk[w].n, rev |-> wk[w].rev] \in [n : Nat, rev : Nat]
      BY <1>2 DEF HandlerStates
    <2>2. RecordsOK'
      BY <1>1, <1>2, <1>4, <2>1 DEF IInv, RecordsOK, broker
    <2>3. HandlerOK(w)'
      BY <1>1, <1>2, <1>4, WriteFacts DEF HandlerOK, At, Handlers, Resting, broker
    <2>4. w \notin Unfailed' /\ w \in Uncounted /\ w \in Unrecorded
      BY <1>2, WriteFacts DEF Unfailed
    <2> QED BY <1>1, <1>2, <1>4, <2>2, <2>3, <2>4, InternalStep
  <1> QED BY <1>3, <1>4 DEF Unanswered

(* kv create.                                                               *)
LEMMA CreateKeeps ==
    ASSUME IInv, NEW w \in Workers, Create(w)
    PROVE  IInv'
  BY FaultType, AnsweredKeeps, UnansweredKeeps DEF Create

(* cas::update.                                                             *)
LEMMA UpdateKeeps ==
    ASSUME IInv, NEW w \in Workers, Update(w)
    PROVE  IInv'
  BY FaultType, AnsweredKeeps, UnansweredKeeps DEF Update

(* cas::update after a lost answer: the write is tried again only at the    *)
(* revision it was for, where it has not been applied yet.                  *)
LEMMA ConfirmKeeps ==
    ASSUME IInv, NEW w \in Workers, Confirm(w)
    PROVE  IInv'
  <1>1. /\ w \in Unrecorded /\ At(w, "confirm")
        /\ wk[w].d \in 1..delivered /\ wk[w].rev # 0 /\ wk[w].rev <= counter.rev /\ wk[w].n # 0
        /\ wk[w].rev = counter.rev => counter.op = "put" /\ wk[w].n = counter.count + 1
        /\ UNCHANGED <<payload, broker, counter, flying, failed, log, lease, shutdown, slips>>
        /\ faults' \in 0..MaxFaults
    BY FaultType DEF At, Unrecorded, Handlers, Confirm, CounterStep, IInv, HandlerOK
  <1>2. CASE Unavailable(w)
    BY <1>1, <1>2, UnavailableKeeps DEF counting
  <1>3. CASE Go(w, "counted")
    <2>1. RecordsOK'
      BY <1>1, <1>3, GoFacts DEF IInv, RecordsOK, broker, Handlers
    <2>2. w \notin Unfailed' /\ wk[w].pc \in Handlers
      BY <1>3, GoFacts DEF Unfailed, Unrecorded, Handlers, At, Confirm
    <2> QED BY <1>1, <1>3, <2>1, <2>2, GoFacts, MoveKeeps DEF Handlers, counting
  <1>4. CASE counter.rev = wk[w].rev /\ Go(w, "write")
    <2>1. /\ wk' \in [Workers -> HandlerStates] /\ \A v \in Workers \ {w} : wk'[v] = wk[v]
          /\ wk'[w].d = wk[w].d /\ wk'[w].pc = "write"
          /\ wk'[w].rev = wk[w].rev /\ wk'[w].n = wk[w].n
      BY <1>4, GoFacts DEF Handlers
    <2>2. RecordsOK'
      BY <1>1, <2>1 DEF IInv, RecordsOK, broker
    <2>3. HandlerOK(w)' /\ w \notin Unfailed'
      BY <1>1, <2>1 DEF HandlerOK, At, Handlers, Resting, Unfailed, broker
    <2>4. w \in Uncounted
      BY <1>1, <1>4 DEF Uncounted
    <2> QED BY <1>1, <2>1, <2>2, <2>3, <2>4, InternalStep
  <1> QED BY <1>2, <1>3, <1>4 DEF Confirm

-----------------------------------------------------------------------------
(* A counted failure, and the end of a handler *)

(* classify_pre_turn_failure.                                               *)
LEMMA ClassifyKeeps ==
    ASSUME IInv, NEW w \in Workers, Classify(w)
    PROVE  IInv'
  <1>1. w \in Unrecorded /\ UNCHANGED <<payload, shutdown>>
    BY DEF Classify, At, Unrecorded, Handlers
  <1>2. CASE AcquireOrDefer(w, "record")
    BY <1>1, <1>2, AcquireOrDeferKeeps
  <1>3. CASE /\ Counted(w, "record") \/ Unavailable(w)
             /\ UNCHANGED <<broker, counting, log, lease, slips, faults>>
    <2>1. faults' \in 0..MaxFaults
      BY <1>3, FaultType
    <2> QED BY <1>1, <1>3, <2>1, CountedKeeps, UnavailableKeeps
  <1> QED BY <1>2, <1>3 DEF Classify

(* durabilize_pre_turn_failure: the Error is recorded, or it is not and the *)
(* activation is durable only as a size rejection.                          *)
LEMMA DurabilizeKeeps ==
    ASSUME IInv, NEW w \in Workers, Durabilize(w)
    PROVE  IInv'
  <1>1. w \in Unrecorded /\ w \notin Unfailed /\ wk[w].err \in Kinds \union {None, "size"}
    BY DEF Durabilize, At, Unrecorded, Unfailed, Handlers, IInv, RecordsOK, HandlerStates
  <1> QED BY <1>1, RecordErrorKeeps DEF Durabilize

(* A durable failure terminates the activation: its prompt is settled, or   *)
(* the reason is the size.                                                  *)
LEMMA TerminateKeeps ==
    ASSUME IInv, NEW w \in Workers, Terminate(w)
    PROVE  IInv'
  <1>1. /\ At(w, "durable") /\ wk[w].pc \in Handlers /\ UNCHANGED <<payload, lease, shutdown>>
        /\ remove(w, Reason(w), "clear")
    BY DEF Terminate, terminate_activation, At, Handlers
  <1>2. Reason(w) \in Fates /\ Removable(Reason(w))
    BY <1>1 DEF Reason, Fates, Removable, IInv, HandlerOK, At
  <1> QED BY <1>1, <1>2, RemoveKeeps

(* The activation goes back with its failure counted.                       *)
LEMMA RetryKeeps ==
    ASSUME IInv, NEW w \in Workers, Retry(w)
    PROVE  IInv'
  <1>1. w \in Unrecorded /\ UNCHANGED <<payload, lease, shutdown>>
    BY DEF Retry, At, Unrecorded, Handlers
  <1> QED BY <1>1, RedeliverKeeps, HandBackKeeps DEF Retry

(* A step after which a worker rests.                                       *)
LEMMA RestKeeps ==
    ASSUME IInv, NEW w \in Workers, wk' = [wk EXCEPT ![w] = Idle],
           UNCHANGED <<payload, broker, log, failed, flying, slips>>, faults' \in 0..MaxFaults,
           lease' \in {lease, None}, shutdown' \subseteq Workers,
           \/ UNCHANGED counter
           \/ counter' = [op |-> "del", count |-> 0, rev |-> counter.rev + 1]
    PROVE  IInv'
  <1>1. Idle \in HandlerStates /\ Idle.pc = "idle" /\ Idle.d = 0
    BY DEF Idle, HandlerStates, Resting
  <1>2. /\ wk' \in [Workers -> HandlerStates] /\ \A v \in Workers \ {w} : wk'[v] = wk[v]
        /\ wk'[w] = Idle
    BY <1>1 DEF IInv, RecordsOK
  <1>3. counter' \in [op : {"none", "put", "del"}, count : Nat, rev : Nat]
    BY DEF IInv, RecordsOK
  <1>4. RecordsOK'
    BY <1>2, <1>3 DEF IInv, RecordsOK, broker
  <1>5. HandlerOK(w)'
    BY <1>1, <1>2 DEF HandlerOK, At, Handlers, Resting
  <1>6. w \notin Unfailed' /\ w \notin Uncounted' /\ w \notin Unrecorded'
    BY <1>1, <1>2 DEF At, Handlers, Unfailed, Uncounted, Unrecorded
  <1>7. \/ UNCHANGED counter
        \/ counter'.op = "del" /\ counter'.rev = counter.rev + 1 /\ counter'.count = 0
    OBVIOUS
  <1> QED BY <1>1, <1>2, <1>4, <1>5, <1>6, <1>7, InternalStep

(* The end of a handler, with or without clear_activation_failures.         *)
LEMMA ReleaseKeeps ==
    ASSUME IInv, NEW w \in Workers, Release(w)
    PROVE  IInv'
  <1>1. /\ faults' \in 0..MaxFaults /\ lease' \in {lease, None} /\ shutdown' \subseteq Workers
        /\ \/ UNCHANGED counter
           \/ counter' = [op |-> "del", count |-> 0, rev |-> counter.rev + 1]
    BY FaultType DEF Release, Cleared, Freed, IInv, RecordsOK
  <1> QED BY <1>1, RestKeeps DEF Release

(* The process of a worker dies.                                            *)
LEMMA CrashKeeps ==
    ASSUME IInv, NEW w \in Workers, Crash(w)
    PROVE  IInv'
  <1>1. faults' \in 0..MaxFaults /\ shutdown' \subseteq Workers
    BY FaultType DEF Crash, IInv, RecordsOK
  <1> QED BY <1>1, RestKeeps DEF Crash, counting

(* A worker notices that its lease is lost.                                 *)
LEMMA NoticeLossKeeps ==
    ASSUME IInv, NEW w \in Workers, NoticeLoss(w)
    PROVE  IInv'
  <1> DEFINE r == [wk[w] EXCEPT !.held = FALSE]
  <1>1. wk \in [Workers -> HandlerStates] /\ wk[w] \in HandlerStates
    BY DEF IInv, RecordsOK
  <1>2. /\ r \in HandlerStates /\ r.pc = wk[w].pc /\ r.d = wk[w].d /\ r.err = wk[w].err
        /\ r.n = wk[w].n /\ r.rev = wk[w].rev
    BY <1>1 DEF HandlerStates
  <1>3. wk' = [wk EXCEPT ![w] = r]
    BY DEF NoticeLoss
  <1> HIDE DEF r
  <1>4. /\ wk' \in [Workers -> HandlerStates] /\ \A v \in Workers \ {w} : wk'[v] = wk[v]
        /\ wk'[w].pc = wk[w].pc /\ wk'[w].d = wk[w].d /\ wk'[w].err = wk[w].err
        /\ wk'[w].n = wk[w].n /\ wk'[w].rev = wk[w].rev
    BY <1>1, <1>2, <1>3
  <1>5. UNCHANGED <<payload, broker, counter, flying, failed, log, lease, shutdown, slips, faults>>
    BY DEF NoticeLoss, counting
  <1>6. RecordsOK'
    BY <1>4, <1>5 DEF IInv, RecordsOK, broker
  <1>7. wk[w].pc # "idle"
    BY DEF NoticeLoss, IInv, HandlerOK, At, Idle
  <1>8. HandlerOK(w)'
    BY <1>4, <1>5, <1>7 DEF IInv, HandlerOK, At, broker
  <1>9. UNCHANGED <<Unfailed, Unrecorded>> /\ (w \in Uncounted' => w \in Uncounted)
    BY <1>4, <1>5 DEF Unfailed, Unrecorded, Uncounted, At
  <1> QED BY <1>4, <1>5, <1>6, <1>8, <1>9, InternalStep

(* Steps of the surroundings: leases expire or are taken by other work,     *)
(* which may settle the prompt or replace its invocation; workers are asked *)
(* to stop and come back.                                                   *)
LEMMA SurroundingsKeep ==
    ASSUME IInv, UNCHANGED <<payload, broker, counting, wk, slips>>, faults' \in 0..MaxFaults,
           lease' \in Workers \union {None, "other"}, shutdown' \subseteq Workers,
           log' \in LogStates, log'.errors = log.errors,
           log.covered => log'.covered, log.replaced => log'.replaced
    PROVE  IInv'
  <1>1. UNCHANGED <<msg, delivered, fate, excused, counter, flying, failed>>
    BY DEF broker, counting
  <1>2. RecordsOK'
    BY <1>1 DEF IInv, RecordsOK
  <1>3. BrokerOK' /\ CounterOK'
    BY <1>1 DEF IInv, BrokerOK, CounterOK, SafeToRemove
  <1>4. \A v \in Workers : HandlerOK(v)'
    BY <1>1, <1>2, OtherHandler DEF IInv, RecordsOK
  <1>5. CountsOK'
    BY <1>1 DEF IInv, CountsOK, Returnable, Unrecorded, Unfailed, Uncounted, At, Open, Failures
  <1> QED BY <1>2, <1>3, <1>4, <1>5 DEF IInv

(* A step that changes the counter and no handler: a failure that may still *)
(* be counted is none that was not.                                         *)
LEMMA CounterKeeps ==
    ASSUME IInv, RecordsOK',
           UNCHANGED <<payload, broker, log, lease, shutdown, wk, failed, faults>>,
           flying' \subseteq flying, counter'.rev = counter.rev + 1,
           IF counter'.op = "put" THEN counter'.rev # 0 ELSE counter'.count = 0,
           slips'.unsure = slips.unsure,
           \/ counter'.count = 0 /\ slips'.late = slips.late
           \/ counter'.count = counter.count + 1 /\ slips'.late = slips.late + 1
    PROVE  IInv'
  <1>1. UNCHANGED <<msg, delivered, fate, excused>> /\ counter.rev \in Nat
    BY DEF broker, IInv, RecordsOK
  <1>2. BrokerOK' /\ CounterOK'
    <2>1. BrokerOK'
      BY <1>1 DEF IInv, BrokerOK, SafeToRemove
    <2> QED BY <2>1, FlyingKeep DEF IInv
  <1>3. \A v \in Workers : HandlerOK(v)'
    BY <1>1, OtherHandler DEF IInv, RecordsOK
  <1>4. CountsOK'
    <2>1. UNCHANGED <<Returnable, Unrecorded, Unfailed, Open, Failures>>
      BY <1>1 DEF Returnable, Unrecorded, Unfailed, Open, Failures
    <2>2. Uncounted' \subseteq Uncounted
      BY <1>1 DEF Uncounted, At, IInv, HandlerOK, RecordsOK, HandlerStates
    <2>3. /\ IsFiniteSet(Uncounted') /\ Cardinality(Uncounted') <= Cardinality(Uncounted)
          /\ Cardinality(Uncounted') \in Nat /\ Cardinality(Uncounted) \in Nat
      BY <2>2, CountSame DEF IInv, CountsOK
    <2>4. counter.count \in Nat /\ Failures \in Nat /\ slips.late \in Nat
      BY DEF IInv, RecordsOK, Failures, SlipStates
    <2>5. counter'.count + Cardinality(Uncounted') <= Failures' + slips'.late
      BY <2>1, <2>3, <2>4 DEF IInv, CountsOK
    <2> QED BY <1>1, <2>1, <2>3, <2>5 DEF IInv, CountsOK
  <1> QED BY <1>2, <1>3, <1>4 DEF IInv

(* A write that lands late counts a failure that may be counted already.    *)
LEMMA LandsLateKeeps ==
    ASSUME IInv, LandsLate
    PROVE  IInv'
  <1>1. PICK f \in flying :
            /\ Applies(f.rev) /\ counter' = Put(f.n) /\ flying' = flying \ {f}
            /\ slips' = [slips EXCEPT !.late = @ + 1]
    BY DEF LandsLate
  <1>2. UNCHANGED <<payload, broker, log, lease, shutdown, wk, failed, faults>>
    BY DEF LandsLate
  <1>3. f.n \in Nat /\ f.rev \in Nat /\ counter.rev \in Nat /\ slips.late + 1 \in Nat
    BY DEF IInv, RecordsOK, SlipStates
  <1>4. f.n = counter.count + 1
    BY <1>1 DEF IInv, CounterOK, Applies
  <1>5. /\ counter' \in [op : {"none", "put", "del"}, count : Nat, rev : Nat]
        /\ counter'.op = "put" /\ counter'.rev = counter.rev + 1 /\ counter'.rev # 0
        /\ counter'.count = counter.count + 1
    BY <1>1, <1>3, <1>4 DEF Put
  <1>6. /\ slips' \in SlipStates /\ slips'.expired \in 0..MaxFaults
        /\ slips'.late = slips.late + 1 /\ slips'.unsure = slips.unsure
    BY <1>1, <1>3 DEF IInv, RecordsOK, SlipStates
  <1>7. RecordsOK'
    BY <1>1, <1>2, <1>5, <1>6 DEF IInv, RecordsOK, broker
  <1> QED BY <1>1, <1>2, <1>5, <1>6, <1>7, CounterKeeps

(* The counter's time to live runs out.                                     *)
LEMMA CounterExpiresKeeps ==
    ASSUME IInv, CounterExpires
    PROVE  IInv'
  <1>1. /\ UNCHANGED <<payload, broker, log, lease, shutdown, wk, failed, flying, faults>>
        /\ counter' = [op |-> "none", count |-> 0, rev |-> counter.rev + 1]
        /\ slips' = [slips EXCEPT !.expired = @ + 1] /\ faults + slips.expired < MaxFaults
    BY DEF CounterExpires
  <1>2. counter.rev \in Nat /\ slips \in SlipStates /\ faults \in Nat
    BY DEF IInv, RecordsOK
  <1>3. /\ slips' \in SlipStates /\ slips'.expired \in 0..MaxFaults
        /\ slips'.late = slips.late /\ slips'.unsure = slips.unsure
    BY <1>1, <1>2, DeliveryConstants DEF SlipStates
  <1>4. RecordsOK'
    BY <1>1, <1>2, <1>3 DEF IInv, RecordsOK, broker
  <1> QED BY <1>1, <1>3, <1>4, CounterKeeps

-----------------------------------------------------------------------------
(* The invariant holds before the first delivery.                           *)
LEMMA InitInv == Init => IInv
  <1> SUFFICES ASSUME Init PROVE IInv
    OBVIOUS
  <1> USE DEF Init
  <1>1. Idle \in HandlerStates /\ Idle.pc = "idle" /\ Idle.d = 0
    BY DEF Idle, HandlerStates, Resting
  <1>2. RecordsOK
    BY <1>1, DeliveryConstants DEF RecordsOK, LogStates, SlipStates
  <1>3. BrokerOK /\ CounterOK
    BY DeliveryConstants DEF BrokerOK, CounterOK, SafeToRemove
  <1>4. \A w \in Workers : HandlerOK(w)
    BY <1>1 DEF HandlerOK, At, Handlers, Resting
  <1>5. CountsOK
    <2>1. Returnable = {} /\ Unrecorded = {} /\ Unfailed = {} /\ Uncounted = {}
      BY <1>1, DeliveryConstants DEF Returnable, Unrecorded, Unfailed, Uncounted, At, Handlers
    <2>2. IsFiniteSet({}) /\ Cardinality({}) = 0
      BY FS_EmptySet
    <2>3. Open = 0 /\ Failures = 0
      BY DEF Open, Failures
    <2> QED BY <2>1, <2>2, <2>3, DeliveryConstants DEF CountsOK
  <1> QED BY <1>2, <1>3, <1>4, <1>5 DEF IInv

(* Every step of a handler keeps the invariant.                             *)
LEMMA HandlerKeeps ==
    ASSUME IInv, NEW w \in Workers, Handler(w)
    PROVE  IInv'
  BY PreflightKeeps, CheckStatusKeeps, AcquireKeeps, StartupKeeps, TurnKeeps, FinishKeeps,
     SettleKeeps, SnapshotKeeps, CreateKeeps, UpdateKeeps, ConfirmKeeps, ClassifyKeeps, DurabilizeKeeps,
     TerminateKeeps, RetryKeeps, ReleaseKeeps DEF Handler

(* Every step keeps the invariant.                                          *)
LEMMA NextInv == IInv /\ [Next]_vars => IInv'
  <1> SUFFICES ASSUME IInv, [Next]_vars PROVE IInv'
    OBVIOUS
  <1>1. CASE AckWaitExpires
    BY <1>1, AckWaitExpiresKeeps
  <1>2. CASE OtherHolder \/ InvocationReplaced
    <2>1. /\ faults' \in 0..MaxFaults /\ shutdown' \subseteq Workers
          /\ lease' \in Workers \union {None, "other"}
          /\ UNCHANGED <<payload, broker, counting, wk, slips>>
      BY <1>2 DEF OtherHolder, InvocationReplaced, IInv, RecordsOK
    <2>2. log' \in {log, Settled, [log EXCEPT !.replaced = TRUE]}
      BY <1>2 DEF OtherHolder, InvocationReplaced
    <2>3. /\ log' \in LogStates /\ log'.errors = log.errors
          /\ (log.covered => log'.covered) /\ (log.replaced => log'.replaced)
      BY <2>2, LogFacts DEF LogStates
    <2> QED BY <2>1, <2>3, SurroundingsKeep
  <1>3. ASSUME NEW w \in Workers, Deliver(w) \/ Handler(w) \/ NoticeLoss(w) \/ Crash(w)
        PROVE  IInv'
    BY <1>3, DeliverKeeps, HandlerKeeps, NoticeLossKeeps, CrashKeeps
  <1>4. ASSUME NEW w \in Workers, LoseLease(w) \/ LeaseExpires(w) \/ Shutdown(w) \/ Restart(w)
        PROVE  IInv'
    <2>1. /\ faults' \in 0..MaxFaults /\ shutdown' \subseteq Workers
          /\ lease' \in Workers \union {None, "other"}
          /\ UNCHANGED <<payload, broker, counting, log, wk, slips>>
      BY <1>4, FaultType DEF LoseLease, LeaseExpires, Shutdown, Restart, IInv, RecordsOK
    <2> QED BY <2>1, LogFacts, SurroundingsKeep
  <1>5. CASE UNCHANGED vars
    <2>1. /\ faults' \in 0..MaxFaults /\ shutdown' \subseteq Workers
          /\ lease' \in Workers \union {None, "other"}
          /\ UNCHANGED <<payload, broker, counting, log, wk, slips>>
      BY <1>5 DEF vars, IInv, RecordsOK
    <2> QED BY <2>1, LogFacts, SurroundingsKeep
  <1>6. CASE LandsLate \/ CounterExpires
    BY <1>6, LandsLateKeeps, CounterExpiresKeeps
  <1> QED BY <1>1, <1>2, <1>3, <1>4, <1>5, <1>6 DEF Next

(* The invariant of the message, its deliveries, the counter and the        *)
(* handlers holds in every reachable state.                                 *)
THEOREM DeliveryInvariant == Spec => []IInv
  BY InitInv, NextInv, PTL DEF Spec

(* TypeOK: the message is never delivered past max_deliver, no more         *)
(* deliveries are excused or fail than there were, and a worker that is     *)
(* done with a delivery keeps nothing of it.                                *)
THEOREM DeliveryTypeCorrect == Spec => []TypeOK
  <1>1. IInv => TypeOK
    <2> SUFFICES ASSUME IInv PROVE TypeOK
      OBVIOUS
    <2>1. /\ delivered \in 0..WORK_NOTIFY_MAX_DELIVER /\ excused \in 0..delivered
          /\ (msg = "gone") = (fate # None)
      BY DeliveryConstants DEF IInv, RecordsOK, BrokerOK
    <2>2. {failed.unclaimed, failed.claimed} \subseteq 0..WORK_NOTIFY_MAX_DELIVER
      <3>1. /\ Cardinality(Unfailed) \in Nat
            /\ failed.unclaimed \in Nat /\ failed.claimed \in Nat
            /\ failed.unclaimed + failed.claimed + Cardinality(Unfailed) <= delivered
        BY FS_CardinalityType DEF IInv, CountsOK, RecordsOK, Failures
      <3> QED BY <2>1, <3>1, DeliveryConstants
    <2>3. ASSUME NEW w \in Workers
          PROVE  /\ At(w, "idle") => wk[w] = Idle
                 /\ wk[w].d \in 0..delivered /\ wk[w].err \in Kinds \union {None, "size"}
      BY <2>1 DEF IInv, HandlerOK, RecordsOK, HandlerStates
    <2>4. \A f \in flying : f.n \in Nat \ {0} /\ f.rev \in 0..counter.rev
      BY DEF IInv, RecordsOK, CounterOK
    <2>5. /\ log.covered \in BOOLEAN /\ log.replaced \in BOOLEAN /\ log.errors \in Nat
          /\ {slips.late, slips.unsure} \subseteq Nat /\ slips.expired \in 0..MaxFaults
      BY DEF IInv, RecordsOK, LogStates, SlipStates
    <2> QED BY <2>1, <2>2, <2>3, <2>4, <2>5 DEF TypeOK, IInv, RecordsOK
  <1> QED BY <1>1, DeliveryInvariant, PTL

(* SafeToRemove: a message leaves the stream only when the log settles its  *)
(* prompt, when a turn completed after another invocation had replaced the  *)
(* prompt's, or for one of the reasons that say why it cannot be settled.   *)
THEOREM RemovalIsSafe == Spec => []SafeToRemove
  <1>1. IInv => SafeToRemove
    BY DEF IInv, BrokerOK
  <1> QED BY <1>1, DeliveryInvariant, PTL

(* CountsRealFailures: whatever writes were lost, repeated or raced, the    *)
(* counter exceeds the failures by the writes that landed late at most.     *)
THEOREM CounterIsHonest == Spec => []CountsRealFailures
  <1>1. IInv => CountsRealFailures
    <2> SUFFICES ASSUME IInv PROVE counter.count <= Failures + slips.late
      BY DEF CountsRealFailures
    <2>1. /\ Cardinality(Uncounted) \in Nat /\ counter.count \in Nat /\ Failures \in Nat
          /\ slips.late \in Nat
      BY FS_CardinalityType DEF IInv, CountsOK, RecordsOK, Failures, SlipStates
    <2> QED BY <2>1 DEF IInv, CountsOK
  <1> QED BY <1>1, DeliveryInvariant, PTL

(* LimitLeavesRoom: every delivery past the workers' limit is owed to one   *)
(* that no worker decided on.                                               *)
THEOREM LimitHolds == Spec => []LimitLeavesRoom
  <1>1. IInv => LimitLeavesRoom
    <2> SUFFICES ASSUME IInv PROVE delivered <= MAX_ACTIVATION_DELIVERIES + excused
      BY DEF LimitLeavesRoom
    <2>1. Cardinality(Returnable) \in Nat /\ delivered \in Nat /\ excused \in Nat
      BY FS_CardinalityType DEF IInv, CountsOK, RecordsOK
    <2>2. delivered + Cardinality(Returnable) < MAX_ACTIVATION_DELIVERIES + Open
      BY DEF IInv, CountsOK
    <2> QED BY <2>1, <2>2, DeliveryConstants DEF Open
  <1> QED BY <1>1, DeliveryInvariant, PTL

(* ErrorsAreNotRepeated: a recorded failure ends the activation, but for    *)
(* deliveries that no worker decided on and appends and acks that the       *)
(* worker was told had failed.                                              *)
THEOREM ErrorsEndTheActivation == Spec => []ErrorsAreNotRepeated
  <1>1. IInv => ErrorsAreNotRepeated
    <2> SUFFICES ASSUME IInv PROVE log.errors <= 1 + excused + slips.unsure
      BY DEF ErrorsAreNotRepeated
    <2>1. /\ Cardinality(Unrecorded) \in Nat /\ log.errors \in Nat /\ excused \in Nat
          /\ slips.unsure \in Nat
      BY FS_CardinalityType DEF IInv, CountsOK, RecordsOK, LogStates, SlipStates
    <2>2. log.errors + Cardinality(Unrecorded) <= Open + slips.unsure
      BY DEF IInv, CountsOK
    <2> QED BY <2>1, <2>2 DEF Open
  <1> QED BY <1>1, DeliveryInvariant, PTL
=============================================================================
