------------------------- MODULE SessionLeaseProofs -------------------------
(***************************************************************************)
(* Proofs about SessionLease for every set of workers, every host map,     *)
(* every TTL of whole seconds and every bound on revisions.                *)
(*                                                                         *)
(* IInv says, beyond the types: the current lease is a run of its holder's *)
(* own records (ChainOK); a worker awaits one request at a time (LiveOK);  *)
(* a CAS on the wire names a record its sender wrote, a reclaim the record *)
(* of a dead process (NamesOK); and each lease is where its phase says     *)
(* (LeaseOK).  The part that makes it inductive is that requests a worker  *)
(* gave up on may still arrive: HeldOK and Fresh say that such a request   *)
(* names an older revision than the one the worker relies on, or that one  *)
(* itself when a renewal of it was dropped.                                *)
(***************************************************************************)
EXTENDS SessionLease, TLAPS

(* Every record is dated consistently: a put was written by a worker, under *)
(* an acquisition no later than itself, and extends an earlier revision.    *)
RecordsOK ==
    \A r \in 1..Last :
        \/ /\ stream[r].op = "put"
           /\ stream[r].by \in Workers
           /\ stream[r].acq \in 1..r
           /\ stream[r].prior < r
        \/ stream[r].op = "gone" /\ stream[r].by = None

(* The current lease is an unbroken run of its holder's own puts. *)
ChainOK ==
    Present => \A r \in stream[Last].acq..Last :
                    stream[r].op = "put" /\ stream[r].by = stream[Last].by

(* A worker waits for at most one request at a time. *)
Pending(m) ==
    /\ reply[m.by] = None
    /\ m.kind = "create" => phase[m.by] \in {"creating", "recreating"}
    /\ m.kind = "renew" =>
          phase[m.by] = "renewing" /\ m.at = token[m.by] /\ m.acq = acq[m.by]
    /\ m.kind = "release" => phase[m.by] = "releasing"
    /\ m.kind = "reclaim" => phase[m.by] = "reclaiming"

LiveOK ==
    /\ \A m \in wire : m.live => Pending(m)
    /\ \A m, n \in wire : m.live /\ n.live /\ m.by = n.by => m = n

(* A CAS names a record of its own sender, a reclaim one of a dead worker. *)
NamesOK ==
    \A m \in wire :
        /\ m.kind \in {"renew", "release"} =>
              /\ m.at \in 1..Last
              /\ stream[m.at].op = "put"
              /\ stream[m.at].by = m.by
              /\ stream[m.at].acq = m.acq
        /\ m.kind = "reclaim" =>
              /\ m.at \in 1..Last
              /\ stream[m.at].op = "put"
              /\ phase[stream[m.at].by] = "dead"

Mine(w, r) ==
    /\ r \in 1..Last
    /\ stream[r].op = "put"
    /\ stream[r].by = w

(* No renewal or release of w that is still on the wire names r or later,  *)
(* and none that named r has been stored.                                  *)
Fresh(w, r) ==
    /\ \A m \in wire : m.by = w /\ m.kind \in {"renew", "release"} => m.at < r
    /\ \A q \in 1..Last : stream[q].by = w => stream[q].prior < r

(* r is the broker's last record and outlives the sentAgo-dated confirmation *)
Covers(r, sentAgo) == sentAgo = TTL \/ (Last = r /\ left >= TTL - sentAgo)

(* An acknowledged create is w's, current, and outlives its confirmation. *)
CreatingOK(w) ==
    phase[w] \in {"creating", "recreating"} /\ reply[w] \notin {None, 0} =>
        /\ Mine(w, reply[w])
        /\ stream[reply[w]].acq = reply[w]
        /\ Fresh(w, reply[w])
        /\ Covers(reply[w], ago[w])

(* The fence token is a revision w wrote under its current acquisition;    *)
(* nothing w sent names a later one, no release names this one, and only   *)
(* w's own renewal can have replaced it.  An assured lease is the broker's *)
(* record.                                                                 *)
Bounded(w) ==
    /\ \A m \in wire : m.by = w /\ m.kind \in {"renew", "release"} => m.at <= token[w]
    /\ \A m \in wire : m.by = w /\ m.kind = "release" => m.at < token[w]
    /\ \A q \in 1..Last : stream[q].by = w => stream[q].prior <= token[w]
    /\ \A r \in 1..Last :
          stream[r].by = w /\ stream[r].prior = token[w] => stream[r].acq = acq[w]

Current(w) ==
    conf[w] > 0 /\ ~Misdated(w) =>
        /\ left >= conf[w]
        /\ \/ Last = token[w]
           \/ stream[Last].by = w /\ stream[Last].prior = token[w]

HeldOK(w) ==
    Held(w) =>
        /\ Mine(w, token[w]) /\ stream[token[w]].acq = acq[w]
        /\ Bounded(w) /\ Current(w)

(* Between renewals nothing has renewed the token, unless one was dropped. *)
RestingOK(w) ==
    phase[w] = "held" /\ token[w] \notin dropped => Fresh(w, token[w])

(* During a renewal that repeats no dropped one, the record its reply      *)
(* names outlives the confirmation that reply will give.                   *)
RenewingOK(w) ==
    phase[w] = "renewing" =>
        /\ token[w] \notin dropped =>
              \A r \in 1..Last :
                  stream[r].by = w /\ stream[r].prior = token[w] => Covers(r, ago[w])
        /\ reply[w] \notin {None, 0} =>
              /\ Mine(w, reply[w])
              /\ stream[reply[w]].prior = token[w]

LeaseOK(w) == CreatingOK(w) /\ HeldOK(w) /\ RestingOK(w) /\ RenewingOK(w)

(* The inductive invariant. *)
IInv ==
    /\ TypeOK /\ RecordsOK /\ ChainOK /\ LiveOK /\ NamesOK
    /\ \A w \in Workers : LeaseOK(w)

-----------------------------------------------------------------------------
USE DEF Phases, Timed

(* What Append does to length and elements. *)
LEMMA AppendFacts ==
    ASSUME NEW S, NEW s \in Seq(S), NEW e \in S
    PROVE  /\ Append(s, e) \in Seq(S)
           /\ Len(Append(s, e)) = Len(s) + 1
           /\ Append(s, e)[Len(s) + 1] = e
           /\ \A r \in 1..Len(s) : Append(s, e)[r] = s[r]
  OBVIOUS

(* Every request a worker builds has the type of a request. *)
LEMMA RequestType ==
    ASSUME NEW w \in Workers, NEW a \in Nat, NEW q \in Nat,
           NEW k \in {"create", "renew", "release", "reclaim"}
    PROVE  Request(k, w, a, q) \in Requests
  BY DEF Request, Requests

(* Abandoned requests stay requests. *)
LEMMA GiveUpType ==
    ASSUME NEW w \in Workers, wire \subseteq Requests
    PROVE  GiveUp(w) \subseteq Requests
  BY DEF GiveUp, Abandoned, Requests

(* Ending a lease (mark_lost, release, a crash) keeps the types. *)
LEMMA EndType ==
    ASSUME NEW w \in Workers, NEW p \in Phases, TypeOK, End(w, p), UNCHANGED <<stream, left>>
    PROVE  TypeOK'
<1>1. wire' \subseteq Requests
  BY GiveUpType DEF TypeOK, End
<1>2. 0 \in 0..TTL
  BY LeaseConstants
<1> QED BY <1>1, <1>2 DEF TypeOK, End, Settle

(* The initial state is well typed. *)
LEMMA TypeInit == Init => TypeOK
  BY LeaseConstants DEF Init, TypeOK

(* Every step of a worker keeps the types. *)
LEMMA TypeWorker ==
    ASSUME NEW w \in Workers, TypeOK, WorkerStep(w)
    PROVE  TypeOK'
<1> USE LeaseConstants
<1>1. CASE Acquire(w)
  BY <1>1, RequestType DEF TypeOK, Acquire, Send, lease
<1>2. CASE Acquired(w)
  BY <1>2 DEF TypeOK, Acquired, Settle, ConfirmedFrom
<1>3. CASE CreateConflict(w)
  <2>1. CASE phase[w] = "creating" /\ Settle(w, "reading") /\ UNCHANGED <<wire, lease, ago, dropped>>
    BY <1>3, <2>1 DEF TypeOK, CreateConflict, Settle, lease
  <2>2. CASE End(w, "idle")
    BY <1>3, <2>2, EndType DEF CreateConflict
  <2> QED BY <1>3, <2>1, <2>2 DEF CreateConflict
<1>4. CASE ReclaimDead(w)
  <2>1. PICK r \in 1..Last : Send(w, Request("reclaim", w, r, 0), "reclaiming")
    BY <1>4 DEF ReclaimDead
  <2>2. r \in Nat
    BY DEF Last, TypeOK
  <2> QED BY <1>4, <2>1, <2>2, RequestType DEF TypeOK, ReclaimDead, Send, lease
<1>5. CASE Reclaimed(w)
  BY <1>5, RequestType DEF TypeOK, Reclaimed, Send, lease
<1>6. CASE RenewOnce(w)
  BY <1>6, RequestType DEF TypeOK, RenewOnce, Send, lease
<1>7. CASE RenewRetry(w)
  BY <1>7, RequestType DEF TypeOK, RenewRetry, Send, lease
<1>8. CASE RenewAcked(w)
  BY <1>8 DEF TypeOK, RenewAcked, Settle, ConfirmedFrom
<1>9. CASE Release(w)
  BY <1>9, RequestType DEF TypeOK, Release, Send, lease
<1>10. CASE \E p \in {"idle", "dead"} : End(w, p) /\ UNCHANGED <<stream, left>>
  BY <1>10, EndType
<1>11. CASE RevalidationAborted(w)
  <2>1. /\ wire' = GiveUp(w) /\ dropped' = dropped \union {token[w]}
        /\ Settle(w, "held") /\ ago' = [ago EXCEPT ![w] = 0]
        /\ UNCHANGED <<stream, left, lease>>
    BY <1>11 DEF RevalidationAborted
  <2>2. wire \subseteq Requests
    BY DEF TypeOK
  <2>3. wire' \subseteq Requests
    BY <2>1, <2>2, GiveUpType
  <2>4. dropped' \subseteq Nat
    <3>1. token[w] \in Nat /\ dropped \subseteq Nat
      BY DEF TypeOK
    <3> QED BY ONLY <2>1, <3>1
  <2>5. 0 \in 0..TTL
    BY LeaseConstants
  <2> QED BY <2>1, <2>3, <2>4, <2>5 DEF TypeOK, Settle, lease
<1> QED
  BY <1>1, <1>2, <1>3, <1>4, <1>5, <1>6, <1>7, <1>8, <1>9, <1>10, <1>11
  DEF WorkerStep, LeaveHolder, ReclaimLost, AcquireError, RenewTooLate, RenewLost,
      RenewError, ReleaseEnds, DropUnreleased, Crash

(* Every answer of the broker keeps the types. *)
LEMMA TypeBroker ==
    ASSUME NEW m \in wire, TypeOK, BrokerStep(m)
    PROVE  TypeOK'
<1>1. m \in Requests /\ m.by \in Workers /\ m.at \in Nat /\ m.acq \in Nat
  BY DEF TypeOK, Requests
<1>2. Last \in Nat
  BY DEF Last, TypeOK
<1>3. BrokerTTL = TTL
  BY WholeSeconds DEF BrokerTTL
<1>4. \A w \in Workers, a, q \in Nat : Put(w, a, q) \in Records
  BY DEF Put, Records
<1>5. Gone \in Records
  BY DEF Gone, Records
<1>6. wire' \subseteq Requests
  BY DEF TypeOK, BrokerStep, BrokerCreate, BrokerRenew, BrokerDelete
<1>7. UNCHANGED <<phase, token, acq, conf, ago, dropped>>
  BY DEF BrokerStep, BrokerCreate, BrokerRenew, BrokerDelete, lease
<1>8. PICK a \in Nat : Answer(m, a)
  BY <1>2 DEF BrokerStep, BrokerCreate, BrokerRenew, BrokerDelete, StoredAt
<1>9. reply' \in [Workers -> Nat \union {None}]
  BY <1>1, <1>8 DEF TypeOK, Answer
<1>10. \/ UNCHANGED <<stream, left>>
       \/ \E e \in Records : stream' = Append(stream, e) /\ left' \in {0, TTL}
  <2>1. CASE BrokerCreate(m)
    BY <1>1, <1>2, <1>3, <1>4, <2>1 DEF BrokerCreate
  <2>2. CASE BrokerRenew(m)
    BY <1>1, <1>2, <1>3, <1>4, <2>2 DEF BrokerRenew
  <2>3. CASE BrokerDelete(m)
    BY <1>5, <2>3 DEF BrokerDelete
  <2> QED BY <2>1, <2>2, <2>3 DEF BrokerStep
<1>11. stream' \in Seq(Records) /\ left' \in 0..TTL
  <2>1. stream \in Seq(Records) /\ left \in 0..TTL /\ {0, TTL} \subseteq 0..TTL
    BY LeaseConstants DEF TypeOK
  <2>2. \A e \in Records : Append(stream, e) \in Seq(Records)
    BY <2>1
  <2> QED BY <1>10, <2>1, <2>2
<1> QED BY <1>6, <1>7, <1>9, <1>11 DEF TypeOK

(* TypeOK is inductive by itself. *)
LEMMA TypeNext == TypeOK /\ [Next]_vars => TypeOK'
<1> SUFFICES ASSUME TypeOK, [Next]_vars PROVE TypeOK'
  OBVIOUS
<1>1. CASE Expire
  BY <1>1, AppendFacts DEF Expire, TypeOK, Gone, Records, lease
<1>2. CASE Tick
  BY <1>2, LeaseConstants DEF Tick, TypeOK, Less
<1>3. CASE UNCHANGED vars
  BY <1>3 DEF vars, TypeOK
<1> QED BY <1>1, <1>2, <1>3, TypeWorker, TypeBroker DEF Next

(* TypeOK: the key, the requests and every LeaseState keep their types,    *)
(* and no countdown leaves 0..TTL.                                         *)
THEOREM TypeCorrect == Spec => []TypeOK
  BY TypeInit, TypeNext, PTL DEF Spec

-----------------------------------------------------------------------------
(* Steps of a worker: the broker's key does not change, and the other      *)
(* workers' requests and leases are left alone.                            *)

(* What the later proofs need of the types of records and requests. *)
LEMMA WorkerTypes ==
    ASSUME TypeOK
    PROVE  /\ Last \in Nat
           /\ \A r \in 1..Last : stream[r] \in Records
           /\ \A m \in wire : m \in Requests /\ m.by \in Workers /\ m.at \in Nat
  BY DEF TypeOK, Last, Requests

(* A step that leaves the key alone keeps what is said of its records. *)
LEMMA SameKey ==
    ASSUME UNCHANGED stream, RecordsOK, ChainOK
    PROVE  RecordsOK' /\ ChainOK' /\ Last' = Last /\ Present' = Present
  BY DEF RecordsOK, ChainOK, Last, Present

(* A step of one worker leaves the lease of another as it was. *)
LEMMA OtherLeases ==
    ASSUME NEW w \in Workers, NEW v \in Workers, v # w, LeaseOK(v),
           UNCHANGED <<stream, left>>,
           phase'[v] = phase[v], token'[v] = token[v], acq'[v] = acq[v],
           conf'[v] = conf[v], ago'[v] = ago[v], reply'[v] = reply[v],
           \A n \in wire' : n.by = v =>
               \E m \in wire : m.by = v /\ m.kind = n.kind /\ m.at = n.at,
           dropped \subseteq dropped'
    PROVE  LeaseOK(v)'
<1>1. Last' = Last /\ (Misdated(v) => Misdated(v)')
  BY DEF Last, Misdated
<1>2. \A r : Fresh(v, r) => Fresh(v, r)'
  BY <1>1 DEF Fresh
<1>3. \A r : Mine(v, r)' = Mine(v, r)
  BY <1>1 DEF Mine
<1>4. \A r, a : Covers(r, a)' = Covers(r, a)
  BY <1>1 DEF Covers
<1>5. CreatingOK(v)'
  BY <1>1, <1>2, <1>3, <1>4 DEF LeaseOK, CreatingOK, Covers
<1>6. HeldOK(v)'
  <2>1. Bounded(v) => Bounded(v)'
    BY <1>1 DEF Bounded
  <2>2. Current(v) => Current(v)'
    BY <1>1 DEF Current
  <2> QED BY <1>1, <1>3, <2>1, <2>2 DEF LeaseOK, HeldOK, Held
<1>7. RestingOK(v)'
  BY <1>1, <1>2 DEF LeaseOK, RestingOK
<1>8. RenewingOK(v)'
  BY <1>1, <1>3, <1>4 DEF LeaseOK, RenewingOK, Covers
<1> QED BY <1>5, <1>6, <1>7, <1>8 DEF LeaseOK

(* Ending a lease for any reason, a crash included, keeps the invariant:   *)
(* requests already sent are still about older revisions.                  *)
LEMMA EndInv ==
    ASSUME NEW w \in Workers, NEW p \in {"idle", "dead"}, IInv, phase[w] # "dead",
           End(w, p), UNCHANGED <<stream, left>>
    PROVE  IInv'
<1>1. TypeOK'
  BY EndType DEF IInv
<1>2. \A n \in wire' : \E m \in wire :
          /\ m.by = n.by /\ m.kind = n.kind /\ m.at = n.at /\ m.acq = n.acq
          /\ n.live => n = m /\ m.by # w
  BY DEF End, GiveUp, Abandoned, IInv, TypeOK, Requests
<1>3. \A v \in Workers : v # w =>
          /\ phase'[v] = phase[v] /\ token'[v] = token[v] /\ acq'[v] = acq[v]
          /\ conf'[v] = conf[v] /\ ago'[v] = ago[v] /\ reply'[v] = reply[v]
  BY DEF IInv, TypeOK, End, Settle
<1>4. phase'[w] = p
  BY DEF IInv, TypeOK, End, Settle
<1>5. RecordsOK' /\ ChainOK' /\ Last' = Last
  BY SameKey DEF IInv
<1>6. LiveOK'
  BY <1>2, <1>3, WorkerTypes DEF IInv, LiveOK, Pending
<1>7. NamesOK'
  <2>1. \A r \in 1..Last : phase[stream[r].by] = "dead" /\ stream[r].op = "put"
                             => phase'[stream[r].by] = "dead"
    BY <1>3, WorkerTypes DEF IInv, RecordsOK
  <2> QED BY <1>2, <1>5, <2>1 DEF IInv, NamesOK
<1>8. \A v \in Workers : v # w => LeaseOK(v)'
  <2>1. dropped' = dropped
    BY DEF End
  <2> QED BY <1>2, <1>3, <2>1, OtherLeases DEF IInv
<1>9. LeaseOK(w)'
  BY <1>4 DEF LeaseOK, CreatingOK, HeldOK, RestingOK, RenewingOK, Held
<1> QED BY <1>1, <1>5, <1>6, <1>7, <1>8, <1>9 DEF IInv

(* A request leaves w, which was not waiting for another one. *)
LEMMA SendInv ==
    ASSUME NEW w \in Workers, NEW m \in Requests, NEW p \in Phases \ {"dead"},
           IInv, TypeOK', phase[w] # "dead",
           Send(w, m, p), UNCHANGED <<stream, left>>,
           \A v \in Workers : v # w =>
               /\ token'[v] = token[v] /\ acq'[v] = acq[v]
               /\ conf'[v] = conf[v] /\ ago'[v] = ago[v],
           m.by = w, Pending(m)',
           \A n \in wire : n.live /\ n.by = w => n = m,
           m.kind \in {"renew", "release"} =>
               Mine(w, m.at) /\ stream[m.at].acq = m.acq,
           m.kind = "reclaim" =>
               /\ m.at \in 1..Last /\ stream[m.at].op = "put"
               /\ phase[stream[m.at].by] = "dead",
           LeaseOK(w)'
    PROVE  IInv'
<1>1. \A v \in Workers : v # w => phase'[v] = phase[v] /\ reply'[v] = reply[v]
  BY DEF IInv, TypeOK, Send
<1>2. wire' = wire \union {m}
  BY DEF Send
<1>3. RecordsOK' /\ ChainOK' /\ Last' = Last
  BY SameKey DEF IInv
<1>4. LiveOK'
  <2>1. \A n \in wire : n.live => Pending(n)'
    BY <1>1, WorkerTypes DEF IInv, LiveOK, Pending
  <2> QED BY <1>2, <2>1, WorkerTypes DEF IInv, LiveOK
<1>5. NamesOK'
  <2>1. \A r \in 1..Last : phase[stream[r].by] = "dead" /\ stream[r].op = "put"
                             => phase'[stream[r].by] = "dead"
    BY <1>1, WorkerTypes DEF IInv, RecordsOK
  <2> QED BY <1>2, <1>3, <2>1 DEF IInv, NamesOK, Mine
<1>6. \A v \in Workers : v # w => LeaseOK(v)'
  <2>1. dropped' = dropped
    BY DEF Send
  <2> QED BY <1>1, <1>2, <2>1, OtherLeases DEF IInv
<1> QED BY <1>3, <1>4, <1>5, <1>6 DEF IInv

(* No request of w is awaited outside the phases that await one. *)
LEMMA NotWaiting ==
    ASSUME NEW w \in Workers, IInv,
           \/ reply[w] # None
           \/ phase[w] \notin {"creating", "recreating", "reclaiming", "renewing", "releasing"}
    PROVE  \A n \in wire : n.live => n.by # w
<1>1. \A n \in wire : n.kind \in {"create", "renew", "release", "reclaim"}
  BY DEF IInv, TypeOK, Requests
<1> QED BY <1>1 DEF IInv, LiveOK, Pending

(* acquire_key: the first create is sent. *)
LEMMA AcquireInv ==
    ASSUME NEW w \in Workers, IInv, TypeOK', Acquire(w) PROVE IInv'
<1> DEFINE m == Request("create", w, 0, 0)
<1>1. m \in Requests /\ m.by = w /\ m.kind = "create"
  BY RequestType DEF Request
<1>2. phase'[w] = "creating" /\ reply'[w] = None
  BY DEF IInv, TypeOK, Acquire, Send
<1>3. Pending(m)'
  BY <1>1, <1>2 DEF Pending
<1>4. \A n \in wire : n.live => n.by # w
  BY NotWaiting DEF Acquire
<1>5. LeaseOK(w)'
  BY <1>2 DEF LeaseOK, CreatingOK, HeldOK, RestingOK, RenewingOK, Held
<1> HIDE DEF m
<1> QED BY <1>1, <1>3, <1>4, <1>5, SendInv DEF Acquire, IInv, TypeOK, lease, m

(* try_reclaim_stale_lease: the delete names the record of a dead process, *)
(* however old the read was.                                               *)
LEMMA ReclaimDeadInv ==
    ASSUME NEW w \in Workers, IInv, TypeOK', ReclaimDead(w) PROVE IInv'
<1>1. PICK r \in 1..Last :
          /\ stream[r].op = "put" /\ phase[stream[r].by] = "dead"
          /\ Send(w, Request("reclaim", w, r, 0), "reclaiming")
  BY DEF ReclaimDead, ProvablyDead
<1> DEFINE m == Request("reclaim", w, r, 0)
<1>2. m \in Requests /\ m.by = w /\ m.kind = "reclaim" /\ m.at = r
  <2>1. r \in Nat
    BY WorkerTypes DEF IInv
  <2> QED BY <2>1, RequestType DEF Request
<1>3. phase'[w] = "reclaiming" /\ reply'[w] = None
  BY <1>1 DEF IInv, TypeOK, Send
<1>4. Pending(m)'
  BY <1>2, <1>3 DEF Pending
<1>5. \A n \in wire : n.live => n.by # w
  BY NotWaiting DEF ReclaimDead
<1>6. LeaseOK(w)'
  BY <1>3 DEF LeaseOK, CreatingOK, HeldOK, RestingOK, RenewingOK, Held
<1> HIDE DEF m
<1> QED BY <1>1, <1>2, <1>4, <1>5, <1>6, SendInv DEF ReclaimDead, IInv, TypeOK, lease, m

(* The second create, after a successful reclaim. *)
LEMMA ReclaimedInv ==
    ASSUME NEW w \in Workers, IInv, TypeOK', Reclaimed(w) PROVE IInv'
<1> DEFINE m == Request("create", w, 0, 0)
<1>1. m \in Requests /\ m.by = w /\ m.kind = "create"
  BY RequestType DEF Request
<1>2. phase'[w] = "recreating" /\ reply'[w] = None
  BY DEF IInv, TypeOK, Reclaimed, Send
<1>3. Pending(m)'
  BY <1>1, <1>2 DEF Pending
<1>4. \A n \in wire : n.live => n.by # w
  BY NotWaiting DEF Reclaimed
<1>5. LeaseOK(w)'
  BY <1>2 DEF LeaseOK, CreatingOK, HeldOK, RestingOK, RenewingOK, Held
<1> HIDE DEF m
<1> QED BY <1>1, <1>3, <1>4, <1>5, SendInv DEF Reclaimed, IInv, TypeOK, lease, m

(* renew_once sends its CAS at the token, which no older request names. *)
LEMMA RenewOnceInv ==
    ASSUME NEW w \in Workers, IInv, TypeOK', RenewOnce(w) PROVE IInv'
<1> DEFINE m == Request("renew", w, token[w], acq[w])
<1>1. /\ m \in Requests /\ m.by = w /\ m.kind = "renew"
      /\ m.at = token[w] /\ m.acq = acq[w]
  BY RequestType DEF Request, IInv, TypeOK
<1>2. /\ phase'[w] = "renewing" /\ reply'[w] = None /\ ago'[w] = 0
      /\ token'[w] = token[w] /\ acq'[w] = acq[w] /\ conf'[w] = conf[w]
  BY DEF IInv, TypeOK, RenewOnce, Send, lease
<1>3. Pending(m)'
  BY <1>1, <1>2 DEF Pending
<1>4. \A n \in wire : n.live => n.by # w
  BY NotWaiting DEF RenewOnce
<1>5. Mine(w, token[w]) /\ stream[token[w]].acq = acq[w] /\ Bounded(w) /\ Current(w)
  BY DEF RenewOnce, IInv, LeaseOK, HeldOK, Held
<1>6. LeaseOK(w)'
  <2>1. /\ Last' = Last /\ UNCHANGED <<stream, left, dropped>>
        /\ wire' = wire \union {m} /\ Misdated(w)' = Misdated(w)
    BY <1>2 DEF RenewOnce, Send, Last, Misdated
  <2>2. HeldOK(w)'
    <3>1. token[w] \in Nat
      BY DEF IInv, TypeOK
    <3>2. Bounded(w)'
      <4>1. \A n \in wire' : n.by = w /\ n.kind \in {"renew", "release"} => n.at <= token[w]
        BY <1>1, <1>5, <2>1, <3>1 DEF Bounded
      <4>2. \A n \in wire' : n.by = w /\ n.kind = "release" => n.at < token[w]
        BY <1>1, <1>5, <2>1 DEF Bounded
      <4> QED BY <1>2, <1>5, <2>1, <4>1, <4>2 DEF Bounded
    <3>3. Current(w)'
      BY <1>2, <1>5, <2>1 DEF Current
    <3> QED BY <1>2, <1>5, <2>1, <3>2, <3>3 DEF HeldOK, Mine
  <2>3. RenewingOK(w)'
    <3>1. token[w] \notin dropped => \A q \in 1..Last : stream[q].by = w => stream[q].prior < token[w]
      BY DEF RenewOnce, IInv, LeaseOK, RestingOK, Fresh
    <3>2. token[w] \in Nat /\ \A q \in 1..Last : stream[q].prior \in Nat
      BY WorkerTypes DEF IInv, Records, TypeOK
    <3>3. token[w] \notin dropped =>
              \A q \in 1..Last : ~(stream[q].by = w /\ stream[q].prior = token[w])
      BY <3>1, <3>2
    <3> QED BY <1>2, <2>1, <3>3 DEF RenewingOK
  <2> QED BY <1>2, <2>2, <2>3 DEF LeaseOK, CreatingOK, RestingOK
<1> HIDE DEF m
<1> QED BY <1>1, <1>3, <1>4, <1>5, <1>6, SendInv DEF RenewOnce, IInv, TypeOK, lease, m

(* retry_until sends the same renewal again. *)
LEMMA RenewRetryInv ==
    ASSUME NEW w \in Workers, IInv, TypeOK', RenewRetry(w) PROVE IInv'
<1> DEFINE m == Request("renew", w, token[w], acq[w])
<1>1. /\ m \in Requests /\ m.by = w /\ m.kind = "renew" /\ m.live
      /\ m.at = token[w] /\ m.acq = acq[w]
  BY RequestType DEF Request, IInv, TypeOK
<1>2. /\ phase'[w] = "renewing" /\ reply'[w] = None /\ ago'[w] = ago[w]
      /\ token'[w] = token[w] /\ acq'[w] = acq[w] /\ conf'[w] = conf[w]
  BY DEF IInv, TypeOK, RenewRetry, Send, lease
<1>3. Pending(m)'
  BY <1>1, <1>2 DEF Pending
<1>4. \A n \in wire : n.live /\ n.by = w => n = m
  <2>1. \A n \in wire : n.live /\ n.by = w =>
            n.kind = "renew" /\ n.at = token[w] /\ n.acq = acq[w]
    BY WorkerTypes DEF IInv, LiveOK, Pending, RenewRetry, Requests
  <2> QED BY <2>1, WorkerTypes DEF Request, Requests, IInv
<1>5. Mine(w, token[w]) /\ stream[token[w]].acq = acq[w] /\ Bounded(w) /\ Current(w)
  BY DEF RenewRetry, IInv, LeaseOK, HeldOK, Held
<1>6. LeaseOK(w)'
  <2>1. /\ Last' = Last /\ UNCHANGED <<stream, left, dropped>>
        /\ wire' = wire \union {m} /\ Misdated(w)' = Misdated(w)
    BY <1>2 DEF RenewRetry, Send, Last, Misdated
  <2>2. HeldOK(w)'
    <3>1. token[w] \in Nat
      BY DEF IInv, TypeOK
    <3>2. Bounded(w)'
      <4>1. \A n \in wire' : n.by = w /\ n.kind \in {"renew", "release"} => n.at <= token[w]
        BY <1>1, <1>5, <2>1, <3>1 DEF Bounded
      <4>2. \A n \in wire' : n.by = w /\ n.kind = "release" => n.at < token[w]
        BY <1>1, <1>5, <2>1 DEF Bounded
      <4> QED BY <1>2, <1>5, <2>1, <4>1, <4>2 DEF Bounded
    <3>3. Current(w)'
      BY <1>2, <1>5, <2>1 DEF Current
    <3> QED BY <1>2, <1>5, <2>1, <3>2, <3>3 DEF HeldOK, Mine
  <2>3. RenewingOK(w)'
    <3>1. RenewingOK(w) /\ phase[w] = "renewing"
      BY DEF RenewRetry, IInv, LeaseOK
    <3> QED BY <1>2, <2>1, <3>1 DEF RenewingOK, Covers
  <2> QED BY <1>2, <2>2, <2>3 DEF LeaseOK, CreatingOK, RestingOK
<1> HIDE DEF m
<1> QED BY <1>1, <1>3, <1>4, <1>5, <1>6, SendInv DEF RenewRetry, IInv, TypeOK, lease, m

(* release sends its delete at the token while no renewal is pending. *)
LEMMA ReleaseInv ==
    ASSUME NEW w \in Workers, IInv, TypeOK', Release(w) PROVE IInv'
<1> DEFINE m == Request("release", w, token[w], acq[w])
<1>1. /\ m \in Requests /\ m.by = w /\ m.kind = "release"
      /\ m.at = token[w] /\ m.acq = acq[w]
  BY RequestType DEF Request, IInv, TypeOK
<1>2. phase'[w] = "releasing" /\ reply'[w] = None /\ UNCHANGED <<token, acq>>
  BY DEF IInv, TypeOK, Release, Send, lease
<1>3. Pending(m)'
  BY <1>1, <1>2 DEF Pending
<1>4. \A n \in wire : n.live => n.by # w
  BY NotWaiting DEF Release
<1>5. Mine(w, token[w]) /\ stream[token[w]].acq = acq[w]
  BY DEF Release, IInv, LeaseOK, HeldOK, Held
<1>6. LeaseOK(w)'
  BY <1>2 DEF LeaseOK, CreatingOK, HeldOK, RestingOK, RenewingOK, Held
<1> HIDE DEF m
<1> QED BY <1>1, <1>3, <1>4, <1>5, <1>6, SendInv DEF Release, IInv, TypeOK, lease, m

(* The awaited reply is taken. *)
LEMMA SettleInv ==
    ASSUME NEW w \in Workers, NEW p \in Phases \ {"dead"},
           IInv, TypeOK', phase[w] # "dead",
           Settle(w, p), UNCHANGED <<stream, left, wire, dropped>>,
           \A v \in Workers : v # w =>
               /\ token'[v] = token[v] /\ acq'[v] = acq[v]
               /\ conf'[v] = conf[v] /\ ago'[v] = ago[v],
           \A n \in wire : n.live => n.by # w,
           LeaseOK(w)'
    PROVE  IInv'
<1>1. \A v \in Workers : v # w => phase'[v] = phase[v] /\ reply'[v] = reply[v]
  BY DEF IInv, TypeOK, Settle
<1>2. RecordsOK' /\ ChainOK' /\ Last' = Last
  BY SameKey DEF IInv
<1>3. LiveOK'
  BY <1>1, WorkerTypes DEF IInv, LiveOK, Pending
<1>4. NamesOK'
  <2>1. \A r \in 1..Last : phase[stream[r].by] = "dead" /\ stream[r].op = "put"
                             => phase'[stream[r].by] = "dead"
    BY <1>1, WorkerTypes DEF IInv, RecordsOK
  <2> QED BY <1>2, <2>1 DEF IInv, NamesOK
<1>5. \A v \in Workers : v # w => LeaseOK(v)'
  BY <1>1, OtherLeases DEF IInv
<1> QED BY <1>2, <1>3, <1>4, <1>5 DEF IInv

(* Nothing names a fresh token or a later one, so it is bounded. *)
LEMMA FreshBounded ==
    ASSUME NEW w \in Workers, IInv, TypeOK', UNCHANGED <<stream, wire>>, Fresh(w, token'[w])
    PROVE  Bounded(w)'
<1>1. Last' = Last /\ token'[w] \in Nat
  BY DEF TypeOK, Last
<1>2. /\ \A m \in wire : m.at \in Nat
      /\ \A q \in 1..Last : stream[q].prior \in Nat
  BY WorkerTypes DEF IInv, Records
<1>3. \A m \in wire : m.by = w /\ m.kind \in {"renew", "release"} =>
          m.at < token'[w] /\ m.at <= token'[w]
  BY <1>1, <1>2 DEF Fresh
<1>4. \A q \in 1..Last : stream[q].by = w =>
          stream[q].prior <= token'[w] /\ stream[q].prior # token'[w]
  BY <1>1, <1>2 DEF Fresh
<1> QED BY <1>1, <1>3, <1>4 DEF Bounded

(* An acknowledged create starts a lease that the record outlives. *)
LEMMA AcquiredInv ==
    ASSUME NEW w \in Workers, IInv, TypeOK', Acquired(w) PROVE IInv'
<1>1. /\ phase'[w] = "held" /\ token'[w] = reply[w] /\ acq'[w] = reply[w]
      /\ conf'[w] = TTL - ago[w]
  BY DEF IInv, TypeOK, Acquired, Settle, ConfirmedFrom
<1>2. CreatingOK(w) /\ phase[w] \in {"creating", "recreating"} /\ reply[w] \notin {None, 0}
  BY DEF IInv, LeaseOK, Acquired
<1>3. Last' = Last /\ UNCHANGED <<stream, left, wire, dropped>>
  BY DEF Acquired, Last
<1>4. Fresh(w, reply[w]) /\ Fresh(w, token[w])'
  BY <1>1, <1>2, <1>3 DEF CreatingOK, Fresh
<1>5. HeldOK(w)'
  <2>1. Bounded(w)'
    BY <1>1, <1>2, <1>3, <1>4, FreshBounded
  <2>2. Covers(reply[w], ago[w]) /\ ago[w] \in Nat /\ left \in Nat
    BY <1>2 DEF CreatingOK, IInv, TypeOK
  <2>3. Current(w)'
    BY <1>1, <1>3, <2>2, LeaseConstants DEF Current, Covers
  <2> QED BY <1>1, <1>2, <1>3, <2>1, <2>3 DEF HeldOK, CreatingOK, Mine
<1>6. LeaseOK(w)'
  BY <1>1, <1>4, <1>5 DEF LeaseOK, CreatingOK, RestingOK, RenewingOK
<1> QED BY <1>3, <1>6, SettleInv, NotWaiting DEF Acquired, IInv, TypeOK

(* An acknowledged renewal, also one answered for its first copy, moves    *)
(* the token and the confirmation to a record that outlives it.            *)
LEMMA RenewAckedInv ==
    ASSUME NEW w \in Workers, IInv, TypeOK', RenewAcked(w) PROVE IInv'
<1>1. /\ phase'[w] = "held" /\ token'[w] = reply[w] /\ acq'[w] = acq[w]
      /\ conf'[w] = TTL - ago[w]
  BY DEF IInv, TypeOK, RenewAcked, Settle, ConfirmedFrom
<1>2. RenewingOK(w) /\ Bounded(w) /\ phase[w] = "renewing" /\ reply[w] \notin {None, 0}
  BY DEF IInv, LeaseOK, HeldOK, Held, RenewAcked
<1>3. Last' = Last /\ UNCHANGED <<stream, left, wire, dropped>>
  BY DEF RenewAcked, Last
<1>4. /\ Mine(w, reply[w]) /\ stream[reply[w]].prior = token[w]
      /\ stream[reply[w]].acq = acq[w]
      /\ token[w] \notin dropped => Covers(reply[w], ago[w])
  BY <1>2 DEF RenewingOK, Bounded, Mine
<1>5. token[w] < reply[w]
  BY <1>4 DEF IInv, RecordsOK, Mine
<1>6. Fresh(w, reply[w]) /\ Fresh(w, token[w])'
  <2>1. token[w] \in Nat /\ reply[w] \in Nat /\ \A m \in wire : m.at \in Nat
    <3>1. Last \in Nat /\ \A m \in wire : m.at \in Nat
      BY WorkerTypes DEF IInv
    <3> QED BY <1>4, <3>1 DEF IInv, TypeOK, Mine
  <2>2. \A q \in 1..Last : stream[q].prior \in Nat
    BY WorkerTypes DEF IInv, Records
  <2> QED BY <1>1, <1>2, <1>3, <1>5, <2>1, <2>2 DEF Bounded, Fresh
<1>7. HeldOK(w)'
  <2>1. Bounded(w)'
    BY <1>1, <1>3, <1>6, FreshBounded
  <2>2. ago[w] \in Nat /\ left \in Nat
    BY DEF IInv, TypeOK
  <2>3. ~Misdated(w)' => token[w] \notin dropped
    BY <1>1, <1>3, <1>4 DEF Misdated
  <2>4. Current(w)'
    BY <1>1, <1>3, <1>4, <2>2, <2>3, LeaseConstants DEF Current, Covers
  <2> QED BY <1>1, <1>3, <1>4, <2>1, <2>4 DEF HeldOK, Mine
<1>8. LeaseOK(w)'
  BY <1>1, <1>6, <1>7 DEF LeaseOK, CreatingOK, RestingOK, RenewingOK
<1> QED BY <1>3, <1>8, SettleInv, NotWaiting DEF RenewAcked, IInv, TypeOK

(* A revalidation is aborted: the lease is as before the send, but its     *)
(* renewal may still be stored, and its revision is marked for that.       *)
LEMMA RevalidationAbortedInv ==
    ASSUME NEW w \in Workers, IInv, TypeOK', RevalidationAborted(w) PROVE IInv'
<1>1. /\ phase'[w] = "held" /\ token'[w] = token[w] /\ acq'[w] = acq[w]
      /\ conf'[w] = conf[w] /\ phase[w] = "renewing"
  BY DEF IInv, TypeOK, RevalidationAborted, Settle, lease
<1>2. /\ UNCHANGED <<stream, left>> /\ dropped' = dropped \union {token[w]}
      /\ wire' = GiveUp(w)
  BY DEF RevalidationAborted
<1>3. \A n \in wire' : \E m \in wire :
          /\ m.by = n.by /\ m.kind = n.kind /\ m.at = n.at /\ m.acq = n.acq
          /\ n.live => n = m /\ m.by # w
  BY <1>2 DEF GiveUp, Abandoned, IInv, TypeOK, Requests
<1>4. \A v \in Workers : v # w =>
          /\ phase'[v] = phase[v] /\ token'[v] = token[v] /\ acq'[v] = acq[v]
          /\ conf'[v] = conf[v] /\ ago'[v] = ago[v] /\ reply'[v] = reply[v]
  BY DEF IInv, TypeOK, RevalidationAborted, Settle, lease
<1>5. RecordsOK' /\ ChainOK' /\ Last' = Last
  BY <1>2, SameKey DEF IInv
<1>6. LiveOK'
  BY <1>3, <1>4, WorkerTypes DEF IInv, LiveOK, Pending
<1>7. NamesOK'
  <2>1. \A r \in 1..Last : phase[stream[r].by] = "dead" /\ stream[r].op = "put"
                             => phase'[stream[r].by] = "dead"
    BY <1>1, <1>4, WorkerTypes DEF IInv, RecordsOK
  <2> QED BY <1>2, <1>3, <1>5, <2>1 DEF IInv, NamesOK
<1>8. \A v \in Workers : v # w => LeaseOK(v)'
  BY <1>2, <1>3, <1>4, OtherLeases DEF IInv
<1>9. LeaseOK(w)'
  <2>1. Mine(w, token[w]) /\ stream[token[w]].acq = acq[w] /\ Bounded(w) /\ Current(w)
    BY <1>1 DEF IInv, LeaseOK, HeldOK, Held
  <2>2. Bounded(w)'
    BY <1>1, <1>2, <1>3, <1>5, <2>1 DEF Bounded
  <2>3. Misdated(w) => Misdated(w)'
    BY <1>1, <1>2 DEF Misdated
  <2>4. Current(w)'
    BY <1>1, <1>2, <1>5, <2>1, <2>3 DEF Current
  <2>5. HeldOK(w)'
    BY <1>1, <1>2, <1>5, <2>1, <2>2, <2>4 DEF HeldOK, Mine
  <2>6. RestingOK(w)'
    BY <1>1, <1>2 DEF RestingOK
  <2> QED BY <1>1, <2>5, <2>6 DEF LeaseOK, CreatingOK, RenewingOK
<1> QED BY <1>5, <1>6, <1>7, <1>8, <1>9 DEF IInv

(* A create that found a record: read it, or give up. *)
LEMMA CreateConflictInv ==
    ASSUME NEW w \in Workers, IInv, TypeOK', CreateConflict(w) PROVE IInv'
<1>1. CASE phase[w] = "creating" /\ Settle(w, "reading") /\ UNCHANGED <<wire, lease, ago, dropped>>
  <2>1. phase'[w] = "reading"
    BY <1>1 DEF IInv, TypeOK, Settle
  <2>2. LeaseOK(w)'
    BY <2>1 DEF LeaseOK, CreatingOK, HeldOK, RestingOK, RenewingOK, Held
  <2>3. \A n \in wire : n.live => n.by # w
    BY NotWaiting, LeaseConstants DEF CreateConflict
  <2> QED BY <1>1, <2>2, <2>3, SettleInv DEF CreateConflict, lease
<1>2. CASE phase[w] = "recreating" /\ End(w, "idle")
  BY <1>2, EndInv DEF CreateConflict
<1> QED BY <1>1, <1>2 DEF CreateConflict

(* Every step of a worker keeps the invariant. *)
LEMMA WorkerInv ==
    ASSUME NEW w \in Workers, IInv, WorkerStep(w) PROVE IInv'
<1>1. TypeOK'
  BY TypeWorker DEF IInv
<1>2. CASE \E p \in {"idle", "dead"} :
              phase[w] # "dead" /\ End(w, p) /\ UNCHANGED <<stream, left>>
  BY <1>2, EndInv
<1> QED
  BY <1>1, <1>2, AcquireInv, AcquiredInv, CreateConflictInv, ReclaimDeadInv,
     ReclaimedInv, RenewOnceInv, RenewRetryInv, RenewAckedInv, ReleaseInv,
     RevalidationAbortedInv
  DEF WorkerStep, LeaveHolder, ReclaimLost, AcquireError, RenewTooLate, RenewLost,
      RenewError, ReleaseEnds, DropUnreleased, Crash, Held

-----------------------------------------------------------------------------
(* Steps of the broker *)

(* A request is answered without a change to the key. *)
LEMMA AnswerInv ==
    ASSUME IInv, TypeOK', NEW m \in wire, NEW a \in Nat, Answer(m, a),
           wire' = wire \ {m},
           UNCHANGED <<stream, left, phase, token, acq, conf, ago, dropped>>,
           a # 0 => m.kind = "renew" /\ a \in StoredAt(m)
    PROVE  IInv'
<1>1. RecordsOK' /\ ChainOK' /\ Last' = Last
  BY SameKey DEF IInv
<1>2. m.by \in Workers /\ m.kind \in {"create", "renew", "release", "reclaim"}
  BY DEF IInv, TypeOK, Requests
<1>3. \A v \in Workers : v # m.by \/ ~m.live => reply'[v] = reply[v]
  BY <1>2 DEF Answer, IInv, TypeOK
<1>4. m.live => reply'[m.by] = a
  BY <1>2 DEF Answer, IInv, TypeOK
<1>5. LiveOK'
  <2>1. \A n \in wire' : n.live => n.by # m.by \/ ~m.live
    BY DEF IInv, LiveOK
  <2> QED BY <1>3, <2>1, WorkerTypes DEF IInv, LiveOK, Pending
<1>6. NamesOK'
  BY <1>1 DEF IInv, NamesOK
<1>7. ASSUME NEW v \in Workers PROVE LeaseOK(v)'
  <2>1. LeaseOK(v)
    BY DEF IInv
  <2>2. HeldOK(v)'
    <3>1. Bounded(v) => Bounded(v)'
      BY <1>1 DEF Bounded
    <3>2. Current(v) => Current(v)'
      BY <1>1 DEF Current, Misdated
    <3> QED BY <1>1, <2>1, <3>1, <3>2 DEF LeaseOK, HeldOK, Held, Mine
  <2>3. CASE reply'[v] = reply[v]
    <3>1. CreatingOK(v)'
      BY <1>1, <2>1, <2>3 DEF LeaseOK, CreatingOK, Mine, Fresh, Covers
    <3>2. RestingOK(v)'
      BY <1>1, <2>1, <2>3 DEF LeaseOK, RestingOK, Fresh
    <3>3. RenewingOK(v)'
      BY <1>1, <2>1, <2>3 DEF LeaseOK, RenewingOK, Mine, Covers
    <3> QED BY <2>2, <3>1, <3>2, <3>3 DEF LeaseOK
  <2>4. CASE v = m.by /\ m.live
    <3>1. Pending(m)
      BY <2>4 DEF IInv, LiveOK
    <3>2. CASE m.kind = "renew"
      <4>1. phase[v] = "renewing" /\ m.at = token[v] /\ reply'[v] = a
        BY <1>4, <2>4, <3>1, <3>2 DEF Pending
      <4>2. a # 0 => Mine(v, a)' /\ stream[a].prior = token[v]
        BY <1>1, <2>4, <4>1, LeaseConstants DEF StoredAt, Mine, IInv, RecordsOK
      <4>3. RenewingOK(v)'
        BY <1>1, <2>1, <4>1, <4>2 DEF LeaseOK, RenewingOK, Covers
      <4> QED BY <2>2, <4>1, <4>3 DEF LeaseOK, CreatingOK, RestingOK
    <3>3. CASE m.kind # "renew"
      BY <1>2, <1>4, <2>4, <3>1, <3>3
      DEF Pending, LeaseOK, CreatingOK, HeldOK, Held, RestingOK, RenewingOK
    <3> QED BY <3>2, <3>3
  <2> QED BY <1>3, <2>3, <2>4
<1> QED BY <1>1, <1>5, <1>6, <1>7 DEF IInv

(* The key grows: what holds of the parts that no lease owns. *)
LEMMA Grow ==
    ASSUME TypeOK, NEW e \in Records, stream' = Append(stream, e)
    PROVE  /\ Last \in Nat /\ Last' = Last + 1 /\ stream'[Last + 1] = e
           /\ \A r \in 1..Last : stream'[r] = stream[r]
  BY AppendFacts DEF TypeOK, Last

(* A lease the broker's last record does not cover keeps its promises      *)
(* whatever is appended by others.                                         *)
LEMMA GrowLease ==
    ASSUME IInv, NEW v \in Workers, NEW e \in Records, stream' = Append(stream, e),
           e.by = v => e.prior = 0,
           Last = 0 \/ stream[Last].by # v \/ left = 0,
           left' \in Nat, wire' \subseteq wire,
           phase'[v] = phase[v], token'[v] = token[v], acq'[v] = acq[v],
           conf'[v] = conf[v], ago'[v] = ago[v], reply'[v] = reply[v], dropped' = dropped
    PROVE  LeaseOK(v)'
<1>1. /\ Last \in Nat /\ Last' = Last + 1 /\ stream'[Last + 1] = e
      /\ \A r \in 1..Last : stream'[r] = stream[r]
  BY Grow DEF IInv
<1>2. LeaseOK(v) /\ TypeOK
  BY DEF IInv
<1>3. ASSUME NEW r, Mine(v, r) PROVE Mine(v, r)' /\ stream'[r] = stream[r]
  <2>1. r \in 1..Last /\ r \in 1..Last'
    BY <1>1, <1>3 DEF Mine
  <2> QED BY <1>1, <1>3, <2>1 DEF Mine
<1>4. ASSUME NEW r \in 1..Last, Fresh(v, r) PROVE Fresh(v, r)'
  <2>1. \A q \in 1..Last' : q \in 1..Last \/ q = Last + 1
    BY <1>1
  <2>2. 0 < r
    BY <1>1
  <2> QED BY <1>1, <1>4, <2>1, <2>2 DEF Fresh
<1>5. left \in Nat /\ ago[v] \in Nat /\ ago[v] <= TTL /\ conf[v] \in Nat /\ TTL \in Nat
  BY <1>2, LeaseConstants DEF TypeOK
<1>6. ASSUME NEW r \in 1..Last, stream[r].by = v, Covers(r, ago[v]) PROVE ago[v] = TTL
  <2>1. CASE left = 0
    BY <1>5, <1>6, <2>1 DEF Covers
  <2>2. CASE Last # r
    BY <1>6, <2>2 DEF Covers
  <2>3. Last # 0
    BY <1>1
  <2> QED BY <1>6, <2>1, <2>2, <2>3
<1>7. CreatingOK(v)'
  BY <1>2, <1>3, <1>4, <1>6 DEF LeaseOK, CreatingOK, Mine, Covers
<1>8. \A q \in 1..Last' : q \in 1..Last \/ q = Last + 1
  BY <1>1
<1>9. HeldOK(v)'
  <2> SUFFICES ASSUME Held(v) PROVE HeldOK(v)'
    BY DEF HeldOK, Held
  <2>1. /\ Mine(v, token[v]) /\ stream[token[v]].acq = acq[v]
        /\ Bounded(v) /\ Current(v)
    BY <1>2 DEF LeaseOK, HeldOK
  <2>2. token[v] \in 1..Last /\ token[v] \in Nat /\ 0 <= token[v] /\ token[v] # 0
    BY <1>1, <2>1 DEF Mine
  <2>3. Bounded(v)'
    <3>1. \A q \in 1..Last' : stream'[q].by = v => stream'[q].prior <= token[v]
      BY <1>1, <1>8, <2>1, <2>2 DEF Bounded
    <3>2. \A r \in 1..Last' : stream'[r].by = v /\ stream'[r].prior = token[v] =>
              stream'[r].acq = acq[v]
      BY <1>1, <1>8, <2>1, <2>2 DEF Bounded
    <3>3. \A m \in wire' : m \in wire
      OBVIOUS
    <3> QED BY <2>1, <3>1, <3>2, <3>3 DEF Bounded
  <2>4. ~(conf[v] > 0 /\ ~Misdated(v))
    BY <1>1, <1>5, <2>1, <2>2 DEF Current, Mine
  <2>5. Misdated(v)' = Misdated(v)
    BY <1>1, <2>2 DEF Misdated
  <2>6. Current(v)'
    BY <2>4, <2>5 DEF Current
  <2> QED BY <1>3, <2>1, <2>3, <2>6 DEF HeldOK
<1>10. RestingOK(v)'
  <2>1. phase[v] = "held" => Mine(v, token[v])
    BY <1>2 DEF LeaseOK, HeldOK, Held
  <2> QED BY <1>2, <1>4, <2>1 DEF LeaseOK, RestingOK, Mine
<1>11. RenewingOK(v)'
  <2> SUFFICES ASSUME phase[v] = "renewing" PROVE RenewingOK(v)'
    BY DEF RenewingOK
  <2>1. RenewingOK(v) /\ Mine(v, token[v])
    BY <1>2 DEF LeaseOK, HeldOK, Held
  <2>2. token[v] # 0
    BY <1>1, <2>1 DEF Mine
  <2>3. ASSUME token[v] \notin dropped, NEW r \in 1..Last', stream'[r].by = v,
               stream'[r].prior = token[v]
        PROVE  ago[v] = TTL
    <3>1. r \in 1..Last
      BY <1>1, <1>8, <2>2, <2>3
    <3> QED BY <1>1, <1>6, <2>1, <2>3, <3>1 DEF RenewingOK
  <2>4. token[v] \notin dropped =>
            \A r \in 1..Last' : stream'[r].by = v /\ stream'[r].prior = token[v] =>
                Covers(r, ago[v])'
    BY <2>3 DEF Covers
  <2>5. reply[v] \notin {None, 0} =>
            Mine(v, reply[v])' /\ stream'[reply[v]].prior = token[v]
    BY <1>3, <2>1 DEF RenewingOK
  <2> QED BY <2>4, <2>5 DEF RenewingOK
<1> QED BY <1>7, <1>9, <1>10, <1>11 DEF LeaseOK

(* Taking a request off the wire and answering it leaves the others awaited. *)
LEMMA TakeLive ==
    ASSUME IInv, NEW m \in wire, NEW a, Answer(m, a), wire' = wire \ {m},
           UNCHANGED <<phase, token, acq>>
    PROVE  /\ LiveOK'
           /\ \A v \in Workers : v # m.by \/ ~m.live => reply'[v] = reply[v]
           /\ m.live => reply'[m.by] = a
<1>1. m.by \in Workers
  BY DEF IInv, TypeOK, Requests
<1>2. \A v \in Workers : v # m.by \/ ~m.live => reply'[v] = reply[v]
  BY <1>1 DEF Answer, IInv, TypeOK
<1>3. m.live => reply'[m.by] = a
  BY <1>1 DEF Answer, IInv, TypeOK
<1>4. \A n \in wire' : n.live => n.by # m.by \/ ~m.live
  BY DEF IInv, LiveOK
<1>5. LiveOK'
  BY <1>2, <1>4, WorkerTypes DEF IInv, LiveOK, Pending
<1> QED BY <1>2, <1>3, <1>5

(* An append keeps what requests on the wire name. *)
LEMMA GrowNames ==
    ASSUME IInv, NEW e \in Records, stream' = Append(stream, e),
           wire' \subseteq wire, UNCHANGED phase
    PROVE  NamesOK'
<1>1. /\ Last \in Nat /\ Last' = Last + 1
      /\ \A r \in 1..Last : stream'[r] = stream[r]
  BY Grow DEF IInv
<1>2. \A r \in 1..Last : r \in 1..Last'
  BY <1>1
<1> QED BY <1>1, <1>2 DEF IInv, NamesOK

(* An append of a well-dated record keeps all records well dated. *)
LEMMA GrowRecords ==
    ASSUME IInv, NEW e \in Records, stream' = Append(stream, e),
           \/ /\ e.op = "put" /\ e.by \in Workers /\ e.acq \in 1..(Last + 1)
              /\ e.prior < Last + 1
           \/ e.op = "gone" /\ e.by = None
    PROVE  RecordsOK'
<1>1. /\ Last \in Nat /\ Last' = Last + 1 /\ stream'[Last + 1] = e
      /\ \A r \in 1..Last : stream'[r] = stream[r]
  BY Grow DEF IInv
<1>2. \A r \in 1..Last' : r \in 1..Last \/ r = Last + 1
  BY <1>1
<1> QED BY <1>1, <1>2 DEF IInv, RecordsOK

(* The broker answers a create, its sender waiting or not. *)
LEMMA BrokerCreateInv ==
    ASSUME IInv, TypeOK', NEW m \in wire, BrokerCreate(m) PROVE IInv'
<1>1. CASE Present /\ Answer(m, 0) /\ UNCHANGED <<stream, left>>
  BY <1>1, AnswerInv DEF BrokerCreate, lease
<1>2. CASE /\ ~Present /\ stream' = Append(stream, Put(m.by, Last + 1, 0))
           /\ left' = BrokerTTL /\ Answer(m, Last + 1)
  <2> DEFINE e == Put(m.by, Last + 1, 0)
  <2>1. m.by \in Workers /\ m \in Requests
    BY DEF IInv, TypeOK, Requests
  <2>2. Last \in Nat /\ left' = TTL /\ TTL \in Nat
    BY <1>2, WorkerTypes, WholeSeconds, LeaseConstants DEF BrokerTTL, IInv
  <2>3. /\ e \in Records /\ e.op = "put" /\ e.by = m.by
        /\ e.acq = Last + 1 /\ e.prior = 0
    BY <2>1, <2>2 DEF Put, Records
  <2> HIDE DEF e
  <2>4. stream' = Append(stream, e)
    BY <1>2 DEF e
  <2>5. /\ Last' = Last + 1 /\ stream'[Last + 1] = e
        /\ \A r \in 1..Last : stream'[r] = stream[r]
    BY <2>3, <2>4, Grow DEF IInv
  <2>6. /\ wire' = wire \ {m}
        /\ UNCHANGED <<phase, token, acq, conf, ago, dropped>>
    BY DEF BrokerCreate, lease
  <2>7. RecordsOK'
    <3>1. e.acq \in 1..(Last + 1) /\ e.prior < Last + 1
      BY <2>2, <2>3
    <3> QED BY <2>1, <2>3, <2>4, <3>1, GrowRecords
  <2>8. ChainOK'
    <3>1. stream'[Last'].acq..Last' = {Last'}
      BY <2>2, <2>3, <2>5
    <3> QED BY <2>3, <2>5, <3>1 DEF ChainOK
  <2>9. /\ LiveOK'
        /\ \A v \in Workers : v # m.by \/ ~m.live => reply'[v] = reply[v]
        /\ m.live => reply'[m.by] = Last + 1
    BY <1>2, <2>6, TakeLive
  <2>10. NamesOK'
    BY <2>3, <2>4, <2>6, GrowNames
  <2>11. \A v \in Workers : Last = 0 \/ stream[Last].by # v
    <3>1. Last # 0 => stream[Last].op # "put" /\ Last \in 1..Last
      BY <1>2, <2>2 DEF Present
    <3> QED BY <3>1, LeaseConstants DEF IInv, RecordsOK
  <2>12. ASSUME NEW v \in Workers, v # m.by \/ ~m.live PROVE LeaseOK(v)'
    BY <2>2, <2>3, <2>4, <2>6, <2>9, <2>11, <2>12, GrowLease
  <2>13. ASSUME m.live PROVE LeaseOK(m.by)'
    <3>1. phase'[m.by] \in {"creating", "recreating"} /\ reply'[m.by] = Last'
      BY <2>5, <2>6, <2>9, <2>13 DEF IInv, LiveOK, Pending, BrokerCreate
    <3>2. Mine(m.by, Last)' /\ stream'[Last'].acq = Last'
      BY <2>2, <2>3, <2>5 DEF Mine
    <3>3. Fresh(m.by, Last)'
      <4>1. \A n \in wire : n.kind \in {"renew", "release"} => n.at < Last'
        BY <2>2, <2>5 DEF IInv, NamesOK
      <4>2. \A q \in 1..Last' : q \in 1..Last \/ q = Last + 1
        BY <2>2, <2>5
      <4>3. \A q \in 1..Last : stream[q].prior \in Nat
        BY WorkerTypes DEF IInv, Records
      <4>4. \A q \in 1..Last : stream[q].by = m.by => stream[q].prior < Last'
        BY <2>1, <2>2, <2>5, <4>3, LeaseConstants DEF IInv, RecordsOK
      <4> QED BY <2>2, <2>3, <2>5, <2>6, <4>1, <4>2, <4>4 DEF Fresh
    <3>4. ago[m.by] \in Nat
      BY <2>1 DEF IInv, TypeOK
    <3>5. CreatingOK(m.by)'
      BY <2>2, <2>6, <3>1, <3>2, <3>3, <3>4 DEF CreatingOK, Covers
    <3> QED BY <3>1, <3>5 DEF LeaseOK, HeldOK, Held, RestingOK, RenewingOK
  <2>14. \A v \in Workers : LeaseOK(v)'
    BY <2>12, <2>13
  <2> QED BY <2>7, <2>8, <2>9, <2>10, <2>14 DEF IInv
<1> QED BY <1>1, <1>2 DEF BrokerCreate

(* The broker answers a renewal: a duplicate, a match or a conflict. *)
LEMMA BrokerRenewInv ==
    ASSUME IInv, TypeOK', NEW m \in wire, BrokerRenew(m) PROVE IInv'
<1>1. ASSUME NEW r \in StoredAt(m), Answer(m, r), UNCHANGED <<stream, left>> PROVE IInv'
  <2>1. r \in Nat
    BY WorkerTypes DEF StoredAt, IInv
  <2> QED BY <1>1, <2>1, AnswerInv DEF BrokerRenew, lease
<1>2. CASE Answer(m, 0) /\ UNCHANGED <<stream, left>>
  BY <1>2, AnswerInv DEF BrokerRenew, lease
<1>3. CASE /\ StoredAt(m) = {} /\ m.at = Last
           /\ stream' = Append(stream, Put(m.by, m.acq, m.at))
           /\ left' = BrokerTTL /\ Answer(m, Last + 1)
  <2> DEFINE e == Put(m.by, m.acq, m.at)
  <2>1. m.by \in Workers /\ m.at \in Nat /\ m.acq \in Nat /\ m.kind = "renew"
    BY DEF IInv, TypeOK, Requests, BrokerRenew
  <2>2. Last \in Nat /\ left' = TTL /\ TTL \in Nat
    BY <1>3, WorkerTypes, WholeSeconds, LeaseConstants DEF BrokerTTL, IInv
  <2>3. /\ e \in Records /\ e.op = "put" /\ e.by = m.by
        /\ e.acq = m.acq /\ e.prior = Last
    BY <1>3, <2>1 DEF Put, Records
  <2> HIDE DEF e
  <2>4. stream' = Append(stream, e)
    BY <1>3 DEF e
  <2>5. /\ Last' = Last + 1 /\ stream'[Last + 1] = e
        /\ \A r \in 1..Last : stream'[r] = stream[r]
    BY <2>3, <2>4, Grow DEF IInv
  <2>6. /\ wire' = wire \ {m}
        /\ UNCHANGED <<phase, token, acq, conf, ago, dropped>>
    BY DEF BrokerRenew, lease
  <2>7. /\ Last \in 1..Last /\ stream[Last].op = "put"
        /\ stream[Last].by = m.by /\ stream[Last].acq = m.acq
    BY <1>3, <2>1 DEF IInv, NamesOK
  <2>8. RecordsOK'
    <3>1. m.acq \in 1..Last
      BY <2>7 DEF IInv, RecordsOK
    <3>2. e.acq \in 1..(Last + 1) /\ e.prior < Last + 1
      BY <2>2, <2>3, <3>1
    <3> QED BY <2>1, <2>3, <2>4, <3>2, GrowRecords
  <2>9. ChainOK'
    <3>1. \A r \in m.acq..Last : stream[r].op = "put" /\ stream[r].by = m.by
      BY <2>2, <2>7 DEF IInv, ChainOK, Present
    <3>2. \A r \in m.acq..Last' : r \in m.acq..Last \/ r = Last + 1
      BY <2>1, <2>2, <2>5
    <3>3. m.acq \in 1..Last
      BY <2>7 DEF IInv, RecordsOK
    <3>4. \A r \in m.acq..Last : r \in 1..Last
      BY <2>2, <3>3
    <3> QED BY <2>3, <2>5, <3>1, <3>2, <3>4 DEF ChainOK
  <2>10. /\ LiveOK'
         /\ \A v \in Workers : v # m.by \/ ~m.live => reply'[v] = reply[v]
         /\ m.live => reply'[m.by] = Last + 1
    BY <1>3, <2>6, TakeLive
  <2>11. NamesOK'
    BY <2>3, <2>4, <2>6, GrowNames
  <2>12. ASSUME NEW v \in Workers, v # m.by PROVE LeaseOK(v)'
    BY <2>2, <2>3, <2>4, <2>6, <2>7, <2>10, <2>12, GrowLease
  <2>13. LeaseOK(m.by)'
    <3> DEFINE w == m.by
    <3>1. LeaseOK(w)
      BY <2>1 DEF IInv
    <3>2. m.live => phase[w] = "renewing"
      BY <2>1 DEF IInv, LiveOK, Pending
    <3>3. ~(phase[w] \in {"creating", "recreating"} /\ reply[w] \notin {None, 0})
      BY <1>3, <2>1, <2>2, <3>1 DEF LeaseOK, CreatingOK, Fresh, Mine
    <3>4. CreatingOK(w)'
      BY <2>1, <2>6, <2>10, <3>2, <3>3 DEF CreatingOK
    <3>5. CASE ~Held(w)
      BY <2>6, <3>4, <3>5 DEF LeaseOK, HeldOK, Held, RestingOK, RenewingOK
    <3>6. CASE Held(w)
      <4>1. /\ Mine(w, token[w]) /\ stream[token[w]].acq = acq[w]
            /\ Bounded(w) /\ RenewingOK(w)
        BY <3>1, <3>6 DEF LeaseOK, HeldOK
      <4>2. token[w] = Last
        BY <1>3, <2>1, <2>2, <4>1 DEF Bounded, Mine
      <4>3. \A q \in 1..Last' : q \in 1..Last \/ q = Last + 1
        BY <2>2, <2>5
      <4>4. /\ Mine(w, Last)' /\ stream'[Last'].prior = token[w]
            /\ stream'[Last'].by = w /\ stream'[Last'].acq = acq[w]
        BY <2>2, <2>3, <2>5, <2>7, <4>1, <4>2 DEF Mine
      <4>5. ago[w] \in Nat /\ conf[w] \in Nat /\ conf[w] <= TTL
        BY <2>1, <2>2 DEF IInv, TypeOK
      <4>6. \A r \in 1..Last : ~(stream[r].by = w /\ stream[r].prior = token[w])
        BY <1>3, <4>2 DEF StoredAt
      <4>7. HeldOK(w)'
        <5>1. Last \in 1..Last'
          BY <2>2, <2>5, <2>7
        <5>2. \A q \in 1..Last' : stream'[q].by = w => stream'[q].prior <= token[w]
          BY <2>2, <2>3, <2>5, <4>1, <4>2, <4>3 DEF Bounded
        <5>3. \A r \in 1..Last' : stream'[r].by = w /\ stream'[r].prior = token[w] =>
                  stream'[r].acq = acq[w]
          BY <2>5, <4>3, <4>4, <4>6
        <5>4. \A n \in wire' : n \in wire
          BY <2>6
        <5>5. Bounded(w)'
          BY <2>6, <4>1, <5>2, <5>3, <5>4 DEF Bounded
        <5>6. left' >= conf[w]
          BY <2>2, <4>5
        <5>7. Current(w)'
          BY <2>6, <4>4, <5>6 DEF Current
        <5> QED BY <2>5, <2>6, <2>7, <4>1, <4>2, <5>1, <5>5, <5>7 DEF HeldOK, Mine
      <4>8. RestingOK(w)'
        <5>1. phase[w] = "held" => token[w] \in dropped
          BY <1>3, <2>1, <2>2, <3>1, <4>2 DEF LeaseOK, RestingOK, Fresh
        <5> QED BY <2>6, <5>1 DEF RestingOK
      <4>9. RenewingOK(w)'
        <5> SUFFICES ASSUME phase[w] = "renewing" PROVE RenewingOK(w)'
          BY <2>6 DEF RenewingOK
        <5>1. Covers(Last, ago[w])'
          BY <2>2, <2>5, <2>6, <4>5 DEF Covers
        <5>2. \A r \in 1..Last' : stream'[r].by = w /\ stream'[r].prior = token[w] =>
                  Covers(r, ago[w])'
          BY <2>5, <4>3, <4>6, <5>1
        <5>3. reply'[w] \notin {None, 0} => reply'[w] = Last'
          BY <2>1, <2>5, <2>10, <4>1, <4>6 DEF RenewingOK, Mine
        <5> QED BY <2>6, <4>4, <5>2, <5>3 DEF RenewingOK
      <4> QED BY <3>4, <4>7, <4>8, <4>9 DEF LeaseOK
    <3> QED BY <3>5, <3>6
  <2> QED BY <2>8, <2>9, <2>10, <2>11, <2>12, <2>13 DEF IInv
<1> QED BY <1>1, <1>2, <1>3 DEF BrokerRenew

(* A deletion or an expiry: the key has no record, so no lease is covered. *)
LEMMA GoneFacts ==
    ASSUME IInv, stream' = Append(stream, Gone)
    PROVE  Gone \in Records /\ Gone.by = None /\ RecordsOK' /\ ChainOK'
<1>1. Gone \in Records /\ Gone.by = None /\ Gone.op = "gone"
  BY DEF Gone, Records
<1>2. Last' = Last + 1 /\ stream'[Last + 1] = Gone
  BY <1>1, Grow DEF IInv
<1>3. ChainOK'
  BY <1>1, <1>2 DEF ChainOK, Present
<1> QED BY <1>1, <1>3, GrowRecords

(* The broker answers a release or a reclaim. *)
LEMMA BrokerDeleteInv ==
    ASSUME IInv, TypeOK', NEW m \in wire, BrokerDelete(m) PROVE IInv'
<1>1. CASE Answer(m, 0) /\ UNCHANGED <<stream, left>>
  BY <1>1, AnswerInv DEF BrokerDelete, lease
<1>2. CASE /\ m.at = Last /\ stream' = Append(stream, Gone)
           /\ left' = 0 /\ Answer(m, Last + 1)
  <2>1. m.by \in Workers /\ m.kind \in {"release", "reclaim"} /\ Last \in Nat
    BY WorkerTypes DEF IInv, TypeOK, Requests, BrokerDelete
  <2>2. Gone \in Records /\ Gone.by = None /\ RecordsOK' /\ ChainOK'
    BY <1>2, GoneFacts
  <2>3. /\ wire' = wire \ {m}
        /\ UNCHANGED <<phase, token, acq, conf, ago, dropped>>
    BY DEF BrokerDelete, lease
  <2>4. /\ LiveOK'
        /\ \A v \in Workers : v # m.by \/ ~m.live => reply'[v] = reply[v]
    BY <1>2, <2>3, TakeLive
  <2>5. NamesOK'
    BY <1>2, <2>2, <2>3, GrowNames
  <2>6. /\ Last \in 1..Last
        /\ m.kind = "release" => stream[Last].by = m.by
        /\ m.kind = "reclaim" => phase[stream[Last].by] = "dead"
    BY <1>2, <2>1 DEF IInv, NamesOK
  <2>7. ASSUME NEW v \in Workers PROVE LeaseOK(v)'
    <3>1. LeaseOK(v)
      BY DEF IInv
    <3>2. CASE m.live /\ v = m.by
      <4>1. phase[v] \in {"releasing", "reclaiming"}
        BY <2>1, <3>2 DEF IInv, LiveOK, Pending
      <4> QED BY <2>3, <4>1 DEF LeaseOK, CreatingOK, HeldOK, Held, RestingOK, RenewingOK
    <3>3. CASE ~(m.live /\ v = m.by) /\ stream[Last].by # v
      BY <1>2, <2>2, <2>3, <2>4, <3>3, GrowLease, LeaseConstants
    <3>4. CASE ~(m.live /\ v = m.by) /\ stream[Last].by = v
      <4>1. reply'[v] = reply[v]
        BY <2>4, <3>4
      <4>2. \/ phase[v] = "dead"
            \/ v = m.by /\ m.kind = "release"
        BY <2>1, <2>6, <3>4
      <4>3. ~(phase[v] \in {"creating", "recreating"} /\ reply[v] \notin {None, 0})
        BY <1>2, <2>1, <3>1, <4>2 DEF LeaseOK, CreatingOK, Fresh, Mine
      <4>4. ~Held(v)
        BY <1>2, <2>1, <3>1, <4>2 DEF LeaseOK, HeldOK, Held, Bounded, Mine
      <4> QED BY <2>3, <4>1, <4>3, <4>4
              DEF LeaseOK, CreatingOK, HeldOK, Held, RestingOK, RenewingOK
    <3> QED BY <3>2, <3>3, <3>4
  <2> QED BY <2>2, <2>4, <2>5, <2>7 DEF IInv
<1> QED BY <1>1, <1>2 DEF BrokerDelete

(* The record expires only when its TTL is over, so no confirmed lease     *)
(* loses it.                                                               *)
LEMMA ExpireInv ==
    ASSUME IInv, TypeOK', Expire PROVE IInv'
<1>1. Gone \in Records /\ Gone.by = None /\ RecordsOK' /\ ChainOK'
  BY GoneFacts DEF Expire
<1>2. UNCHANGED <<wire, phase, token, acq, conf, ago, reply, left, dropped>> /\ left = 0
  BY DEF Expire, lease
<1>3. LiveOK'
  BY <1>2 DEF IInv, LiveOK, Pending
<1>4. NamesOK'
  BY <1>1, <1>2, GrowNames DEF Expire
<1>5. \A v \in Workers : LeaseOK(v)'
  BY <1>1, <1>2, GrowLease, LeaseConstants DEF Expire
<1> QED BY <1>1, <1>3, <1>4, <1>5 DEF IInv

(* Time passes for the record and for every confirmation alike. *)
LEMMA TickInv ==
    ASSUME IInv, TypeOK', Tick PROVE IInv'
<1>1. UNCHANGED <<stream, wire, phase, token, acq, reply, dropped>>
  BY DEF Tick
<1>2. RecordsOK' /\ ChainOK' /\ Last' = Last
  BY <1>1, SameKey DEF IInv
<1>3. LiveOK' /\ NamesOK'
  BY <1>1, <1>2 DEF IInv, LiveOK, Pending, NamesOK
<1>4. ASSUME NEW v \in Workers PROVE LeaseOK(v)'
  <2>1. LeaseOK(v)
    BY DEF IInv
  <2>2. /\ TTL \in Nat /\ left \in Nat /\ conf[v] \in Nat
        /\ ago[v] \in Nat /\ ago[v] <= TTL
    BY LeaseConstants DEF IInv, TypeOK
  <2>3. /\ left' = IF left = 0 THEN 0 ELSE left - 1
        /\ conf'[v] = IF conf[v] = 0 THEN 0 ELSE conf[v] - 1
        /\ ago'[v] = IF phase[v] \in Timed /\ ago[v] < TTL THEN ago[v] + 1 ELSE ago[v]
    BY DEF Tick, Less
  <2>4. phase[v] \in Timed => \A r : Covers(r, ago[v]) => Covers(r, ago[v])'
    <3> SUFFICES ASSUME phase[v] \in Timed, NEW r, Covers(r, ago[v])
                 PROVE  Covers(r, ago[v])'
      OBVIOUS
    <3>1. CASE ago[v] = TTL
      BY <2>2, <2>3, <3>1 DEF Covers
    <3>2. CASE ago[v] < TTL
      <4>1. left' >= TTL - ago'[v]
        BY <2>2, <2>3, <3>2 DEF Covers
      <4>2. Last' = r
        BY <1>2, <2>2, <3>2 DEF Covers
      <4> QED BY <4>1, <4>2 DEF Covers
    <3> QED BY <2>2, <3>1, <3>2
  <2>5. CreatingOK(v)'
    BY <1>1, <1>2, <2>1, <2>4 DEF LeaseOK, CreatingOK, Mine, Fresh
  <2>6. HeldOK(v)'
    <3>1. Bounded(v) => Bounded(v)'
      BY <1>1, <1>2 DEF Bounded
    <3>2. Current(v) => Current(v)'
      BY <1>1, <1>2, <2>2, <2>3 DEF Current, Misdated
    <3> QED BY <1>1, <1>2, <2>1, <3>1, <3>2 DEF LeaseOK, HeldOK, Held, Mine
  <2>7. RestingOK(v)'
    BY <1>1, <1>2, <2>1 DEF LeaseOK, RestingOK, Fresh
  <2>8. RenewingOK(v)'
    BY <1>1, <1>2, <2>1, <2>4 DEF LeaseOK, RenewingOK, Mine
  <2> QED BY <2>5, <2>6, <2>7, <2>8 DEF LeaseOK
<1> QED BY <1>2, <1>3, <1>4 DEF IInv

-----------------------------------------------------------------------------
(* The initial state satisfies the invariant. *)
LEMMA InitInv == Init => IInv
<1> SUFFICES ASSUME Init PROVE IInv
  OBVIOUS
<1>1. Last = 0 /\ wire = {}
  BY DEF Init, Last
<1>2. RecordsOK /\ ChainOK /\ LiveOK /\ NamesOK
  BY <1>1 DEF RecordsOK, ChainOK, LiveOK, NamesOK, Present
<1>3. \A w \in Workers : LeaseOK(w)
  BY DEF Init, LeaseOK, CreatingOK, HeldOK, Held, RestingOK, RenewingOK
<1> QED BY <1>2, <1>3, TypeInit DEF IInv

(* Every step keeps the invariant. *)
LEMMA NextInv == IInv /\ [Next]_vars => IInv'
<1> SUFFICES ASSUME IInv, [Next]_vars PROVE IInv'
  OBVIOUS
<1>1. TypeOK'
  BY TypeNext DEF IInv
<1>2. ASSUME NEW m \in wire, BrokerStep(m) PROVE IInv'
  BY <1>1, <1>2, BrokerCreateInv, BrokerRenewInv, BrokerDeleteInv DEF BrokerStep
<1>3. CASE UNCHANGED vars
  BY <1>3 DEF vars, IInv, TypeOK, RecordsOK, ChainOK, LiveOK, Pending, NamesOK, LeaseOK,
              CreatingOK, HeldOK, Held, Bounded, Current, Misdated, RestingOK, RenewingOK, Mine,
              Fresh, Covers, Last, Present
<1> QED BY <1>1, <1>2, <1>3, WorkerInv, ExpireInv, TickInv DEF Next

(* The inductive invariant holds in every reachable state. *)
THEOREM LeaseInvariant == Spec => []IInv
  BY InitInv, NextInv, PTL DEF Spec

(* The invariant implies ConfirmedHolderOwnsRecord. *)
LEMMA ConfirmedOwns == IInv => ConfirmedHolderOwnsRecord
<1> SUFFICES ASSUME IInv, NEW w \in Workers, Assured(w)
             PROVE  Holder = w /\ left >= conf[w]
  BY DEF ConfirmedHolderOwnsRecord
<1>1. LeaseOK(w) /\ Held(w) /\ conf[w] > 0 /\ ~Misdated(w) /\ Last \in Nat
  BY WorkerTypes DEF IInv, Confirmed, Assured
<1>2. left >= conf[w] /\ Last \in 1..Last /\ stream[Last].by = w
  BY <1>1 DEF LeaseOK, HeldOK, Current, Mine
<1>3. Present
  BY <1>1, <1>2, LeaseConstants DEF IInv, RecordsOK, Present
<1> QED BY <1>2, <1>3 DEF Holder

(* ConfirmedHolderOwnsRecord holds for any number of workers, any TTL of   *)
(* whole seconds and any number of revisions: until its confirmed_until    *)
(* passes, a worker's lease is the record the broker keeps, unless that    *)
(* confirmation answered the repetition of a dropped renewal.              *)
THEOREM ConfirmedHolder == Spec => []ConfirmedHolderOwnsRecord
  BY LeaseInvariant, ConfirmedOwns, PTL

(* The invariant implies FencesOrdered. *)
LEMMA FencesFollow == IInv => FencesOrdered
<1> SUFFICES ASSUME IInv, NEW v \in Workers, NEW w \in Workers, v # w,
                    Held(v), Held(w), Present, stream[Last].acq = acq[v]
             PROVE  token[w] < token[v]
  BY DEF FencesOrdered
<1>1. Last \in Nat /\ token[v] \in Nat /\ token[w] \in Nat /\ acq[v] \in Nat
  BY WorkerTypes DEF IInv, TypeOK
<1>2. /\ Mine(v, token[v]) /\ stream[token[v]].acq = acq[v]
      /\ Mine(w, token[w])
  BY DEF IInv, LeaseOK, HeldOK
<1>3. acq[v] <= token[v]
  BY <1>1, <1>2, LeaseConstants DEF Mine, IInv, RecordsOK
<1>4. \A r \in acq[v]..Last : stream[r].by = stream[Last].by
  BY DEF IInv, ChainOK
<1>5. token[v] \in acq[v]..Last
  BY <1>1, <1>2, <1>3 DEF Mine
<1>6. token[w] \notin acq[v]..Last
  BY <1>2, <1>4, <1>5 DEF Mine
<1> QED BY <1>1, <1>2, <1>3, <1>6 DEF Mine

(* FencesOrdered: of two workers that both report is_held(), the one whose *)
(* acquisition the broker still keeps carries the larger fence token.      *)
THEOREM FencesAreOrdered == Spec => []FencesOrdered
  BY LeaseInvariant, FencesFollow, PTL

(* NeverEvictsLiveHolder: a reclaim names a record whose process is dead,  *)
(* and a release one of the releasing worker's own.                        *)
THEOREM LiveHoldersStay == Spec => NeverEvictsLiveHolder
<1>1. ASSUME IInv, [Next]_vars, Present, ~Present', left > 0
      PROVE  \/ phase[Holder] = "dead"
             \/ \E m \in wire \ wire' : m.kind = "release" /\ m.by = Holder
  <2>1. left # 0 /\ Last \in Nat /\ Last # 0
    BY <1>1, WorkerTypes DEF IInv, TypeOK, Present
  <2>2. stream' # stream
    BY <1>1 DEF Present, Last
  <2>3. ~Expire /\ ~Tick /\ ~UNCHANGED vars
    BY <2>1, <2>2 DEF Expire, Tick, vars
  <2>4. \A w \in Workers : ~WorkerStep(w)
    BY <2>2 DEF WorkerStep, Acquire, Acquired, CreateConflict, ReclaimDead, LeaveHolder,
       Reclaimed, ReclaimLost, AcquireError, RenewOnce, RenewTooLate, RenewRetry, RenewAcked,
       RenewLost, RenewError, RevalidationAborted, Release, ReleaseEnds, DropUnreleased, Crash
  <2>5. PICK m \in wire : BrokerStep(m)
    BY <1>1, <2>3, <2>4 DEF Next
  <2>6. ~BrokerCreate(m)
    BY <1>1, <2>2 DEF BrokerCreate
  <2>7. ~BrokerRenew(m)
    <3> SUFFICES ASSUME BrokerRenew(m) PROVE FALSE
      OBVIOUS
    <3>1. m.by \in Workers /\ m.at \in Nat /\ m.acq \in Nat
      BY <1>1 DEF IInv, TypeOK, Requests
    <3>2. Put(m.by, m.acq, m.at) \in Records /\ Put(m.by, m.acq, m.at).op = "put"
      BY <3>1 DEF Put, Records
    <3>3. stream' = Append(stream, Put(m.by, m.acq, m.at))
      BY <2>2 DEF BrokerRenew
    <3>4. Last' = Last + 1 /\ stream'[Last + 1] = Put(m.by, m.acq, m.at)
      BY <1>1, <3>2, <3>3, Grow DEF IInv
    <3> QED BY <1>1, <2>1, <3>2, <3>4 DEF Present
  <2>8. BrokerDelete(m) /\ m.at = Last /\ m \notin wire'
    BY <2>2, <2>5, <2>6, <2>7 DEF BrokerStep, BrokerDelete
  <2>9. m.kind = "release" => stream[Last].by = m.by
    BY <1>1, <2>8 DEF IInv, NamesOK
  <2>10. m.kind = "reclaim" => phase[stream[Last].by] = "dead"
    BY <1>1, <2>8 DEF IInv, NamesOK
  <2> QED BY <1>1, <2>8, <2>9, <2>10 DEF BrokerDelete, Holder
<1>2. IInv /\ [Next]_vars =>
          [Present /\ ~Present' /\ left > 0 =>
             \/ phase[Holder] = "dead"
             \/ \E m \in wire \ wire' : m.kind = "release" /\ m.by = Holder]_vars
  BY <1>1
<1> QED BY LeaseInvariant, <1>2, PTL DEF Spec, NeverEvictsLiveHolder

-----------------------------------------------------------------------------
(* The lease implements LeaseRegister *)

Believers == {w \in Workers : Assured(w)}

(* At most one worker is assured at a time. *)
LEMMA AtMostOneBeliever ==
    ASSUME IInv, NEW v \in Believers, NEW w \in Believers PROVE v = w
  BY ConfirmedOwns DEF Believers, ConfirmedHolderOwnsRecord

(* A step assures at most one worker, and then withdraws from none. *)
LEMMA BelieversStep ==
    ASSUME IInv, [Next]_vars
    PROVE  \/ Believers' \subseteq Believers
           \/ \E w \in Workers : Believers' = Believers \union {w}
<1>1. ASSUME NEW w \in Workers, \A v \in Workers : v # w => Assured(v)' = Assured(v)
      PROVE  \/ Believers' \subseteq Believers
             \/ Believers' = Believers \union {w}
  BY <1>1 DEF Believers
<1>2. ASSUME \A v \in Workers : Assured(v)' => Assured(v)
      PROVE  Believers' \subseteq Believers
  BY <1>2 DEF Believers
<1>3. ASSUME NEW w \in Workers, WorkerStep(w), ~RevalidationAborted(w)
      PROVE  \A v \in Workers : v # w => Assured(v)' = Assured(v)
  <2>1. /\ UNCHANGED <<stream, dropped>>
        /\ \A v \in Workers : v # w =>
              phase'[v] = phase[v] /\ conf'[v] = conf[v] /\ token'[v] = token[v]
    BY <1>3 DEF IInv, TypeOK, WorkerStep, Acquire, Acquired, CreateConflict, ReclaimDead,
         LeaveHolder, Reclaimed, ReclaimLost, AcquireError, RenewOnce, RenewTooLate,
         RenewRetry, RenewAcked, RenewLost, RenewError, Release, ReleaseEnds,
         DropUnreleased, Crash, Send, Settle, End, lease
  <2> QED BY <2>1 DEF Assured, Confirmed, Held, Misdated
<1>4. ASSUME NEW w \in Workers, RevalidationAborted(w)
      PROVE  \A v \in Workers : Assured(v)' => Assured(v)
  <2>1. /\ UNCHANGED <<stream, conf, token>> /\ dropped \subseteq dropped'
        /\ \A v \in Workers : phase'[v] # phase[v] => phase[v] = "renewing"
    BY <1>4 DEF IInv, TypeOK, RevalidationAborted, Settle, lease
  <2> QED BY <2>1 DEF Assured, Confirmed, Held, Misdated
<1>5. ASSUME Tick PROVE \A v \in Workers : Assured(v)' => Assured(v)
  <2>1. \A w \in Workers : conf'[w] > 0 => conf[w] > 0
    BY <1>5 DEF Tick, Less, IInv, TypeOK
  <2> QED BY <1>5, <2>1 DEF Tick, Assured, Confirmed, Held, Misdated
<1>6. ASSUME UNCHANGED <<phase, conf, token, dropped>>,
             stream' = stream \/ \E e \in Records : stream' = Append(stream, e)
      PROVE  \A v \in Workers : Assured(v)' => Assured(v)
  <2>1. \A r \in 1..Last : stream'[r] = stream[r]
    BY <1>6, Grow DEF IInv
  <2>2. \A v \in Workers : Held(v) => token[v] \in 1..Last
    BY DEF IInv, LeaseOK, HeldOK, Mine
  <2> QED BY <1>6, <2>1, <2>2 DEF Assured, Confirmed, Held, Misdated
<1>7. Gone \in Records
  BY DEF Gone, Records
<1>8. ASSUME NEW m \in wire, BrokerStep(m) PROVE \A v \in Workers : Assured(v)' => Assured(v)
  <2>0. UNCHANGED <<phase, conf, token, dropped>>
    BY <1>8 DEF BrokerStep, BrokerCreate, BrokerRenew, BrokerDelete, lease
  <2>1. m.by \in Workers /\ m.at \in Nat /\ m.acq \in Nat /\ Last + 1 \in Nat
    BY WorkerTypes DEF IInv, TypeOK, Requests
  <2>2. /\ Put(m.by, Last + 1, 0) \in Records
        /\ Put(m.by, m.acq, m.at) \in Records
    BY <2>1 DEF Put, Records
  <2>3. stream' = stream \/ \E e \in Records : stream' = Append(stream, e)
    BY <1>7, <1>8, <2>2 DEF BrokerStep, BrokerCreate, BrokerRenew, BrokerDelete
  <2> QED BY <1>6, <2>0, <2>3
<1>9. ASSUME Expire \/ UNCHANGED vars PROVE \A v \in Workers : Assured(v)' => Assured(v)
  BY <1>6, <1>7, <1>9 DEF Expire, lease, vars
<1> QED BY <1>1, <1>2, <1>3, <1>4, <1>5, <1>8, <1>9 DEF Next

(* Every step of the lease is a step of the register or leaves it alone. *)
LEMMA RegisterStep == IInv /\ IInv' /\ [Next]_vars => [Register!Next]_Believers
<1> SUFFICES ASSUME IInv, IInv', [Next]_vars, Believers' # Believers PROVE Register!Next
  OBVIOUS
<1>1. \A v, w \in Believers : v = w
  BY AtMostOneBeliever
<1>2. \A v, w \in Believers' : v = w
  <2>1. ConfirmedHolderOwnsRecord'
    BY ConfirmedOwns, PTL
  <2> QED BY <2>1 DEF ConfirmedHolderOwnsRecord, Believers
<1>3. CASE Believers' \subseteq Believers
  <2>1. Believers # {} /\ Believers' = {}
    BY <1>1, <1>3
  <2> QED BY <2>1 DEF Register!Next, Register!Withdraw, Believers
<1>4. CASE \E w \in Workers : Believers' = Believers \union {w}
  <2>1. PICK w \in Workers : Believers' = Believers \union {w}
    BY <1>4
  <2>2. Believers = {} /\ Believers' = {w}
    BY <1>2, <2>1
  <2> QED BY <2>2 DEF Register!Next, Register!Grant, Believers
<1> QED BY <1>3, <1>4, BelieversStep

(* The session lease implements LeaseRegister: the workers whose belief is *)
(* assured are granted and withdrawn the right to act one at a time.     *)
THEOREM LeaseImplementsRegister == Spec => ImplementsRegister
<1>1. Init => Register!Init
  BY DEF Init, Register!Init, Assured, Confirmed, Held
<1>2. IInv /\ IInv' /\ [Next]_vars => [Register!Next]_Believers
  BY RegisterStep
<1>3. IInv /\ IInv' /\ [Next]_vars => [Register!Next]_({w \in Workers : Assured(w)})
  BY <1>2 DEF Believers
<1> QED BY LeaseInvariant, <1>1, <1>3, PTL DEF Spec, ImplementsRegister, Register!Spec

-----------------------------------------------------------------------------
(* Releases.  A record is a create's or directly follows the one it renews, *)
(* and the current lease has one acquisition.                               *)
HistoryOK ==
    /\ \A r \in 1..Last :
          stream[r].op = "put" =>
              \/ stream[r].prior = 0 /\ stream[r].acq = r
              \/ stream[r].prior = r - 1
    /\ Present => \A r \in stream[Last].acq..Last : stream[r].acq = stream[Last].acq

(* What a release on the wire names, if no renewal of it was dropped, is    *)
(* renewed by nothing: neither by a                                         *)
(* renewal that is still on its way nor by one that was stored.             *)
UnrivalledOK ==
    \A m \in wire :
        m.kind = "release" /\ m.at \notin dropped =>
            /\ \A n \in wire : n.kind = "renew" /\ n.by = m.by => n.at # m.at
            /\ \A q \in 1..Last : stream[q].by = m.by => stream[q].prior # m.at

(* Steps that leave the key alone and send neither a renewal nor a release. *)
LEMMA QuietReleases ==
    ASSUME HistoryOK, UnrivalledOK, UNCHANGED stream, dropped \subseteq dropped',
           \A n \in wire' :
              \/ n.kind \notin {"renew", "release"}
              \/ \E m \in wire : m.kind = n.kind /\ m.by = n.by /\ m.at = n.at
    PROVE  HistoryOK' /\ UnrivalledOK'
<1>1. Last' = Last /\ Present' = Present
  BY DEF Last, Present
<1>2. HistoryOK'
  BY <1>1 DEF HistoryOK
<1>3. UnrivalledOK'
  BY <1>1 DEF UnrivalledOK
<1> QED BY <1>2, <1>3

(* A worker sends a request, or gives up on what it sent.  A release is     *)
(* sent between renewals, at a revision nothing has renewed; a renewal      *)
(* names a later revision than every release of its worker.                 *)
LEMMA WorkerReleases ==
    ASSUME IInv, HistoryOK, UnrivalledOK, NEW w \in Workers, WorkerStep(w)
    PROVE  HistoryOK' /\ UnrivalledOK'
<1>1. UNCHANGED stream /\ Last' = Last /\ LeaseOK(w) /\ dropped \subseteq dropped'
  BY DEF WorkerStep, RevalidationAborted, Send, Settle, End, Acquire, Acquired, CreateConflict, ReclaimDead, LeaveHolder, Reclaimed,
         ReclaimLost, AcquireError, RenewOnce, RenewTooLate, RenewRetry, RenewAcked, RenewLost,
         RenewError, Release, ReleaseEnds, DropUnreleased, Crash, IInv, Last
<1>2. token[w] \in Nat /\ \A n \in wire : n.at \in Nat
  BY WorkerTypes DEF IInv, TypeOK
<1>3. \A q \in 1..Last : stream[q].prior \in Nat
  BY WorkerTypes DEF IInv, Records
<1>4. CASE wire' = wire
  BY <1>1, <1>4, QuietReleases
<1>5. CASE wire' = GiveUp(w)
  <2>1. \A n \in wire' : \E m \in wire : m.kind = n.kind /\ m.by = n.by /\ m.at = n.at
    BY <1>5 DEF GiveUp, Abandoned, IInv, TypeOK, Requests
  <2> QED BY <1>1, <2>1, QuietReleases
<1>6. ASSUME NEW k \in {"create", "reclaim"}, NEW r, wire' = wire \union {Request(k, w, r, 0)}
      PROVE  HistoryOK' /\ UnrivalledOK'
  <2>1. Request(k, w, r, 0).kind \notin {"renew", "release"}
    BY DEF Request
  <2> QED BY <1>1, <1>6, <2>1, QuietReleases
<1>7. HistoryOK'
  BY <1>1 DEF HistoryOK, Present
<1>8. CASE Release(w)
  <2> DEFINE m == Request("release", w, token[w], acq[w])
  <2>1. m.kind = "release" /\ m.by = w /\ m.at = token[w] /\ wire' = wire \union {m}
    BY <1>8 DEF Request, Release, Send
  <2>2. token[w] \notin dropped => Fresh(w, token[w])
    BY <1>1, <1>8 DEF Release, LeaseOK, RestingOK
  <2> HIDE DEF m
  <2>3. m.at \notin dropped =>
        /\ \A n \in wire' : n.kind = "renew" /\ n.by = w => n.at # m.at
        /\ \A q \in 1..Last : stream[q].by = w => stream[q].prior # m.at
    BY <1>2, <1>3, <2>1, <2>2 DEF Fresh
  <2>4. UnrivalledOK'
    BY <1>1, <2>1, <2>3 DEF UnrivalledOK
  <2> QED BY <1>7, <2>4
<1>9. CASE RenewOnce(w) \/ RenewRetry(w)
  <2> DEFINE m == Request("renew", w, token[w], acq[w])
  <2>1. m.kind = "renew" /\ m.by = w /\ m.at = token[w] /\ wire' = wire \union {m}
    BY <1>9 DEF Request, RenewOnce, RenewRetry, Send
  <2>2. \A n \in wire : n.by = w /\ n.kind = "release" => n.at < token[w]
    BY <1>1, <1>9 DEF RenewOnce, RenewRetry, LeaseOK, HeldOK, Held, Bounded
  <2> HIDE DEF m
  <2>3. \A n \in wire : n.by = w /\ n.kind = "release" => n.at # m.at
    BY <1>2, <2>1, <2>2
  <2>4. UnrivalledOK'
    BY <1>1, <2>1, <2>3 DEF UnrivalledOK
  <2> QED BY <1>7, <2>4
<1>10. CASE Acquire(w) \/ ReclaimDead(w) \/ Reclaimed(w)
  BY <1>6, <1>10 DEF Acquire, ReclaimDead, Reclaimed, Send
<1> QED BY <1>4, <1>5, <1>8, <1>9, <1>10
        DEF WorkerStep, Acquired, CreateConflict, LeaveHolder, ReclaimLost, AcquireError,
            RenewTooLate, RenewAcked, RenewLost, RenewError, RevalidationAborted, ReleaseEnds,
            DropUnreleased, Crash, End

(* A record is appended: a create's after none, a renewal's right after the *)
(* record it names, or the end of the lease.                                *)
LEMMA GrowReleases ==
    ASSUME IInv, HistoryOK, UnrivalledOK, NEW e \in Records, stream' = Append(stream, e),
           wire' \subseteq wire, UNCHANGED dropped,
           \/ e.op = "gone" /\ e.by = None
           \/ e.op = "put" /\ e.acq = Last + 1 /\ e.prior = 0
           \/ /\ e.op = "put" /\ e.prior = Last
              /\ \E n \in wire : /\ n.kind = "renew" /\ n.by = e.by
                                /\ n.at = Last /\ n.acq = e.acq
    PROVE  HistoryOK' /\ UnrivalledOK'
<1>1. /\ Last \in Nat /\ Last' = Last + 1 /\ stream'[Last + 1] = e
      /\ \A r \in 1..Last : stream'[r] = stream[r]
  BY Grow DEF IInv
<1>2. \A r \in 1..Last' : r \in 1..Last \/ r = Last + 1
  BY <1>1
<1>3. \A r \in 1..Last' :
          stream'[r].op = "put" =>
              \/ stream'[r].prior = 0 /\ stream'[r].acq = r
              \/ stream'[r].prior = r - 1
  <2> SUFFICES ASSUME NEW r \in 1..Last', stream'[r].op = "put"
               PROVE  (stream'[r].prior = 0 /\ stream'[r].acq = r) \/ stream'[r].prior = r - 1
    OBVIOUS
  <2>1. CASE r \in 1..Last
    BY <1>1, <2>1 DEF HistoryOK
  <2>2. CASE r = Last + 1
    <3>0. Last \in Nat /\ stream'[Last + 1] = e
      BY <1>1
    <3>1. stream'[r] = e /\ r - 1 = Last
      BY ONLY <2>2, <3>0
    <3>2. (e.acq = r /\ e.prior = 0) \/ e.prior = Last
      BY <2>2, <3>1
    <3> QED BY <3>1, <3>2
  <2> QED BY <1>2, <2>1, <2>2
<1>4. ASSUME Present'
      PROVE  \A r \in stream'[Last'].acq..Last' : stream'[r].acq = stream'[Last'].acq
  <2>1. e.op = "put" /\ e.acq \in Nat
    BY <1>1, <1>4 DEF Present, Records
  <2>2. CASE e.acq = Last + 1
    <3>1. e.acq..Last' = {Last'}
      BY <1>1, <2>2
    <3> QED BY <1>1, <3>1
  <2>3. CASE \E n \in wire : n.kind = "renew" /\ n.by = e.by /\ n.at = Last /\ n.acq = e.acq
    <3>1. Last \in 1..Last /\ stream[Last].op = "put" /\ stream[Last].acq = e.acq
      BY <2>3 DEF IInv, NamesOK
    <3>2. e.acq \in 1..Last /\ Present
      BY <1>1, <3>1, LeaseConstants DEF IInv, RecordsOK, Present
    <3>3. \A r \in e.acq..Last : r \in 1..Last /\ stream[r].acq = e.acq
      BY <1>1, <3>1, <3>2 DEF HistoryOK
    <3>4. \A r \in e.acq..Last' : r \in e.acq..Last \/ r = Last + 1
      BY <1>1, <3>2
    <3> QED BY <1>1, <3>3, <3>4
  <2> QED BY <2>1, <2>2, <2>3
<1>5. UnrivalledOK'
  <2> SUFFICES ASSUME NEW m \in wire, m.kind = "release", m.at \notin dropped,
                      NEW q \in 1..Last',
                      stream'[q].by = m.by
               PROVE  stream'[q].prior # m.at
    BY DEF UnrivalledOK
  <2>1. m.by \in Workers /\ m.at \in 1..Last
    BY WorkerTypes DEF IInv, NamesOK
  <2>2. CASE q \in 1..Last
    BY <1>1, <2>2 DEF UnrivalledOK
  <2>3. CASE q = Last + 1
    <3>1. stream'[q] = e /\ e.by = m.by /\ e.by # None
      BY <1>1, <2>1, <2>3, LeaseConstants
    <3>2. \A n \in wire : n.kind = "renew" /\ n.by = m.by => n.at # m.at
      BY DEF UnrivalledOK
    <3> QED BY <2>1, <3>1, <3>2
  <2> QED BY <1>2, <2>2, <2>3
<1> QED BY <1>3, <1>4, <1>5 DEF HistoryOK

(* Every step keeps both.                                                   *)
LEMMA NextReleases ==
    IInv /\ HistoryOK /\ UnrivalledOK /\ [Next]_vars => HistoryOK' /\ UnrivalledOK'
<1> SUFFICES ASSUME IInv, HistoryOK, UnrivalledOK, [Next]_vars
             PROVE  HistoryOK' /\ UnrivalledOK'
  OBVIOUS
<1>1. CASE Tick \/ UNCHANGED vars
  <2>1. UNCHANGED <<stream, wire, dropped>>
    BY <1>1 DEF Tick, vars
  <2> QED BY <2>1, QuietReleases
<1>2. Gone \in Records /\ Gone.op = "gone" /\ Gone.by = None
  BY DEF Gone, Records
<1>3. CASE Expire
  BY <1>2, <1>3, GrowReleases DEF Expire
<1>4. ASSUME NEW m \in wire, BrokerStep(m) PROVE HistoryOK' /\ UnrivalledOK'
  <2>1. /\ wire' = wire \ {m} /\ UNCHANGED dropped /\ m.by \in Workers /\ m.at \in Nat /\ m.acq \in Nat
        /\ Last \in Nat
    BY <1>4, WorkerTypes
       DEF BrokerStep, BrokerCreate, BrokerRenew, BrokerDelete, IInv, TypeOK, Requests
  <2>2. CASE UNCHANGED stream
    BY <2>1, <2>2, QuietReleases
  <2>3. CASE stream' = Append(stream, Gone)
    BY <1>2, <2>1, <2>3, GrowReleases
  <2>4. CASE stream' = Append(stream, Put(m.by, Last + 1, 0))
    <3> DEFINE e == Put(m.by, Last + 1, 0)
    <3>1. e \in Records /\ e.op = "put" /\ e.acq = Last + 1 /\ e.prior = 0
      BY <2>1 DEF Put, Records
    <3> HIDE DEF e
    <3>2. stream' = Append(stream, e)
      BY <2>4 DEF e
    <3> QED BY <2>1, <3>1, <3>2, GrowReleases
  <2>5. CASE m.kind = "renew" /\ m.at = Last /\ stream' = Append(stream, Put(m.by, m.acq, m.at))
    <3> DEFINE e == Put(m.by, m.acq, m.at)
    <3>1. e \in Records /\ e.op = "put" /\ e.by = m.by /\ e.acq = m.acq /\ e.prior = Last
      BY <2>1, <2>5 DEF Put, Records
    <3> HIDE DEF e
    <3>2. stream' = Append(stream, e)
      BY <2>5 DEF e
    <3> QED BY <2>1, <2>5, <3>1, <3>2, GrowReleases
  <2> QED BY <1>4, <2>2, <2>3, <2>4, <2>5 DEF BrokerStep, BrokerCreate, BrokerRenew, BrokerDelete
<1> QED BY <1>1, <1>3, <1>4, WorkerReleases DEF Next

(* ReleaseHits: release waits for renew_lock, so the revision it deletes at *)
(* is the last one of its lease, whatever renewals of it were delayed or    *)
(* sent twice; only a renewal dropped with the turn that was revalidating   *)
(* the lease can make it miss.                                              *)
THEOREM ReleasesHit == Spec => []ReleaseHits
<1>1. IInv /\ HistoryOK /\ UnrivalledOK => ReleaseHits
  <2> SUFFICES ASSUME IInv, HistoryOK, UnrivalledOK, NEW m \in wire, m.kind = "release",
                      m.at \notin dropped,
                      Present, stream[Last].acq = m.acq, m.at # Last
               PROVE  FALSE
    BY DEF ReleaseHits
  <2>1. /\ Last \in Nat /\ m.by \in Workers /\ m.at \in 1..Last
        /\ stream[m.at].op = "put" /\ stream[m.at].by = m.by /\ stream[m.at].acq = m.acq
    BY WorkerTypes DEF IInv, NamesOK
  <2>2. m.acq \in 1..m.at
    BY <2>1, LeaseConstants DEF IInv, RecordsOK
  <2>3. m.at + 1 \in 1..Last /\ m.at + 1 \in m.acq..Last /\ m.at \in m.acq..Last
    BY <2>1, <2>2
  <2>4. /\ stream[m.at + 1].op = "put" /\ stream[m.at + 1].by = m.by
        /\ stream[m.at + 1].acq = m.acq
    BY <2>1, <2>3 DEF IInv, ChainOK, HistoryOK
  <2>5. stream[m.at + 1].prior = m.at
    BY <2>1, <2>2, <2>3, <2>4 DEF HistoryOK
  <2> QED BY <2>3, <2>4, <2>5 DEF UnrivalledOK
<1>2. Init => HistoryOK /\ UnrivalledOK
  BY DEF Init, HistoryOK, UnrivalledOK, Last, Present
<1> QED BY <1>1, <1>2, NextReleases, LeaseInvariant, PTL DEF Spec
=============================================================================
