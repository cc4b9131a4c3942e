---------------------------- MODULE SessionLease ----------------------------
(***************************************************************************)
(* The per-session lease of crates/harnx-runtime/src/nats_lease.rs: one    *)
(* key of a JetStream KV bucket, taken by create, kept by CAS renewals,    *)
(* dropped by a CAS delete, reclaimed early from a process that provably   *)
(* died on the same host, and otherwise expired by the broker.             *)
(*                                                                         *)
(* A worker is one process incarnation (a restarted daemon is another      *)
(* worker).  Requests and replies are separate steps: a request may be     *)
(* lost, arrive after its sender gave up, or be sent again; a reply may    *)
(* never be read.  Time is a set of countdowns that Tick moves together,   *)
(* so a behaviour may last for ever; only the number of revisions of the   *)
(* key is bounded.                                                         *)
(***************************************************************************)
EXTENDS Naturals, Sequences, FiniteSets

CONSTANTS
    Workers,      \* worker process incarnations
    Host,         \* Host[w]: the host identity a process records in its leases
    StrongHosts,  \* hosts whose identity authorizes a liveness check by pid
    TTL,          \* NatsLeaseConfig::ttl, in clock units
    Second,       \* clock units per second: the broker's TTL resolution
    MaxRev,       \* bound: no record is put beyond this revision
    MaxDrops,     \* bound: no more revisions than this have a renewal dropped
    None          \* no worker, no reply

ASSUME LeaseConstants ==
    /\ TTL \in Nat \ {0} /\ Second \in Nat \ {0} /\ MaxRev \in Nat \ {0}
    /\ MaxDrops \in Nat
    /\ None \notin Workers /\ None \notin Nat

(* validate() only rejects a zero TTL; everything below needs whole seconds *)
ASSUME WholeSeconds == (TTL \div Second) * Second = TTL

VARIABLES
    stream,   \* every message of the key, oldest first; revision = index
    left,     \* time left to the record at the end of stream
    wire,     \* requests that may still reach the broker
    phase,    \* what each worker's lease code is doing
    token,    \* LeaseState::fence_token
    acq,      \* NatsSessionLease::acquisition_revision
    conf,     \* confirmed_until, as time left (0: passed)
    ago,      \* time since acquired_at, or since the renewal's sent_at
    reply,    \* broker's reply to the pending request: None, 0 (conflict), revision
    dropped   \* history: the revisions whose renewal was dropped in mid-await

vars == <<stream, left, wire, phase, token, acq, conf, ago, reply, dropped>>
lease == <<token, acq, conf>>

Phases == {"idle", "creating", "reading", "reclaiming", "recreating",
           "held", "renewing", "releasing", "dead"}
Timed == {"creating", "reading", "reclaiming", "recreating", "renewing"}

(* as_secs() drops the fraction of the TTL in the NATS_MESSAGE_TTL header *)
BrokerTTL == (TTL \div Second) * Second

-----------------------------------------------------------------------------
(* The broker's key *)

Last == Len(stream)
Present == Last > 0 /\ stream[Last].op = "put"
Holder == IF Present THEN stream[Last].by ELSE None

Put(w, a, p) == [op |-> "put", by |-> w, acq |-> a, prior |-> p]
Gone == [op |-> "gone", by |-> None, acq |-> 0, prior |-> 0]

Request(k, w, r, a) == [kind |-> k, by |-> w, at |-> r, acq |-> a, live |-> TRUE]
Abandoned(m) == [m EXCEPT !.live = FALSE]

(* The sender stops waiting; what it sent may still arrive. *)
GiveUp(w) == {IF m.by = w THEN Abandoned(m) ELSE m : m \in wire}

Answer(m, r) ==
    reply' = IF m.live THEN [reply EXCEPT ![m.by] = r] ELSE reply

(* LeaseState::held, which is all is_held() reads *)
Held(w) == phase[w] \in {"held", "renewing"}
Confirmed(w) == Held(w) /\ conf[w] > 0

(* w's token came as the answer to a renewal that had been dropped and sent *)
(* again: its record may be older than the send it is confirmed from.       *)
Misdated(w) == stream[token[w]].prior \in dropped

(* Mutant: any holder on the same strong host is reclaimed *)
ProvablyDeadUnchecked(w, h) == Host[w] = Host[h] /\ Host[w] \in StrongHosts

(* holder_liveness: only a strong, shared host identity proves a death *)
ProvablyDead(w, h) ==
    Host[w] = Host[h] /\ Host[w] \in StrongHosts /\ phase[h] = "dead"

(* Mutant: the confirmation is dated from the acknowledgement *)
ConfirmedFromAck(sentAgo) == TTL

(* Mutant: the elapsed time is added to the TTL *)
ConfirmedFromLater(sentAgo) == TTL + sentAgo

ConfirmedFrom(sentAgo) == TTL - sentAgo

Init ==
    /\ stream = <<>> /\ left = 0 /\ wire = {}
    /\ phase = [w \in Workers |-> "idle"]
    /\ token = [w \in Workers |-> 0]
    /\ acq   = [w \in Workers |-> 0]
    /\ conf  = [w \in Workers |-> 0]
    /\ ago   = [w \in Workers |-> 0]
    /\ reply = [w \in Workers |-> None]
    /\ dropped = {}

-----------------------------------------------------------------------------
(* Requests leave a worker *)

Send(w, m, p) ==
    /\ wire' = wire \union {m}
    /\ phase' = [phase EXCEPT ![w] = p]
    /\ reply' = [reply EXCEPT ![w] = None]
    /\ UNCHANGED dropped

(* The pending call returned and the lease goes on.                        *)
Settle(w, p) ==
    /\ phase' = [phase EXCEPT ![w] = p]
    /\ reply' = [reply EXCEPT ![w] = None]

(* The lease is over for this worker, or never began: its LeaseState is    *)
(* dropped, and what it sent may still arrive.                             *)
End(w, p) ==
    /\ Settle(w, p)
    /\ wire' = GiveUp(w)
    /\ UNCHANGED dropped
    /\ token' = [token EXCEPT ![w] = 0]
    /\ acq'   = [acq EXCEPT ![w] = 0]
    /\ conf'  = [conf EXCEPT ![w] = 0]
    /\ ago'   = [ago EXCEPT ![w] = 0]

Acquire(w) ==
    /\ phase[w] = "idle"
    /\ Send(w, Request("create", w, 0, 0), "creating")
    /\ ago' = [ago EXCEPT ![w] = 0]
    /\ UNCHANGED <<stream, left, lease>>

(* create_lease returned a revision: the lease starts, confirmed from the  *)
(* instant before the FIRST create                                         *)
Acquired(w) ==
    /\ phase[w] \in {"creating", "recreating"}
    /\ reply[w] \notin {None, 0}
    /\ token' = [token EXCEPT ![w] = reply[w]]
    /\ acq' = [acq EXCEPT ![w] = reply[w]]
    /\ conf' = [conf EXCEPT ![w] = ConfirmedFrom(ago[w])]
    /\ ago' = [ago EXCEPT ![w] = 0]
    /\ Settle(w, "held")
    /\ UNCHANGED <<stream, left, wire, dropped>>

CreateConflict(w) ==
    /\ reply[w] = 0
    /\ \/ /\ phase[w] = "creating"
          /\ Settle(w, "reading")
          /\ UNCHANGED <<wire, lease, ago, dropped>>
       \/ /\ phase[w] = "recreating"
          /\ End(w, "idle")
    /\ UNCHANGED <<stream, left>>

(* try_reclaim_stale_lease reads the entry, possibly from a follower that  *)
(* is behind, and deletes it at the revision it saw if its holder is dead  *)
ReclaimDead(w) ==
    /\ phase[w] = "reading"
    /\ \E r \in 1..Last :
          /\ stream[r].op = "put"
          /\ ProvablyDead(w, stream[r].by)
          /\ Send(w, Request("reclaim", w, r, 0), "reclaiming")
    /\ UNCHANGED <<stream, left, lease, ago>>

(* no entry, a tombstone, a holder not provably dead, or a failed read     *)
LeaveHolder(w) ==
    /\ phase[w] = "reading"
    /\ End(w, "idle")
    /\ UNCHANGED <<stream, left>>

Reclaimed(w) ==
    /\ phase[w] = "reclaiming"
    /\ reply[w] \notin {None, 0}
    /\ Send(w, Request("create", w, 0, 0), "recreating")
    /\ UNCHANGED <<stream, left, lease, ago>>

ReclaimLost(w) ==
    /\ phase[w] = "reclaiming"
    /\ reply[w] = 0
    /\ End(w, "idle")
    /\ UNCHANGED <<stream, left>>

(* create or reclaim returned another error: acquire_key fails             *)
AcquireError(w) ==
    /\ phase[w] \in {"creating", "reclaiming", "recreating"}
    /\ End(w, "idle")
    /\ UNCHANGED <<stream, left>>

-----------------------------------------------------------------------------
(* Renewal: the renew task's tick and revalidate_ownership, both under     *)
(* renew_lock                                                              *)

RenewOnce(w) ==
    /\ phase[w] = "held" /\ conf[w] > 0
    /\ Send(w, Request("renew", w, token[w], acq[w]), "renewing")
    /\ ago' = [ago EXCEPT ![w] = 0]
    /\ UNCHANGED <<stream, left, lease>>

(* Mutant: the renew task goes on past its deadline without losing the lease *)
RenewTooLateIgnored(w) == phase[w] = "held" /\ conf[w] = 0 /\ UNCHANGED vars

(* retry_until refuses to start once the deadline has passed               *)
RenewTooLate(w) ==
    /\ phase[w] = "held" /\ conf[w] = 0
    /\ End(w, "idle")
    /\ UNCHANGED <<stream, left>>

(* a transient failure: the same message, with the same id, again          *)
RenewRetry(w) ==
    /\ phase[w] = "renewing" /\ conf[w] > 0
    /\ Send(w, Request("renew", w, token[w], acq[w]), "renewing")
    /\ UNCHANGED <<stream, left, lease, ago>>

(* Mutant: a conflicting renewal adopts the revision it lost to *)
RenewAckedAdopting(w) ==
    /\ phase[w] = "renewing"
    /\ reply[w] # None
    /\ token' = [token EXCEPT ![w] = Last]
    /\ conf' = [conf EXCEPT ![w] = ConfirmedFrom(ago[w])]
    /\ ago' = [ago EXCEPT ![w] = 0]
    /\ Settle(w, "held")
    /\ UNCHANGED <<stream, left, wire, acq, dropped>>

RenewAcked(w) ==
    /\ phase[w] = "renewing"
    /\ reply[w] \notin {None, 0}
    /\ token' = [token EXCEPT ![w] = reply[w]]
    /\ conf' = [conf EXCEPT ![w] = ConfirmedFrom(ago[w])]
    /\ ago' = [ago EXCEPT ![w] = 0]
    /\ Settle(w, "held")
    /\ UNCHANGED <<stream, left, wire, acq, dropped>>

(* WrongLastSequence, or the deadline: mark_lost                           *)
RenewLost(w) ==
    /\ phase[w] = "renewing"
    /\ reply[w] = 0 \/ conf[w] = 0
    /\ End(w, "idle")
    /\ UNCHANGED <<stream, left>>

(* any error that is not transient also loses the lease, at once           *)
RenewError(w) ==
    /\ phase[w] = "renewing"
    /\ End(w, "idle")
    /\ UNCHANGED <<stream, left>>

(* revalidate_ownership runs in the turn task, which await_turn_body aborts *)
(* in mid-await: renew_lock is free again with the old token and the old    *)
(* confirmation, and what was sent may still be stored.                     *)
RevalidationAborted(w) ==
    /\ phase[w] = "renewing"
    /\ Settle(w, "held")
    /\ wire' = GiveUp(w)
    /\ ago' = [ago EXCEPT ![w] = 0]
    /\ dropped' = dropped \union {token[w]}
    /\ Cardinality(dropped') <= MaxDrops
    /\ UNCHANGED <<stream, left, lease>>

(* Mutant: release does not wait for renew_lock *)
ReleaseUnlocked(w) ==
    /\ Held(w)
    /\ Send(w, Request("release", w, token[w], acq[w]), "releasing")
    /\ UNCHANGED <<stream, left, lease, ago>>

(* Mutant: release deletes the record without mark_lost *)
ReleaseStaysHeld(w) ==
    /\ phase[w] = "held"
    /\ Send(w, Request("release", w, token[w], acq[w]), "held")
    /\ UNCHANGED <<stream, left, lease, ago>>

(* release and Drop wait for renew_lock, so never during a renewal; but it  *)
(* may follow a renewal that was dropped, and names the token all the same  *)
Release(w) ==
    /\ phase[w] = "held"
    /\ Send(w, Request("release", w, token[w], acq[w]), "releasing")
    /\ UNCHANGED <<stream, left, lease, ago>>

(* deleted, WrongLastRevision or an error: nothing is retried              *)
ReleaseEnds(w) ==
    /\ phase[w] = "releasing"
    /\ End(w, "idle")
    /\ UNCHANGED <<stream, left>>

(* Drop outside a runtime: the renew task is aborted, nothing is deleted   *)
DropUnreleased(w) ==
    /\ Held(w)
    /\ End(w, "idle")
    /\ UNCHANGED <<stream, left>>

Crash(w) ==
    /\ phase[w] # "dead"
    /\ End(w, "dead")
    /\ UNCHANGED <<stream, left>>

-----------------------------------------------------------------------------
(* The broker takes one request                                            *)

BrokerCreate(m) ==
    /\ m.kind = "create"
    /\ \/ /\ ~Present /\ Last < MaxRev
          /\ stream' = Append(stream, Put(m.by, Last + 1, 0))
          /\ left' = BrokerTTL
          /\ Answer(m, Last + 1)
       \/ /\ Present
          /\ Answer(m, 0)
          /\ UNCHANGED <<stream, left>>
    /\ wire' = wire \ {m}
    /\ UNCHANGED <<phase, lease, ago, dropped>>

(* Nats-Msg-Id is worker, generation and expected revision: a second copy  *)
(* is answered with the revision the first one was stored at               *)
StoredAt(m) == {r \in 1..Last : stream[r].by = m.by /\ stream[r].prior = m.at}

BrokerRenew(m) ==
    /\ m.kind = "renew"
    /\ \/ \E r \in StoredAt(m) : Answer(m, r) /\ UNCHANGED <<stream, left>>
       \/ /\ StoredAt(m) = {} /\ m.at = Last /\ Last < MaxRev
          /\ stream' = Append(stream, Put(m.by, m.acq, m.at))
          /\ left' = BrokerTTL
          /\ Answer(m, Last + 1)
       \/ /\ StoredAt(m) = {} /\ m.at # Last
          /\ Answer(m, 0) /\ UNCHANGED <<stream, left>>
    /\ wire' = wire \ {m}
    /\ UNCHANGED <<phase, lease, ago, dropped>>

(* delete_expect_revision, by release or by reclaim                        *)
BrokerDelete(m) ==
    /\ m.kind \in {"release", "reclaim"}
    /\ \/ /\ m.at = Last
          /\ stream' = Append(stream, Gone)
          /\ left' = 0
          /\ Answer(m, Last + 1)
       \/ /\ m.at # Last
          /\ Answer(m, 0)
          /\ UNCHANGED <<stream, left>>
    /\ wire' = wire \ {m}
    /\ UNCHANGED <<phase, lease, ago, dropped>>

(* Mutant: the bucket does not allow per-message TTLs *)
ExpireNever == FALSE /\ UNCHANGED vars

(* the record outlived its TTL; the broker may be late to notice           *)
Expire ==
    /\ Present /\ left = 0
    /\ stream' = Append(stream, Gone)
    /\ UNCHANGED <<left, wire, phase, lease, ago, reply, dropped>>

Less(n) == IF n = 0 THEN 0 ELSE n - 1

Tick ==
    /\ left' = Less(left)
    /\ conf' = [w \in Workers |-> Less(conf[w])]
    /\ ago' = [w \in Workers |->
                  IF phase[w] \in Timed /\ ago[w] < TTL THEN ago[w] + 1 ELSE ago[w]]
    /\ UNCHANGED <<stream, wire, phase, token, acq, reply, dropped>>

-----------------------------------------------------------------------------
WorkerStep(w) ==
    \/ Acquire(w) \/ Acquired(w) \/ CreateConflict(w) \/ ReclaimDead(w)
    \/ LeaveHolder(w) \/ Reclaimed(w) \/ ReclaimLost(w) \/ AcquireError(w)
    \/ RenewOnce(w) \/ RenewTooLate(w) \/ RenewRetry(w) \/ RenewAcked(w)
    \/ RenewLost(w) \/ RenewError(w) \/ Release(w) \/ ReleaseEnds(w)
    \/ RevalidationAborted(w) \/ DropUnreleased(w) \/ Crash(w)

BrokerStep(m) == BrokerCreate(m) \/ BrokerRenew(m) \/ BrokerDelete(m)

Next ==
    \/ \E w \in Workers : WorkerStep(w)
    \/ \E m \in wire : BrokerStep(m)
    \/ Expire
    \/ Tick

Spec == Init /\ [][Next]_vars

-----------------------------------------------------------------------------
(* The renew task ticks and times out as long as its process runs, time    *)
(* passes, and the broker expires what is overdue.  Nothing is assumed of  *)
(* the delivery of requests and replies.                                   *)
Fairness ==
    /\ WF_vars(Tick) /\ WF_vars(Expire)
    /\ \A w \in Workers :
          WF_vars(RenewOnce(w) \/ RenewTooLate(w) \/ RenewLost(w))

FairSpec == Spec /\ Fairness

Records == [op : {"put", "gone"}, by : Workers \union {None}, acq : Nat, prior : Nat]
Requests == [kind : {"create", "renew", "release", "reclaim"}, by : Workers,
             at : Nat, acq : Nat, live : BOOLEAN]

(* The lease key, its requests and LeaseState keep their types; no         *)
(* countdown (confirmed_until, the record's TTL) runs below zero or above  *)
(* a whole TTL                                                             *)
TypeOK ==
    /\ stream \in Seq(Records)
    /\ left \in 0..TTL
    /\ wire \subseteq Requests
    /\ phase \in [Workers -> Phases]
    /\ token \in [Workers -> Nat]
    /\ acq \in [Workers -> Nat]
    /\ conf \in [Workers -> 0..TTL]
    /\ ago \in [Workers -> 0..TTL]
    /\ reply \in [Workers -> Nat \union {None}]
    /\ dropped \subseteq Nat

(* Until its confirmed_until passes, a worker that believes it holds the   *)
(* lease owns the broker's record, and the record outlives that belief:    *)
(* whatever was lost, delayed or repeated, renew_once dates the            *)
(* confirmation from before the send.  Not so when the renewal repeats one  *)
(* that an aborted revalidate_ownership had sent: the Nats-Msg-Id is the    *)
(* same, and the answer is the older record's.                             *)
Assured(w) == Confirmed(w) /\ ~Misdated(w)

ConfirmedHolderOwnsRecord ==
    \A w \in Workers : Assured(w) => Holder = w /\ left >= conf[w]

(* Two workers may both still report is_held(); the one whose lease the    *)
(* broker still keeps carries the larger fence token, which is what        *)
(* abort_resume_if_fenced relies on.                                       *)
FencesOrdered ==
    \A v, w \in Workers :
        /\ v # w /\ Held(v) /\ Held(w)
        /\ Present /\ stream[Last].acq = acq[v]
        => token[w] < token[v]

(* A release on its way names the revision the lease is really at, unless  *)
(* the lease is gone already or a renewal of that revision was dropped:    *)
(* release waits for the renew_lock of a renewal that runs to its end.     *)
ReleaseHits ==
    \A m \in wire :
        /\ m.kind = "release" /\ m.at \notin dropped
        /\ Present /\ stream[Last].acq = m.acq
        => m.at = Last

(* acquire_for_execution: "A live holder's lease is never taken."  Before  *)
(* its TTL a record is only removed for its own worker's release, or after *)
(* the process that wrote it has died.                                     *)
NeverEvictsLiveHolder ==
    [][Present /\ ~Present' /\ left > 0 =>
         \/ phase[Holder] = "dead"
         \/ \E m \in wire \ wire' : m.kind = "release" /\ m.by = Holder]_vars

(* The workers whose belief is assured are granted and withdrawn the lease *)
(* one at a time: the lease implements LeaseRegister.                      *)
Register == INSTANCE LeaseRegister
    WITH holders <- {w \in Workers : Assured(w)}
ImplementsRegister == Register!Spec

(* docs/nats-ha.md: "If a worker loses its lease ... it immediately        *)
(* aborts. This prevents 'split-brain' scenarios where two workers think   *)
(* they are active."                                                       *)
OneWorkerThinksItIsActive ==
    \A v, w \in Workers : Held(v) /\ Held(w) => v = w

(* A worker whose record was taken away finds out: its own renewal fails,  *)
(* by the answer or by the deadline.                                       *)
ZombieNotices ==
    \A w \in Workers : (Held(w) /\ Holder # w) ~> (~Held(w) \/ Holder = w)

(* The record of a process that died frees the session in the end.         *)
DeadHolderFreed ==
    \A w \in Workers : (phase[w] = "dead" /\ Holder = w) ~> (Holder # w)
=============================================================================
