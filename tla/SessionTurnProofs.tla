------------------------- MODULE SessionTurnProofs --------------------------
(***************************************************************************)
(* Proofs about SessionTurn: its type invariant, that one interrupt logs   *)
(* one Cancel, that a wind-up answers no call twice, that turn output does *)
(* not land behind a Cancel its worker could have seen, and that no        *)
(* delivery is given up before its prompt is settled.                      *)
(*                                                                         *)
(* Every predicate below takes the log it speaks of: what it says of a     *)
(* worker survives an append by anybody else, whatever the worker has read *)
(* before.                                                                 *)
(***************************************************************************)
EXTENDS SessionTurn, SessionLogProofs

-----------------------------------------------------------------------------
(* The inductive invariant: the log *)

(* A round of the log has called k                                         *)
Called(l, k) == \E j \in DOMAIN l : l[j].kind = "calls" /\ k \in l[j].calls

(* The calls of e are answered nowhere up to n                             *)
Unmet(l, e, n) ==
    \A j \in 1..n : l[j].kind = "results" => e.calls \intersect l[j].calls = {}

(* An entry may follow the log l                                           *)
EntryOK(l, e) ==
    /\ e \in Entries /\ e.thru <= Len(l) /\ e.mid <= Len(l)
    /\ l = <<>> => e.kind = "user"
    /\ e.kind = "user" => /\ e.id \in PromptIds
                          /\ \A j \in DOMAIN l : l[j].kind = "user" => l[j].id # e.id
    /\ e.kind = "results" => \A k \in e.calls : Called(l, k)
    /\ e.kind = "calls" => \A j \in DOMAIN l : e.calls \intersect l[j].calls = {}
    /\ e.kind \notin {"calls", "results"} => e.calls = {}
    /\ e.mid # 0 => Unmet(l, e, Len(l))

LogOK(l) ==
    /\ l \in Seq(Entries)
    /\ \A i \in DOMAIN l : l[i].thru < i /\ l[i].mid < i
    /\ l # <<>> => l[1].kind = "user"
    /\ \A i \in DOMAIN l : l[i].kind = "user" => l[i].id \in PromptIds
    /\ \A i, j \in DOMAIN l : (l[i].kind = "user" /\ l[j].kind = "user" /\ l[i].id = l[j].id)
                                => i = j
    /\ \A i \in DOMAIN l : l[i].kind = "results" => \A k \in l[i].calls :
            \E j \in 1..(i - 1) : l[j].kind = "calls" /\ k \in l[j].calls
    /\ \A i, j \in DOMAIN l : (l[i].kind = "calls" /\ l[j].kind = "calls" /\ i # j)
                                => l[i].calls \intersect l[j].calls = {}
    /\ \A i \in DOMAIN l : l[i].mid # 0 => Unmet(l, l[i], i - 1)

-----------------------------------------------------------------------------
(* The inductive invariant: frontends and activations *)

Request(r, l) == r.from \in 0..Len(l) /\ r.tail \in 0..Len(l)
                    /\ (r.phase # "new" => r.from # 0)

IsCancelOf(e, c) == e.kind = "cancel" /\ e.id = c

(* Once its Cancel is logged a request is no longer new, and it can only   *)
(* be retried with a tail that no longer matches                           *)
CancelOK(l, c, r) ==
    /\ \A i \in DOMAIN l : IsCancelOf(l[i], c) =>
            r.phase # "new" /\ (r.phase = "trying" => r.tail < Len(l))
    /\ \A i, j \in DOMAIN l : IsCancelOf(l[i], c) /\ IsCancelOf(l[j], c) => i = j

IsActivation(l, n) == n \in DOMAIN l /\ l[n].kind \in {"user", "cancel"}

FrontOK ==
    /\ \A n \in ready : IsActivation(log, n)
    /\ head \in PromptIds \union {None} /\ owner \in Workers \union {None}
    /\ losses \in 0..MaxLosses
    /\ bound \in [PromptIds -> PromptIds \union {None}]
    /\ prompt \in [PromptIds -> {"new", "admitted", "logged", "activated"}]
    /\ \A p \in PromptIds : prompt[p] # "new" => bound[p] \in PromptIds
    /\ \A i \in DOMAIN log : log[i].kind = "user" => prompt[log[i].id] \in {"logged", "activated"}
    /\ req \in [CancelIds -> [phase : {"new", "trying", "landed", "over"}, from : Nat, tail : Nat]]
    /\ \A c \in CancelIds : Request(req[c], log) /\ CancelOK(log, c, req[c])

-----------------------------------------------------------------------------
(* The inductive invariant: a worker with the record r, the log l and the  *)
(* admissions b                                                            *)

NoLease == {"idle", "preflight", "covered", "claimWindUp", "claimTurn"}
Running == {"watcher"} \union Executing \union Stopping

PlaceOK(r, l) ==
    /\ r.job <= Len(l) /\ r.own <= Len(l) /\ r.watch <= Len(l) /\ r.cursor <= Len(l)
    /\ r.hw <= Len(l) /\ r.tail <= Len(l) /\ r.stop <= Len(l)
    /\ \A i \in r.repair : i \in DOMAIN l /\ l[i].kind = "calls"
    /\ r.held => r.pc \notin NoLease
    /\ r.pc # "idle" => IsActivation(l, r.job)
    /\ r.pc = "repair" => r.repair # {}
    /\ r.pc = "tools" => r.own # 0 /\ l[r.own].kind = "calls"
    /\ r.pc \in Running => r.inv \in PromptIds

PendOK(r, l) ==
    /\ r.pend.kind = "results" => \A k \in r.pend.calls : Called(l, k)
    /\ r.pend.kind = "calls" => \A i \in DOMAIN l : r.pend.calls \intersect l[i].calls = {}
    /\ r.pc = "append" =>
            /\ r.pend.kind \in {"calls", "results", "assistant"}
            /\ r.pend.kind = "assistant" => r.pend.calls = {}
            /\ r.pend.mid = 0 /\ r.pend.thru = 0
            /\ r.own <= r.tail
            /\ \A i \in (r.own + 1)..r.tail : l[i].kind # "cancel"
    /\ r.pc = "windAppend" =>
            /\ r.pend.kind = "results" /\ r.pend.thru = 0 /\ r.pend.mid <= r.tail
            /\ Unmet(l, r.pend, r.tail)

(* What settles the prompt of the delivery, once the code relies on it     *)
SettleOK(r, l, b) ==
    /\ r.failed => \E i \in DOMAIN l : i > r.job /\ l[i].kind = "error"
    /\ (r.pc # "idle" /\ l[r.job].kind = "user") =>
            /\ r.pc \in Running => r.inv = b[l[r.job].id]
            /\ r.pc = "stopAppend" => r.stop >= r.job
            /\ r.pc \in {"preflight", "claimWindUp"} => r.stop = 0
            /\ (r.pc \in Winding \union {"claimWindUp"} /\ ~ (r.stop = 0 /\ r.more))
                    => prompt_is_covered(l, r.job)

WorkerOK(r, l, b) == PlaceOK(r, l) /\ PendOK(r, l) /\ SettleOK(r, l, b)

(* No two workers are about to log the same call id                        *)
Apart(q, r) ==
    (q.pend.kind = "calls" /\ r.pend.kind = "calls") => q.pend.calls \intersect r.pend.calls = {}

WorkersOK ==
    /\ wk \in [Workers -> WorkerStates]
    /\ \A w \in Workers : WorkerOK(wk[w], log, bound) /\ w \notin wk[w].newer
    /\ \A v, w \in Workers : v # w => Apart(wk[v], wk[w])

IInv == LogOK(log) /\ FrontOK /\ WorkersOK

-----------------------------------------------------------------------------
(* A longer log *)

(* What an append leaves alone                                             *)
LEMMA Grown ==
    ASSUME NEW l \in Seq(Entries), NEW e \in Entries
    PROVE  LET k == Append(l, e)
           IN  /\ k \in Seq(Entries) /\ Len(k) = Len(l) + 1 /\ k[Len(l) + 1] = e
               /\ DOMAIN k = 1..(Len(l) + 1) /\ DOMAIN l = 1..Len(l) /\ Len(l) \in Nat
               /\ \A i \in DOMAIN l : k[i] = l[i] /\ i \in DOMAIN k
               /\ \A i \in DOMAIN k : i \in DOMAIN l \/ i = Len(l) + 1
               /\ k # <<>>
<1> DEFINE k == Append(l, e)
<1>1. /\ k \in Seq(Entries) /\ Len(k) = Len(l) + 1 /\ k[Len(l) + 1] = e
      /\ DOMAIN k = 1..(Len(l) + 1) /\ DOMAIN l = 1..Len(l) /\ Len(l) \in Nat
      /\ \A i \in 1..Len(l) : k[i] = l[i]
  BY PrefixStays
<1>2. k # <<>>
  BY <1>1
<1> QED
  BY <1>1, <1>2

(* An entry that may follow the log leaves it well formed                  *)
LEMMA LogGrows ==
    ASSUME NEW l, LogOK(l), NEW e, EntryOK(l, e)
    PROVE  LogOK(Append(l, e))
<1> DEFINE k == Append(l, e)
           n == Len(l) + 1
<1>1. /\ k \in Seq(Entries) /\ Len(k) = n /\ k[n] = e /\ DOMAIN k = 1..n
      /\ DOMAIN l = 1..Len(l) /\ Len(l) \in Nat
      /\ \A i \in DOMAIN l : k[i] = l[i] /\ i \in DOMAIN k
      /\ \A i \in DOMAIN k : i \in DOMAIN l \/ i = n
  BY Grown DEF LogOK, EntryOK
<1> HIDE DEF k
<1>2. \A i \in DOMAIN k : k[i].thru < i /\ k[i].mid < i
  <2>1. e.thru \in Nat /\ e.mid \in Nat /\ e.thru <= Len(l) /\ e.mid <= Len(l)
    BY DEF EntryOK, Entries
  <2> QED
    BY <1>1, <2>1 DEF LogOK
<1>3. k[1].kind = "user"
  <2>1. CASE l = <<>>
    BY <1>1, <2>1 DEF EntryOK
  <2>2. CASE l # <<>>
    <3>1. 1 \in DOMAIN l
      BY <1>1, <2>2
    <3> QED
      BY <1>1, <2>2, <3>1 DEF LogOK
  <2> QED
    BY <2>1, <2>2
<1>4. \A i \in DOMAIN k : k[i].kind = "user" => k[i].id \in PromptIds
  BY <1>1 DEF LogOK, EntryOK
<1>5. \A i, j \in DOMAIN k : (k[i].kind = "user" /\ k[j].kind = "user" /\ k[i].id = k[j].id)
                                => i = j
  BY <1>1 DEF LogOK, EntryOK
<1>6. ASSUME NEW i \in DOMAIN k, k[i].kind = "results", NEW c \in k[i].calls
      PROVE  \E j \in 1..(i - 1) : k[j].kind = "calls" /\ c \in k[j].calls
  <2>1. CASE i \in DOMAIN l
    <3>1. PICK j \in 1..(i - 1) : l[j].kind = "calls" /\ c \in l[j].calls
      BY <1>1, <1>6, <2>1 DEF LogOK
    <3>2. j \in DOMAIN l
      BY <1>1, <2>1
    <3> QED
      BY <1>1, <3>1, <3>2
  <2>2. CASE i = n
    <3>1. PICK j \in DOMAIN l : l[j].kind = "calls" /\ c \in l[j].calls
      BY <1>1, <1>6, <2>2 DEF EntryOK, Called
    <3>2. j \in 1..(i - 1)
      BY <1>1, <2>2
    <3> QED
      BY <1>1, <3>1, <3>2
  <2> QED
    BY <1>1, <2>1, <2>2
<1>7. ASSUME NEW i \in DOMAIN k, NEW j \in DOMAIN k, k[i].kind = "calls", k[j].kind = "calls", i # j
      PROVE  k[i].calls \intersect k[j].calls = {}
  <2>1. CASE i \in DOMAIN l /\ j \in DOMAIN l
    BY <1>1, <1>7, <2>1 DEF LogOK
  <2>2. CASE i = n /\ j \in DOMAIN l
    BY <1>1, <1>7, <2>2 DEF EntryOK
  <2>3. CASE i \in DOMAIN l /\ j = n
    <3>1. e.calls \intersect l[i].calls = {} /\ k[j].calls = e.calls /\ k[i].calls = l[i].calls
      BY <1>1, <1>7, <2>3 DEF EntryOK
    <3> QED
      BY <3>1
  <2> QED
    BY <1>1, <1>7, <2>1, <2>2, <2>3
<1>8. ASSUME NEW i \in DOMAIN k, k[i].mid # 0 PROVE Unmet(k, k[i], i - 1)
  <2>1. \A j \in 1..(i - 1) : j \in DOMAIN l /\ k[j] = l[j]
    BY <1>1
  <2>2. CASE i \in DOMAIN l
    BY <1>1, <1>8, <2>1, <2>2 DEF LogOK, Unmet
  <2>3. CASE i = n
    BY <1>1, <1>8, <2>1, <2>3 DEF EntryOK, Unmet
  <2> QED
    BY <1>1, <2>2, <2>3
<1> QED
  BY <1>1, <1>2, <1>3, <1>4, <1>5, <1>6, <1>7, <1>8 DEF LogOK, k

(* What holds of a worker survives an append, unless it reuses a call id   *)
(* the worker is about to log                                              *)
LEMMA WorkerGrows ==
    ASSUME NEW l \in Seq(Entries), NEW e \in Entries, NEW r \in WorkerStates, NEW b,
           WorkerOK(r, l, b),
           r.pend.kind = "calls" => r.pend.calls \intersect e.calls = {}
    PROVE  WorkerOK(r, Append(l, e), b)
<1> DEFINE k == Append(l, e)
<1>1. /\ k \in Seq(Entries) /\ Len(k) = Len(l) + 1 /\ k[Len(l) + 1] = e
      /\ DOMAIN k = 1..(Len(l) + 1) /\ DOMAIN l = 1..Len(l) /\ Len(l) \in Nat
      /\ \A i \in DOMAIN l : k[i] = l[i] /\ i \in DOMAIN k
      /\ \A i \in DOMAIN k : i \in DOMAIN l \/ i = Len(l) + 1
  BY Grown
<1>2. /\ r.job \in Nat /\ r.own \in Nat /\ r.watch \in Nat /\ r.cursor \in Nat /\ r.hw \in Nat
      /\ r.tail \in Nat /\ r.stop \in Nat
  BY DEF WorkerStates
<1>3. \A p : prompt_is_covered(l, p) => prompt_is_covered(k, p)
  BY CoveredStays
<1> HIDE DEF k
<1>4. PlaceOK(r, k)
  BY <1>1, <1>2 DEF WorkerOK, PlaceOK, IsActivation
<1>5. PendOK(r, k)
  <2>1. \A c : Called(l, c) => Called(k, c)
    BY <1>1 DEF Called
  <2>2. \A j \in 1..r.tail : j \in DOMAIN l /\ k[j] = l[j]
    <3>1. r.tail <= Len(l)
      BY DEF WorkerOK, PlaceOK
    <3>2. \A j \in 1..r.tail : j \in 1..Len(l)
      BY <1>1, <1>2, <3>1
    <3> QED
      BY <1>1, <3>2
  <2>3. \A j \in (r.own + 1)..r.tail : j \in 1..r.tail
    BY <1>2
  <2>4. r.pend.kind = "calls" => \A i \in DOMAIN k : r.pend.calls \intersect k[i].calls = {}
    BY <1>1 DEF WorkerOK, PendOK
  <2> QED
    BY <2>1, <2>2, <2>3, <2>4 DEF WorkerOK, PendOK, Unmet
<1>6. SettleOK(r, k, b)
  <2>1. r.pc # "idle" => k[r.job] = l[r.job]
    BY <1>1 DEF WorkerOK, PlaceOK, IsActivation
  <2>2. r.failed => \E i \in DOMAIN k : i > r.job /\ k[i].kind = "error"
    BY <1>1 DEF WorkerOK, SettleOK
  <2> QED
    BY <1>3, <2>1, <2>2 DEF WorkerOK, SettleOK
<1> QED
  BY <1>4, <1>5, <1>6 DEF WorkerOK, k

(* A request survives an append that is not its own Cancel                 *)
LEMMA RequestGrows ==
    ASSUME NEW l \in Seq(Entries), NEW e \in Entries, NEW c,
           NEW r, r.from \in Nat, r.tail \in Nat,
           Request(r, l), CancelOK(l, c, r), ~ IsCancelOf(e, c)
    PROVE  Request(r, Append(l, e)) /\ CancelOK(Append(l, e), c, r)
<1> DEFINE k == Append(l, e)
<1>1. /\ Len(k) = Len(l) + 1 /\ k[Len(l) + 1] = e /\ Len(l) \in Nat
      /\ \A i \in DOMAIN l : k[i] = l[i] /\ i \in DOMAIN k
      /\ \A i \in DOMAIN k : i \in DOMAIN l \/ i = Len(l) + 1
  BY Grown
<1> HIDE DEF k
<1>2. \A i \in DOMAIN k : IsCancelOf(k[i], c) => i \in DOMAIN l /\ IsCancelOf(l[i], c)
  BY <1>1
<1>3. Request(r, k)
  BY <1>1 DEF Request
<1>4. CancelOK(k, c, r)
  BY <1>1, <1>2 DEF CancelOK
<1> QED
  BY <1>3, <1>4 DEF k

-----------------------------------------------------------------------------
(* A step of one worker *)

(* The rest of a worker's record, which the lease bookkeeping leaves alone *)
SameCore(q, r) ==
    /\ q.pc = r.pc /\ q.job = r.job /\ q.held = r.held /\ q.own = r.own
    /\ q.watch = r.watch /\ q.more = r.more /\ q.inv = r.inv /\ q.cursor = r.cursor
    /\ q.hw = r.hw /\ q.pend = r.pend /\ q.tail = r.tail /\ q.repair = r.repair
    /\ q.stop = r.stop /\ q.failed = r.failed

OthersStay(w) ==
    \A v \in Workers \ {w} : SameCore(wk'[v], wk[v]) /\ v \notin wk'[v].newer

(* What holds of a worker does not depend on the bookkeeping of the lease  *)
LEMMA CoreKeeps ==
    ASSUME NEW q, NEW r, NEW l, NEW b, WorkerOK(r, l, b), SameCore(q, r)
    PROVE  WorkerOK(q, l, b)
BY DEF WorkerOK, PlaceOK, PendOK, SettleOK, SameCore

(* The activations of a step are the ones before it and the worker's own   *)
ReadyFrom(w) ==
    \A n \in ready' : n \in ready \/ (n = wk[w].job /\ wk[w].pc # "idle")

(* A step of w that leaves the log alone                                   *)
LEMMA Moves ==
    ASSUME IInv, NEW w \in Workers, UNCHANGED <<log, frontend>>,
           ReadyFrom(w), owner' \in Workers \union {None}, losses' \in 0..MaxLosses,
           wk' \in [Workers -> WorkerStates], OthersStay(w),
           WorkerOK(wk'[w], log, bound), w \notin wk'[w].newer,
           \A v \in Workers \ {w} : Apart(wk[v], wk'[w])
    PROVE  IInv'
<1> USE DEF IInv
<1>1. log' = log /\ head' = head /\ bound' = bound /\ prompt' = prompt /\ req' = req
  BY DEF frontend
<1>2. LogOK(log)'
  BY <1>1
<1>3. FrontOK'
  <2>1. \A n \in ready' : IsActivation(log, n)
    BY DEF FrontOK, ReadyFrom, WorkersOK, WorkerOK, PlaceOK
  <2> QED
    BY <1>1, <2>1 DEF FrontOK
<1>4. ASSUME NEW v \in Workers PROVE WorkerOK(wk'[v], log, bound) /\ v \notin wk'[v].newer
  BY CoreKeeps DEF WorkersOK, OthersStay
<1>5. ASSUME NEW u \in Workers, NEW v \in Workers, u # v PROVE Apart(wk'[u], wk'[v])
  <2>1. CASE u # w /\ v # w
    BY <1>5, <2>1 DEF Apart, OthersStay, SameCore, WorkersOK
  <2>2. CASE u = w
    <3>1. Apart(wk[v], wk'[u]) /\ wk'[v].pend = wk[v].pend
      BY <1>5, <2>2 DEF OthersStay, SameCore
    <3> QED
      BY <3>1 DEF Apart
  <2>3. CASE v = w
    <3>1. Apart(wk[u], wk'[v]) /\ wk'[u].pend = wk[u].pend
      BY <1>5, <2>3 DEF OthersStay, SameCore
    <3> QED
      BY <3>1 DEF Apart
  <2> QED
    BY <2>1, <2>2, <2>3
<1>6. WorkersOK'
  BY <1>1, <1>4, <1>5 DEF WorkersOK
<1> QED
  BY <1>2, <1>3, <1>6

(* A step of w that appends e                                              *)
LEMMA Appends ==
    ASSUME IInv, NEW w \in Workers, NEW e, EntryOK(log, e), log' = Append(log, e),
           e.kind # "user", \A c \in CancelIds : ~ IsCancelOf(e, c),
           UNCHANGED <<frontend, owner, losses>>,
           \A n \in ready' : n \in ready \/ IsActivation(log', n),
           wk' \in [Workers -> WorkerStates], OthersStay(w),
           WorkerOK(wk'[w], log', bound), w \notin wk'[w].newer,
           \A v \in Workers \ {w} : Apart(wk[v], wk'[w]),
           \A v \in Workers \ {w} :
                wk[v].pend.kind = "calls" => wk[v].pend.calls \intersect e.calls = {}
    PROVE  IInv'
<1> USE DEF IInv
<1>1. /\ head' = head /\ bound' = bound /\ prompt' = prompt /\ req' = req
      /\ owner' = owner /\ losses' = losses
  BY DEF frontend
<1>2. log \in Seq(Entries) /\ e \in Entries
  BY DEF LogOK, EntryOK
<1>3. /\ Len(log') = Len(log) + 1 /\ log'[Len(log) + 1] = e /\ Len(log) \in Nat
      /\ \A i \in DOMAIN log : log'[i] = log[i] /\ i \in DOMAIN log'
      /\ \A i \in DOMAIN log' : i \in DOMAIN log \/ i = Len(log) + 1
  BY <1>2, Grown
<1>4. LogOK(log)'
  BY LogGrows
<1>5. FrontOK'
  <2>1. \A n \in ready' : IsActivation(log', n)
    BY <1>3 DEF FrontOK, IsActivation
  <2>2. \A i \in DOMAIN log' : log'[i].kind = "user" =>
            prompt[log'[i].id] \in {"logged", "activated"}
    BY <1>3 DEF FrontOK
  <2>3. ASSUME NEW c \in CancelIds PROVE Request(req[c], log') /\ CancelOK(log', c, req[c])
    <3>1. req[c].from \in Nat /\ req[c].tail \in Nat /\ Request(req[c], log)
            /\ CancelOK(log, c, req[c])
      BY DEF FrontOK
    <3> QED
      BY <1>2, <3>1, RequestGrows
  <2> QED
    BY <1>1, <2>1, <2>2, <2>3 DEF FrontOK
<1>6. ASSUME NEW v \in Workers PROVE WorkerOK(wk'[v], log', bound) /\ v \notin wk'[v].newer
  <2>1. SUFFICES ASSUME v # w PROVE WorkerOK(wk'[v], log', bound)
    BY DEF OthersStay
  <2>2. wk[v] \in WorkerStates /\ WorkerOK(wk[v], log, bound)
    BY DEF WorkersOK
  <2>3. WorkerOK(wk[v], log', bound)
    BY <1>2, <2>1, <2>2, WorkerGrows
  <2> QED
    BY <2>1, <2>3, CoreKeeps DEF OthersStay
<1>7. ASSUME NEW u \in Workers, NEW v \in Workers, u # v PROVE Apart(wk'[u], wk'[v])
  <2>1. CASE u # w /\ v # w
    BY <1>7, <2>1 DEF Apart, OthersStay, SameCore, WorkersOK
  <2>2. CASE u = w
    <3>1. Apart(wk[v], wk'[u]) /\ wk'[v].pend = wk[v].pend
      BY <1>7, <2>2 DEF OthersStay, SameCore
    <3> QED
      BY <3>1 DEF Apart
  <2>3. CASE v = w
    <3>1. Apart(wk[u], wk'[v]) /\ wk'[u].pend = wk[u].pend
      BY <1>7, <2>3 DEF OthersStay, SameCore
    <3> QED
      BY <3>1 DEF Apart
  <2> QED
    BY <2>1, <2>2, <2>3
<1>8. WorkersOK'
  BY <1>1, <1>6, <1>7 DEF WorkersOK
<1> QED
  BY <1>4, <1>5, <1>8

(* A worker alone goes on with the record r                                *)
LEMMA Becomes ==
    ASSUME IInv, NEW w \in Workers, NEW r \in WorkerStates, Become(w, r),
           r.newer = wk[w].newer
    PROVE  /\ wk' \in [Workers -> WorkerStates] /\ OthersStay(w) /\ wk'[w] = r
           /\ w \notin wk'[w].newer
<1>1. wk \in [Workers -> WorkerStates] /\ \A v \in Workers : v \notin wk[v].newer
  BY DEF IInv, WorkersOK
<1> QED
  BY <1>1 DEF Become, OthersStay, SameCore

(* The lease and the delivery are given up                                 *)
LEMMA Retires ==
    ASSUME IInv, NEW w \in Workers, wk' = Retired(w)
    PROVE  /\ wk' \in [Workers -> WorkerStates] /\ OthersStay(w) /\ wk'[w] = IdleWorker
           /\ w \notin wk'[w].newer
<1>1. wk \in [Workers -> WorkerStates] /\ \A v \in Workers : v \notin wk[v].newer
  BY DEF IInv, WorkersOK
<1>2. IdleWorker \in WorkerStates /\ w \notin IdleWorker.newer
  BY DEF IdleWorker, WorkerStates, Phases, Entries, Blank
<1>3. ASSUME NEW v \in Workers \ {w}
      PROVE  /\ wk'[v] \in WorkerStates /\ SameCore(wk'[v], wk[v]) /\ v \notin wk'[v].newer
  <2>1. wk'[v] = [wk[v] EXCEPT !.newer = @ \ {w}]
    BY DEF Retired
  <2>2. wk[v] \in WorkerStates /\ wk[v].newer \ {w} \in SUBSET Workers
    BY <1>1 DEF WorkerStates
  <2>3. wk'[v] \in WorkerStates
    BY <2>1, <2>2 DEF WorkerStates
  <2>4. v \notin wk'[v].newer /\ SameCore(wk'[v], wk[v])
    BY <1>1, <2>1, <2>2 DEF WorkerStates, SameCore
  <2> QED
    BY <2>3, <2>4
<1>4. wk'[w] = IdleWorker /\ wk' = [v \in Workers |-> wk'[v]]
  BY DEF Retired
<1> QED
  BY <1>2, <1>3, <1>4 DEF OthersStay

(* An entry with a fence token is logged by w, which goes on with r        *)
LEMMA Stamps ==
    ASSUME IInv, NEW w \in Workers, NEW r \in WorkerStates, wk' = Stamped(w, r),
           r.newer = wk[w].newer
    PROVE  /\ wk' \in [Workers -> WorkerStates] /\ OthersStay(w) /\ wk'[w] = r
           /\ w \notin wk'[w].newer
<1>1. wk \in [Workers -> WorkerStates] /\ \A v \in Workers : v \notin wk[v].newer
  BY DEF IInv, WorkersOK
<1>2. ASSUME NEW v \in Workers \ {w}
      PROVE  /\ wk'[v] \in WorkerStates /\ SameCore(wk'[v], wk[v]) /\ v \notin wk'[v].newer
  <2> DEFINE f == wk[v].fenced \/ w \in wk[v].newer
  <2>1. wk'[v] = [wk[v] EXCEPT !.fenced = f]
    BY DEF Stamped
  <2>2. wk[v] \in WorkerStates /\ f \in BOOLEAN
    BY <1>1 DEF WorkerStates
  <2> HIDE DEF f
  <2>3. wk'[v] \in WorkerStates
    BY <2>1, <2>2 DEF WorkerStates
  <2>4. v \notin wk'[v].newer /\ SameCore(wk'[v], wk[v])
    BY <1>1, <2>1, <2>2 DEF WorkerStates, SameCore
  <2> QED
    BY <2>3, <2>4
<1>3. wk'[w] = r /\ wk' = [v \in Workers |-> wk'[v]]
  BY DEF Stamped
<1> QED
  BY <1>1, <1>2, <1>3 DEF OthersStay

(* The fields of a worker that waits for a delivery                        *)
LEMMA IdleFields ==
    /\ IdleWorker.pc = "idle" /\ IdleWorker.job = 0 /\ IdleWorker.held = FALSE
    /\ IdleWorker.own = 0 /\ IdleWorker.watch = 0 /\ IdleWorker.cursor = 0
    /\ IdleWorker.hw = 0 /\ IdleWorker.tail = 0 /\ IdleWorker.stop = 0
    /\ IdleWorker.repair = {} /\ IdleWorker.failed = FALSE /\ IdleWorker.newer = {}
    /\ IdleWorker.pend = Blank /\ IdleWorker.pend.kind = "none"
BY DEF IdleWorker, Blank

(* A worker that waits for a delivery holds nothing                        *)
LEMMA IdleIsOK ==
    ASSUME NEW l \in Seq(Entries), NEW b
    PROVE  WorkerOK(IdleWorker, l, b)
<1>1. Len(l) \in Nat
  OBVIOUS
<1>2. PlaceOK(IdleWorker, l) /\ PendOK(IdleWorker, l)
  BY <1>1, IdleFields DEF PlaceOK, PendOK, Running, Executing, Watched, InTurn, Stopping
<1>3. SettleOK(IdleWorker, l, b)
  BY IdleFields DEF SettleOK
<1> QED
  BY <1>2, <1>3 DEF WorkerOK

(* A step that changes the worker's own record only                        *)
LEMMA LocalStep ==
    ASSUME IInv, NEW w \in Workers, NEW r \in WorkerStates, Become(w, r),
           r.newer = wk[w].newer, WorkerOK(r, log, bound),
           r.pend.kind = "calls" => r.pend = wk[w].pend,
           UNCHANGED <<log, ready, frontend, owner, losses>>
    PROVE  IInv'
<1>1. /\ wk' \in [Workers -> WorkerStates] /\ OthersStay(w) /\ wk'[w] = r
      /\ w \notin wk'[w].newer
  BY Becomes
<1>2. owner' \in Workers \union {None} /\ losses' \in 0..MaxLosses
  BY DEF IInv, FrontOK
<1>3. \A v \in Workers \ {w} : Apart(wk[v], wk'[w])
  BY <1>1 DEF IInv, WorkersOK, Apart
<1> QED
  BY <1>1, <1>2, <1>3, Moves DEF ReadyFrom

(* A step that ends the worker's activation                                *)
LEMMA GivesUp ==
    ASSUME IInv, NEW w \in Workers, wk[w].pc # "idle", wk' = Retired(w),
           UNCHANGED <<log, frontend>>, ready' = ready \/ ready' = ready \union {wk[w].job},
           owner' \in {owner, None}, losses' \in 0..MaxLosses
    PROVE  IInv'
<1>1. /\ wk' \in [Workers -> WorkerStates] /\ OthersStay(w) /\ wk'[w] = IdleWorker
      /\ w \notin wk'[w].newer
  BY Retires
<1>2. owner' \in Workers \union {None}
  BY DEF IInv, FrontOK
<1>3. WorkerOK(wk'[w], log, bound)
  BY <1>1, IdleIsOK DEF IInv, LogOK
<1>4. \A v \in Workers \ {w} : Apart(wk[v], wk'[w])
  BY <1>1, IdleFields DEF Apart
<1> QED
  BY <1>1, <1>2, <1>3, <1>4, Moves DEF ReadyFrom

-----------------------------------------------------------------------------
(* The lease *)

(* What is known of the worker that takes the step                         *)
LEMMA Me ==
    ASSUME IInv, NEW w \in Workers
    PROVE  /\ wk[w] \in WorkerStates /\ WorkerOK(wk[w], log, bound)
           /\ log \in Seq(Entries) /\ Len(log) \in Nat /\ DOMAIN log = 1..Len(log)
           /\ owner \in Workers \union {None} /\ losses \in 0..MaxLosses
BY DEF IInv, WorkersOK, LogOK, FrontOK

(* LoseLease keeps the invariant                                           *)
LEMMA LoseLeaseKeeps ==
    ASSUME IInv, NEW w \in Workers, LoseLease(w)
    PROVE  IInv'
<1>1. losses' \in 0..MaxLosses /\ owner' = None
  BY TurnConstants DEF LoseLease, IInv, FrontOK
<1>2. /\ log' = log /\ ready' = ready /\ head' = head /\ bound' = bound /\ prompt' = prompt
      /\ req' = req /\ wk' = wk
  BY DEF LoseLease, frontend
<1>3. FrontOK'
  BY <1>1, <1>2 DEF IInv, FrontOK
<1>4. WorkersOK' /\ LogOK(log)'
  BY <1>2 DEF IInv, WorkersOK
<1> QED
  BY <1>3, <1>4 DEF IInv

(* NoticeLoss keeps the invariant                                          *)
LEMMA NoticeLossKeeps ==
    ASSUME IInv, NEW w \in Workers, NoticeLoss(w)
    PROVE  IInv'
<1> DEFINE me == wk[w]
           A == IF me.pc \in Watched THEN me.abort \union {"failover"} ELSE me.abort
           r == [me EXCEPT !.held = FALSE, !.abort = A]
<1>1. me \in WorkerStates /\ WorkerOK(me, log, bound) /\ Become(w, r)
  BY Me DEF NoticeLoss
<1>2. A \in SUBSET {"ctrlc", "failover"}
  BY <1>1 DEF WorkerStates
<1> HIDE DEF A
<1>3. r \in WorkerStates /\ r.newer = me.newer /\ r.pend = me.pend
  BY <1>1, <1>2 DEF WorkerStates
<1>4. WorkerOK(r, log, bound)
  BY <1>1, <1>2 DEF WorkerStates, WorkerOK, PlaceOK, PendOK, SettleOK
<1> QED
  BY <1>1, <1>3, <1>4, LocalStep DEF NoticeLoss

(* Crash keeps the invariant                                               *)
LEMMA CrashKeeps ==
    ASSUME IInv, NEW w \in Workers, Crash(w)
    PROVE  IInv'
<1>1. losses' \in 0..MaxLosses
  BY TurnConstants DEF Crash, IInv, FrontOK
<1>2. owner' \in {owner, None}
  BY DEF Crash, Released
<1> QED
  BY <1>1, <1>2, GivesUp DEF Crash, Nak

-----------------------------------------------------------------------------
(* Activation preflight *)

(* Every user entry is a prompt: no frontend logs one twice                *)
LEMMA UsersArePrompts ==
    ASSUME NEW l, LogOK(l), NEW n \in DOMAIN l, l[n].kind = "user"
    PROVE  n \in Prompts(l)
<1>1. DOMAIN l = 1..Len(l) /\ Len(l) \in Nat
  BY DEF LogOK
<1>2. \A j \in 1..(n - 1) : j \in DOMAIN l /\ j # n
  BY <1>1
<1> QED
  BY <1>2 DEF LogOK, Prompts, IsCopy

(* When a turn was cut off and no input is queued, every prompt of the log *)
(* precedes the Cancel                                                     *)
LEMMA CutOffIsCovered ==
    ASSUME NEW l, LogOK(l), reconstruct_state(l).status = "InterruptedPendingWindUp",
           reconstruct_state(l).queue = <<>>, NEW n \in DOMAIN l, l[n].kind = "user"
    PROVE  prompt_is_covered(l, n)
<1> DEFINE acc == FinalAcc(l)
           s == BarrierOf(l)
<1>1. l \in Seq(Entries) /\ Len(l) \in Nat /\ DOMAIN l = 1..Len(l) /\ n \in Prompts(l)
  BY UsersArePrompts DEF LogOK
<1>2. /\ acc \in Accumulators(l) /\ Meaning(l, s, Len(l), acc)
      /\ reconstruct_state(l) = finish(acc) /\ s \in 0..Len(l)
  BY <1>1, ReplayMeaning, BarrierIsLast
<1> HIDE DEF acc, s
<1>3. acc.owed # {} /\ acc.queue = <<>> /\ acc.cancel \in Nat
  BY <1>2, FinishFields DEF Accumulators
<1>4. acc.cancel # 0
  <2>1. \A o \in Pairs(l) : o[1] \in Nat
    BY DEF Pairs
  <2> QED
    BY <1>2, <1>3, <2>1 DEF Meaning, CallsMeaning, OwedCalls
<1>5. acc.cancel \in DOMAIN l /\ l[acc.cancel].kind = "cancel" /\ acc.cancel > s
  BY <1>1, <1>2, <1>4 DEF Meaning, CancelMeaning
<1>6. Queued(l, s, acc.cancel, Len(l)) = {}
  BY <1>2, <1>3 DEF Meaning, QueueMeaning
<1>7. n < acc.cancel
  BY <1>1, <1>2, <1>3, <1>4, <1>5, <1>6 DEF Queued
<1>8. Covers(l, acc.cancel, n)
  BY <1>5, <1>7 DEF Covers
<1> QED
  BY <1>1, <1>5, <1>8, CoveredByAnEntry

(* Deliver keeps the invariant                                             *)
LEMMA DeliverKeeps ==
    ASSUME IInv, NEW w \in Workers, NEW n \in ready, Deliver(w, n)
    PROVE  IInv'
<1> DEFINE r == [IdleWorker EXCEPT !.pc = "preflight", !.job = n]
<1>1. IsActivation(log, n) /\ n \in Nat /\ Become(w, r) /\ Len(log) \in Nat /\ n <= Len(log)
  BY Me DEF IInv, FrontOK, IsActivation, Deliver
<1>2. IdleWorker \in WorkerStates
  BY DEF IdleWorker, WorkerStates, Phases, Entries, Blank
<1>3. r \in WorkerStates
  BY <1>1, <1>2 DEF WorkerStates, Phases
<1>4. /\ r.pc = "preflight" /\ r.job = n /\ r.held = FALSE /\ r.own = 0 /\ r.watch = 0
      /\ r.cursor = 0 /\ r.hw = 0 /\ r.tail = 0 /\ r.stop = 0 /\ r.repair = {}
      /\ r.failed = FALSE /\ r.newer = {} /\ r.pend.kind = "none"
  BY DEF IdleWorker, Blank
<1> HIDE DEF r
<1>5. PlaceOK(r, log) /\ PendOK(r, log) /\ SettleOK(r, log, bound)
  BY <1>1, <1>4 DEF PlaceOK, PendOK, SettleOK, Running, Executing, Watched, InTurn, Stopping,
                    Winding
<1>6. wk' \in [Workers -> WorkerStates] /\ OthersStay(w) /\ wk'[w] = r
  BY <1>1, <1>3 DEF IInv, WorkersOK, Become, OthersStay, SameCore
<1>7. \A v \in Workers \ {w} : Apart(wk[v], wk'[w])
  BY <1>4, <1>6 DEF Apart
<1>8. /\ UNCHANGED <<log, frontend>> /\ ReadyFrom(w) /\ losses' \in 0..MaxLosses
      /\ owner' \in Workers \union {None}
  BY DEF Deliver, ReadyFrom, IInv, FrontOK
<1> QED
  BY <1>4, <1>5, <1>6, <1>7, <1>8, Moves DEF WorkerOK

(* Preflight keeps the invariant                                           *)
LEMMA PreflightKeeps ==
    ASSUME IInv, NEW w \in Workers, Preflight(w)
    PROVE  IInv'
<1> DEFINE me == wk[w]
           state == reconstruct_state(log)
           m == state.queue # <<>>
           r == [me EXCEPT !.pc = "claimWindUp", !.more = m]
           q == [me EXCEPT !.pc = "covered"]
<1>1. /\ me \in WorkerStates /\ WorkerOK(me, log, bound) /\ me.pc = "preflight" /\ LogOK(log)
      /\ UNCHANGED <<log, frontend, owner, losses>>
  BY Me DEF Preflight, IInv
<1>2. CASE state.status = "InterruptedPendingWindUp" /\ Become(w, r) /\ UNCHANGED ready
  <2>1. log[me.job].kind = "user" /\ ~ m => prompt_is_covered(log, me.job)
    BY <1>1, <1>2, CutOffIsCovered DEF WorkerOK, PlaceOK, IsActivation
  <2>2. m \in BOOLEAN
    OBVIOUS
  <2> HIDE DEF m
  <2>3. r \in WorkerStates /\ r.newer = me.newer /\ r.pend = me.pend
    BY <1>1, <2>2 DEF WorkerStates, Phases
  <2>4. PlaceOK(r, log) /\ PendOK(r, log)
    BY <1>1, <2>2 DEF WorkerStates, WorkerOK, PlaceOK, PendOK, NoLease, Running, Executing,
                Watched, InTurn, Stopping
  <2>5. SettleOK(r, log, bound)
    BY <1>1, <2>1, <2>2 DEF WorkerStates, WorkerOK, SettleOK, Running, Executing,
                Watched, InTurn, Stopping
  <2> QED
    BY <1>1, <1>2, <2>3, <2>4, <2>5, LocalStep DEF WorkerOK
<1>3. CASE Ack(w)
  BY <1>1, <1>3, GivesUp, Me DEF Ack
<1>4. CASE Become(w, q) /\ UNCHANGED ready
  <2>1. q \in WorkerStates /\ q.newer = me.newer /\ q.pend = me.pend
    BY <1>1 DEF WorkerStates, Phases
  <2>2. WorkerOK(q, log, bound)
    BY <1>1 DEF WorkerStates, WorkerOK, PlaceOK, PendOK, SettleOK, NoLease, Running, Executing,
                Watched, InTurn, Stopping, Winding
  <2> QED
    BY <1>1, <1>4, <2>1, <2>2, LocalStep
<1> QED
  BY <1>2, <1>3, <1>4 DEF Preflight

(* CheckCovered keeps the invariant                                        *)
LEMMA CheckCoveredKeeps ==
    ASSUME IInv, NEW w \in Workers, CheckCovered(w)
    PROVE  IInv'
<1> DEFINE me == wk[w]
           r == [me EXCEPT !.pc = "claimTurn"]
<1>1. /\ me \in WorkerStates /\ WorkerOK(me, log, bound) /\ me.pc = "covered"
      /\ UNCHANGED <<log, frontend, owner, losses>>
  BY Me DEF CheckCovered
<1>2. CASE Ack(w)
  BY <1>1, <1>2, GivesUp, Me DEF Ack
<1>3. CASE Become(w, r) /\ UNCHANGED ready
  <2>1. r \in WorkerStates /\ r.newer = me.newer /\ r.pend = me.pend
    BY <1>1 DEF WorkerStates, Phases
  <2>2. WorkerOK(r, log, bound)
    BY <1>1 DEF WorkerStates, WorkerOK, PlaceOK, PendOK, SettleOK, NoLease, Running, Executing,
                Watched, InTurn, Stopping, Winding
  <2> QED
    BY <1>1, <1>3, <2>1, <2>2, LocalStep
<1> QED
  BY <1>2, <1>3 DEF CheckCovered

(* Claim keeps the invariant                                               *)
LEMMA ClaimKeeps ==
    ASSUME IInv, NEW w \in Workers, Claim(w)
    PROVE  IInv'
<1> DEFINE me == wk[w]
           x == IF me.pc = "claimWindUp" THEN "windUp" ELSE "start"
           r == [me EXCEPT !.held = TRUE, !.newer = {}, !.fenced = FALSE, !.pc = x]
<1>1. /\ me \in WorkerStates /\ WorkerOK(me, log, bound) /\ me.pc \in {"claimWindUp", "claimTurn"}
      /\ UNCHANGED <<log, frontend, losses>> /\ losses \in 0..MaxLosses
  BY Me DEF Claim
<1>2. CASE owner # None
  BY <1>1, <1>2, GivesUp DEF Claim, Nak
<1>3. CASE owner = None
  <2>1. /\ owner' = w /\ ready' = ready
        /\ wk' = [v \in Workers |-> IF v = w THEN r
                    ELSE [wk[v] EXCEPT !.newer = IF HasLease(v) THEN @ \union {w} ELSE @]]
    BY <1>3 DEF Claim
  <2>2. x \in {"windUp", "start"} /\ (x = "windUp" <=> me.pc = "claimWindUp")
    OBVIOUS
  <2> HIDE DEF x
  <2>3. r \in WorkerStates
    BY <1>1, <2>2 DEF WorkerStates, Phases, Winding
  <2>4. PlaceOK(r, log) /\ PendOK(r, log)
    BY <1>1, <2>2 DEF WorkerStates, WorkerOK, PlaceOK, PendOK, NoLease, Running, Executing,
                Watched, InTurn, Stopping
  <2>5. SettleOK(r, log, bound)
    BY <1>1, <2>2 DEF WorkerStates, WorkerOK, SettleOK, Running, Executing,
                Watched, InTurn, Stopping, Winding
  <2>6. r.newer = {} /\ r.pend = me.pend
    BY <1>1 DEF WorkerStates
  <2> HIDE DEF r
  <2>7. ASSUME NEW v \in Workers \ {w}
        PROVE  /\ wk'[v] \in WorkerStates /\ SameCore(wk'[v], wk[v]) /\ v \notin wk'[v].newer
    <3> DEFINE N == IF HasLease(v) THEN wk[v].newer \union {w} ELSE wk[v].newer
    <3>1. wk[v] \in WorkerStates /\ v \notin wk[v].newer
      BY DEF IInv, WorkersOK
    <3>2. N \in SUBSET Workers /\ v \notin N
      BY <3>1 DEF WorkerStates
    <3>3. wk'[v] = [wk[v] EXCEPT !.newer = N]
      BY <2>1
    <3> HIDE DEF N
    <3>4. wk'[v] \in WorkerStates
      BY <3>1, <3>2, <3>3 DEF WorkerStates
    <3>5. SameCore(wk'[v], wk[v]) /\ wk'[v].newer = N
      BY <3>1, <3>2, <3>3 DEF WorkerStates, SameCore
    <3> QED
      BY <3>2, <3>4, <3>5
  <2>8. wk'[w] = r /\ wk' = [v \in Workers |-> wk'[v]]
    BY <2>1
  <2>9. wk' \in [Workers -> WorkerStates] /\ OthersStay(w)
    BY <2>3, <2>7, <2>8 DEF OthersStay
  <2>10. \A v \in Workers \ {w} : Apart(wk[v], wk'[w])
    BY <2>6, <2>8 DEF IInv, WorkersOK, Apart
  <2> QED
    BY <1>1, <2>1, <2>4, <2>5, <2>6, <2>8, <2>9, <2>10, Moves DEF WorkerOK, ReadyFrom
<1> QED
  BY <1>2, <1>3

-----------------------------------------------------------------------------
(* Wind-up *)

(* What a wind-up appends: calls of the log that nothing answers           *)
LEMMA WindUpEntry ==
    ASSUME NEW l, LogOK(l), reconstruct_state(l).status = "InterruptedPendingWindUp"
    PROVE  LET e == WindUpOf(l)
           IN  /\ e \in Entries /\ e.kind = "results" /\ e.thru = 0 /\ e.mid <= Len(l)
               /\ \A k \in e.calls : Called(l, k)
               /\ Unmet(l, e, Len(l))
<1> DEFINE acc == FinalAcc(l)
           s == BarrierOf(l)
           e == WindUpOf(l)
<1>1. l \in Seq(Entries) /\ Len(l) \in Nat /\ DOMAIN l = 1..Len(l)
  BY DEF LogOK
<1>2. /\ acc \in Accumulators(l) /\ Meaning(l, s, Len(l), acc)
      /\ reconstruct_state(l) = finish(acc) /\ s \in 0..Len(l)
  BY <1>1, ReplayMeaning, BarrierIsLast
<1> HIDE DEF acc, s
<1>3. /\ acc.owed # {} /\ acc.cancel \in 0..Len(l)
      /\ reconstruct_state(l).orphans = acc.owed /\ reconstruct_state(l).cancel = acc.cancel
  BY <1>2, FinishFields DEF Accumulators
<1> DEFINE ks == CallsOf(acc.owed)
<1>4. ASSUME NEW k \in ks
      PROVE  \E i \in DOMAIN l : /\ l[i].kind = "calls" /\ k \in l[i].calls
                                 /\ \A j \in (i + 1)..Len(l) :
                                        l[j].kind = "results" => k \notin l[j].calls
  <2>1. PICK o \in acc.owed : k = o[2]
    BY DEF CallsOf
  <2>2. o \in Pairs(l) /\ IsOpen(l, o, Len(l))
    BY <1>2, <2>1 DEF Meaning, CallsMeaning, OwedCalls
  <2>3. o[1] \in DOMAIN l
    BY <1>1, <2>2 DEF Pairs
  <2> QED
    BY <2>1, <2>2, <2>3 DEF IsOpen
<1>5. ks \in SUBSET CallIds
  <2>1. \A i \in DOMAIN l : l[i].calls \in SUBSET CallIds
    <3>1. \A i \in DOMAIN l : l[i] \in Entries
      BY <1>1
    <3> QED
      BY <3>1 DEF Entries
  <2>2. ASSUME NEW k \in ks PROVE k \in CallIds
    BY <1>4, <2>1
  <2> QED
    BY <2>2
<1>6. e.kind = "results" /\ e.thru = 0 /\ e.mid = acc.cancel /\ e.calls = ks
  BY <1>3 DEF WindUpOf, WoundUp, ToolResults, Blank
<1>7. e \in Entries
  <2>1. Blank \in Entries
    BY DEF Blank, Entries
  <2>2. e = [[Blank EXCEPT !.kind = "results", !.calls = ks] EXCEPT !.mid = acc.cancel]
    BY <1>3 DEF WindUpOf, WoundUp, ToolResults
  <2> HIDE DEF ks, e
  <2>3. [Blank EXCEPT !.kind = "results", !.calls = ks] \in Entries
    BY <1>5, <2>1 DEF Entries
  <2>4. acc.cancel \in Nat
    BY <1>1, <1>3
  <2> QED
    BY <2>2, <2>3, <2>4 DEF Entries
<1>8. Unmet(l, e, Len(l))
  <2>1. SUFFICES ASSUME NEW j \in DOMAIN l, l[j].kind = "results", NEW k \in ks, k \in l[j].calls
                 PROVE  FALSE
    BY <1>1, <1>6 DEF Unmet
  <2>2. PICK i \in DOMAIN l : /\ l[i].kind = "calls" /\ k \in l[i].calls
                              /\ \A h \in (i + 1)..Len(l) :
                                    l[h].kind = "results" => k \notin l[h].calls
    BY <1>4
  <2>3. PICK h \in 1..(j - 1) : l[h].kind = "calls" /\ k \in l[h].calls
    BY <2>1 DEF LogOK
  <2>4. h \in DOMAIN l
    BY <1>1, <2>3
  <2>5. h = i
    BY <2>2, <2>3, <2>4 DEF LogOK
  <2> QED
    BY <1>1, <2>1, <2>2, <2>3, <2>5
<1>9. \A k \in e.calls : Called(l, k)
  BY <1>4, <1>6 DEF Called
<1> QED
  BY <1>1, <1>3, <1>6, <1>7, <1>8, <1>9

(* WindUpLoad keeps the invariant                                          *)
LEMMA WindUpLoadKeeps ==
    ASSUME IInv, NEW w \in Workers, WindUpLoad(w)
    PROVE  IInv'
<1> DEFINE me == wk[w]
           e == WindUpOf(log)
           r == [me EXCEPT !.pc = "windAppend", !.pend = e, !.tail = Len(log)]
           q == [me EXCEPT !.pc = "wound"]
<1>1. /\ me \in WorkerStates /\ WorkerOK(me, log, bound) /\ me.pc = "windUp" /\ LogOK(log)
      /\ UNCHANGED <<log, ready, frontend, owner, losses>> /\ Len(log) \in Nat
  BY Me DEF WindUpLoad, IInv
<1>2. CASE reconstruct_state(log).status = "InterruptedPendingWindUp"
  <2>1. /\ e \in Entries /\ e.kind = "results" /\ e.thru = 0 /\ e.mid <= Len(log)
        /\ \A k \in e.calls : Called(log, k)
        /\ Unmet(log, e, Len(log))
    BY <1>1, <1>2, WindUpEntry
  <2>2. Become(w, r)
    BY <1>2 DEF WindUpLoad
  <2> HIDE DEF e
  <2>3. r \in WorkerStates /\ r.newer = me.newer /\ r.pend = e
    BY <1>1, <2>1 DEF WorkerStates, Phases, Winding
  <2>4. PlaceOK(r, log) /\ PendOK(r, log)
    BY <1>1, <2>1 DEF WorkerStates, WorkerOK, PlaceOK, PendOK, NoLease, Running, Executing,
                Watched, InTurn, Stopping
  <2>5. SettleOK(r, log, bound)
    BY <1>1 DEF WorkerStates, WorkerOK, SettleOK, Running, Executing,
                Watched, InTurn, Stopping, Winding
  <2> QED
    BY <1>1, <2>1, <2>2, <2>3, <2>4, <2>5, LocalStep DEF WorkerOK
<1>3. CASE reconstruct_state(log).status # "InterruptedPendingWindUp"
  <2>1. Become(w, q)
    BY <1>3 DEF WindUpLoad
  <2>2. q \in WorkerStates /\ q.newer = me.newer /\ q.pend = me.pend
    BY <1>1 DEF WorkerStates, Phases, Winding
  <2>3. WorkerOK(q, log, bound)
    BY <1>1 DEF WorkerStates, WorkerOK, PlaceOK, PendOK, SettleOK, NoLease, Running, Executing,
                Watched, InTurn, Stopping, Winding
  <2> QED
    BY <1>1, <2>1, <2>2, <2>3, LocalStep
<1> QED
  BY <1>2, <1>3

(* An entry that answers logged calls closes no worker's own round         *)
LEMMA AnswersAreApart ==
    ASSUME IInv, NEW ks, \A k \in ks : Called(log, k)
    PROVE  \A v \in Workers : wk[v].pend.kind = "calls" => wk[v].pend.calls \intersect ks = {}
<1>1. SUFFICES ASSUME NEW v \in Workers, wk[v].pend.kind = "calls", NEW k \in ks,
                      k \in wk[v].pend.calls
               PROVE  FALSE
  OBVIOUS
<1>2. PICK j \in DOMAIN log : k \in log[j].calls
  BY <1>1 DEF Called
<1>3. wk[v].pend.calls \intersect log[j].calls = {}
  BY <1>1, <1>2 DEF IInv, WorkersOK, WorkerOK, PendOK
<1> QED
  BY <1>1, <1>2, <1>3

(* The record of a worker whose wind-up is logged                          *)
LEMMA WoundIsOK ==
    ASSUME NEW l \in Seq(Entries), NEW r \in WorkerStates, NEW b, WorkerOK(r, l, b),
           r.pc = "windAppend"
    PROVE  LET q == [r EXCEPT !.pc = "wound", !.pend = Blank, !.tail = 0]
           IN  q \in WorkerStates /\ q.newer = r.newer /\ q.pend.kind = "none"
                /\ WorkerOK(q, l, b)
<1> DEFINE q == [r EXCEPT !.pc = "wound", !.pend = Blank, !.tail = 0]
<1>1. Blank \in Entries /\ Blank.kind = "none" /\ Len(l) \in Nat
  <2>1. Blank \in Entries
    BY DEF Blank, Entries
  <2>2. Blank.kind = "none"
    BY DEF Blank
  <2>3. Len(l) \in Nat
    OBVIOUS
  <2> QED
    BY <2>1, <2>2, <2>3
<1>2. q \in WorkerStates /\ q.newer = r.newer /\ q.pend = Blank
  BY <1>1 DEF WorkerStates, Phases, Winding
<1>3. PlaceOK(q, l) /\ PendOK(q, l)
  BY <1>1, <1>2 DEF WorkerStates, WorkerOK, PlaceOK, PendOK, NoLease, Running, Executing,
                Watched, InTurn, Stopping
<1>4. SettleOK(q, l, b)
  BY DEF WorkerStates, WorkerOK, SettleOK, Running, Executing, Watched, InTurn, Stopping, Winding
<1> QED
  BY <1>1, <1>2, <1>3, <1>4 DEF WorkerOK

(* WindUpAppend keeps the invariant                                        *)
LEMMA WindUpAppendKeeps ==
    ASSUME IInv, NEW w \in Workers, WindUpAppend(w)
    PROVE  IInv'
<1> DEFINE me == wk[w]
           e == me.pend
           wound == [me EXCEPT !.pc = "wound", !.pend = Blank, !.tail = 0]
           r == [me EXCEPT !.tail = Len(log)]
<1>1. /\ me \in WorkerStates /\ WorkerOK(me, log, bound) /\ me.pc = "windAppend" /\ LogOK(log)
      /\ UNCHANGED <<ready, frontend, owner, losses>> /\ Len(log) \in Nat
      /\ log \in Seq(Entries) /\ DOMAIN log = 1..Len(log)
  BY Me DEF WindUpAppend, IInv
<1>2. /\ wound \in WorkerStates /\ wound.newer = me.newer /\ wound.pend.kind = "none"
      /\ WorkerOK(wound, log, bound)
  BY <1>1, WoundIsOK
<1>3. /\ e \in Entries /\ e.kind = "results" /\ e.thru = 0 /\ e.mid <= me.tail
      /\ \A k \in e.calls : Called(log, k)
      /\ Unmet(log, e, me.tail) /\ me.tail \in Nat /\ me.tail <= Len(log)
  BY <1>1 DEF WorkerOK, PendOK, PlaceOK, WorkerStates
<1> HIDE DEF wound
<1>4. CASE Become(w, wound) /\ UNCHANGED log
  BY <1>1, <1>2, <1>4, LocalStep
<1>5. CASE /\ me.tail = Len(log) /\ log' = Append(log, e)
           /\ \E acked \in BOOLEAN : Become(w, IF acked THEN wound ELSE me)
  <2>1. EntryOK(log, e)
    <3>1. log # <<>>
      BY <1>1 DEF WorkerOK, PlaceOK, IsActivation
    <3> QED
      BY <1>1, <1>3, <1>5, <3>1 DEF EntryOK
  <2>2. \A v \in Workers : wk[v].pend.kind = "calls" => wk[v].pend.calls \intersect e.calls = {}
    BY <1>3, AnswersAreApart
  <2>3. PICK q \in {wound, me} : Become(w, q)
    BY <1>5
  <2>4. q \in WorkerStates /\ q.newer = me.newer /\ q.pend.kind # "calls" /\ WorkerOK(q, log, bound)
    BY <1>1, <1>2, <1>3
  <2>5. WorkerOK(q, log', bound)
    BY <1>1, <1>3, <1>5, <2>4, WorkerGrows
  <2>6. /\ wk' \in [Workers -> WorkerStates] /\ OthersStay(w) /\ wk'[w] = q
        /\ w \notin wk'[w].newer
    BY <2>3, <2>4, Becomes
  <2>7. \A v \in Workers \ {w} : Apart(wk[v], wk'[w])
    BY <2>4, <2>6 DEF Apart
  <2>8. e.kind # "user" /\ \A c \in CancelIds : ~ IsCancelOf(e, c)
    BY <1>3 DEF IsCancelOf
  <2>9. \A n \in ready' : n \in ready \/ IsActivation(log', n)
    BY <1>1
  <2> HIDE DEF e
  <2> QED
    BY <1>1, <1>5, <2>1, <2>2, <2>5, <2>6, <2>7, <2>8, <2>9, Appends
<1>6. CASE me.tail # Len(log) /\ ~ AnsweredBetween(w) /\ Become(w, r) /\ UNCHANGED log
  <2>1. Unmet(log, e, Len(log))
    <3>1. \A i \in (me.tail + 1)..Len(log) :
                log[i].kind = "results" => e.calls \intersect log[i].calls = {}
      BY <1>6 DEF AnsweredBetween, answers_the_same_calls
    <3>2. \A i \in 1..Len(log) : i \in 1..me.tail \/ i \in (me.tail + 1)..Len(log)
      BY <1>1, <1>3
    <3> QED
      BY <1>3, <3>1, <3>2 DEF Unmet
  <2>2. r \in WorkerStates /\ r.newer = me.newer /\ r.pend = me.pend
    BY <1>1 DEF WorkerStates
  <2>3. e.mid \in Nat
    BY <1>3 DEF Entries
  <2>4. PlaceOK(r, log) /\ PendOK(r, log)
    BY <1>1, <1>3, <2>1, <2>3 DEF WorkerStates, WorkerOK, PlaceOK, PendOK, NoLease
  <2>5. SettleOK(r, log, bound)
    BY <1>1 DEF WorkerStates, WorkerOK, SettleOK
  <2> QED
    BY <1>1, <1>6, <2>2, <2>4, <2>5, LocalStep DEF WorkerOK
<1> QED
  BY <1>4, <1>5, <1>6 DEF WindUpAppend, wound

(* WindUpFails keeps the invariant                                         *)
LEMMA WindUpFailsKeeps ==
    ASSUME IInv, NEW w \in Workers, WindUpFails(w)
    PROVE  IInv'
BY GivesUp, Me DEF WindUpFails, GiveBack, Ack, Nak, Released

(* WindUpDone keeps the invariant                                          *)
LEMMA WindUpDoneKeeps ==
    ASSUME IInv, NEW w \in Workers, WindUpDone(w)
    PROVE  IInv'
<1> DEFINE me == wk[w]
           r == [IdleWorker EXCEPT !.pc = "covered", !.job = me.job]
<1>1. /\ me \in WorkerStates /\ WorkerOK(me, log, bound) /\ me.pc = "wound"
      /\ UNCHANGED <<log, frontend, losses>> /\ losses \in 0..MaxLosses
      /\ owner' \in {owner, None} /\ Len(log) \in Nat
  BY Me DEF WindUpDone, Released
<1>2. CASE Ack(w)
  BY <1>1, <1>2, GivesUp DEF Ack
<1>3. CASE Become(w, r) /\ UNCHANGED ready
  <2>1. IsActivation(log, me.job) /\ me.job \in Nat /\ me.job <= Len(log)
    BY <1>1 DEF WorkerOK, PlaceOK, WorkerStates
  <2>2. IdleWorker \in WorkerStates
    BY DEF IdleWorker, WorkerStates, Phases, Entries, Blank
  <2>3. r \in WorkerStates
    BY <2>1, <2>2 DEF WorkerStates, Phases
  <2>4. /\ r.pc = "covered" /\ r.job = me.job /\ r.held = FALSE /\ r.own = 0 /\ r.watch = 0
        /\ r.cursor = 0 /\ r.hw = 0 /\ r.tail = 0 /\ r.stop = 0 /\ r.repair = {}
        /\ r.failed = FALSE /\ r.newer = {} /\ r.pend.kind = "none"
    BY DEF IdleWorker, Blank
  <2> HIDE DEF r
  <2>5. PlaceOK(r, log) /\ PendOK(r, log) /\ SettleOK(r, log, bound)
    BY <1>1, <2>1, <2>4 DEF PlaceOK, PendOK, SettleOK, Running, Executing, Watched, InTurn,
                    Stopping, Winding
  <2>6. wk' \in [Workers -> WorkerStates] /\ OthersStay(w) /\ wk'[w] = r
    BY <1>3, <2>3 DEF IInv, WorkersOK, Become, OthersStay, SameCore
  <2>7. \A v \in Workers \ {w} : Apart(wk[v], wk'[w])
    BY <2>4, <2>6 DEF Apart
  <2>8. owner' \in Workers \union {None} /\ ReadyFrom(w) /\ losses' \in 0..MaxLosses
    BY <1>1, <1>3, Me DEF ReadyFrom
  <2> QED
    BY <1>1, <2>4, <2>5, <2>6, <2>7, <2>8, Moves DEF WorkerOK
<1> QED
  BY <1>2, <1>3 DEF WindUpDone

-----------------------------------------------------------------------------
(* Starting a turn *)

(* The set of sequences a reader takes the maximum of is never empty       *)
LEMMA MaxWithZero ==
    ASSUME NEW n \in Nat, NEW S \in SUBSET (1..n)
    PROVE  /\ Max({0} \union S) \in 0..n
           /\ Max({0} \union S) # 0 <=> S # {}
           /\ S # {} => Max({0} \union S) \in S
           /\ \A y \in S : y <= Max({0} \union S)
<1>1. {0} \union S \in SUBSET (0..n) /\ {0} \union S # {}
  OBVIOUS
<1> DEFINE T == {0} \union S
           m == Max(T)
<1>2. m \in T /\ \A y \in T : y <= m
  BY <1>1, MaxOfBounded
<1> HIDE DEF m
<1>3. m = 0 \/ m \in S
  BY <1>2
<1>4. m \in 0..n /\ \A y \in S : y <= m
  BY <1>1, <1>2
<1>5. ASSUME S # {} PROVE m \in S /\ m # 0
  <2>1. PICK y \in S : y \in 1..n
    BY <1>5
  <2>2. m # 0
    BY <1>4, <2>1
  <2> QED
    BY <1>3, <2>2
<1> QED
  BY <1>3, <1>4, <1>5 DEF m

(* Prompts are user entries of the log                                     *)
LEMMA PromptsAreEntries ==
    ASSUME NEW l, LogOK(l)
    PROVE  /\ Prompts(l) \in SUBSET (1..Len(l)) /\ Len(l) \in Nat /\ DOMAIN l = 1..Len(l)
           /\ \A i \in Prompts(l) : l[i].kind = "user" /\ l[i].id \in PromptIds
BY DEF LogOK, Prompts

(* What a worker in a turn has to keep so that its prompt is accounted for *)
LEMMA TurnSettles ==
    ASSUME NEW q \in WorkerStates, NEW r \in WorkerStates, NEW l, NEW b, WorkerOK(q, l, b),
           q.pc \in {"watcher"} \union Executing, r.pc \in Executing \union {"stop"},
           r.job = q.job, r.inv = q.inv, r.failed = q.failed
    PROVE  SettleOK(r, l, b)
<1>1. r.pc \notin Winding \union {"claimWindUp", "preflight", "stopAppend", "idle"}
            /\ q.pc \in Running /\ r.pc \in Running /\ q.pc # "idle"
  BY DEF Executing, Watched, InTurn, Winding, Running, Stopping
<1>2. SettleOK(q, l, b)
  BY DEF WorkerOK
<1>3. r.failed => \E i \in DOMAIN l : i > r.job /\ l[i].kind = "error"
  BY <1>2 DEF SettleOK
<1>4. l[q.job].kind = "user" => q.inv = b[l[q.job].id]
  BY <1>1, <1>2 DEF SettleOK
<1> QED
  BY <1>1, <1>3, <1>4 DEF SettleOK

(* A step of a turn that leaves the log alone and begins no append         *)
LEMMA TurnStep ==
    ASSUME IInv, NEW w \in Workers, NEW r \in WorkerStates, Become(w, r),
           wk[w].pc \in {"watcher"} \union Executing, r.pc \in Executing \union {"stop"},
           r.newer = wk[w].newer, r.job = wk[w].job, r.inv = wk[w].inv, r.stop = wk[w].stop,
           r.failed = wk[w].failed, r.pend \in {wk[w].pend, Blank}, r.pend.kind = "calls" => r.pend = wk[w].pend,
           r.own <= Len(log), r.watch <= Len(log), r.cursor <= Len(log),
           r.hw <= Len(log), r.tail <= Len(log),
           \A i \in r.repair : i \in DOMAIN log /\ log[i].kind = "calls",
           r.pc = "repair" => r.repair # {},
           r.pc = "tools" => r.own # 0 /\ log[r.own].kind = "calls",
           r.pc = "append" => wk[w].pc = "append" /\ r.pend = wk[w].pend /\ r.own = wk[w].own /\ r.tail = wk[w].tail,
           UNCHANGED <<log, ready, frontend, owner, losses>>
    PROVE  IInv'
<1>1. wk[w] \in WorkerStates /\ WorkerOK(wk[w], log, bound)
  BY Me
<1>2. SettleOK(r, log, bound)
  BY <1>1, TurnSettles
<1>3. /\ r.pc \notin NoLease \union {"windAppend"} /\ wk[w].pc \in Running /\ wk[w].pc # "idle"
      /\ r.pc # "idle"
  BY DEF Executing, Watched, InTurn, NoLease, Running
<1>4. PlaceOK(r, log)
  BY <1>1, <1>3 DEF WorkerOK, PlaceOK
<1>5. Blank.kind = "none"
  BY DEF Blank
<1>6. PendOK(r, log)
  BY <1>1, <1>3, <1>5 DEF WorkerOK, PendOK
<1> QED
  BY <1>2, <1>4, <1>6, LocalStep DEF WorkerOK

(* Start keeps the invariant: the requested prompt, or the last one before *)
(* the requested Cancel, was admitted before it was logged                 *)
LEMMA StartKeeps ==
    ASSUME IInv, NEW w \in Workers, Start(w)
    PROVE  IInv'
<1> DEFINE me == wk[w]
           S == {i \in Prompts(log) : i <= me.job}
           p == Max({0} \union S)
           x == bound[log[p].id]
           r == [me EXCEPT !.pc = "watcher", !.own = Len(log), !.inv = x]
<1>1. /\ me \in WorkerStates /\ WorkerOK(me, log, bound) /\ me.pc = "start" /\ LogOK(log)
      /\ UNCHANGED <<log, ready, frontend, owner, losses>> /\ Become(w, r)
  BY Me DEF Start, IInv
<1>2. /\ Prompts(log) \in SUBSET (1..Len(log)) /\ Len(log) \in Nat /\ DOMAIN log = 1..Len(log)
      /\ \A i \in Prompts(log) : log[i].kind = "user" /\ log[i].id \in PromptIds
  BY <1>1, PromptsAreEntries
<1>3. me.job \in DOMAIN log /\ me.job \in Nat
  BY <1>1 DEF WorkerOK, PlaceOK, IsActivation, WorkerStates
<1>4. S # {}
  <2>1. 1 \in DOMAIN log /\ log[1].kind = "user" /\ 1 <= me.job
    BY <1>1, <1>2, <1>3 DEF LogOK
  <2> QED
    BY <1>1, <2>1, UsersArePrompts
<1>5. S \in SUBSET (1..Len(log))
  BY <1>2
<1>6. p \in S /\ \A y \in S : y <= p
  <2> HIDE DEF S
  <2> QED
    BY <1>2, <1>4, <1>5, MaxWithZero
<1> HIDE DEF p
<1>7. x \in PromptIds
  <2>1. p \in DOMAIN log /\ log[p].kind = "user" /\ log[p].id \in PromptIds
    BY <1>2, <1>6
  <2>2. prompt[log[p].id] # "new"
    BY <2>1 DEF IInv, FrontOK
  <2> QED
    BY <2>1, <2>2 DEF IInv, FrontOK
<1>8. log[me.job].kind = "user" => p = me.job
  <2>1. ASSUME log[me.job].kind = "user" PROVE me.job \in S
    BY <1>1, <1>3, <2>1, UsersArePrompts
  <2> QED
    BY <1>2, <1>3, <1>6, <2>1
<1>9. log[me.job].kind = "user" => x = bound[log[me.job].id]
  BY <1>8
<1> HIDE DEF x
<1>10. r \in WorkerStates /\ r.newer = me.newer /\ r.pend = me.pend
  BY <1>1, <1>2, <1>7 DEF WorkerStates, Phases
<1>11. PlaceOK(r, log) /\ PendOK(r, log)
  BY <1>1, <1>2, <1>7 DEF WorkerStates, WorkerOK, PlaceOK, PendOK, NoLease
<1>12. SettleOK(r, log, bound)
  BY <1>1, <1>9 DEF WorkerStates, WorkerOK, SettleOK, Winding
<1> QED
  BY <1>1, <1>10, <1>11, <1>12, LocalStep DEF WorkerOK

(* StartWatcher keeps the invariant                                        *)
LEMMA StartWatcherKeeps ==
    ASSUME IInv, NEW w \in Workers, StartWatcher(w)
    PROVE  IInv'
<1> DEFINE me == wk[w]
           r == [me EXCEPT !.pc = "derive", !.watch = Len(log)]
<1>1. /\ me \in WorkerStates /\ WorkerOK(me, log, bound) /\ me.pc = "watcher"
      /\ UNCHANGED <<log, ready, frontend, owner, losses>> /\ Become(w, r) /\ Len(log) \in Nat
  BY Me DEF StartWatcher
<1>2. r \in WorkerStates
  BY <1>1 DEF WorkerStates, Phases, Executing, Watched, InTurn
<1>3. /\ r.pc = "derive" /\ r.newer = me.newer /\ r.job = me.job /\ r.inv = me.inv
      /\ r.stop = me.stop /\ r.failed = me.failed /\ r.pend = me.pend /\ r.own = me.own
      /\ r.watch = Len(log) /\ r.cursor = me.cursor /\ r.hw = me.hw /\ r.tail = me.tail
      /\ r.repair = me.repair
  BY <1>1 DEF WorkerStates
<1> HIDE DEF r
<1>4. PlaceOK(me, log) /\ r.pc \in Executing
  BY <1>1, <1>3 DEF WorkerOK, Executing, Watched, InTurn
<1> QED
  BY <1>1, <1>2, <1>3, <1>4, TurnStep DEF PlaceOK

(* Watch keeps the invariant                                               *)
LEMMA WatchKeeps ==
    ASSUME IInv, NEW w \in Workers, Watch(w)
    PROVE  IInv'
<1> DEFINE me == wk[w]
           n == me.watch + 1
           A == IF n > me.own /\ log[n].kind = "cancel" THEN me.abort \union {"ctrlc"} ELSE me.abort
           I == me.input \/ (n > me.own /\ log[n].kind = "user")
           r == [me EXCEPT !.watch = n, !.abort = A, !.input = I]
<1>1. /\ me \in WorkerStates /\ WorkerOK(me, log, bound) /\ me.pc \in Watched
      /\ UNCHANGED <<log, ready, frontend, owner, losses>> /\ Become(w, r) /\ Len(log) \in Nat
      /\ me.watch < Len(log)
  BY Me DEF Watch
<1>2. A \in SUBSET {"ctrlc", "failover"} /\ n \in Nat /\ n <= Len(log)
  BY <1>1 DEF WorkerStates
<1>3. I \in BOOLEAN
  BY <1>1 DEF WorkerStates
<1> HIDE DEF A, I, n
<1>4. r \in WorkerStates
  BY <1>1, <1>2, <1>3 DEF WorkerStates
<1>5. /\ r.pc = me.pc /\ r.newer = me.newer /\ r.job = me.job /\ r.inv = me.inv
      /\ r.stop = me.stop /\ r.failed = me.failed /\ r.pend = me.pend /\ r.own = me.own
      /\ r.watch = n /\ r.cursor = me.cursor /\ r.hw = me.hw /\ r.tail = me.tail
      /\ r.repair = me.repair
  BY <1>1 DEF WorkerStates
<1> HIDE DEF r
<1>6. PlaceOK(me, log) /\ me.pc \in Executing
  BY <1>1 DEF WorkerOK, Executing
<1> QED
  BY <1>1, <1>2, <1>4, <1>5, <1>6, TurnStep DEF PlaceOK

(* The blank entry, which no log holds                                     *)
LEMMA BlankEntry == Blank \in Entries /\ Blank.kind = "none"
<1>1. Blank \in Entries
  BY DEF Blank, Entries
<1>2. Blank.kind = "none"
  BY DEF Blank
<1> QED
  BY <1>1, <1>2

(* AbortTurn keeps the invariant                                           *)
LEMMA AbortTurnKeeps ==
    ASSUME IInv, NEW w \in Workers, AbortTurn(w)
    PROVE  IInv'
<1> DEFINE me == wk[w]
           r == [me EXCEPT !.pc = "finish", !.pend = Blank, !.repair = {}]
<1>1. /\ me \in WorkerStates /\ WorkerOK(me, log, bound) /\ me.pc \in InTurn
      /\ UNCHANGED <<log, ready, frontend, owner, losses>> /\ Become(w, r) /\ Len(log) \in Nat
  BY Me DEF AbortTurn
<1>2. Blank \in Entries
  BY DEF Blank, Entries
<1>3. r \in WorkerStates
  BY <1>1, <1>2 DEF WorkerStates, Phases, Executing
<1>4. /\ r.pc = "finish" /\ r.newer = me.newer /\ r.job = me.job /\ r.inv = me.inv
      /\ r.stop = me.stop /\ r.failed = me.failed /\ r.pend = Blank /\ r.own = me.own
      /\ r.watch = me.watch /\ r.cursor = me.cursor /\ r.hw = me.hw /\ r.tail = me.tail
      /\ r.repair = {}
  BY <1>1, <1>2 DEF WorkerStates
<1> HIDE DEF r
<1>5. PlaceOK(me, log) /\ me.pc \in Executing /\ r.pc \in Executing
  BY <1>1, <1>4 DEF WorkerOK, Executing, Watched
<1>6. r.pend.kind # "calls"
  BY <1>4, BlankEntry
<1> QED
  BY <1>1, <1>3, <1>4, <1>5, <1>6, TurnStep DEF PlaceOK

(* Where a turn's input ends is a position of the log                      *)
LEMMA InputIsInTheLog ==
    ASSUME NEW w, LogOK(log), NEW n, n = derive_turn_input(w, log), n # None
    PROVE  n \in Nat /\ n <= Len(log)
<1> DEFINE acc == FinalAcc(log)
           state == reconstruct_state(log)
           Q == Range(state.queue)
           queued == Max({0} \union Q)
           newer == new_user_messages_since(log, wk[w].hw)
<1>1. log \in Seq(Entries) /\ Len(log) \in Nat
  BY DEF LogOK
<1>2. acc \in Accumulators(log) /\ state = finish(acc)
  BY <1>1, ReplayMeaning
<1>3. state.queue = acc.queue /\ state.lastUser = IF acc.owed = {} /\ acc.round THEN acc.lastUser ELSE 0
  BY <1>2, FinishFields DEF Accumulators
<1>4. acc.queue \in Seq(1..Len(log)) /\ acc.lastUser \in 0..Len(log)
  BY <1>2 DEF Accumulators
<1>5. Q \in SUBSET (1..Len(log)) /\ state.lastUser \in 0..Len(log)
  BY <1>3, <1>4 DEF Range
<1>6. newer \in SUBSET (1..Len(log))
  BY PromptsAreEntries DEF new_user_messages_since
<1> HIDE DEF acc, state, Q, newer
<1>7. queued \in 0..Len(log)
  BY <1>1, <1>5, MaxWithZero
<1> HIDE DEF queued
<1>8. newer # {} => Max(newer) \in 0..Len(log)
  <2>1. newer \in SUBSET (0..Len(log))
    BY <1>1, <1>6
  <2> QED
    BY <1>1, <2>1, MaxOfBounded
<1>9. Max({state.lastUser, queued}) \in 0..Len(log)
  <2>1. {state.lastUser, queued} \in SUBSET (0..Len(log)) /\ {state.lastUser, queued} # {}
    BY <1>5, <1>7
  <2> QED
    BY <1>1, <2>1, MaxOfBounded
<1>10. n \in {Max(newer), queued, None, Max({state.lastUser, queued})}
            /\ (n = Max(newer) => newer # {} \/ n \in {queued, None, Max({state.lastUser, queued})})
  BY DEF derive_turn_input, state, queued, newer, Q
<1> QED
  BY <1>1, <1>7, <1>8, <1>9, <1>10

(* Derive keeps the invariant                                              *)
LEMMA DeriveKeeps ==
    ASSUME IInv, NEW w \in Workers, Derive(w)
    PROVE  IInv'
<1> DEFINE me == wk[w]
           n == derive_turn_input(w, log)
<1>1. /\ me \in WorkerStates /\ WorkerOK(me, log, bound) /\ me.pc = "derive" /\ LogOK(log)
      /\ UNCHANGED <<log, ready, frontend, owner, losses>> /\ Len(log) \in Nat
  BY Me DEF Derive, IInv
<1>2. PICK x \in {"finish", "error", "validate"}, c \in {me.cursor, n} :
        /\ Become(w, [me EXCEPT !.pc = x, !.cursor = c])
        /\ c = me.cursor \/ c # None
  <2>1. \A x \in {"finish", "error"} : [me EXCEPT !.pc = x] = [me EXCEPT !.pc = x, !.cursor = me.cursor]
    BY <1>1 DEF WorkerStates
  <2> HIDE DEF n
  <2> QED
    BY <2>1 DEF Derive, n
<1>3. c \in Nat /\ c <= Len(log)
  BY <1>1, <1>2, InputIsInTheLog DEF WorkerStates, WorkerOK, PlaceOK
<1> DEFINE r == [me EXCEPT !.pc = x, !.cursor = c]
<1>4. r \in WorkerStates
  BY <1>1, <1>2, <1>3 DEF WorkerStates, Phases, Executing, Watched, InTurn
<1>5. /\ r.pc = x /\ r.newer = me.newer /\ r.job = me.job /\ r.inv = me.inv
      /\ r.stop = me.stop /\ r.failed = me.failed /\ r.pend = me.pend /\ r.own = me.own
      /\ r.watch = me.watch /\ r.cursor = c /\ r.hw = me.hw /\ r.tail = me.tail
      /\ r.repair = me.repair
  BY <1>1 DEF WorkerStates
<1>6. Become(w, r)
  BY <1>2
<1> HIDE DEF r
<1>7. PlaceOK(me, log) /\ me.pc \in Executing /\ r.pc \in Executing
  BY <1>1, <1>2, <1>5 DEF WorkerOK, Executing, Watched, InTurn
<1> QED
  BY <1>1, <1>3, <1>4, <1>5, <1>6, <1>7, TurnStep DEF PlaceOK

(* The largest of two positions                                            *)
LEMMA LaterOf ==
    ASSUME NEW n \in Nat, NEW x \in 0..n, NEW y \in 0..n
    PROVE  Max({x, y}) \in Nat /\ Max({x, y}) <= n
<1>1. {x, y} \in SUBSET (0..n) /\ {x, y} # {}
  OBVIOUS
<1>2. Max({x, y}) \in {x, y}
  BY <1>1, MaxOfBounded
<1> QED
  BY <1>2

(* Validate keeps the invariant                                            *)
LEMMA ValidateKeeps ==
    ASSUME IInv, NEW w \in Workers, Validate(w)
    PROVE  IInv'
<1> DEFINE me == wk[w]
           h == Max({me.hw, me.cursor})
<1>1. /\ me \in WorkerStates /\ WorkerOK(me, log, bound) /\ me.pc = "validate"
      /\ UNCHANGED <<log, ready, frontend, owner, losses>> /\ Len(log) \in Nat
  BY Me DEF Validate
<1>2. me.hw \in Nat /\ me.hw <= Len(log) /\ h \in Nat /\ h <= Len(log)
  BY <1>1, LaterOf DEF WorkerStates, WorkerOK, PlaceOK
<1> HIDE DEF h
<1>3. PICK x \in {"finish", "error", "load"}, g \in {me.hw, h} :
        Become(w, [me EXCEPT !.pc = x, !.hw = g])
  <2>1. \A x \in {"finish", "error"} : [me EXCEPT !.pc = x] = [me EXCEPT !.pc = x, !.hw = me.hw]
    BY <1>1 DEF WorkerStates
  <2> QED
    BY <2>1 DEF Validate, h
<1> DEFINE r == [me EXCEPT !.pc = x, !.hw = g]
<1>4. r \in WorkerStates
  BY <1>1, <1>2, <1>3 DEF WorkerStates, Phases, Executing, Watched, InTurn
<1>5. /\ r.pc = x /\ r.newer = me.newer /\ r.job = me.job /\ r.inv = me.inv
      /\ r.stop = me.stop /\ r.failed = me.failed /\ r.pend = me.pend /\ r.own = me.own
      /\ r.watch = me.watch /\ r.cursor = me.cursor /\ r.hw = g /\ r.tail = me.tail
      /\ r.repair = me.repair
  BY <1>1 DEF WorkerStates
<1>6. Become(w, r)
  BY <1>3
<1> HIDE DEF r
<1>7. PlaceOK(me, log) /\ me.pc \in Executing /\ r.pc \in Executing
  BY <1>1, <1>3, <1>5 DEF WorkerOK, Executing, Watched, InTurn
<1> QED
  BY <1>1, <1>2, <1>3, <1>4, <1>5, <1>6, <1>7, TurnStep DEF PlaceOK

(* Load keeps the invariant                                                *)
LEMMA LoadKeeps ==
    ASSUME IInv, NEW w \in Workers, Load(w)
    PROVE  IInv'
<1> DEFINE me == wk[w]
           orphans == find_orphan_tool_calls(log)
<1>1. /\ me \in WorkerStates /\ WorkerOK(me, log, bound) /\ me.pc = "load"
      /\ UNCHANGED <<log, ready, frontend, owner, losses>> /\ Len(log) \in Nat
      /\ DOMAIN log = 1..Len(log)
  BY Me DEF Load
<1>2. /\ \A i \in orphans : i \in DOMAIN log /\ log[i].kind = "calls"
      /\ \A i \in me.repair : i \in DOMAIN log /\ log[i].kind = "calls"
  BY <1>1 DEF find_orphan_tool_calls, IsOrphanRound, WorkerOK, PlaceOK
<1> HIDE DEF orphans
<1>3. PICK x \in {"error", "model", "repair"}, R \in {me.repair, orphans} :
        Become(w, [me EXCEPT !.pc = x, !.repair = R]) /\ (x = "repair" => R # {})
  <2>1. [me EXCEPT !.pc = "error"] = [me EXCEPT !.pc = "error", !.repair = me.repair]
    BY <1>1 DEF WorkerStates
  <2>2. \/ Become(w, [me EXCEPT !.pc = "error"])
        \/ orphans = {} /\ Become(w, [me EXCEPT !.pc = "model", !.repair = orphans])
        \/ orphans # {} /\ Become(w, [me EXCEPT !.pc = "repair", !.repair = orphans])
    BY DEF Load, orphans
  <2> QED
    BY <2>1, <2>2
<1> DEFINE r == [me EXCEPT !.pc = x, !.repair = R]
<1>4. R \in SUBSET Nat
  BY <1>1, <1>2, <1>3
<1>5. r \in WorkerStates
  BY <1>1, <1>3, <1>4 DEF WorkerStates, Phases, Executing, Watched, InTurn
<1>6. /\ r.pc = x /\ r.newer = me.newer /\ r.job = me.job /\ r.inv = me.inv
      /\ r.stop = me.stop /\ r.failed = me.failed /\ r.pend = me.pend /\ r.own = me.own
      /\ r.watch = me.watch /\ r.cursor = me.cursor /\ r.hw = me.hw /\ r.tail = me.tail
      /\ r.repair = R
  BY <1>1 DEF WorkerStates
<1>7. Become(w, r)
  BY <1>3
<1> HIDE DEF r
<1>8. PlaceOK(me, log) /\ me.pc \in Executing /\ r.pc \in Executing
  BY <1>1, <1>3, <1>6 DEF WorkerOK, Executing, Watched, InTurn
<1>9. \A i \in r.repair : i \in DOMAIN log /\ log[i].kind = "calls"
  BY <1>2, <1>3, <1>6
<1> QED
  BY <1>1, <1>3, <1>5, <1>6, <1>7, <1>8, <1>9, TurnStep DEF PlaceOK

-----------------------------------------------------------------------------
(* Appends of a turn *)

(* The entries a turn writes                                               *)
LEMMA EntryFields ==
    ASSUME NEW ks \in SUBSET CallIds, NEW n \in Nat
    PROVE  /\ ToolResults(ks) \in Entries /\ ToolCalls(ks) \in Entries
           /\ Assistant \in Entries /\ Error \in Entries /\ TurnEnd(n) \in Entries
           /\ ToolResults(ks).kind = "results" /\ ToolResults(ks).calls = ks
           /\ ToolResults(ks).mid = 0 /\ ToolResults(ks).thru = 0
           /\ ToolCalls(ks).kind = "calls" /\ ToolCalls(ks).calls = ks
           /\ ToolCalls(ks).mid = 0 /\ ToolCalls(ks).thru = 0
           /\ Assistant.kind = "assistant" /\ Assistant.calls = {} /\ Assistant.mid = 0
           /\ Assistant.thru = 0
           /\ Error.kind = "error" /\ Error.calls = {} /\ Error.mid = 0 /\ Error.thru = 0
           /\ TurnEnd(n).kind = "turnEnd" /\ TurnEnd(n).calls = {} /\ TurnEnd(n).mid = 0
           /\ TurnEnd(n).thru = n
<1>1. ToolResults(ks) \in Entries /\ ToolCalls(ks) \in Entries
  BY BlankEntry DEF Entries, ToolResults, ToolCalls
<1>2. Assistant \in Entries /\ Error \in Entries
  BY BlankEntry DEF Entries, Assistant, Error
<1>3. TurnEnd(n) \in Entries
  BY BlankEntry DEF Entries, TurnEnd
<1>4. /\ ToolResults(ks).kind = "results" /\ ToolResults(ks).calls = ks
      /\ ToolResults(ks).mid = 0 /\ ToolResults(ks).thru = 0
      /\ ToolCalls(ks).kind = "calls" /\ ToolCalls(ks).calls = ks
      /\ ToolCalls(ks).mid = 0 /\ ToolCalls(ks).thru = 0
  BY DEF ToolResults, ToolCalls, Blank
<1>5. /\ Assistant.kind = "assistant" /\ Assistant.calls = {} /\ Assistant.mid = 0
      /\ Assistant.thru = 0
      /\ Error.kind = "error" /\ Error.calls = {} /\ Error.mid = 0 /\ Error.thru = 0
  BY DEF Assistant, Error, Blank
<1>6. /\ TurnEnd(n).kind = "turnEnd" /\ TurnEnd(n).calls = {} /\ TurnEnd(n).mid = 0
      /\ TurnEnd(n).thru = n
  BY DEF TurnEnd, Blank
<1> QED
  BY <1>1, <1>2, <1>3, <1>4, <1>5, <1>6

(* A step of a turn that appends e                                         *)
LEMMA TurnAppend ==
    ASSUME IInv, NEW w \in Workers, NEW r \in WorkerStates, wk' = Stamped(w, r) \/ Become(w, r),
           NEW e, EntryOK(log, e), log' = Append(log, e), e.kind \notin {"user", "cancel"},
           wk[w].pc \in Executing, r.pc \in Executing, r.pc # "append",
           r.newer = wk[w].newer, r.job = wk[w].job, r.inv = wk[w].inv, r.stop = wk[w].stop,
           r.failed => wk[w].failed \/ e.kind = "error",
           r.pend = wk[w].pend \/ r.pend = Blank,
           r.pend.kind = "calls" => r.pend.calls \intersect e.calls = {},
           r.own <= Len(log) + 1, r.watch <= Len(log), r.cursor <= Len(log),
           r.hw <= Len(log), r.tail <= Len(log),
           \A i \in r.repair : i \in DOMAIN log /\ log[i].kind = "calls",
           r.pc = "repair" => r.repair # {},
           r.pc = "tools" => r.own = Len(log) + 1 /\ e.kind = "calls",
           \A v \in Workers \ {w} :
                wk[v].pend.kind = "calls" => wk[v].pend.calls \intersect e.calls = {},
           UNCHANGED <<ready, frontend, owner, losses>>
    PROVE  IInv'
<1> DEFINE me == wk[w]
           n == Len(log) + 1
<1>1. me \in WorkerStates /\ WorkerOK(me, log, bound) /\ log \in Seq(Entries) /\ e \in Entries
  BY Me DEF EntryOK
<1>2. /\ Len(log') = n /\ log'[n] = e /\ Len(log) \in Nat
      /\ DOMAIN log' = 1..n /\ DOMAIN log = 1..Len(log)
      /\ \A i \in DOMAIN log : log'[i] = log[i] /\ i \in DOMAIN log'
  BY <1>1, Grown
<1>3. /\ r.pc \notin NoLease \union Winding \union Stopping
      /\ me.pc \in Running /\ me.pc # "idle" /\ r.pc # "idle" /\ r.pc \in Running
  BY DEF Executing, Watched, InTurn, NoLease, Running, Winding, Stopping
<1>4. /\ r.own \in Nat /\ r.watch \in Nat /\ r.cursor \in Nat /\ r.hw \in Nat /\ r.tail \in Nat
      /\ r.job \in Nat /\ r.stop \in Nat
  BY DEF WorkerStates
<1>5. IsActivation(log', r.job) /\ log'[r.job] = log[r.job] /\ r.job < n
  BY <1>1, <1>2, <1>3 DEF WorkerOK, PlaceOK, IsActivation
<1>6. PlaceOK(r, log')
  BY <1>1, <1>2, <1>3, <1>4, <1>5 DEF WorkerOK, PlaceOK
<1>7. PendOK(r, log')
  <2>1. \A k : Called(log, k) => Called(log', k)
    BY <1>2 DEF Called
  <2>2. r.pend.kind \in {"results", "calls"} => r.pend = me.pend
    BY BlankEntry
  <2>3. \A i \in DOMAIN log' : i \in DOMAIN log \/ i = n
    BY <1>2
  <2>4. r.pend.kind = "calls" => \A i \in DOMAIN log' : r.pend.calls \intersect log'[i].calls = {}
    BY <1>1, <1>2, <2>2, <2>3 DEF WorkerOK, PendOK
  <2> QED
    BY <1>1, <1>3, <2>1, <2>2, <2>4 DEF WorkerOK, PendOK, Winding
<1>8. SettleOK(r, log', bound)
  <2>1. r.failed => \E i \in DOMAIN log' : i > r.job /\ log'[i].kind = "error"
    <3>1. CASE me.failed
      BY <1>1, <1>2, <3>1 DEF WorkerOK, SettleOK
    <3>2. CASE e.kind = "error"
      BY <1>2, <1>4, <1>5, <3>2
    <3> QED
      BY <3>1, <3>2
  <2>2. log[me.job].kind = "user" => me.inv = bound[log[me.job].id]
    BY <1>1, <1>3 DEF WorkerOK, SettleOK
  <2> QED
    BY <1>3, <1>5, <2>1, <2>2 DEF SettleOK, NoLease, Stopping
<1>9. /\ wk' \in [Workers -> WorkerStates] /\ OthersStay(w) /\ wk'[w] = r
      /\ w \notin wk'[w].newer
  BY Stamps, Becomes
<1>10. \A v \in Workers \ {w} : Apart(wk[v], wk'[w])
  BY <1>9, BlankEntry DEF Apart, IInv, WorkersOK
<1>11. \A c \in CancelIds : ~ IsCancelOf(e, c)
  BY DEF IsCancelOf
<1> QED
  BY <1>6, <1>7, <1>8, <1>9, <1>10, <1>11, Appends DEF WorkerOK

(* Repair keeps the invariant                                              *)
LEMMA RepairKeeps ==
    ASSUME IInv, NEW w \in Workers, Repair(w)
    PROVE  IInv'
<1> DEFINE me == wk[w]
           R == me.repair
           round == Min(R)
           left == R \ {round}
           x == IF left = {} THEN "model" ELSE "repair"
           e == ToolResults(log[round].calls)
           r == [me EXCEPT !.own = Len(log) + 1, !.repair = left, !.pc = x]
<1>1. /\ me \in WorkerStates /\ WorkerOK(me, log, bound) /\ me.pc = "repair"
      /\ UNCHANGED <<ready, frontend, owner, losses>> /\ Len(log) \in Nat
      /\ DOMAIN log = 1..Len(log) /\ log \in Seq(Entries)
      /\ log' = Append(log, e) /\ Become(w, r)
  BY Me DEF Repair
<1>2. /\ R # {} /\ \A i \in R : i \in DOMAIN log /\ log[i].kind = "calls"
      /\ R \in SUBSET Nat
  BY <1>1 DEF WorkerOK, PlaceOK, WorkerStates
<1>3. R \in SUBSET (Nat \ {0})
  BY <1>1, <1>2
<1>4. round \in R
  <2>1. FirstOf(R) = round
    BY <1>2 DEF FirstOf
  <2> HIDE DEF R, round
  <2> QED
    BY <1>2, <1>3, <2>1, FirstOfSequences
<1> HIDE DEF round
<1>5. log[round] \in Entries /\ log[round].kind = "calls" /\ round \in DOMAIN log
  BY <1>1, <1>2, <1>4
<1> DEFINE ks == log[round].calls
<1>6. ks \in SUBSET CallIds /\ \A k \in ks : Called(log, k)
  BY <1>5 DEF Entries, Called
<1> HIDE DEF ks
<1>7. /\ e \in Entries /\ e.kind = "results" /\ e.calls = ks /\ e.mid = 0 /\ e.thru = 0
  BY <1>6, EntryFields DEF ks
<1> HIDE DEF e
<1>8. EntryOK(log, e)
  <2>1. log # <<>>
    BY <1>1, <1>5
  <2> QED
    BY <1>1, <1>6, <1>7, <2>1 DEF EntryOK
<1>9. \A v \in Workers : wk[v].pend.kind = "calls" => wk[v].pend.calls \intersect e.calls = {}
  BY <1>6, <1>7, AnswersAreApart
<1>10. /\ x \in {"model", "repair"} /\ (x = "repair" => left # {}) /\ left \in SUBSET Nat
       /\ Len(log) + 1 \in Nat /\ left \subseteq R
  BY <1>1, <1>2
<1> HIDE DEF x, left
<1>11. r \in WorkerStates
  BY <1>1, <1>10 DEF WorkerStates, Phases, Executing, Watched, InTurn
<1>12. /\ r.pc = x /\ r.newer = me.newer /\ r.job = me.job /\ r.inv = me.inv
      /\ r.stop = me.stop /\ r.failed = me.failed /\ r.pend = me.pend /\ r.own = Len(log) + 1
      /\ r.watch = me.watch /\ r.cursor = me.cursor /\ r.hw = me.hw /\ r.tail = me.tail
      /\ r.repair = left
  BY <1>1 DEF WorkerStates
<1> HIDE DEF r
<1>13. PlaceOK(me, log) /\ me.pc \in Executing /\ r.pc \in Executing /\ r.pc \notin {"append", "tools"}
  BY <1>1, <1>10, <1>12 DEF WorkerOK, Executing, Watched, InTurn
<1>14. \A i \in r.repair : i \in DOMAIN log /\ log[i].kind = "calls"
  BY <1>2, <1>10, <1>12
<1>15. r.pend = me.pend /\ (r.pend.kind = "calls" => r.pend.calls \intersect e.calls = {})
  BY <1>9, <1>12
<1>16. /\ r.own <= Len(log) + 1 /\ r.watch <= Len(log) /\ r.cursor <= Len(log)
       /\ r.hw <= Len(log) /\ r.tail <= Len(log)
  BY <1>1, <1>12, <1>13 DEF PlaceOK
<1> QED
  BY <1>1, <1>7, <1>8, <1>9, <1>10, <1>11, <1>12, <1>13, <1>14, <1>15, <1>16, TurnAppend

(* The turn begins an append                                               *)
LEMMA WritingKeeps ==
    ASSUME IInv, NEW w \in Workers, wk[w].pc \in {"model", "tools"}, NEW e \in Entries,
           e.kind \in {"calls", "results", "assistant"}, e.mid = 0, e.thru = 0,
           e.kind = "assistant" => e.calls = {},
           e.kind = "results" => \A k \in e.calls : Called(log, k),
           e.kind = "calls" => \A i \in DOMAIN log : e.calls \intersect log[i].calls = {},
           e.kind = "calls" => \A v \in Workers \ {w} : e.calls \intersect wk[v].pend.calls = {},
           Become(w, Writing(w, e)), UNCHANGED <<log, ready, frontend, owner, losses>>
    PROVE  IInv'
<1> DEFINE me == wk[w]
           r == [me EXCEPT !.pc = "append", !.pend = e, !.tail = me.own]
<1>1. /\ me \in WorkerStates /\ WorkerOK(me, log, bound) /\ owner \in Workers \union {None}
      /\ losses \in 0..MaxLosses /\ Become(w, r)
  BY Me DEF Writing
<1>2. r \in WorkerStates
  BY <1>1 DEF WorkerStates, Phases, Executing, Watched, InTurn
<1>3. /\ r.pc = "append" /\ r.newer = me.newer /\ r.job = me.job /\ r.inv = me.inv
      /\ r.stop = me.stop /\ r.failed = me.failed /\ r.pend = e /\ r.own = me.own
      /\ r.watch = me.watch /\ r.cursor = me.cursor /\ r.hw = me.hw /\ r.tail = me.own
      /\ r.repair = me.repair
      /\ r.held = me.held
  BY <1>1 DEF WorkerStates
<1> HIDE DEF r
<1>4. me.own \in Nat /\ me.pc \in Executing /\ me.pc \in Running /\ r.pc \in Executing
        /\ me.pc # "idle"
  BY <1>1, <1>3 DEF WorkerStates, Running, Executing, Watched, InTurn
<1>5. PlaceOK(r, log)
  BY <1>1, <1>3, <1>4 DEF WorkerOK, PlaceOK, NoLease
<1>6. PendOK(r, log)
  BY <1>1, <1>3, <1>4 DEF PendOK
<1>7. SettleOK(r, log, bound)
  BY <1>1, <1>2, <1>3, <1>4, TurnSettles
<1>8. /\ wk' \in [Workers -> WorkerStates] /\ OthersStay(w) /\ wk'[w] = r
      /\ w \notin wk'[w].newer
  BY <1>1, <1>2, <1>3, Becomes
<1>9. \A v \in Workers \ {w} : Apart(wk[v], wk'[w])
  BY <1>3, <1>8 DEF Apart
<1> QED
  BY <1>1, <1>5, <1>6, <1>7, <1>8, <1>9, Moves DEF WorkerOK, ReadyFrom

(* ModelReplies keeps the invariant                                        *)
LEMMA ModelRepliesKeeps ==
    ASSUME IInv, NEW w \in Workers, ModelReplies(w)
    PROVE  IInv'
<1> DEFINE me == wk[w]
<1>1. /\ me \in WorkerStates /\ WorkerOK(me, log, bound) /\ me.pc = "model"
      /\ UNCHANGED <<log, ready, frontend, owner, losses>>
  BY Me DEF ModelReplies
<1>2. ASSUME NEW k \in CallIds \ UsedCalls, Become(w, Writing(w, ToolCalls({k}))) PROVE IInv'
  <2> DEFINE e == ToolCalls({k})
  <2>1. {k} \in SUBSET CallIds
    OBVIOUS
  <2>2. /\ e \in Entries /\ e.kind = "calls" /\ e.calls = {k} /\ e.mid = 0 /\ e.thru = 0
    BY <2>1, EntryFields
  <2>3. /\ \A i \in DOMAIN log : {k} \intersect log[i].calls = {}
        /\ \A v \in Workers : {k} \intersect wk[v].pend.calls = {}
    <3> DEFINE U == UNION {log[j].calls : j \in DOMAIN log}
               V == UNION {wk[u].pend.calls : u \in Workers}
    <3>1. UsedCalls = U \union V
      BY DEF UsedCalls
    <3>2. (\A i \in DOMAIN log : log[i].calls \subseteq U) /\ (\A v \in Workers : wk[v].pend.calls \subseteq V)
      OBVIOUS
    <3>3. k \notin U /\ k \notin V
      <4> HIDE DEF U, V
      <4> QED
        BY <1>2, <3>1
    <3> HIDE DEF U, V
    <3> QED
      BY <3>2, <3>3
  <2> HIDE DEF e
  <2> QED
    BY <1>1, <1>2, <2>2, <2>3, WritingKeeps DEF e
<1>3. CASE Become(w, Writing(w, Assistant))
  <2>1. {} \in SUBSET CallIds
    OBVIOUS
  <2>2. /\ Assistant \in Entries /\ Assistant.kind = "assistant" /\ Assistant.calls = {}
        /\ Assistant.mid = 0 /\ Assistant.thru = 0
    BY <2>1, EntryFields
  <2> QED
    BY <1>1, <1>3, <2>2, WritingKeeps
<1>4. CASE Become(w, [me EXCEPT !.pc = "error"])
  <2> DEFINE r == [me EXCEPT !.pc = "error"]
  <2>1. r \in WorkerStates
    BY <1>1 DEF WorkerStates, Phases, Executing, Watched
  <2>2. /\ r.pc = "error" /\ r.newer = me.newer /\ r.job = me.job /\ r.inv = me.inv
      /\ r.stop = me.stop /\ r.failed = me.failed /\ r.pend = me.pend /\ r.own = me.own
      /\ r.watch = me.watch /\ r.cursor = me.cursor /\ r.hw = me.hw /\ r.tail = me.tail
      /\ r.repair = me.repair
    BY <1>1 DEF WorkerStates
  <2>3. Become(w, r)
    BY <1>4
  <2> HIDE DEF r
  <2>4. PlaceOK(me, log) /\ me.pc \in Executing /\ r.pc \in Executing
    BY <1>1, <2>2 DEF WorkerOK, Executing, Watched, InTurn
  <2> QED
    BY <1>1, <2>1, <2>2, <2>3, <2>4, TurnStep DEF PlaceOK
<1> QED
  BY <1>2, <1>3, <1>4 DEF ModelReplies

(* ToolsReturn keeps the invariant: the round is the worker's last entry   *)
LEMMA ToolsReturnKeeps ==
    ASSUME IInv, NEW w \in Workers, ToolsReturn(w)
    PROVE  IInv'
<1> DEFINE me == wk[w]
           ks == log[me.own].calls
<1>1. /\ me \in WorkerStates /\ WorkerOK(me, log, bound) /\ me.pc = "tools"
      /\ UNCHANGED <<log, ready, frontend, owner, losses>> /\ log \in Seq(Entries)
      /\ DOMAIN log = 1..Len(log) /\ Len(log) \in Nat /\ Become(w, Writing(w, ToolResults(ks)))
  BY Me DEF ToolsReturn
<1>2. me.own \in DOMAIN log /\ log[me.own].kind = "calls"
  BY <1>1 DEF WorkerOK, PlaceOK, WorkerStates
<1>3. log[me.own] \in Entries
  BY <1>1, <1>2
<1>4. ks \in SUBSET CallIds /\ \A k \in ks : Called(log, k)
  BY <1>2, <1>3 DEF Entries, Called
<1> HIDE DEF ks
<1> DEFINE e == ToolResults(ks)
<1>5. e \in Entries /\ e.kind = "results" /\ e.calls = ks /\ e.mid = 0 /\ e.thru = 0
  BY <1>4, EntryFields
<1> HIDE DEF e
<1> QED
  BY <1>1, <1>4, <1>5, WritingKeeps DEF e

(* AppendLands keeps the invariant                                         *)
LEMMA AppendLandsKeeps ==
    ASSUME IInv, NEW w \in Workers, AppendLands(w)
    PROVE  IInv'
<1> DEFINE me == wk[w]
           e == me.pend
           x == AfterAppend(e.kind)
           r == [me EXCEPT !.pc = x, !.own = Len(log) + 1, !.pend = Blank, !.tail = 0]
<1>1. /\ me \in WorkerStates /\ WorkerOK(me, log, bound) /\ me.pc = "append"
      /\ UNCHANGED <<ready, frontend, owner, losses>> /\ Len(log) \in Nat
      /\ log' = Append(log, e) /\ (wk' = Stamped(w, r) \/ Become(w, r))
  BY Me DEF AppendLands
<1>2. /\ e \in Entries /\ e.kind \in {"calls", "results", "assistant"}
      /\ e.kind = "assistant" => e.calls = {}
      /\ e.mid = 0 /\ e.thru = 0
      /\ e.kind = "results" => \A k \in e.calls : Called(log, k)
      /\ e.kind = "calls" => \A i \in DOMAIN log : e.calls \intersect log[i].calls = {}
  BY <1>1 DEF WorkerOK, PendOK, WorkerStates
<1>3. x \in {"tools", "inject", "end"} /\ (x = "tools" => e.kind = "calls")
  BY <1>2 DEF AfterAppend
<1> HIDE DEF x
<1>4. EntryOK(log, e)
  <2>1. log # <<>>
    BY <1>1 DEF WorkerOK, PlaceOK, IsActivation
  <2> QED
    BY <1>1, <1>2, <2>1 DEF EntryOK
<1>5. ASSUME NEW v \in Workers \ {w}, wk[v].pend.kind = "calls"
      PROVE  wk[v].pend.calls \intersect e.calls = {}
  <2>1. CASE e.kind = "calls"
    BY <1>5, <2>1 DEF IInv, WorkersOK, Apart
  <2>2. CASE e.kind = "results"
    BY <1>2, <1>5, <2>2, AnswersAreApart
  <2>3. CASE e.kind = "assistant"
    BY <1>2, <2>3
  <2> QED
    BY <1>2, <2>1, <2>2, <2>3
<1>6. r \in WorkerStates
  <2>1. Len(log) + 1 \in Nat
    BY <1>1
  <2> QED
    BY <1>1, <1>3, <2>1, BlankEntry DEF WorkerStates, Phases, Executing, Watched, InTurn
<1>7. /\ r.pc = x /\ r.newer = me.newer /\ r.job = me.job /\ r.inv = me.inv
      /\ r.stop = me.stop /\ r.failed = me.failed /\ r.pend = Blank /\ r.own = Len(log) + 1
      /\ r.watch = me.watch /\ r.cursor = me.cursor /\ r.hw = me.hw /\ r.tail = 0
      /\ r.repair = me.repair
  BY <1>1 DEF WorkerStates
<1> HIDE DEF r
<1>8. PlaceOK(me, log) /\ me.pc \in Executing /\ r.pc \in Executing /\ r.pc \notin {"append", "repair"}
  BY <1>1, <1>3, <1>7 DEF WorkerOK, Executing, Watched, InTurn
<1>9. /\ r.own <= Len(log) + 1 /\ r.watch <= Len(log) /\ r.cursor <= Len(log)
      /\ r.hw <= Len(log) /\ r.tail <= Len(log)
      /\ \A i \in r.repair : i \in DOMAIN log /\ log[i].kind = "calls"
  BY <1>1, <1>7, <1>8 DEF PlaceOK
<1>10. r.pend.kind # "calls" /\ e.kind \notin {"user", "cancel"}
  BY <1>2, <1>7, BlankEntry
<1>11. r.pc = "tools" => r.own = Len(log) + 1 /\ e.kind = "calls"
  BY <1>3, <1>7
<1> HIDE DEF e
<1> QED
  BY <1>1, <1>4, <1>5, <1>6, <1>7, <1>8, <1>9, <1>10, <1>11, TurnAppend

(* A failed append leaves nothing to write                                 *)
LEMMA AppendFailedKeeps ==
    ASSUME IInv, NEW w \in Workers, wk[w].pc = "append", NEW x \in {"error", "finish"},
           NEW A \in SUBSET {"ctrlc", "failover"},
           Become(w, [wk[w] EXCEPT !.pc = x, !.pend = Blank, !.abort = A]),
           UNCHANGED <<log, ready, frontend, owner, losses>>
    PROVE  IInv'
<1> DEFINE me == wk[w]
           r == [me EXCEPT !.pc = x, !.pend = Blank, !.abort = A]
<1>1. me \in WorkerStates /\ WorkerOK(me, log, bound) /\ Become(w, r)
  BY Me
<1>2. r \in WorkerStates
  BY <1>1, BlankEntry DEF WorkerStates, Phases, Executing, Watched
<1>3. /\ r.pc = x /\ r.newer = me.newer /\ r.job = me.job /\ r.inv = me.inv
      /\ r.stop = me.stop /\ r.failed = me.failed /\ r.pend = Blank /\ r.own = me.own
      /\ r.watch = me.watch /\ r.cursor = me.cursor /\ r.hw = me.hw /\ r.tail = me.tail
      /\ r.repair = me.repair
  BY <1>1 DEF WorkerStates
<1> HIDE DEF r
<1>4. PlaceOK(me, log) /\ me.pc \in Executing /\ r.pc \in Executing
  BY <1>1, <1>3 DEF WorkerOK, Executing, Watched, InTurn
<1>5. r.pend.kind # "calls"
  BY <1>3, BlankEntry
<1> QED
  BY <1>1, <1>2, <1>3, <1>4, <1>5, TurnStep DEF PlaceOK

(* AppendConflicts keeps the invariant: the expected tail only moves past  *)
(* entries that are no Cancel                                              *)
LEMMA AppendConflictsKeeps ==
    ASSUME IInv, NEW w \in Workers, AppendConflicts(w)
    PROVE  IInv'
<1> DEFINE me == wk[w]
           A == me.abort \union {"ctrlc"}
           r == [me EXCEPT !.tail = Len(log)]
<1>1. /\ me \in WorkerStates /\ WorkerOK(me, log, bound) /\ me.pc = "append"
      /\ UNCHANGED <<log, ready, frontend, owner, losses>> /\ Len(log) \in Nat
  BY Me DEF AppendConflicts
<1>2. A \in SUBSET {"ctrlc", "failover"} /\ me.abort \in SUBSET {"ctrlc", "failover"}
  BY <1>1 DEF WorkerStates
<1>3. CASE Become(w, [me EXCEPT !.pc = "finish", !.pend = Blank, !.abort = A])
  BY <1>1, <1>2, <1>3, AppendFailedKeeps
<1>4. CASE Become(w, AppendFailed(w))
  <2>1. AppendFailed(w) = [me EXCEPT !.pc = "error", !.pend = Blank, !.abort = me.abort]
    BY <1>1 DEF AppendFailed, WorkerStates
  <2>2. Become(w, [me EXCEPT !.pc = "error", !.pend = Blank, !.abort = me.abort])
    BY <1>4, <2>1
  <2> QED
    BY <1>1, <1>2, <2>2, AppendFailedKeeps
<1>5. CASE ~ InterruptedBetween(me.tail, Len(log)) /\ Become(w, r)
  <2>1. r \in WorkerStates
    BY <1>1 DEF WorkerStates
  <2>2. /\ r.pc = me.pc /\ r.newer = me.newer /\ r.job = me.job /\ r.inv = me.inv
      /\ r.stop = me.stop /\ r.failed = me.failed /\ r.pend = me.pend /\ r.own = me.own
      /\ r.watch = me.watch /\ r.cursor = me.cursor /\ r.hw = me.hw /\ r.tail = Len(log)
      /\ r.repair = me.repair
        /\ r.held = me.held
    BY <1>1 DEF WorkerStates
  <2>3. Become(w, r)
    BY <1>5
  <2> HIDE DEF r
  <2>4. /\ me.own \in Nat /\ me.tail \in Nat /\ me.own <= me.tail /\ me.tail <= Len(log)
        /\ \A i \in (me.own + 1)..me.tail : log[i].kind # "cancel"
    BY <1>1 DEF WorkerOK, PlaceOK, PendOK, WorkerStates
  <2>5. \A i \in (me.tail + 1)..Len(log) : log[i].kind # "cancel"
    BY <1>5 DEF InterruptedBetween
  <2>6. \A i \in (me.own + 1)..Len(log) : log[i].kind # "cancel"
    BY <1>1, <2>4, <2>5
  <2>7. PlaceOK(r, log)
    BY <1>1, <2>2 DEF WorkerOK, PlaceOK, NoLease
  <2>8. PendOK(r, log)
    BY <1>1, <2>2, <2>4, <2>6 DEF WorkerOK, PendOK
  <2>9. me.pc \in Executing
    BY <1>1 DEF Executing, Watched, InTurn
  <2>10. SettleOK(r, log, bound)
    BY <1>1, <2>1, <2>2, <2>9, TurnSettles
  <2> QED
    BY <1>1, <2>1, <2>2, <2>3, <2>7, <2>8, <2>10, LocalStep DEF WorkerOK
<1> QED
  BY <1>3, <1>4, <1>5 DEF AppendConflicts

(* AppendFencedOut keeps the invariant                                     *)
LEMMA AppendFencedOutKeeps ==
    ASSUME IInv, NEW w \in Workers, AppendFencedOut(w)
    PROVE  IInv'
<1>1. wk[w] \in WorkerStates
  BY Me
<1>2. AppendFailed(w) = [wk[w] EXCEPT !.pc = "error", !.pend = Blank, !.abort = wk[w].abort]
        /\ wk[w].abort \in SUBSET {"ctrlc", "failover"}
  BY <1>1 DEF AppendFailed, WorkerStates
<1>3. /\ wk[w].pc = "append" /\ UNCHANGED <<log, ready, frontend, owner, losses>>
      /\ Become(w, [wk[w] EXCEPT !.pc = "error", !.pend = Blank, !.abort = wk[w].abort])
  BY <1>2 DEF AppendFencedOut
<1> QED
  BY <1>2, <1>3, AppendFailedKeeps

(* Inject keeps the invariant                                              *)
LEMMA InjectKeeps ==
    ASSUME IInv, NEW w \in Workers, Inject(w)
    PROVE  IInv'
<1> DEFINE me == wk[w]
           new == new_user_messages_since(log, me.cursor)
           n == Max({me.cursor} \union new)
<1>1. /\ me \in WorkerStates /\ WorkerOK(me, log, bound) /\ me.pc = "inject" /\ LogOK(log)
      /\ UNCHANGED <<log, ready, frontend, owner, losses>> /\ Len(log) \in Nat
  BY Me DEF Inject, IInv
<1>2. me.cursor \in 0..Len(log)
  BY <1>1 DEF WorkerStates, WorkerOK, PlaceOK
<1>3. n \in 0..Len(log)
  <2>1. new \in SUBSET (0..Len(log))
    BY <1>1, PromptsAreEntries DEF new_user_messages_since
  <2>2. {me.cursor} \union new \in SUBSET (0..Len(log)) /\ {me.cursor} \union new # {}
    BY <1>2, <2>1
  <2> HIDE DEF new
  <2> QED
    BY <1>1, <2>2, MaxOfBounded
<1> HIDE DEF n
<1>4. PICK x \in {"error", "model"}, c \in {me.cursor, n} :
        Become(w, [me EXCEPT !.pc = x, !.cursor = c])
  <2>1. [me EXCEPT !.pc = "error"] = [me EXCEPT !.pc = "error", !.cursor = me.cursor]
    BY <1>1 DEF WorkerStates
  <2>2. Become(w, [me EXCEPT !.pc = "error"]) \/ Become(w, [me EXCEPT !.pc = "model", !.cursor = n])
    BY DEF Inject, n
  <2> QED
    BY <2>1, <2>2
<1> DEFINE r == [me EXCEPT !.pc = x, !.cursor = c]
<1>5. c \in Nat /\ c <= Len(log)
  BY <1>1, <1>2, <1>3, <1>4
<1>6. r \in WorkerStates
  BY <1>1, <1>4, <1>5 DEF WorkerStates, Phases, Executing, Watched, InTurn
<1>7. /\ r.pc = x /\ r.newer = me.newer /\ r.job = me.job /\ r.inv = me.inv
      /\ r.stop = me.stop /\ r.failed = me.failed /\ r.pend = me.pend /\ r.own = me.own
      /\ r.watch = me.watch /\ r.cursor = c /\ r.hw = me.hw /\ r.tail = me.tail
      /\ r.repair = me.repair
  BY <1>1 DEF WorkerStates
<1>8. Become(w, r)
  BY <1>4
<1> HIDE DEF r
<1>9. PlaceOK(me, log) /\ me.pc \in Executing /\ r.pc \in Executing
  BY <1>1, <1>4, <1>7 DEF WorkerOK, Executing, Watched, InTurn
<1> QED
  BY <1>1, <1>4, <1>5, <1>6, <1>7, <1>8, <1>9, TurnStep DEF PlaceOK

(* EndTurn keeps the invariant                                             *)
LEMMA EndTurnKeeps ==
    ASSUME IInv, NEW w \in Workers, EndTurn(w)
    PROVE  IInv'
<1> DEFINE me == wk[w]
           h == Max({me.hw, me.cursor})
           e == TurnEnd(me.cursor)
           r0 == [me EXCEPT !.pc = "drain", !.hw = h]
           r1 == [r0 EXCEPT !.own = Len(log) + 1]
<1>1. /\ me \in WorkerStates /\ WorkerOK(me, log, bound) /\ me.pc = "end"
      /\ UNCHANGED <<ready, frontend, owner, losses>> /\ Len(log) \in Nat
      /\ \/ log' = Append(log, e) /\ wk' = Stamped(w, r1)
         \/ UNCHANGED log /\ Become(w, r0)
  BY Me DEF EndTurn
<1>2. /\ h \in Nat /\ h <= Len(log) /\ me.cursor \in Nat /\ me.cursor <= Len(log)
      /\ Len(log) + 1 \in Nat
  BY <1>1, LaterOf DEF WorkerStates, WorkerOK, PlaceOK
<1> HIDE DEF h
<1>3. PlaceOK(me, log) /\ me.pc \in Executing /\ "drain" \in Executing
  BY <1>1 DEF WorkerOK, Executing, Watched, InTurn
<1>4. r0 \in WorkerStates
  BY <1>1, <1>2 DEF WorkerStates, Phases, Executing, Watched, InTurn
<1>5. /\ r0.pc = "drain" /\ r0.newer = me.newer /\ r0.job = me.job /\ r0.inv = me.inv
      /\ r0.stop = me.stop /\ r0.failed = me.failed /\ r0.pend = me.pend /\ r0.own = me.own
      /\ r0.watch = me.watch /\ r0.cursor = me.cursor /\ r0.hw = h /\ r0.tail = me.tail
      /\ r0.repair = me.repair
  BY <1>1 DEF WorkerStates
<1> HIDE DEF r0
<1>6. CASE UNCHANGED log /\ Become(w, r0)
  BY <1>1, <1>2, <1>3, <1>4, <1>5, <1>6, TurnStep DEF PlaceOK
<1>7. CASE log' = Append(log, e) /\ wk' = Stamped(w, r1)
  <2>1. r1 \in WorkerStates
    BY <1>2, <1>4 DEF WorkerStates
  <2>2. /\ r1.pc = "drain" /\ r1.newer = me.newer /\ r1.job = me.job /\ r1.inv = me.inv
      /\ r1.stop = me.stop /\ r1.failed = me.failed /\ r1.pend = me.pend /\ r1.own = Len(log) + 1
      /\ r1.watch = me.watch /\ r1.cursor = me.cursor /\ r1.hw = h /\ r1.tail = me.tail
      /\ r1.repair = me.repair
    BY <1>4, <1>5 DEF WorkerStates
  <2> HIDE DEF r1
  <2>3. {} \in SUBSET CallIds
    OBVIOUS
  <2>4. /\ e \in Entries /\ e.kind = "turnEnd" /\ e.calls = {} /\ e.mid = 0
        /\ e.thru = me.cursor
    BY <1>2, <2>3, EntryFields
  <2> HIDE DEF e
  <2>5. EntryOK(log, e)
    <3>1. log # <<>>
      BY <1>1 DEF WorkerOK, PlaceOK, IsActivation
    <3> QED
      BY <1>1, <1>2, <2>4, <3>1 DEF EntryOK
  <2>6. \A v \in Workers : wk[v].pend.kind = "calls" => wk[v].pend.calls \intersect e.calls = {}
    BY <2>4
  <2>7. /\ r1.own <= Len(log) + 1 /\ r1.watch <= Len(log) /\ r1.cursor <= Len(log)
        /\ r1.hw <= Len(log) /\ r1.tail <= Len(log)
        /\ \A i \in r1.repair : i \in DOMAIN log /\ log[i].kind = "calls"
    BY <1>1, <1>2, <1>3, <2>2 DEF PlaceOK
  <2>8. r1.pend.kind = "calls" => r1.pend.calls \intersect e.calls = {}
    BY <2>4
  <2>9. e.kind \notin {"user", "cancel"} /\ r1.failed = me.failed /\ wk' = Stamped(w, r1)
        /\ log' = Append(log, e)
    BY <1>7, <2>2, <2>4
  <2> QED
    BY <1>1, <1>3, <2>1, <2>2, <2>5, <2>6, <2>7, <2>8, <2>9, TurnAppend
<1> QED
  BY <1>1, <1>6, <1>7

(* Drain keeps the invariant                                               *)
LEMMA DrainKeeps ==
    ASSUME IInv, NEW w \in Workers, Drain(w)
    PROVE  IInv'
<1> DEFINE me == wk[w]
<1>1. /\ me \in WorkerStates /\ WorkerOK(me, log, bound) /\ me.pc = "drain"
      /\ UNCHANGED <<log, ready, frontend, owner, losses>> /\ Len(log) \in Nat
  BY Me DEF Drain
<1>2. PICK x \in {"finish", "derive"}, b \in {FALSE, me.input} :
        Become(w, [me EXCEPT !.pc = x, !.input = b])
  <2> DEFINE D == ~ is_running(w) \/ (/\ ~ wk[w].input
                      /\ new_user_messages_since(log, wk[w].hw) = {}
                      /\ reconstruct_state(log).status # "InFlightResumable")
             R == is_running(w)
  <2>1. Become(w, [me EXCEPT !.pc = IF D THEN "finish" ELSE "derive",
                             !.input = IF R THEN FALSE ELSE me.input])
    BY DEF Drain
  <2> HIDE DEF D, R
  <2> QED
    BY <2>1
<1> DEFINE r == [me EXCEPT !.pc = x, !.input = b]
<1>3. b \in BOOLEAN
  BY <1>1, <1>2 DEF WorkerStates
<1>4. r \in WorkerStates
  BY <1>1, <1>2, <1>3 DEF WorkerStates, Phases, Executing, Watched, InTurn
<1>5. /\ r.pc = x /\ r.newer = me.newer /\ r.job = me.job /\ r.inv = me.inv
      /\ r.stop = me.stop /\ r.failed = me.failed /\ r.pend = me.pend /\ r.own = me.own
      /\ r.watch = me.watch /\ r.cursor = me.cursor /\ r.hw = me.hw /\ r.tail = me.tail
      /\ r.repair = me.repair
  BY <1>1 DEF WorkerStates
<1>6. Become(w, r)
  BY <1>2
<1> HIDE DEF r
<1>7. PlaceOK(me, log) /\ me.pc \in Executing /\ r.pc \in Executing
  BY <1>1, <1>2, <1>5 DEF WorkerOK, Executing, Watched, InTurn
<1> QED
  BY <1>1, <1>2, <1>4, <1>5, <1>6, <1>7, TurnStep DEF PlaceOK

-----------------------------------------------------------------------------
(* Finishing an activation *)

(* RecordError keeps the invariant                                         *)
LEMMA RecordErrorKeeps ==
    ASSUME IInv, NEW w \in Workers, RecordError(w)
    PROVE  IInv'
<1> DEFINE me == wk[w]
           r0 == [me EXCEPT !.pc = "finish"]
           r1 == [r0 EXCEPT !.failed = TRUE]
<1>1. /\ me \in WorkerStates /\ WorkerOK(me, log, bound) /\ me.pc = "error"
      /\ UNCHANGED <<ready, frontend, owner, losses>> /\ Len(log) \in Nat
      /\ \/ log' = Append(log, Error) /\ wk' = Stamped(w, r1)
         \/ UNCHANGED log /\ Become(w, r0)
  BY Me DEF RecordError
<1>2. PlaceOK(me, log) /\ me.pc \in Executing /\ "finish" \in Executing
  BY <1>1 DEF WorkerOK, Executing, Watched
<1>3. r0 \in WorkerStates
  BY <1>1 DEF WorkerStates, Phases, Executing
<1>4. /\ r0.pc = "finish" /\ r0.newer = me.newer /\ r0.job = me.job /\ r0.inv = me.inv
      /\ r0.stop = me.stop /\ r0.failed = me.failed /\ r0.pend = me.pend /\ r0.own = me.own
      /\ r0.watch = me.watch /\ r0.cursor = me.cursor /\ r0.hw = me.hw /\ r0.tail = me.tail
      /\ r0.repair = me.repair
  BY <1>1 DEF WorkerStates
<1> HIDE DEF r0
<1>5. CASE UNCHANGED log /\ Become(w, r0)
  BY <1>1, <1>2, <1>3, <1>4, <1>5, TurnStep DEF PlaceOK
<1>6. CASE log' = Append(log, Error) /\ wk' = Stamped(w, r1)
  <2>1. r1 \in WorkerStates
    BY <1>3 DEF WorkerStates
  <2>2. /\ r1.pc = "finish" /\ r1.newer = me.newer /\ r1.job = me.job /\ r1.inv = me.inv
      /\ r1.stop = me.stop /\ r1.failed = TRUE /\ r1.pend = me.pend /\ r1.own = me.own
      /\ r1.watch = me.watch /\ r1.cursor = me.cursor /\ r1.hw = me.hw /\ r1.tail = me.tail
      /\ r1.repair = me.repair
    BY <1>3, <1>4 DEF WorkerStates
  <2> HIDE DEF r1
  <2>3. {} \in SUBSET CallIds /\ 0 \in Nat
    OBVIOUS
  <2>4. /\ Error \in Entries /\ Error.kind = "error" /\ Error.calls = {} /\ Error.mid = 0
        /\ Error.thru = 0
    BY <2>3, EntryFields
  <2>5. EntryOK(log, Error)
    <3>1. log # <<>>
      BY <1>1 DEF WorkerOK, PlaceOK, IsActivation
    <3> QED
      BY <1>1, <2>4, <3>1 DEF EntryOK
  <2>6. \A v \in Workers : wk[v].pend.kind = "calls" => wk[v].pend.calls \intersect Error.calls = {}
    BY <2>4
  <2>7. /\ r1.own <= Len(log) + 1 /\ r1.watch <= Len(log) /\ r1.cursor <= Len(log)
        /\ r1.hw <= Len(log) /\ r1.tail <= Len(log)
        /\ \A i \in r1.repair : i \in DOMAIN log /\ log[i].kind = "calls"
    <3>1. me.own \in Nat
      BY <1>1 DEF WorkerStates
    <3> QED
      BY <1>1, <1>2, <2>2, <3>1 DEF PlaceOK
  <2>8. r1.pend.kind = "calls" => r1.pend.calls \intersect Error.calls = {}
    BY <2>4
  <2>9. Error.kind \notin {"user", "cancel"} /\ wk' = Stamped(w, r1) /\ log' = Append(log, Error)
    BY <1>6, <2>4
  <2> QED
    BY <1>1, <1>2, <2>1, <2>2, <2>4, <2>5, <2>6, <2>7, <2>8, <2>9, TurnAppend
<1> QED
  BY <1>1, <1>5, <1>6

(* Finish keeps the invariant                                              *)
LEMMA FinishKeeps ==
    ASSUME IInv, NEW w \in Workers, Finish(w)
    PROVE  IInv'
<1> DEFINE me == wk[w]
           r == [me EXCEPT !.pc = "stop"]
<1>1. /\ me \in WorkerStates /\ WorkerOK(me, log, bound) /\ me.pc = "finish"
      /\ UNCHANGED <<log, frontend, losses>> /\ losses \in 0..MaxLosses
  BY Me DEF Finish
<1>2. CASE Become(w, r) /\ UNCHANGED <<ready, owner>>
  <2>1. r \in WorkerStates
    BY <1>1 DEF WorkerStates, Phases, Stopping
  <2>2. /\ r.pc = "stop" /\ r.newer = me.newer /\ r.job = me.job /\ r.inv = me.inv
      /\ r.stop = me.stop /\ r.failed = me.failed /\ r.pend = me.pend /\ r.own = me.own
      /\ r.watch = me.watch /\ r.cursor = me.cursor /\ r.hw = me.hw /\ r.tail = me.tail
      /\ r.repair = me.repair
    BY <1>1 DEF WorkerStates
  <2>3. Become(w, r)
    BY <1>2
  <2> HIDE DEF r
  <2>4. PlaceOK(me, log) /\ me.pc \in Executing
    BY <1>1 DEF WorkerOK, Executing
  <2> QED
    BY <1>1, <1>2, <2>1, <2>2, <2>3, <2>4, TurnStep DEF PlaceOK
<1>3. CASE (Ack(w) \/ Nak(w)) /\ owner' \in {owner, None}
  BY <1>1, <1>3, GivesUp DEF Ack, Nak
<1> QED
  BY <1>2, <1>3 DEF Finish, Released

(* The prompts of an invocation, of which the code stops the latest        *)
LEMMA LatestPrompt ==
    ASSUME NEW l, LogOK(l), NEW x
    PROVE  LET p == invocation_prompt_seq(l, x)
           IN  /\ p \in 0..Len(l)
               /\ \A i \in DOMAIN l : l[i].kind = "user" /\ bound[l[i].id] = x => i <= p
<1> DEFINE S == {i \in Prompts(l) : bound[l[i].id] = x}
<1>1. S \in SUBSET (1..Len(l)) /\ Len(l) \in Nat
  BY PromptsAreEntries
<1>2. \A i \in DOMAIN l : l[i].kind = "user" /\ bound[l[i].id] = x => i \in S
  BY UsersArePrompts
<1>3. invocation_prompt_seq(l, x) = Max({0} \union S)
  BY DEF invocation_prompt_seq
<1> HIDE DEF S
<1>4. Max({0} \union S) \in 0..Len(l) /\ \A y \in S : y <= Max({0} \union S)
  BY <1>1, MaxWithZero
<1> QED
  BY <1>2, <1>3, <1>4

(* A terminal entry of a later prompt of the invocation settles this one   *)
LEMMA LaterTerminalCovers ==
    ASSUME NEW l \in Seq(Entries), NEW n \in Nat, NEW p \in Nat, n <= p,
           invocation_terminal_seq(l, p) # 0
    PROVE  prompt_is_covered(l, n)
<1>1. PICK i \in DOMAIN l : i > p /\ Covers(l, i, p)
  BY CoveredByAnEntry
<1>2. l[i] \in Entries /\ i \in Nat
  BY <1>1
<1>3. l[i].thru \in Nat
  BY <1>2 DEF Entries
<1>4. Covers(l, i, n)
  BY <1>1, <1>2, <1>3 DEF Covers
<1> QED
  BY <1>1, <1>4, CoveredByAnEntry

(* StopLoad keeps the invariant: what it stops is no earlier than the      *)
(* prompt of its delivery                                                  *)
LEMMA StopLoadKeeps ==
    ASSUME IInv, NEW w \in Workers, StopLoad(w)
    PROVE  IInv'
<1> DEFINE me == wk[w]
           p == invocation_prompt_seq(log, me.inv)
           t == invocation_terminal_seq(log, p)
           x == IF t # 0 THEN "windUp" ELSE "stopAppend"
           r == [me EXCEPT !.stop = p, !.tail = Len(log), !.pc = x]
<1>1. /\ me \in WorkerStates /\ WorkerOK(me, log, bound) /\ me.pc = "stop" /\ LogOK(log)
      /\ UNCHANGED <<log, frontend, owner, losses>> /\ Len(log) \in Nat
      /\ log \in Seq(Entries) /\ losses \in 0..MaxLosses
  BY Me DEF StopLoad, IInv
<1>2. CASE GiveBack(w)
  BY <1>1, <1>2, GivesUp DEF GiveBack, Ack, Nak
<1>3. CASE Become(w, r) /\ UNCHANGED ready
  <2>1. /\ p \in 0..Len(log)
        /\ \A i \in DOMAIN log : log[i].kind = "user" /\ bound[log[i].id] = me.inv => i <= p
    BY <1>1, LatestPrompt
  <2> HIDE DEF p
  <2>2. /\ p \in Nat /\ p <= Len(log)
        /\ me.job \in Nat /\ me.job \in DOMAIN log
        /\ log[me.job].kind = "user" => me.job <= p
    BY <1>1, <2>1 DEF WorkerOK, PlaceOK, SettleOK, IsActivation, Running, Stopping, WorkerStates
  <2>3. x \in {"windUp", "stopAppend"}
            /\ (log[me.job].kind = "user" /\ x = "windUp" => prompt_is_covered(log, me.job))
    BY <1>1, <2>2, LaterTerminalCovers
  <2> HIDE DEF x
  <2>4. r \in WorkerStates
    BY <1>1, <2>2, <2>3 DEF WorkerStates, Phases, Winding, Stopping
  <2>5. /\ r.pc = x /\ r.newer = me.newer /\ r.job = me.job /\ r.inv = me.inv
      /\ r.stop = p /\ r.failed = me.failed /\ r.pend = me.pend /\ r.own = me.own
      /\ r.watch = me.watch /\ r.cursor = me.cursor /\ r.hw = me.hw /\ r.tail = Len(log)
      /\ r.repair = me.repair
        /\ r.held = me.held /\ r.more = me.more
    BY <1>1 DEF WorkerStates
  <2>6. Become(w, r)
    BY <1>3
  <2> HIDE DEF r
  <2>7. PlaceOK(r, log)
    BY <1>1, <2>2, <2>3, <2>5 DEF WorkerOK, PlaceOK, NoLease, Running, Stopping
  <2>8. PendOK(r, log)
    BY <1>1, <2>3, <2>5 DEF WorkerOK, PendOK
  <2>9. SettleOK(r, log, bound)
    <3>1. r.failed => \E i \in DOMAIN log : i > r.job /\ log[i].kind = "error"
      BY <1>1, <2>5 DEF WorkerOK, SettleOK
    <3>2. log[me.job].kind = "user" => me.inv = bound[log[me.job].id]
      BY <1>1 DEF WorkerOK, SettleOK, Running, Stopping
    <3>3. r.pc = "windUp" \/ r.pc = "stopAppend"
      BY <2>3, <2>5
    <3> QED
      BY <2>2, <2>3, <2>5, <3>1, <3>2, <3>3 DEF SettleOK, Winding
  <2> QED
    BY <1>1, <1>3, <2>4, <2>5, <2>6, <2>7, <2>8, <2>9, LocalStep DEF WorkerOK
<1> QED
  BY <1>2, <1>3 DEF StopLoad

(* StopAppend keeps the invariant: the Cancel of a worker carries the      *)
(* invocation's name, which is no frontend's cancellation id               *)
LEMMA StopAppendKeeps ==
    ASSUME IInv, NEW w \in Workers, StopAppend(w)
    PROVE  IInv'
<1> DEFINE me == wk[w]
           n == Len(log) + 1
           e == Cancel(me.inv)
           t == invocation_terminal_seq(log, me.stop)
           x == IF t # 0 THEN "windUp" ELSE "stopAppend"
           r == [me EXCEPT !.tail = Len(log), !.pc = x]
           q == [me EXCEPT !.pc = "windUp"]
<1>1. /\ me \in WorkerStates /\ WorkerOK(me, log, bound) /\ me.pc = "stopAppend" /\ LogOK(log)
      /\ UNCHANGED <<frontend, owner, losses>> /\ Len(log) \in Nat
      /\ log \in Seq(Entries) /\ DOMAIN log = 1..Len(log)
  BY Me DEF StopAppend, IInv
<1>2. /\ me.job \in Nat /\ me.stop \in Nat /\ IsActivation(log, me.job) /\ me.inv \in PromptIds
      /\ log[me.job].kind = "user" => me.job <= me.stop /\ me.inv = bound[log[me.job].id]
      /\ me.tail \in Nat
  BY <1>1 DEF WorkerOK, PlaceOK, SettleOK, Running, Stopping, WorkerStates
<1>3. CASE Become(w, r) /\ UNCHANGED <<log, ready>>
  <2>1. x \in {"windUp", "stopAppend"}
            /\ (log[me.job].kind = "user" /\ x = "windUp" => prompt_is_covered(log, me.job))
    BY <1>1, <1>2, LaterTerminalCovers
  <2> HIDE DEF x
  <2>2. r \in WorkerStates
    BY <1>1, <2>1 DEF WorkerStates, Phases, Winding, Stopping
  <2>3. /\ r.pc = x /\ r.newer = me.newer /\ r.job = me.job /\ r.inv = me.inv
      /\ r.stop = me.stop /\ r.failed = me.failed /\ r.pend = me.pend /\ r.own = me.own
      /\ r.watch = me.watch /\ r.cursor = me.cursor /\ r.hw = me.hw /\ r.tail = Len(log)
      /\ r.repair = me.repair
        /\ r.held = me.held /\ r.more = me.more
    BY <1>1 DEF WorkerStates
  <2>4. Become(w, r)
    BY <1>3
  <2> HIDE DEF r
  <2>5. PlaceOK(r, log)
    BY <1>1, <2>1, <2>3 DEF WorkerOK, PlaceOK, NoLease, Running, Stopping
  <2>6. PendOK(r, log)
    BY <1>1, <2>1, <2>3 DEF WorkerOK, PendOK
  <2>7. SettleOK(r, log, bound)
    <3>1. r.failed => \E i \in DOMAIN log : i > r.job /\ log[i].kind = "error"
      BY <1>1, <2>3 DEF WorkerOK, SettleOK
    <3>2. r.pc = "windUp" \/ r.pc = "stopAppend"
      BY <2>1, <2>3
    <3> QED
      BY <1>2, <2>1, <2>3, <3>1, <3>2 DEF SettleOK, Winding
  <2> QED
    BY <1>1, <1>3, <2>2, <2>3, <2>4, <2>5, <2>6, <2>7, LocalStep DEF WorkerOK
<1>4. CASE log' = Append(log, e) /\ ready' = ready \union {n} /\ Become(w, q)
  <2>1. e \in Entries
    BY <1>2, BlankEntry DEF Entries, Cancel
  <2>2. e.kind = "cancel" /\ e.id = me.inv /\ e.calls = {} /\ e.thru = 0 /\ e.mid = 0
    BY DEF Cancel, Blank
  <2> HIDE DEF e
  <2>3. /\ Len(log') = n /\ log'[n] = e /\ DOMAIN log' = 1..n
        /\ \A i \in DOMAIN log : log'[i] = log[i] /\ i \in DOMAIN log' /\ log' \in Seq(Entries)
    BY <1>1, <1>4, <2>1, Grown
  <2>4. EntryOK(log, e)
    <3>1. log # <<>>
      BY <1>2 DEF IsActivation
    <3> QED
      BY <1>1, <2>1, <2>2, <3>1 DEF EntryOK
  <2>5. \A c \in CancelIds : ~ IsCancelOf(e, c)
    BY <1>2, <2>2, TurnConstants DEF IsCancelOf
  <2>6. q \in WorkerStates
    BY <1>1 DEF WorkerStates, Phases, Winding
  <2>7. /\ q.pc = "windUp" /\ q.newer = me.newer /\ q.job = me.job /\ q.inv = me.inv
      /\ q.stop = me.stop /\ q.failed = me.failed /\ q.pend = me.pend /\ q.own = me.own
      /\ q.watch = me.watch /\ q.cursor = me.cursor /\ q.hw = me.hw /\ q.tail = me.tail
      /\ q.repair = me.repair
        /\ q.held = me.held /\ q.more = me.more
    BY <1>1 DEF WorkerStates
  <2> HIDE DEF q
  <2>8. \A v \in Workers : wk[v].pend.kind = "calls" => wk[v].pend.calls \intersect e.calls = {}
    BY <2>2
  <2>9. WorkerOK(me, log', bound)
    BY <1>1, <1>4, <2>1, <2>8, WorkerGrows
  <2>10. prompt_is_covered(log', me.job)
    <3>1. n \in DOMAIN log' /\ Covers(log', n, me.job)
      BY <1>1, <1>2, <2>2, <2>3 DEF Covers, IsActivation
    <3>2. log' \in Seq(Entries)
      BY <1>1, <1>2, <2>3 DEF IsActivation
    <3> QED
      BY <3>1, <3>2, CoveredByAnEntry
  <2>11. PlaceOK(q, log')
    BY <2>7, <2>9, <1>1 DEF WorkerOK, PlaceOK, NoLease, Running, Executing, Watched, InTurn, Stopping
  <2>12. PendOK(q, log')
    BY <1>1, <2>7, <2>9 DEF WorkerOK, PendOK
  <2>13. SettleOK(q, log', bound)
    BY <1>1, <2>7, <2>9, <2>10 DEF WorkerOK, SettleOK, Running, Executing, Watched, InTurn, Stopping
  <2>14. /\ wk' \in [Workers -> WorkerStates] /\ OthersStay(w) /\ wk'[w] = q
         /\ w \notin wk'[w].newer
    BY <1>4, <2>6, <2>7, Becomes
  <2>15. \A v \in Workers \ {w} : Apart(wk[v], wk'[w])
    BY <2>7, <2>14 DEF Apart, IInv, WorkersOK
  <2>16. \A i \in ready' : i \in ready \/ IsActivation(log', i)
    BY <1>1, <1>4, <2>2, <2>3 DEF IsActivation
  <2> QED
    BY <1>1, <1>4, <2>2, <2>4, <2>5, <2>8, <2>11, <2>12, <2>13, <2>14, <2>15, <2>16, Appends DEF WorkerOK
<1> QED
  BY <1>1, <1>3, <1>4 DEF StopAppend, StopId

-----------------------------------------------------------------------------
(* Frontends *)

(* AdmitPrompt keeps the invariant: no entry of the log is of a prompt     *)
(* that is not admitted yet                                                *)
LEMMA AdmitPromptKeeps ==
    ASSUME IInv, NEW p \in PromptIds, AdmitPrompt(p)
    PROVE  IInv'
<1>1. /\ prompt[p] = "new" /\ prompt' = [prompt EXCEPT ![p] = "admitted"]
      /\ UNCHANGED <<log, ready, req, owner, losses, wk>> /\ head' \in PromptIds
  <2>1. head' \in PromptIds
    BY DEF AdmitPrompt, active_admission, IInv, FrontOK
  <2> QED
    BY <2>1 DEF AdmitPrompt
<1>2. PICK x \in PromptIds : bound' = [bound EXCEPT ![p] = x]
  <2>1. active_admission(log) => head \in PromptIds
    BY DEF active_admission, IInv, FrontOK
  <2> QED
    BY <2>1 DEF AdmitPrompt
<1>3. /\ bound \in [PromptIds -> PromptIds \union {None}]
      /\ prompt \in [PromptIds -> {"new", "admitted", "logged", "activated"}]
  BY DEF IInv, FrontOK
<1>4. \A i \in DOMAIN log : log[i].kind = "user" =>
            log[i].id # p /\ log[i].id \in PromptIds /\ bound'[log[i].id] = bound[log[i].id]
  BY <1>1, <1>2, <1>3 DEF IInv, FrontOK, LogOK
<1>5. FrontOK'
  <2>1. /\ bound' \in [PromptIds -> PromptIds \union {None}]
        /\ prompt' \in [PromptIds -> {"new", "admitted", "logged", "activated"}]
    BY <1>1, <1>2, <1>3
  <2>2. \A q \in PromptIds : prompt'[q] # "new" => bound'[q] \in PromptIds
    BY <1>1, <1>2, <1>3 DEF IInv, FrontOK
  <2>3. \A i \in DOMAIN log : log[i].kind = "user" => prompt'[log[i].id] \in {"logged", "activated"}
    BY <1>1, <1>3, <1>4 DEF IInv, FrontOK
  <2> QED
    BY <1>1, <2>1, <2>2, <2>3 DEF IInv, FrontOK
<1>6. ASSUME NEW w \in Workers PROVE WorkerOK(wk[w], log, bound')
  <2>1. WorkerOK(wk[w], log, bound)
    BY DEF IInv, WorkersOK
  <2>2. SettleOK(wk[w], log, bound')
    BY <1>4, <2>1 DEF WorkerOK, SettleOK, PlaceOK, IsActivation
  <2> QED
    BY <2>1, <2>2 DEF WorkerOK
<1>7. WorkersOK' /\ LogOK(log)'
  BY <1>1, <1>6 DEF IInv, WorkersOK
<1> QED
  BY <1>5, <1>7 DEF IInv

(* A frontend's append opens and answers no call                           *)
LEMMA FrontAppends ==
    ASSUME IInv, NEW e, EntryOK(log, e), log' = Append(log, e), e.calls = {},
           UNCHANGED <<bound, wk>>
    PROVE  LogOK(log)' /\ WorkersOK'
<1>1. log \in Seq(Entries) /\ e \in Entries
  BY DEF IInv, LogOK, EntryOK
<1>2. LogOK(log)'
  BY LogGrows DEF IInv
<1>3. ASSUME NEW w \in Workers PROVE WorkerOK(wk[w], log', bound)
  BY <1>1, WorkerGrows DEF IInv, WorkersOK
<1>4. WorkersOK'
  BY <1>3 DEF IInv, WorkersOK
<1> QED
  BY <1>2, <1>4

(* LogPrompt keeps the invariant: a prompt is logged once                  *)
LEMMA LogPromptKeeps ==
    ASSUME IInv, NEW p \in PromptIds, LogPrompt(p)
    PROVE  IInv'
<1> DEFINE e == User(p)
           n == Len(log) + 1
<1>1. /\ prompt[p] = "admitted" /\ prompt' = [prompt EXCEPT ![p] = "logged"]
      /\ log' = Append(log, e) /\ UNCHANGED <<ready, head, bound, req, owner, losses, wk>>
  BY DEF LogPrompt
<1>2. e \in Entries
  BY BlankEntry DEF Entries, User
<1>3. e.kind = "user" /\ e.id = p /\ e.calls = {} /\ e.thru = 0 /\ e.mid = 0
  BY DEF User, Blank
<1> HIDE DEF e
<1>4. /\ log \in Seq(Entries) /\ Len(log) \in Nat
      /\ Len(log') = n /\ log'[n] = e
      /\ \A i \in DOMAIN log : log'[i] = log[i] /\ i \in DOMAIN log'
      /\ \A i \in DOMAIN log' : i \in DOMAIN log \/ i = n
  BY <1>1, <1>2, Grown DEF IInv, LogOK
<1>5. EntryOK(log, e)
  <2>1. \A j \in DOMAIN log : log[j].kind = "user" => log[j].id # p
    BY <1>1 DEF IInv, FrontOK
  <2> QED
    BY <1>2, <1>3, <1>4, <2>1 DEF EntryOK
<1>6. LogOK(log)' /\ WorkersOK'
  BY <1>1, <1>3, <1>5, FrontAppends
<1>7. FrontOK'
  <2>1. prompt \in [PromptIds -> {"new", "admitted", "logged", "activated"}]
    BY DEF IInv, FrontOK
  <2>2. /\ prompt' \in [PromptIds -> {"new", "admitted", "logged", "activated"}]
        /\ \A q \in PromptIds : prompt'[q] # "new" => prompt[q] # "new"
        /\ \A q \in PromptIds : prompt[q] \in {"logged", "activated"} => prompt'[q] = prompt[q]
        /\ prompt'[p] = "logged"
    BY <1>1, <2>1
  <2>3. \A m \in ready : IsActivation(log', m)
    BY <1>4 DEF IInv, FrontOK, IsActivation
  <2>4. \A i \in DOMAIN log' : log'[i].kind = "user" =>
            prompt'[log'[i].id] \in {"logged", "activated"}
    <3>1. \A i \in DOMAIN log : log[i].kind = "user" =>
                log[i].id \in PromptIds /\ prompt[log[i].id] \in {"logged", "activated"}
      BY DEF IInv, FrontOK, LogOK
    <3>2. ASSUME NEW i \in DOMAIN log, log[i].kind = "user"
          PROVE  prompt'[log[i].id] \in {"logged", "activated"}
      BY <2>2, <3>1, <3>2
    <3> QED
      BY <1>3, <1>4, <2>2, <3>2
  <2>5. ASSUME NEW c \in CancelIds PROVE Request(req[c], log') /\ CancelOK(log', c, req[c])
    <3>1. req[c].from \in Nat /\ req[c].tail \in Nat /\ Request(req[c], log)
            /\ CancelOK(log, c, req[c])
      BY DEF IInv, FrontOK
    <3>2. ~ IsCancelOf(e, c)
      BY <1>3 DEF IsCancelOf
    <3> QED
      BY <1>1, <1>2, <1>4, <3>1, <3>2, RequestGrows
  <2>6. \A q \in PromptIds : prompt'[q] # "new" => bound[q] \in PromptIds
    BY <2>2 DEF IInv, FrontOK
  <2> QED
    BY <1>1, <2>2, <2>3, <2>4, <2>5, <2>6 DEF IInv, FrontOK
<1> QED
  BY <1>6, <1>7 DEF IInv

(* ActivatePrompt keeps the invariant                                      *)
LEMMA ActivatePromptKeeps ==
    ASSUME IInv, NEW p \in PromptIds, ActivatePrompt(p)
    PROVE  IInv'
<1>1. /\ prompt[p] = "logged" /\ prompt' = [prompt EXCEPT ![p] = "activated"]
      /\ UNCHANGED <<log, head, bound, req, owner, losses, wk>>
      /\ ready' = ready \union {i \in Prompts(log) : log[i].id = p}
  BY DEF ActivatePrompt
<1>2. prompt \in [PromptIds -> {"new", "admitted", "logged", "activated"}]
  BY DEF IInv, FrontOK
<1>3. /\ prompt' \in [PromptIds -> {"new", "admitted", "logged", "activated"}]
      /\ \A q \in PromptIds : prompt'[q] # "new" => prompt[q] # "new"
      /\ \A q \in PromptIds : prompt[q] \in {"logged", "activated"}
                                => prompt'[q] \in {"logged", "activated"}
  BY <1>1, <1>2
<1>4. \A n \in ready' : IsActivation(log, n)
  BY <1>1 DEF IInv, FrontOK, IsActivation, Prompts
<1>5. \A i \in DOMAIN log : log[i].kind = "user" => prompt'[log[i].id] \in {"logged", "activated"}
  BY <1>3 DEF IInv, FrontOK, LogOK
<1>6. FrontOK'
  BY <1>1, <1>3, <1>4, <1>5 DEF IInv, FrontOK
<1>7. WorkersOK' /\ LogOK(log)'
  BY <1>1 DEF IInv, WorkersOK
<1> QED
  BY <1>6, <1>7 DEF IInv

Requests == [phase : {"new", "trying", "landed", "over"}, from : Nat, tail : Nat]

(* A step that changes one request only                                    *)
LEMMA RequestStep ==
    ASSUME IInv, NEW c \in CancelIds, NEW r \in Requests, req' = [req EXCEPT ![c] = r],
           Request(r, log), CancelOK(log, c, r), \A n \in ready' : IsActivation(log, n),
           UNCHANGED <<log, head, bound, prompt, owner, losses, wk>>
    PROVE  IInv'
<1>1. req' \in [CancelIds -> Requests] /\ req'[c] = r
            /\ \A d \in CancelIds : d # c => req'[d] = req[d]
  BY DEF IInv, FrontOK, Requests
<1>2. \A d \in CancelIds : Request(req'[d], log) /\ CancelOK(log, d, req'[d])
  BY <1>1 DEF IInv, FrontOK
<1>3. FrontOK'
  BY <1>1, <1>2 DEF IInv, FrontOK, Requests
<1>4. WorkersOK' /\ LogOK(log)'
  BY DEF IInv, WorkersOK
<1> QED
  BY <1>3, <1>4 DEF IInv

(* RequestInterrupt keeps the invariant                                    *)
LEMMA RequestInterruptKeeps ==
    ASSUME IInv, NEW c \in CancelIds, RequestInterrupt(c)
    PROVE  IInv'
<1> DEFINE x == IF decide(log, Len(log)) = "append" THEN "trying" ELSE "over"
           r == [phase |-> x, from |-> Len(log), tail |-> Len(log)]
<1>1. /\ req[c].phase = "new" /\ log # <<>> /\ req' = [req EXCEPT ![c] = r]
      /\ UNCHANGED <<log, ready, head, bound, prompt, owner, losses, wk>>
  BY DEF RequestInterrupt
<1>2. x \in {"trying", "over"}
  OBVIOUS
<1> HIDE DEF x
<1>3. log \in Seq(Entries) /\ Len(log) \in Nat /\ Len(log) # 0
  BY <1>1 DEF IInv, LogOK
<1>4. r \in Requests /\ Request(r, log)
  BY <1>2, <1>3 DEF Requests, Request
<1>5. CancelOK(log, c, r)
  BY <1>1 DEF IInv, FrontOK, CancelOK
<1>6. \A n \in ready' : IsActivation(log, n)
  BY <1>1 DEF IInv, FrontOK
<1> QED
  BY <1>1, <1>4, <1>5, <1>6, RequestStep

(* InterruptLands keeps the invariant: at the expected tail its Cancel     *)
(* cannot be in the log yet                                                *)
LEMMA InterruptLandsKeeps ==
    ASSUME IInv, NEW c \in CancelIds, InterruptLands(c)
    PROVE  IInv'
<1> DEFINE e == Cancel(c)
           n == Len(log) + 1
<1>1. /\ req[c].phase = "trying" /\ req[c].tail = Len(log) /\ log' = Append(log, e)
      /\ UNCHANGED <<ready, head, bound, prompt, owner, losses, wk>>
  BY DEF InterruptLands
<1>2. PICK x \in {"landed", "trying"} : req' = [req EXCEPT ![c].phase = x]
  BY DEF InterruptLands
<1>3. e \in Entries
  BY BlankEntry DEF Entries, Cancel
<1>4. e.kind = "cancel" /\ e.id = c /\ e.calls = {} /\ e.thru = 0 /\ e.mid = 0
  BY DEF Cancel, Blank
<1> HIDE DEF e
<1>5. /\ log \in Seq(Entries) /\ Len(log) \in Nat
      /\ Len(log') = n /\ log'[n] = e
      /\ \A i \in DOMAIN log : log'[i] = log[i] /\ i \in DOMAIN log'
      /\ \A i \in DOMAIN log' : i \in DOMAIN log \/ i = n
  BY <1>1, <1>3, Grown DEF IInv, LogOK
<1>6. /\ req \in [CancelIds -> Requests] /\ Request(req[c], log) /\ CancelOK(log, c, req[c])
  BY DEF IInv, FrontOK, Requests
<1>7. EntryOK(log, e)
  <2>1. log # <<>>
    BY <1>1, <1>5, <1>6 DEF Request
  <2> QED
    BY <1>3, <1>4, <1>5, <2>1 DEF EntryOK
<1>8. LogOK(log)' /\ WorkersOK'
  BY <1>1, <1>4, <1>7, FrontAppends
<1>9. /\ req' \in [CancelIds -> Requests] /\ req'[c].phase = x /\ req'[c].from = req[c].from
      /\ req'[c].tail = req[c].tail
      /\ \A d \in CancelIds : d # c => req'[d] = req[d]
  BY <1>2, <1>6 DEF Requests
<1>10. Request(req'[c], log') /\ CancelOK(log', c, req'[c])
  <2>1. \A i \in DOMAIN log : ~ IsCancelOf(log[i], c)
    BY <1>1, <1>5, <1>6 DEF CancelOK
  <2>2. \A i \in DOMAIN log' : IsCancelOf(log'[i], c) => i = n
    BY <1>5, <2>1
  <2>3. Request(req'[c], log')
    BY <1>1, <1>5, <1>6, <1>9 DEF Request, Requests
  <2>4. x # "new" /\ req'[c].tail < Len(log')
    BY <1>1, <1>5, <1>9
  <2> QED
    BY <1>9, <2>2, <2>3, <2>4 DEF CancelOK
<1>11. ASSUME NEW d \in CancelIds, d # c PROVE Request(req'[d], log') /\ CancelOK(log', d, req'[d])
  <2>1. req[d].from \in Nat /\ req[d].tail \in Nat /\ Request(req[d], log)
            /\ CancelOK(log, d, req[d])
    BY DEF IInv, FrontOK
  <2>2. ~ IsCancelOf(e, d)
    BY <1>4, <1>11 DEF IsCancelOf
  <2>3. Request(req[d], log') /\ CancelOK(log', d, req[d])
    BY <1>1, <1>3, <1>5, <2>1, <2>2, RequestGrows
  <2> QED
    BY <1>9, <1>11, <2>3
<1>12. FrontOK'
  <2>1. \A m \in ready : IsActivation(log', m)
    BY <1>5 DEF IInv, FrontOK, IsActivation
  <2>2. \A i \in DOMAIN log' : log'[i].kind = "user" => prompt[log'[i].id] \in {"logged", "activated"}
    BY <1>4, <1>5 DEF IInv, FrontOK
  <2>3. \A d \in CancelIds : Request(req'[d], log') /\ CancelOK(log', d, req'[d])
    BY <1>10, <1>11
  <2> QED
    BY <1>1, <1>9, <2>1, <2>2, <2>3 DEF IInv, FrontOK, Requests
<1> QED
  BY <1>8, <1>12 DEF IInv

(* InterruptConflicts keeps the invariant: a request that goes on trying   *)
(* has looked for its own Cancel                                           *)
LEMMA InterruptConflictsKeeps ==
    ASSUME IInv, NEW c \in CancelIds, InterruptConflicts(c)
    PROVE  IInv'
<1> DEFINE x == IF IsLogged(c) THEN "landed"
                ELSE IF decide(log, req[c].from) = "append" THEN "trying" ELSE "over"
           r == [req[c] EXCEPT !.tail = Len(log), !.phase = x]
<1>1. /\ req[c].phase = "trying" /\ req' = [req EXCEPT ![c] = r]
      /\ UNCHANGED <<log, ready, head, bound, prompt, owner, losses, wk>>
  BY DEF InterruptConflicts
<1>2. x \in {"landed", "trying", "over"} /\ (x = "trying" => ~ IsLogged(c))
  OBVIOUS
<1> HIDE DEF x
<1>3. log \in Seq(Entries) /\ Len(log) \in Nat
  BY DEF IInv, LogOK
<1>4. req[c] \in Requests /\ Request(req[c], log) /\ CancelOK(log, c, req[c])
  BY DEF IInv, FrontOK, Requests
<1>5. r \in Requests /\ r.phase = x /\ r.tail = Len(log) /\ r.from = req[c].from
  BY <1>2, <1>3, <1>4 DEF Requests
<1>6. Request(r, log)
  BY <1>1, <1>2, <1>3, <1>4, <1>5 DEF Request
<1>7. CancelOK(log, c, r)
  BY <1>2, <1>4, <1>5 DEF CancelOK, IsLogged, IsCancelOf
<1>8. \A n \in ready' : IsActivation(log, n)
  BY <1>1 DEF IInv, FrontOK
<1> HIDE DEF r
<1> QED
  BY <1>1, <1>5, <1>6, <1>7, <1>8, RequestStep

(* Announce keeps the invariant                                            *)
LEMMA AnnounceKeeps ==
    ASSUME IInv, NEW c \in CancelIds, Announce(c)
    PROVE  IInv'
<1> DEFINE r == [req[c] EXCEPT !.phase = "over"]
<1>1. /\ req[c].phase = "landed" /\ UNCHANGED <<log, head, bound, prompt, owner, losses, wk>>
      /\ ready' = ready \union {i \in DOMAIN log : log[i].kind = "cancel" /\ log[i].id = c}
      /\ req' = [req EXCEPT ![c] = r]
  BY DEF Announce
<1>2. req[c] \in Requests /\ Request(req[c], log) /\ CancelOK(log, c, req[c])
  BY DEF IInv, FrontOK, Requests
<1>3. r \in Requests /\ r.phase = "over" /\ r.tail = req[c].tail /\ r.from = req[c].from
  BY <1>2 DEF Requests
<1>4. Request(r, log) /\ CancelOK(log, c, r)
  BY <1>1, <1>2, <1>3 DEF Request, CancelOK
<1>5. \A n \in ready' : IsActivation(log, n)
  BY <1>1 DEF IInv, FrontOK, IsActivation
<1> HIDE DEF r
<1> QED
  BY <1>1, <1>3, <1>4, <1>5, RequestStep

-----------------------------------------------------------------------------
(* The invariant *)

(* The initial state satisfies the invariant                               *)
LEMMA InitOK == Init => IInv
<1>1. SUFFICES ASSUME Init PROVE IInv
  OBVIOUS
<1>2. log = <<>> /\ log \in Seq(Entries) /\ DOMAIN log = {} /\ Len(log) = 0
  BY <1>1 DEF Init
<1>3. LogOK(log)
  BY <1>2 DEF LogOK
<1>4. FrontOK
  <2>1. req \in [CancelIds -> Requests]
            /\ \A c \in CancelIds : req[c].from = 0 /\ req[c].tail = 0 /\ req[c].phase = "new"
    BY <1>1 DEF Init, Requests
  <2>2. \A c \in CancelIds : Request(req[c], log) /\ CancelOK(log, c, req[c])
    BY <1>2, <2>1 DEF Request, CancelOK
  <2>3. ready = {} /\ head = None /\ owner = None /\ losses \in 0..MaxLosses
    BY <1>1, TurnConstants DEF Init
  <2>4. /\ bound \in [PromptIds -> PromptIds \union {None}]
        /\ prompt \in [PromptIds -> {"new", "admitted", "logged", "activated"}]
        /\ \A p \in PromptIds : prompt[p] = "new"
    BY <1>1 DEF Init
  <2> QED
    BY <1>2, <2>1, <2>2, <2>3, <2>4 DEF FrontOK, Requests
<1>5. WorkersOK
  <2>1. IdleWorker \in WorkerStates
    BY DEF IdleWorker, WorkerStates, Phases, Entries, Blank
  <2>2. wk \in [Workers -> WorkerStates] /\ \A w \in Workers : wk[w] = IdleWorker
    BY <1>1, <2>1 DEF Init
  <2>3. WorkerOK(IdleWorker, log, bound)
    BY <1>2, IdleIsOK
  <2> QED
    BY <2>2, <2>3, IdleFields DEF WorkersOK, Apart
<1> QED
  BY <1>3, <1>4, <1>5 DEF IInv

(* Every step keeps the invariant                                          *)
LEMMA NextKeeps == IInv /\ [Next]_vars => IInv'
<1>1. SUFFICES ASSUME IInv, [Next]_vars PROVE IInv'
  OBVIOUS
<1>2. ASSUME UNCHANGED vars PROVE IInv'
  <2>1. /\ log' = log /\ ready' = ready /\ head' = head /\ bound' = bound /\ prompt' = prompt
        /\ req' = req /\ owner' = owner /\ losses' = losses /\ wk' = wk
    BY <1>2 DEF vars
  <2> QED
    BY <1>1, <2>1 DEF IInv, FrontOK, WorkersOK
<1>3. ASSUME Frontend PROVE IInv'
  <2>1. ASSUME NEW p \in PromptIds, AdmitPrompt(p) \/ LogPrompt(p) \/ ActivatePrompt(p) PROVE IInv'
    BY <1>1, <2>1, AdmitPromptKeeps, LogPromptKeeps, ActivatePromptKeeps
  <2>2. ASSUME NEW c \in CancelIds, \/ RequestInterrupt(c) \/ InterruptLands(c)
                                    \/ InterruptConflicts(c) \/ Announce(c)
        PROVE  IInv'
    BY <1>1, <2>2, RequestInterruptKeeps, InterruptLandsKeeps, InterruptConflictsKeeps, AnnounceKeeps
  <2> QED
    BY <1>3, <2>1, <2>2 DEF Frontend
<1>4. ASSUME NEW w \in Workers, Worker(w) PROVE IInv'
  BY <1>1, <1>4,
     PreflightKeeps, CheckCoveredKeeps, ClaimKeeps, WindUpLoadKeeps, WindUpAppendKeeps,
       WindUpFailsKeeps, WindUpDoneKeeps, StartKeeps, StartWatcherKeeps, DeriveKeeps,
       ValidateKeeps, LoadKeeps, RepairKeeps, ModelRepliesKeeps, AppendLandsKeeps,
       AppendConflictsKeeps, AppendFencedOutKeeps, ToolsReturnKeeps, InjectKeeps, EndTurnKeeps,
       DrainKeeps, AbortTurnKeeps, RecordErrorKeeps, FinishKeeps, StopLoadKeeps, StopAppendKeeps DEF Worker
<1>5. ASSUME NEW w \in Workers, \/ Watch(w) \/ NoticeLoss(w) \/ LoseLease(w) \/ Crash(w)
                                \/ \E n \in ready : Deliver(w, n)
      PROVE  IInv'
  BY <1>1, <1>5, WatchKeeps, NoticeLossKeeps, LoseLeaseKeeps, CrashKeeps, DeliverKeeps
<1> QED
  BY <1>1, <1>2, <1>3, <1>4, <1>5 DEF Next

(* The invariant holds in every reachable state                            *)
THEOREM TurnInvariant == Spec => []IInv
<1>1. Init => IInv
  BY InitOK
<1>2. IInv /\ [Next]_vars => IInv'
  BY NextKeeps
<1> QED
  BY <1>1, <1>2, PTL DEF Spec

(* Type correctness: entries refer back, and what a worker has observed,   *)
(* watched or expects exists in the log                                    *)
THEOREM TurnTypeCorrect == Spec => []TypeOK
<1>1. IInv => TypeOK
  <2>1. SUFFICES ASSUME IInv PROVE TypeOK
    OBVIOUS
  <2>2. log \in Seq(Entries) /\ Len(log) \in Nat /\ DOMAIN log = 1..Len(log)
            /\ \A i \in DOMAIN log : log[i].thru < i /\ log[i].mid < i
    BY <2>1 DEF IInv, LogOK
  <2>3. ready \subseteq 1..Len(log)
    BY <2>1, <2>2 DEF IInv, FrontOK, IsActivation
  <2>4. req \in [CancelIds -> [phase : {"new", "trying", "landed", "over"},
                              from : 0..Len(log), tail : 0..Len(log)]]
    BY <2>1 DEF IInv, FrontOK, Request
  <2>5. ASSUME NEW w \in Workers
        PROVE  /\ {wk[w].job, wk[w].own, wk[w].watch, wk[w].cursor, wk[w].hw, wk[w].tail, wk[w].stop}
                        \union wk[w].repair \subseteq 0..Len(log)
               /\ w \notin wk[w].newer
               /\ wk[w].held => HasLease(w)
    <3>1. wk[w] \in WorkerStates /\ PlaceOK(wk[w], log) /\ w \notin wk[w].newer
      BY <2>1 DEF IInv, WorkersOK, WorkerOK
    <3>2. /\ wk[w].job \in 0..Len(log) /\ wk[w].own \in 0..Len(log) /\ wk[w].watch \in 0..Len(log)
          /\ wk[w].cursor \in 0..Len(log) /\ wk[w].hw \in 0..Len(log)
          /\ wk[w].tail \in 0..Len(log) /\ wk[w].stop \in 0..Len(log)
      BY <2>2, <3>1 DEF PlaceOK, WorkerStates
    <3>3. wk[w].repair \subseteq 0..Len(log)
      BY <2>2, <3>1 DEF PlaceOK
    <3>4. wk[w].held => HasLease(w)
      BY <3>1 DEF PlaceOK, HasLease, NoLease
    <3> QED
      BY <3>1, <3>2, <3>3, <3>4
  <2> QED
    BY <2>1, <2>2, <2>3, <2>4, <2>5 DEF TypeOK, IInv, FrontOK, WorkersOK
<1> QED
  BY <1>1, TurnInvariant, PTL

(* One interrupt request logs at most one Cancel, however often its append *)
(* is retried (interrupt_target)                                           *)
THEOREM OneCancelEach == Spec => []OneCancelPerRequest
<1>1. IInv => OneCancelPerRequest
  BY DEF IInv, FrontOK, CancelOK, IsCancelOf, OneCancelPerRequest
<1> QED
  BY <1>1, TurnInvariant, PTL

(* A wind-up answers no call the log already answers, whichever workers    *)
(* wind up the round (resolve_conflict, answers_the_same_calls)            *)
THEOREM WindUpsAnswerOnce == Spec => []WindUpAnswersOnce
<1>1. IInv => WindUpAnswersOnce
  BY DEF IInv, LogOK, Unmet, WindUpAnswersOnce
<1> QED
  BY <1>1, TurnInvariant, PTL

-----------------------------------------------------------------------------
(* Which steps end an append or a delivery *)

(* No step of another worker moves this one or ends its delivery           *)
LEMMA OthersKeepTheirPlace ==
    ASSUME IInv, NEW v \in Workers, NEW w \in Workers, v # w,
           \/ Worker(v) \/ Watch(v) \/ NoticeLoss(v) \/ LoseLease(v) \/ Crash(v)
           \/ \E n \in ready : Deliver(v, n)
    PROVE  wk'[w].pc = wk[w].pc /\ wk'[w].job = wk[w].job
<1> DEFINE Same == wk'[w].pc = wk[w].pc /\ wk'[w].job = wk[w].job
<1>0. wk \in [Workers -> WorkerStates] /\ wk[w] \in WorkerStates
  BY DEF IInv, WorkersOK
<1>1. \A r : Become(v, r) => Same
  BY <1>0 DEF Become
<1>2. wk' = Retired(v) => Same
  BY <1>0 DEF Retired, WorkerStates
<1>3. \A r : wk' = Stamped(v, r) => Same
  BY <1>0 DEF Stamped, WorkerStates
<1> SUFFICES Same
  OBVIOUS
<1> HIDE DEF Same
<1>4. CASE Preflight(v) \/ CheckCovered(v) \/ WindUpLoad(v) \/ WindUpAppend(v)
  BY <1>1, <1>2, <1>4 DEF Preflight, CheckCovered, WindUpLoad, WindUpAppend, Ack
<1>5. CASE Claim(v)
  <2>1. CASE owner # None
    BY <1>2, <1>5, <2>1 DEF Claim, Nak
  <2>2. CASE owner = None
    <3> DEFINE N == IF HasLease(w) THEN wk[w].newer \union {v} ELSE wk[w].newer
    <3>1. wk'[w] = [wk[w] EXCEPT !.newer = N]
      BY <1>5, <2>2 DEF Claim
    <3> HIDE DEF N
    <3> QED
      BY <1>0, <3>1 DEF Same, WorkerStates
  <2> QED
    BY <2>1, <2>2
<1>6. CASE WindUpFails(v) \/ WindUpDone(v) \/ Start(v) \/ StartWatcher(v) \/ Derive(v)
  BY <1>1, <1>2, <1>6 DEF WindUpFails, WindUpDone, Start, StartWatcher, Derive, GiveBack, Ack, Nak
<1>7. CASE Validate(v) \/ Load(v) \/ Repair(v) \/ ModelReplies(v) \/ ToolsReturn(v)
  BY <1>1, <1>7 DEF Validate, Load, Repair, ModelReplies, ToolsReturn
<1>8. CASE AppendLands(v) \/ AppendConflicts(v) \/ AppendFencedOut(v) \/ Inject(v) \/ EndTurn(v)
  BY <1>1, <1>3, <1>8 DEF AppendLands, AppendConflicts, AppendFencedOut, Inject, EndTurn
<1>9. CASE Drain(v) \/ AbortTurn(v) \/ RecordError(v) \/ Finish(v) \/ StopLoad(v) \/ StopAppend(v)
  BY <1>1, <1>2, <1>3, <1>9
    DEF Drain, AbortTurn, RecordError, Finish, StopLoad, StopAppend, GiveBack, Ack, Nak
<1>10. CASE \/ Watch(v) \/ NoticeLoss(v) \/ LoseLease(v) \/ Crash(v)
            \/ \E n \in ready : Deliver(v, n)
  BY <1>1, <1>2, <1>10 DEF Watch, NoticeLoss, LoseLease, Crash, Deliver, Nak, Same
<1> QED
  BY <1>4, <1>5, <1>6, <1>7, <1>8, <1>9, <1>10 DEF Worker

(* A frontend moves no worker                                              *)
LEMMA FrontendsMoveNobody ==
    ASSUME Frontend
    PROVE  wk' = wk
BY DEF Frontend, AdmitPrompt, LogPrompt, ActivatePrompt, RequestInterrupt, InterruptLands,
       InterruptConflicts, Announce

(* Output lands by AppendLands only                                        *)
LEMMA OutputLandsByAppend ==
    ASSUME IInv, Next, NEW w \in Workers, OutputLands(w)
    PROVE  AppendLands(w)
<1> DEFINE me == wk[w]
<1>1. /\ wk \in [Workers -> WorkerStates] /\ me \in WorkerStates
      /\ me.pc = "append" /\ wk'[w].pc \in {"tools", "inject", "end"}
  BY Me DEF IInv, WorkersOK, OutputLands
<1>2. ~ Frontend
  BY <1>1, FrontendsMoveNobody
<1>3. PICK v \in Workers : \/ Worker(v) \/ Watch(v) \/ NoticeLoss(v) \/ LoseLease(v) \/ Crash(v)
                          \/ \E n \in ready : Deliver(v, n)
  BY <1>2 DEF Next
<1>4. v = w
  BY <1>1, <1>3, OthersKeepTheirPlace
<1>5. ASSUME NEW r, Become(w, r) PROVE wk'[w] = r
  BY <1>1, <1>5 DEF Become
<1>6. ~ LoseLease(w) /\ ~ \E n \in ready : Deliver(w, n)
  BY <1>1 DEF LoseLease, Deliver
<1>7. ~ Crash(w)
  BY <1>1, IdleFields DEF Crash, Nak, Retired
<1>8. ASSUME Watch(w) PROVE FALSE
  <2> DEFINE n == me.watch + 1
             A == IF n > me.own /\ log[n].kind = "cancel" THEN me.abort \union {"ctrlc"} ELSE me.abort
             I == me.input \/ (n > me.own /\ log[n].kind = "user")
  <2>1. Become(w, [me EXCEPT !.watch = n, !.abort = A, !.input = I])
    BY <1>8 DEF Watch
  <2> HIDE DEF A, I, n
  <2> QED
    BY <1>1, <1>5, <2>1 DEF WorkerStates
<1>9. ~ NoticeLoss(w)
  BY <1>1, <1>5 DEF NoticeLoss, WorkerStates
<1>10. ~ AbortTurn(w)
  BY <1>1, <1>5 DEF AbortTurn, WorkerStates
<1>11. ~ AppendConflicts(w) /\ ~ AppendFencedOut(w)
  BY <1>1, <1>5 DEF AppendConflicts, AppendFencedOut, AppendFailed, WorkerStates
<1>12. /\ ~ Preflight(w) /\ ~ CheckCovered(w) /\ ~ Claim(w) /\ ~ WindUpLoad(w)
       /\ ~ WindUpAppend(w) /\ ~ WindUpFails(w) /\ ~ WindUpDone(w) /\ ~ Start(w)
       /\ ~ StartWatcher(w) /\ ~ Derive(w) /\ ~ Validate(w) /\ ~ Load(w) /\ ~ Repair(w)
  BY <1>1 DEF Preflight, CheckCovered, Claim, WindUpLoad, WindUpAppend, WindUpFails, WindUpDone,
              Start, StartWatcher, Derive, Validate, Load, Repair
<1>13. /\ ~ ModelReplies(w) /\ ~ ToolsReturn(w) /\ ~ Inject(w) /\ ~ EndTurn(w) /\ ~ Drain(w)
       /\ ~ RecordError(w) /\ ~ Finish(w) /\ ~ StopLoad(w) /\ ~ StopAppend(w)
  BY <1>1 DEF ModelReplies, ToolsReturn, Inject, EndTurn, Drain, RecordError, Finish, StopLoad,
              StopAppend
<1> QED
  BY <1>3, <1>4, <1>6, <1>7, <1>8, <1>9, <1>10, <1>11, <1>12, <1>13 DEF Worker

(* Turn output never lands behind a Cancel above the last sequence its     *)
(* worker has appended, however often the tail moved                       *)
(* (append_under_writer_rule)                                              *)
THEOREM OutputStops == Spec => OutputStopsAtCancel
<1> DEFINE A == \A w \in Workers :
                    OutputLands(w) => \A i \in (wk[w].own + 1)..Len(log) : log[i].kind # "cancel"
<1>1. ASSUME IInv, [Next]_vars PROVE [A]_vars
  <2>1. SUFFICES ASSUME Next, NEW w \in Workers, OutputLands(w)
                 PROVE  \A i \in (wk[w].own + 1)..Len(log) : log[i].kind # "cancel"
    BY <1>1
  <2>2. wk[w].pc = "append" /\ wk[w].tail = Len(log)
    BY <1>1, <2>1, OutputLandsByAppend DEF AppendLands
  <2>3. PendOK(wk[w], log)
    BY <1>1 DEF IInv, WorkersOK, WorkerOK
  <2> QED
    BY <2>2, <2>3 DEF PendOK
<1>2. IInv /\ [Next]_vars => [A]_vars
  BY <1>1
<1>3. OutputStopsAtCancel <=> [][A]_vars
  BY DEF OutputStopsAtCancel
<1> HIDE DEF A
<1> QED
  BY <1>2, <1>3, TurnInvariant, PTL DEF Spec

(* A delivery is given up only once its prompt is settled by an entry the  *)
(* worker relied on, or handed back                                        *)
LEMMA EndsSettled ==
    ASSUME IInv, NEW w \in Workers, wk[w].job # 0, wk'[w].job = 0, wk[w].job \notin ready',
           log[wk[w].job].kind = "user", bound[log[wk[w].job].id] = head,
           \/ Worker(w) \/ Watch(w) \/ NoticeLoss(w) \/ LoseLease(w) \/ Crash(w)
           \/ \E n \in ready : Deliver(w, n)
    PROVE  log' = log /\ prompt_is_covered(log, wk[w].job)
<1> DEFINE me == wk[w]
           n == me.job
           Goal == log' = log /\ prompt_is_covered(log, n)
<1>1. /\ wk \in [Workers -> WorkerStates] /\ me \in WorkerStates /\ WorkerOK(me, log, bound)
      /\ log \in Seq(Entries) /\ DOMAIN log = 1..Len(log) /\ Len(log) \in Nat /\ LogOK(log)
      /\ n \in Nat /\ n <= Len(log)
  BY Me DEF IInv, WorkersOK, WorkerStates, WorkerOK, PlaceOK
<1>2. ASSUME NEW r, Become(w, r) PROVE wk'[w] = r
  BY <1>1, <1>2 DEF Become
<1>4. n \in DOMAIN log /\ head \in PromptIds
  <2>1. n \in DOMAIN log
    BY <1>1
  <2>2. log[n].id \in PromptIds /\ prompt[log[n].id] # "new"
    BY <1>1, <2>1 DEF IInv, LogOK, FrontOK
  <2> QED
    BY <2>1, <2>2 DEF IInv, FrontOK
<1>5. ASSUME me.failed, log' = log PROVE Goal
  <2>1. PICK i \in DOMAIN log : i > n /\ log[i].kind = "error"
    BY <1>1, <1>5 DEF WorkerOK, SettleOK
  <2>2. Covers(log, i, n)
    BY <2>1 DEF Covers
  <2> QED
    BY <1>1, <1>5, <2>1, <2>2, CoveredByAnEntry
<1>6. ~ Nak(w)
  BY DEF Nak
<1> SUFFICES Goal
  OBVIOUS
<1> HIDE DEF Goal
<1>7. CASE Preflight(w)
  <2>1. CASE Ack(w) /\ log[n].kind = "cancel"
    BY <2>1
  <2>2. CASE \E b : Become(w, [me EXCEPT !.pc = "claimWindUp", !.more = b])
    BY <1>1, <1>2, <2>2 DEF WorkerStates
  <2>3. CASE Become(w, [me EXCEPT !.pc = "covered"])
    BY <1>1, <1>2, <2>3 DEF WorkerStates
  <2> QED
    BY <1>7, <2>1, <2>2, <2>3 DEF Preflight
<1>8. CASE CheckCovered(w)
  <2>1. CASE prompt_is_covered(log, n)
    BY <1>8, <2>1 DEF CheckCovered, Goal
  <2>2. CASE Become(w, [me EXCEPT !.pc = "claimTurn"])
    BY <1>1, <1>2, <2>2 DEF WorkerStates
  <2> QED
    BY <1>8, <2>1, <2>2 DEF CheckCovered
<1>9. CASE Claim(w)
  <2> DEFINE x == IF me.pc = "claimWindUp" THEN "windUp" ELSE "start"
  <2>1. wk'[w] = [me EXCEPT !.held = TRUE, !.newer = {}, !.fenced = FALSE, !.pc = x]
    BY <1>6, <1>9 DEF Claim
  <2> HIDE DEF x
  <2> QED
    BY <1>1, <2>1 DEF WorkerStates
<1>10. CASE WindUpLoad(w)
  <2>1. PICK x, e, m : Become(w, [me EXCEPT !.pc = x, !.pend = e, !.tail = m])
                       \/ Become(w, [me EXCEPT !.pc = x])
    BY <1>10 DEF WindUpLoad
  <2> QED
    BY <1>1, <1>2, <2>1 DEF WorkerStates
<1>11. CASE WindUpAppend(w)
  <2>1. \/ Become(w, [me EXCEPT !.pc = "wound", !.pend = Blank, !.tail = 0])
        \/ Become(w, me)
        \/ Become(w, [me EXCEPT !.tail = Len(log)])
    BY <1>11 DEF WindUpAppend
  <2> QED
    BY <1>1, <1>2, <2>1 DEF WorkerStates
<1>12. CASE WindUpFails(w)
  BY <1>5, <1>6, <1>12 DEF WindUpFails, GiveBack
<1>13. CASE WindUpDone(w)
  <2>1. CASE me.stop = 0 /\ me.more
    <3>1. Become(w, [IdleWorker EXCEPT !.pc = "covered", !.job = n])
      BY <1>13, <2>1 DEF WindUpDone
    <3> QED
      BY <1>2, <3>1 DEF IdleWorker
  <2>2. CASE ~ (me.stop = 0 /\ me.more)
    <3>1. me.pc = "wound" /\ log' = log
      BY <1>13 DEF WindUpDone
    <3>2. prompt_is_covered(log, n)
      BY <1>1, <2>2, <3>1 DEF WorkerOK, SettleOK, Winding
    <3> QED
      BY <3>1, <3>2 DEF Goal
  <2> QED
    BY <2>1, <2>2
<1>14. CASE Start(w) \/ StartWatcher(w) \/ ToolsReturn(w) \/ AbortTurn(w)
  <2>1. CASE Start(w)
    <3>1. PICK b : Become(w, [me EXCEPT !.pc = "watcher", !.own = Len(log), !.inv = b])
      BY <2>1 DEF Start
    <3> QED
      BY <1>1, <1>2, <3>1 DEF WorkerStates
  <2>2. CASE StartWatcher(w) \/ ToolsReturn(w) \/ AbortTurn(w)
    BY <1>1, <1>2, <2>2 DEF StartWatcher, ToolsReturn, AbortTurn, Writing, WorkerStates
  <2> QED
    BY <1>14, <2>1, <2>2
<1>15. CASE Derive(w)
  <2>1. PICK x, c : Become(w, [me EXCEPT !.pc = x]) \/ Become(w, [me EXCEPT !.pc = x, !.cursor = c])
    BY <1>15 DEF Derive
  <2> QED
    BY <1>1, <1>2, <2>1 DEF WorkerStates
<1>16. CASE Validate(w)
  <2>1. PICK x, c : Become(w, [me EXCEPT !.pc = x]) \/ Become(w, [me EXCEPT !.pc = x, !.hw = c])
    BY <1>16 DEF Validate
  <2> QED
    BY <1>1, <1>2, <2>1 DEF WorkerStates
<1>17. CASE Load(w)
  <2>1. PICK x, c : Become(w, [me EXCEPT !.pc = x]) \/ Become(w, [me EXCEPT !.pc = x, !.repair = c])
    BY <1>17 DEF Load
  <2> QED
    BY <1>1, <1>2, <2>1 DEF WorkerStates
<1>18. CASE Repair(w)
  <2>1. PICK x, c, m : Become(w, [me EXCEPT !.own = m, !.repair = c, !.pc = x])
    BY <1>18 DEF Repair
  <2> QED
    BY <1>1, <1>2, <2>1 DEF WorkerStates
<1>19. CASE ModelReplies(w)
  <2>1. PICK e : Become(w, Writing(w, e)) \/ Become(w, [me EXCEPT !.pc = "error"])
    BY <1>19 DEF ModelReplies
  <2> QED
    BY <1>1, <1>2, <2>1 DEF WorkerStates, Writing
<1>20. CASE AppendLands(w)
  <2> DEFINE x == AfterAppend(me.pend.kind)
             r == [me EXCEPT !.pc = x, !.own = Len(log) + 1, !.pend = Blank, !.tail = 0]
  <2>1. wk' = Stamped(w, r) \/ Become(w, r)
    BY <1>20 DEF AppendLands
  <2>2. wk'[w] = r
    BY <1>2, <2>1 DEF Stamped
  <2> HIDE DEF x
  <2> QED
    BY <1>1, <2>2 DEF WorkerStates
<1>21. CASE AppendConflicts(w) \/ AppendFencedOut(w)
  BY <1>1, <1>2, <1>21 DEF AppendConflicts, AppendFencedOut, AppendFailed, WorkerStates
<1>22. CASE Inject(w)
  <2>1. PICK x, c : Become(w, [me EXCEPT !.pc = x]) \/ Become(w, [me EXCEPT !.pc = x, !.cursor = c])
    BY <1>22 DEF Inject
  <2> QED
    BY <1>1, <1>2, <2>1 DEF WorkerStates
<1>23. CASE EndTurn(w)
  <2> DEFINE h == Max({me.hw, me.cursor})
             r0 == [me EXCEPT !.pc = "drain", !.hw = h]
             r1 == [r0 EXCEPT !.own = Len(log) + 1]
  <2>1. wk' = Stamped(w, r1) \/ Become(w, r0)
    BY <1>23 DEF EndTurn
  <2>2. wk'[w] \in {r0, r1}
    BY <1>2, <2>1 DEF Stamped
  <2> HIDE DEF h
  <2> QED
    BY <1>1, <2>2 DEF WorkerStates
<1>24. CASE Drain(w)
  <2>1. PICK x, c : Become(w, [me EXCEPT !.pc = x, !.input = c])
    BY <1>24 DEF Drain
  <2> QED
    BY <1>1, <1>2, <2>1 DEF WorkerStates
<1>25. CASE RecordError(w)
  <2> DEFINE r0 == [me EXCEPT !.pc = "finish"]
             r1 == [r0 EXCEPT !.failed = TRUE]
  <2>1. wk' = Stamped(w, r1) \/ Become(w, r0)
    BY <1>25 DEF RecordError
  <2>2. wk'[w] \in {r0, r1}
    BY <1>2, <2>1 DEF Stamped
  <2> QED
    BY <1>1, <2>2 DEF WorkerStates
<1>26. CASE Finish(w)
  <2>1. log' = log
    BY <1>26 DEF Finish
  <2>2. CASE me.failed
    BY <1>5, <2>1, <2>2
  <2>3. CASE Become(w, [me EXCEPT !.pc = "stop"])
    BY <1>1, <1>2, <2>3 DEF WorkerStates
  <2>4. CASE ~ has_queued_input(w)
    <3> DEFINE p == invocation_prompt_seq(log, head)
    <3>1. invocation_terminal_seq(log, p) # 0
      BY <1>4, <2>4, TurnConstants DEF has_queued_input, active_admission, admission_is_terminal
    <3>2. p \in 0..Len(log) /\ n <= p
      BY <1>1, <1>4, LatestPrompt
    <3> HIDE DEF p
    <3>3. prompt_is_covered(log, n)
      BY <1>1, <3>1, <3>2, LaterTerminalCovers
    <3> QED
      BY <2>1, <3>3 DEF Goal
  <2> QED
    BY <1>6, <1>26, <2>2, <2>3, <2>4 DEF Finish
<1>27. CASE StopLoad(w)
  <2>1. CASE GiveBack(w)
    BY <1>5, <1>6, <1>27, <2>1 DEF GiveBack, StopLoad
  <2>2. CASE \E x, p, m : Become(w, [me EXCEPT !.stop = p, !.tail = m, !.pc = x])
    BY <1>1, <1>2, <2>2 DEF WorkerStates
  <2> QED
    BY <1>27, <2>1, <2>2 DEF StopLoad
<1>28. CASE StopAppend(w)
  <2>1. PICK x, m : Become(w, [me EXCEPT !.pc = x]) \/ Become(w, [me EXCEPT !.tail = m, !.pc = x])
    BY <1>28 DEF StopAppend
  <2> QED
    BY <1>1, <1>2, <2>1 DEF WorkerStates
<1>29. CASE Watch(w)
  <2>1. PICK m, A, I : Become(w, [me EXCEPT !.watch = m, !.abort = A, !.input = I])
    BY <1>29 DEF Watch
  <2> QED
    BY <1>1, <1>2, <2>1 DEF WorkerStates
<1>30. CASE NoticeLoss(w)
  <2>1. PICK A : Become(w, [me EXCEPT !.held = FALSE, !.abort = A])
    BY <1>30 DEF NoticeLoss
  <2> QED
    BY <1>1, <1>2, <2>1 DEF WorkerStates
<1>31. CASE LoseLease(w) \/ Crash(w)
  BY <1>6, <1>31 DEF LoseLease, Crash
<1>32. ASSUME NEW m \in ready, Deliver(w, m) PROVE Goal
  <2>1. m # 0
    BY <1>1, <1>32 DEF IInv, FrontOK, IsActivation
  <2>2. wk'[w] = [IdleWorker EXCEPT !.pc = "preflight", !.job = m]
    BY <1>2, <1>32 DEF Deliver
  <2> QED
    BY <2>1, <2>2 DEF IdleWorker
<1> QED
  BY <1>7, <1>8, <1>9, <1>10, <1>11, <1>12, <1>13, <1>14, <1>15, <1>16, <1>17, <1>18, <1>19,
     <1>20, <1>21, <1>22, <1>23, <1>24, <1>25, <1>26, <1>27, <1>28, <1>29, <1>30, <1>31, <1>32
     DEF Worker

(* The delivery of a prompt whose invocation is still the session's latest *)
(* is given up only once a durable entry settles the prompt                *)
(* (settle_session_delivery, has_queued_input)                             *)
THEOREM SettledBeforeGivingUp == Spec => SettledBeforeAck
<1> DEFINE A == \A w \in Workers :
                    LET n == wk[w].job
                    IN  (/\ n # 0 /\ wk'[w].job = 0 /\ n \notin ready'
                         /\ log[n].kind = "user" /\ bound[log[n].id] = head)
                        => prompt_is_covered(log', n)
<1>1. ASSUME IInv, [Next]_vars PROVE [A]_vars
  <2>1. SUFFICES ASSUME Next, NEW w \in Workers, wk[w].job # 0, wk'[w].job = 0,
                        wk[w].job \notin ready', log[wk[w].job].kind = "user",
                        bound[log[wk[w].job].id] = head
                 PROVE  prompt_is_covered(log', wk[w].job)
    BY <1>1
  <2>2. ~ Frontend
    BY <2>1, FrontendsMoveNobody
  <2>3. PICK v \in Workers : \/ Worker(v) \/ Watch(v) \/ NoticeLoss(v) \/ LoseLease(v) \/ Crash(v)
                            \/ \E n \in ready : Deliver(v, n)
    BY <2>1, <2>2 DEF Next
  <2>4. v = w
    BY <1>1, <2>1, <2>3, OthersKeepTheirPlace
  <2> QED
    BY <1>1, <2>1, <2>3, <2>4, EndsSettled
<1>2. IInv /\ [Next]_vars => [A]_vars
  BY <1>1
<1>3. SettledBeforeAck <=> [][A]_vars
  BY DEF SettledBeforeAck
<1> HIDE DEF A
<1> QED
  BY <1>2, <1>3, TurnInvariant, PTL DEF Spec

=============================================================================
