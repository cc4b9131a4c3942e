------------------------ MODULE ToolInvocationProofs ------------------------
(***************************************************************************)
(* Proofs about ToolInvocation for every set of replicas, any number of    *)
(* replays and every digest of their requests that differs from the        *)
(* original's, and every bound on sent attempts, cancels and faults.       *)
(*                                                                         *)
(* IInv says, beyond the types: the row exists once the recorder created   *)
(* it, and its reply is the decided outcome while it is live (RowOK); what *)
(* a purged session may have left (PurgedOK); where each request path, its *)
(* owner task, its reply and the revision it read stand (PathOK); callers  *)
(* and caches know the decided outcome only (DecidedOK, CacheOK); handles  *)
(* and job handles belong to live runs (HandleOK, JobOK); who may run at   *)
(* all (RunOK); and what an early cancel leaves possible (CancelOK).  The  *)
(* part that makes the outcome unique is the last of PathOK: a write of    *)
(* the outcome applies only at the revision it read, and while the row has *)
(* that revision it is live and has no reply.                              *)
(***************************************************************************)
EXTENDS ToolInvocation, FiniteSetTheorems, TLAPS

(* Request paths before a run, about to write an outcome, and those that    *)
(* hold the in-progress entry of the reply cache.                           *)
Unstarted == {"none", "queued", "wait", "admit"}
Completing == {"complete", "update", "recheck"}
Executing == Busy \ {"wait", "serve"}

(* The row: nothing has happened before it exists; a live one has the       *)
(* decided reply; only a deleted session has a purged one.                  *)
RowOK ==
    /\ row.op = "none" => /\ row = Absent /\ decided = None
                          /\ \A a \in Attempts : path[a] = "none"
    /\ Live => row.reply = decided
    /\ row.op = "purge" => deleted
    /\ deleted <=> purger # "idle"
    /\ caller[0] \in {"idle", "creating"} => row.op = "none"
    /\ caller[0] = "created" \/ purger = "listed" => row.op # "none"

(* A row that outlives purge_session was created after the keys were        *)
(* listed; nothing has been sent for it.                                    *)
PurgedOK ==
    purger = "done" /\ Live =>
        /\ caller[0] \in {"created", "stranded"}
        /\ row.reply = None /\ row.checkpoint = None
        /\ \A a \in Attempts : path[a] = "none"

(* The path of attempt a in the server that took it.                        *)
PathOK(a) ==
    /\ caller[a] \in {"idle", "creating", "created", "stranded"} => path[a] = "none"
    /\ path[a] \in Unstarted => owner[a] = "none"
    /\ path[a] \in Busy => at[a] \in Servers
    /\ owner[a] = "handler" => path[a] = "await"
    /\ path[a] \in Completing => /\ out[a] \in Outcomes /\ out[a].by = a
                                 /\ owner[a] \notin {"none", "handler"}
    /\ path[a] \in {"finish", "serve"} =>
           out[a] \in Unjournaled \/ (out[a] = decided /\ decided # None)
    /\ path[a] = "update" => /\ seen[a] <= row.rev
                             /\ seen[a] = row.rev => Live /\ row.reply = None

(* A decided outcome is that of a run whose handler is done; callers heard  *)
(* no other.                                                                *)
DecidedOK ==
    /\ decided # None => owner[decided.by] \notin {"none", "handler"}
    /\ heard \subseteq {decided}

(* The reply cache: complete entries are the decided outcome, and an entry  *)
(* in progress has an execution that will complete it.                      *)
CacheOK ==
    /\ CachedIsJournaled
    /\ \A a \in Attempts : path[a] = "wait" => reply_cache[at[a]][Key[a]] = InProgress
    /\ \A s \in Servers, k \in Keys : reply_cache[s][k] = InProgress =>
           \E b \in Attempts : at[b] = s /\ Key[b] = k /\ path[b] \in Executing

(* A registered handle is that of a live owner task of the same replica.    *)
HandleOK ==
    \A s \in Servers : in_flight[s] # None =>
        at[in_flight[s]] = s /\ owner[in_flight[s]] \in Running

(* A job handle is held by a live run, and is the one in a live row.        *)
JobOK ==
    \A a \in Attempts : job[a] # None =>
        owner[a] \in Running /\ (Live => job[a] = row.checkpoint)

(* Only the original attempt runs a tool that cannot replay.                *)
RunOK == ~can_replay => \A a \in Attempts : owner[a] # "none" => a = 0

(* Once a cancel was accepted before the decision of run a, the token stays *)
(* cancelled until the handler is done, and the run reports an interruption. *)
CancelOK(a) ==
    ack[a] = "early" =>
        /\ owner[a] # "none"
        /\ owner[a] = "handler" => slot[a]
        /\ path[a] \in Completing => out[a].kind = "intr"
        /\ decided # None /\ decided.by = a => decided.kind = "intr"

(* The inductive invariant.                                                 *)
IInv ==
    /\ TypeOK /\ RowOK /\ PurgedOK /\ DecidedOK /\ CacheOK /\ HandleOK /\ JobOK /\ RunOK
    /\ \A a \in Attempts : PathOK(a) /\ CancelOK(a)

-----------------------------------------------------------------------------
(* Replies: a run's reply names its attempt and is none of the server's own *)
(* replies, which are failures; no reply is None or the in-progress entry.  *)
LEMMA ReplyFacts ==
    /\ \A a \in Attempts, k \in Results \union {"intr"} :
          Reply(a, k) \in Outcomes /\ Reply(a, k).by = a /\ Reply(a, k).kind = k
    /\ \A r \in Outcomes : r.by \in Attempts /\ r \notin Unjournaled
    /\ Fatal \in Unjournaled /\ Refused \in Unjournaled
    /\ \A r \in Unjournaled : r.kind # "ok"
    /\ None \notin Outcomes /\ None \notin Unjournaled /\ None # InProgress
    /\ InProgress \notin Outcomes /\ InProgress \notin Unjournaled
  <1>1. None \notin Outcomes /\ None \notin Unjournaled /\ None # InProgress
    BY NoneIsNoMessage DEF Replies
  <1>2. ASSUME NEW a \in Attempts, NEW k \in Results \union {"intr"}
        PROVE  Reply(a, k) \in Outcomes /\ Reply(a, k).by = a /\ Reply(a, k).kind = k
    BY DEF Reply, Outcomes
  <1>3. ASSUME NEW r \in Outcomes PROVE r.by \in Attempts /\ r \notin Unjournaled
    BY CallConstants DEF Reply, Outcomes, Unjournaled, Fatal, Refused
  <1>4. /\ Fatal \in Unjournaled /\ Refused \in Unjournaled
        /\ \A r \in Unjournaled : r.kind # "ok"
    BY DEF Reply, Unjournaled, Fatal, Refused
  <1>5. InProgress \notin Outcomes /\ InProgress \notin Unjournaled
    BY CallConstants DEF Reply, Outcomes, Unjournaled, Fatal, Refused, InProgress
  <1> QED BY <1>1, <1>2, <1>3, <1>4, <1>5

(* There is an original attempt; None is no attempt and no replica.         *)
LEMMA AttemptFacts == 0 \in Attempts /\ None \notin Attempts /\ None \notin Servers
  BY CallConstants DEF Attempts

(* A step that lets every execution run on and adds no waiter keeps what is *)
(* said of an unchanged cache.                                              *)
LEMMA CacheFrame ==
    ASSUME CacheOK, UNCHANGED <<reply_cache, decided, at>>,
           \A b \in Attempts : /\ path[b] \in Executing => path'[b] \in Executing
                               /\ path'[b] = "wait" => path[b] = "wait"
    PROVE  CacheOK'
  BY DEF CacheOK, CachedIsJournaled

(* Nothing but the types is said of the faults, the cancels still to send,  *)
(* the replicas' lifecycles and the control messages.                       *)
LEMMA SameCall ==
    ASSUME IInv, TypeOK',
           UNCHANGED <<tool, row, deleted, decided, purger, caller, heard, path, at, seen, out>>,
           UNCHANGED <<owner, slot, ack, job, in_flight, reply_cache>>
    PROVE  IInv'
  BY DEF IInv, RowOK, PurgedOK, DecidedOK, CacheOK, CachedIsJournaled, HandleOK, JobOK, RunOK,
     PathOK, CancelOK, Live, can_replay

(* record looks at the tombstone before it creates the row.                 *)
LEMMA RecordStartKeeps ==
    ASSUME IInv, RecordStart
    PROVE  IInv'
  <1> USE AttemptFacts DEF IInv, Live, RecordStart, CallerAt, Told, journal, request,
     task, replica, Replies
  <1>1. TypeOK'
    <2>1. (caller \in [Attempts -> {"idle", "creating", "created", "waiting", "over",
                                "stranded"}])'
      BY DEF TypeOK
    <2>2. (heard \subseteq Outcomes)'
      BY DEF TypeOK
    <2> QED BY <2>1, <2>2 DEF TypeOK
  <1>2. /\ CacheOK' /\ HandleOK' /\ JobOK' /\ RunOK'
        /\ \A a \in Attempts : CancelOK(a)'
    BY DEF CacheOK, HandleOK, JobOK, RunOK, CancelOK, CachedIsJournaled, can_replay
  <1>3. RowOK'
    BY DEF RowOK, TypeOK, Absent, Busy
  <1>4. PurgedOK'
    BY DEF PurgedOK, TypeOK, Busy
  <1>5. DecidedOK'
    BY ReplyFacts DEF DecidedOK, TypeOK, Running
  <1>6. ASSUME NEW a \in Attempts PROVE PathOK(a)'
    BY ReplyFacts DEF PathOK, TypeOK, Busy, Running, Completing, Unstarted
  <1> QED BY <1>1, <1>2, <1>3, <1>4, <1>5, <1>6

(* record creates the row, which no attempt has used yet.                   *)
LEMMA RecordCreateKeeps ==
    ASSUME IInv, RecordCreate
    PROVE  IInv'
  <1> USE AttemptFacts DEF IInv, Live, RecordCreate, CallerAt, request, task, replica,
     Replies
  <1>1. TypeOK'
    <2>1. (row \in [op : {"none", "put", "purge"}, rev : Nat,
                 reply : Outcomes \union {None}, checkpoint : Attempts \union {None}])'
      BY ReplyFacts DEF TypeOK
    <2>2. (caller \in [Attempts -> {"idle", "creating", "created", "waiting", "over",
                                "stranded"}])'
      BY DEF TypeOK
    <2> QED BY <2>1, <2>2 DEF TypeOK
  <1>2. /\ DecidedOK' /\ CacheOK' /\ HandleOK' /\ RunOK'
        /\ \A a \in Attempts : CancelOK(a)'
    BY DEF DecidedOK, CacheOK, HandleOK, RunOK, CancelOK, CachedIsJournaled, can_replay
  <1>3. RowOK'
    BY DEF RowOK, TypeOK, Absent, Busy
  <1>4. PurgedOK'
    BY DEF PurgedOK, TypeOK, Busy, RowOK
  <1>5. JobOK'
    BY DEF JobOK, TypeOK, Running, RowOK, PathOK, Unstarted
  <1>6. ASSUME NEW a \in Attempts PROVE PathOK(a)'
    BY ReplyFacts DEF PathOK, TypeOK, Busy, Running, Completing, Unstarted
  <1> QED BY <1>1, <1>2, <1>3, <1>4, <1>5, <1>6

(* record looks at the tombstone again, and dispatches or purges.           *)
LEMMA RecordedKeeps ==
    ASSUME IInv, Recorded
    PROVE  IInv'
  <1> USE AttemptFacts DEF IInv, Live, Recorded, CallerAt, Told, Dispatch, Purged,
     request, task, replica, Replies
  <1>1. TypeOK'
    <2>1. (row \in [op : {"none", "put", "purge"}, rev : Nat,
                 reply : Outcomes \union {None}, checkpoint : Attempts \union {None}])'
      BY ReplyFacts DEF TypeOK
    <2>2. (caller \in [Attempts -> {"idle", "creating", "created", "waiting", "over",
                                "stranded"}])'
      BY DEF TypeOK
    <2>3. (heard \subseteq Outcomes)'
      BY DEF TypeOK
    <2>4. (path \in [Attempts -> Busy \union {"none", "queued", "over"}])'
      BY DEF TypeOK, Busy
    <2> QED BY <2>1, <2>2, <2>3, <2>4 DEF TypeOK
  <1>2. HandleOK' /\ RunOK'
    BY DEF HandleOK, RunOK, can_replay
  <1>3. RowOK'
    BY DEF RowOK, TypeOK, Absent, Busy
  <1>4. PurgedOK'
    BY DEF PurgedOK, TypeOK, Busy, RowOK
  <1>5. DecidedOK'
    BY ReplyFacts DEF DecidedOK, TypeOK, Running
  <1>6. CacheOK'
    <2>1. \A b \in Attempts : /\ path[b] \in Executing => path'[b] \in Executing
                              /\ path'[b] = "wait" => path[b] = "wait"
      BY DEF TypeOK, Executing, Busy, PathOK
    <2> QED BY <2>1, CacheFrame
  <1>7. JobOK'
    BY DEF JobOK, TypeOK, Running
  <1>8. ASSUME NEW a \in Attempts PROVE PathOK(a)'
    BY ReplyFacts DEF PathOK, TypeOK, Busy, Running, Completing, Unstarted
  <1>9. ASSUME NEW a \in Attempts PROVE CancelOK(a)'
    BY ReplyFacts DEF CancelOK, TypeOK, Busy, Running, Completing
  <1> QED BY <1>1, <1>2, <1>3, <1>4, <1>5, <1>6, <1>7, <1>8, <1>9

(* The recording worker dies before its second look.                        *)
LEMMA WorkerDiesKeeps ==
    ASSUME IInv, WorkerDies
    PROVE  IInv'
  <1> USE AttemptFacts DEF IInv, Live, WorkerDies, CallerAt, Disturb, journal, request,
     task, replica, Replies
  <1>1. TypeOK'
    <2>1. (caller \in [Attempts -> {"idle", "creating", "created", "waiting", "over",
                                "stranded"}])'
      BY DEF TypeOK
    <2>2. (faults \in 0 .. MaxFaults)'
      BY CallConstants DEF TypeOK
    <2> QED BY <2>1, <2>2 DEF TypeOK
  <1>2. /\ DecidedOK' /\ CacheOK' /\ HandleOK' /\ JobOK' /\ RunOK'
        /\ \A a \in Attempts : CancelOK(a)'
    BY DEF DecidedOK, CacheOK, HandleOK, JobOK, RunOK, CancelOK, CachedIsJournaled,
       can_replay
  <1>3. RowOK'
    BY DEF RowOK, TypeOK, Absent, Busy
  <1>4. PurgedOK'
    BY DEF PurgedOK, TypeOK, Busy
  <1>5. ASSUME NEW a \in Attempts PROVE PathOK(a)'
    BY ReplyFacts DEF PathOK, TypeOK, Busy, Running, Completing, Unstarted
  <1> QED BY <1>1, <1>2, <1>3, <1>4, <1>5

(* The session watcher, or wind-up, cancels the call.                       *)
LEMMA InterruptKeeps ==
    ASSUME IInv, Interrupt
    PROVE  IInv'
  <1> USE AttemptFacts DEF IInv, Live, Interrupt, Disturb, journal, request, task,
     replica, Replies
  <1>1. TypeOK'
    <2>1. (sends \in Nat)'
      BY CallConstants DEF TypeOK
    <2>2. (faults \in 0 .. MaxFaults)'
      BY CallConstants DEF TypeOK
    <2> QED BY <2>1, <2>2 DEF TypeOK
  <1> QED BY <1>1, SameCall

(* A cancel reaches any set of the replicas.                                *)
LEMMA PublishCancelKeeps ==
    ASSUME IInv, PublishCancel
    PROVE  IInv'
  <1> USE AttemptFacts DEF IInv, Live, PublishCancel, journal, request, task, Replies
  <1>1. TypeOK'
    <2>1. (sends \in Nat)'
      BY CallConstants DEF TypeOK
    <2>2. (control \in [Servers -> {Cancel(a) : a \in Attempts \union {None}}
                           \union {None}])'
      BY DEF TypeOK
    <2> QED BY <2>1, <2>2 DEF TypeOK
  <1> QED BY <1>1, SameCall

(* purge_session writes the tombstone.                                      *)
LEMMA PutTombstoneKeeps ==
    ASSUME IInv, PutTombstone
    PROVE  IInv'
  <1> USE AttemptFacts DEF IInv, Live, PutTombstone, Disturb, worker, request, task,
     replica, Replies
  <1>1. TypeOK'
    <2>1. (deleted \in BOOLEAN)'
      BY DEF TypeOK
    <2>2. (purger \in {"idle", "marked", "listed", "done"})'
      BY DEF TypeOK
    <2>3. (faults \in 0 .. MaxFaults)'
      BY CallConstants DEF TypeOK
    <2> QED BY <2>1, <2>2, <2>3 DEF TypeOK
  <1>2. /\ DecidedOK' /\ CacheOK' /\ HandleOK' /\ JobOK' /\ RunOK'
        /\ \A a \in Attempts : PathOK(a)' /\ CancelOK(a)'
    BY DEF DecidedOK, CacheOK, HandleOK, JobOK, RunOK, PathOK, CancelOK,
       CachedIsJournaled, can_replay
  <1>3. RowOK'
    BY DEF RowOK, TypeOK, Absent, Busy
  <1>4. PurgedOK'
    BY DEF PurgedOK, TypeOK, Busy
  <1> QED BY <1>1, <1>2, <1>3, <1>4

(* purge_session finds the row, or none.                                    *)
LEMMA ListKeysKeeps ==
    ASSUME IInv, ListKeys
    PROVE  IInv'
  <1> USE AttemptFacts DEF IInv, Live, ListKeys, journal, worker, request, task, replica,
     Replies
  <1>1. TypeOK'
    <2>1. (purger \in {"idle", "marked", "listed", "done"})'
      BY DEF TypeOK
    <2> QED BY <2>1 DEF TypeOK
  <1>2. /\ DecidedOK' /\ CacheOK' /\ HandleOK' /\ JobOK' /\ RunOK'
        /\ \A a \in Attempts : PathOK(a)' /\ CancelOK(a)'
    BY DEF DecidedOK, CacheOK, HandleOK, JobOK, RunOK, PathOK, CancelOK,
       CachedIsJournaled, can_replay
  <1>3. RowOK'
    BY DEF RowOK, TypeOK, Absent, Busy
  <1>4. PurgedOK'
    BY DEF PurgedOK, TypeOK, Busy
  <1> QED BY <1>1, <1>2, <1>3, <1>4

(* purge_session purges the row it found.                                   *)
LEMMA PurgeRowKeeps ==
    ASSUME IInv, PurgeRow
    PROVE  IInv'
  <1> USE AttemptFacts DEF IInv, Live, PurgeRow, Purged, worker, request, task, replica,
     Replies
  <1>1. TypeOK'
    <2>1. (row \in [op : {"none", "put", "purge"}, rev : Nat,
                 reply : Outcomes \union {None}, checkpoint : Attempts \union {None}])'
      BY ReplyFacts DEF TypeOK
    <2>2. (purger \in {"idle", "marked", "listed", "done"})'
      BY DEF TypeOK
    <2> QED BY <2>1, <2>2 DEF TypeOK
  <1>2. /\ DecidedOK' /\ CacheOK' /\ HandleOK' /\ RunOK'
        /\ \A a \in Attempts : CancelOK(a)'
    BY DEF DecidedOK, CacheOK, HandleOK, RunOK, CancelOK, CachedIsJournaled, can_replay
  <1>3. RowOK'
    BY DEF RowOK, TypeOK, Absent, Busy
  <1>4. PurgedOK'
    BY DEF PurgedOK, TypeOK, Busy
  <1>5. JobOK'
    BY DEF JobOK, TypeOK, Running
  <1>6. ASSUME NEW a \in Attempts PROVE PathOK(a)'
    BY ReplyFacts DEF PathOK, TypeOK, Busy, Running, Completing, Unstarted
  <1> QED BY <1>1, <1>2, <1>3, <1>4, <1>5, <1>6

(* A replaying worker answers from the row or sends the request again.      *)
LEMMA ReplayRecordedCallKeeps ==
    ASSUME IInv, NEW a \in Attempts, ReplayRecordedCall(a)
    PROVE  IInv'
  <1> USE AttemptFacts DEF IInv, Live, ReplayRecordedCall, CallerAt, Told, Dispatch,
     journal, request, task, replica, Replies
  <1>1. TypeOK'
    <2>1. (caller \in [Attempts -> {"idle", "creating", "created", "waiting", "over",
                                "stranded"}])'
      BY DEF TypeOK
    <2>2. (heard \subseteq Outcomes)'
      BY DEF TypeOK
    <2>3. (path \in [Attempts -> Busy \union {"none", "queued", "over"}])'
      BY DEF TypeOK, Busy
    <2> QED BY <2>1, <2>2, <2>3 DEF TypeOK
  <1>2. HandleOK' /\ JobOK' /\ RunOK'
    BY DEF HandleOK, JobOK, RunOK, can_replay
  <1>3. RowOK'
    BY DEF RowOK, TypeOK, Absent, Busy
  <1>4. PurgedOK'
    BY DEF PurgedOK, TypeOK, Busy, RowOK
  <1>5. DecidedOK'
    BY ReplyFacts DEF DecidedOK, TypeOK, Running, RowOK
  <1>6. CacheOK'
    <2>1. \A b \in Attempts : /\ path[b] \in Executing => path'[b] \in Executing
                              /\ path'[b] = "wait" => path[b] = "wait"
      BY DEF TypeOK, Executing, Busy, PathOK
    <2> QED BY <2>1, CacheFrame
  <1>7. ASSUME NEW b \in Attempts PROVE PathOK(b)'
    BY ReplyFacts DEF PathOK, TypeOK, Busy, Running, Completing, Unstarted
  <1>8. ASSUME NEW b \in Attempts PROVE CancelOK(b)'
    BY ReplyFacts DEF CancelOK, TypeOK, Busy, Running, Completing
  <1> QED BY <1>1, <1>2, <1>3, <1>4, <1>5, <1>6, <1>7, <1>8

(* A caller stops waiting and may cancel the call.                          *)
LEMMA GiveUpKeeps ==
    ASSUME IInv, NEW a \in Attempts, GiveUp(a)
    PROVE  IInv'
  <1> USE AttemptFacts DEF IInv, Live, GiveUp, CallerAt, Told, Disturb, journal, request,
     task, replica, Replies
  <1>1. TypeOK'
    <2>1. (caller \in [Attempts -> {"idle", "creating", "created", "waiting", "over",
                                "stranded"}])'
      BY DEF TypeOK
    <2>2. (heard \subseteq Outcomes)'
      BY DEF TypeOK
    <2>3. (faults \in 0 .. MaxFaults)'
      BY CallConstants DEF TypeOK
    <2>4. (sends \in Nat)'
      BY CallConstants DEF TypeOK
    <2> QED BY <2>1, <2>2, <2>3, <2>4 DEF TypeOK
  <1>2. /\ CacheOK' /\ HandleOK' /\ JobOK' /\ RunOK'
        /\ \A b \in Attempts : CancelOK(b)'
    BY DEF CacheOK, HandleOK, JobOK, RunOK, CancelOK, CachedIsJournaled, can_replay
  <1>3. RowOK'
    BY DEF RowOK, TypeOK, Absent, Busy
  <1>4. PurgedOK'
    BY DEF PurgedOK, TypeOK, Busy
  <1>5. DecidedOK'
    BY ReplyFacts DEF DecidedOK, TypeOK, Running
  <1>6. ASSUME NEW b \in Attempts PROVE PathOK(b)'
    BY ReplyFacts DEF PathOK, TypeOK, Busy, Running, Completing, Unstarted
  <1> QED BY <1>1, <1>2, <1>3, <1>4, <1>5, <1>6

(* A replica takes a request and reserves its cache entry: no other         *)
(* execution holds the entry, so a waiter has the one that does.            *)
LEMMA ReceiveKeeps ==
    ASSUME IInv, NEW a \in Attempts, NEW s \in Servers, Receive(a, s)
    PROVE  IInv'
  <1> USE AttemptFacts DEF IInv, Live, Receive, CallerAt, Told, Disturb, Published,
     PathAt, Reserve, journal, task, Replies
  <1> Key[a] \in Keys BY DEF Keys
  <1>1. TypeOK'
    <2>1. (at \in [Attempts -> Servers \union {None}])'
      BY DEF TypeOK
    <2>2. (path \in [Attempts -> Busy \union {"none", "queued", "over"}])'
      BY DEF TypeOK, Busy
    <2>3. (reply_cache \in [Servers -> [Keys -> Replies \union {None, InProgress}]])'
      <3>1. reply_cache[s] \in [Keys -> Replies \union {None, InProgress}] BY DEF TypeOK
      <3>2. \/ reply_cache' = reply_cache
            \/ reply_cache' = [reply_cache EXCEPT ![s] = [@ EXCEPT ![Key[a]] = InProgress]]
        OBVIOUS
      <3>3. [reply_cache[s] EXCEPT ![Key[a]] = InProgress]
                \in [Keys -> Replies \union {None, InProgress}]
        BY <3>1
      <3> HIDE DEF Receive, Replies
      <3> QED BY <3>2, <3>3 DEF TypeOK
    <2>4. (caller \in [Attempts -> {"idle", "creating", "created", "waiting", "over",
                                "stranded"}])'
      BY DEF TypeOK
    <2>5. (heard \subseteq Outcomes)'
      BY DEF TypeOK
    <2>6. (faults \in 0 .. MaxFaults)'
      BY CallConstants DEF TypeOK
    <2> QED BY <2>1, <2>2, <2>3, <2>4, <2>5, <2>6 DEF TypeOK
  <1>2. JobOK' /\ RunOK'
    BY DEF JobOK, RunOK, can_replay
  <1>3. RowOK'
    BY DEF RowOK, TypeOK, Absent, Busy
  <1>4. PurgedOK'
    BY DEF PurgedOK, TypeOK, Busy
  <1>5. DecidedOK'
    BY ReplyFacts DEF DecidedOK, TypeOK, Running, CacheOK, CachedIsJournaled
  <1>6. CacheOK'
    <2>1. /\ path[a] \notin Executing /\ path[a] # "wait" /\ at'[a] = s /\ UNCHANGED decided
          /\ \A b \in Attempts \ {a} : path'[b] = path[b] /\ at'[b] = at[b]
      BY DEF TypeOK, Executing, Busy
    <2>2. CASE path'[a] = "admit"
      <3>1. /\ reply_cache[s][Key[a]] = None
            /\ reply_cache' = [reply_cache EXCEPT ![s] = [@ EXCEPT ![Key[a]] = InProgress]]
        BY <2>2 DEF TypeOK
      <3>2. \A t \in Servers, k \in Keys :
               reply_cache'[t][k] = IF t = s /\ k = Key[a] THEN InProgress ELSE reply_cache[t][k]
        BY <3>1 DEF TypeOK
      <3> HIDE DEF Receive, Reserve
      <3>3. \A b \in Attempts : Key[b] \in Keys BY DEF Keys
      <3>4. \A b \in Attempts : path[b] = "wait" => at[b] \in Servers BY DEF PathOK, Busy
      <3> QED BY <2>1, <2>2, <3>2, <3>3, <3>4, ReplyFacts DEF CacheOK, CachedIsJournaled,
         Executing, Busy
    <2>3. CASE path'[a] # "admit"
      <3>1. /\ reply_cache' = reply_cache /\ path'[a] \notin Executing
            /\ path'[a] = "wait" => reply_cache[s][Key[a]] = InProgress
        BY <2>3 DEF TypeOK, Executing, Busy
      <3> HIDE DEF Receive, Reserve
      <3> QED BY <2>1, <3>1 DEF CacheOK, CachedIsJournaled
    <2> QED BY <2>2, <2>3
  <1>7. HandleOK'
    BY DEF HandleOK, TypeOK, Running, PathOK, Unstarted
  <1>8. ASSUME NEW b \in Attempts PROVE PathOK(b)'
    BY ReplyFacts DEF PathOK, TypeOK, Busy, Running, Completing, Unstarted
  <1>9. ASSUME NEW b \in Attempts PROVE CancelOK(b)'
    BY ReplyFacts DEF CancelOK, TypeOK, Busy, Running, Completing
  <1> QED BY <1>1, <1>2, <1>3, <1>4, <1>5, <1>6, <1>7, <1>8, <1>9

(* The checks before a run, and its start: a run starts for a path          *)
(* that had none, so the handle it registers is that of a new owner.        *)
LEMMA AdmitKeeps ==
    ASSUME IInv, NEW a \in Attempts, Admit(a)
    PROVE  IInv'
  <1> USE AttemptFacts DEF IInv, Live, Admit, With, PathAt, Refuse, journal, worker, Replies
  <1>1. TypeOK'
    <2>1. (path \in [Attempts -> Busy \union {"none", "queued", "over"}])'
      BY DEF TypeOK, Busy
    <2>2. (out \in [Attempts -> Replies \union {None}])'
      BY ReplyFacts DEF TypeOK
    <2>3. (owner \in [Attempts -> Running \union {"none", "gone"}])'
      BY DEF TypeOK, Running
    <2>4. (job \in [Attempts -> Attempts \union {None}])'
      BY DEF TypeOK
    <2>5. (in_flight \in [Servers -> Attempts \union {None}])'
      BY DEF TypeOK
    <2> QED BY <2>1, <2>2, <2>3, <2>4, <2>5 DEF TypeOK
  <1>2. RowOK'
    BY DEF RowOK, TypeOK, Absent, Busy
  <1>3. PurgedOK'
    BY DEF PurgedOK, TypeOK, Busy
  <1>4. DecidedOK'
    <2>1. /\ UNCHANGED <<decided, heard>>
          /\ \A b \in Attempts : owner'[b] = owner[b] \/ owner[b] = "none"
      BY DEF TypeOK, PathOK, Unstarted
    <2> HIDE DEF Admit
    <2> QED BY <2>1, ReplyFacts DEF DecidedOK, TypeOK
  <1>5. CacheOK'
    <2>1. \A b \in Attempts : /\ path[b] \in Executing => path'[b] \in Executing
                              /\ path'[b] = "wait" => path[b] = "wait"
      BY DEF TypeOK, Executing, Busy, PathOK
    <2> QED BY <2>1, CacheFrame
  <1>6. HandleOK'
    BY DEF HandleOK, TypeOK, Running
  <1>7. JobOK'
    BY DEF JobOK, TypeOK, Running
  <1>8. RunOK'
    BY DEF RunOK, TypeOK, can_replay, Running, PolicyAdmits
  <1>9. ASSUME NEW b \in Attempts PROVE PathOK(b)'
    BY ReplyFacts DEF PathOK, TypeOK, Busy, Running, Completing, Unstarted, RowOK
  <1>10. ASSUME NEW b \in Attempts PROVE CancelOK(b)'
    BY ReplyFacts DEF CancelOK, TypeOK, Busy, Running, Completing, PathOK, Unstarted
  <1> QED BY <1>1, <1>2, <1>3, <1>4, <1>5, <1>6, <1>7, <1>8, <1>9, <1>10

(* The owner task finds its token cancelled.                                *)
LEMMA InterruptedKeeps ==
    ASSUME IInv, NEW a \in Attempts, Interrupted(a)
    PROVE  IInv'
  <1> USE AttemptFacts DEF IInv, Live, Interrupted, OwnerAt, With, PathAt, journal,
     worker, replica, Replies
  <1>1. TypeOK'
    <2>1. (owner \in [Attempts -> Running \union {"none", "gone"}])'
      BY DEF TypeOK, Running
    <2>2. (path \in [Attempts -> Busy \union {"none", "queued", "over"}])'
      BY DEF TypeOK, Busy
    <2>3. (out \in [Attempts -> Replies \union {None}])'
      BY ReplyFacts DEF TypeOK
    <2> QED BY <2>1, <2>2, <2>3 DEF TypeOK
  <1>2. RowOK'
    BY DEF RowOK, TypeOK, Absent, Busy, PathOK
  <1>3. PurgedOK'
    BY DEF PurgedOK, TypeOK, Busy, PathOK
  <1>4. DecidedOK'
    BY ReplyFacts DEF DecidedOK, TypeOK, Running
  <1>5. CacheOK'
    <2>1. \A b \in Attempts : /\ path[b] \in Executing => path'[b] \in Executing
                              /\ path'[b] = "wait" => path[b] = "wait"
      BY DEF TypeOK, Executing, Busy, PathOK
    <2> QED BY <2>1, CacheFrame
  <1>6. HandleOK'
    BY DEF HandleOK, TypeOK, Running
  <1>7. JobOK'
    BY DEF JobOK, TypeOK, Running
  <1>8. RunOK'
    BY DEF RunOK, TypeOK, can_replay, Running
  <1>9. ASSUME NEW b \in Attempts PROVE PathOK(b)'
    BY ReplyFacts DEF PathOK, TypeOK, Busy, Running, Completing, Unstarted
  <1>10. ASSUME NEW b \in Attempts PROVE CancelOK(b)'
    BY ReplyFacts DEF CancelOK, TypeOK, Busy, Running, Completing
  <1> QED BY <1>1, <1>2, <1>3, <1>4, <1>5, <1>6, <1>7, <1>8, <1>9, <1>10

(* The owner task ends and removes its own handle.                          *)
LEMMA OwnerExitsKeeps ==
    ASSUME IInv, NEW a \in Attempts, OwnerExits(a)
    PROVE  IInv'
  <1> USE AttemptFacts DEF IInv, Live, OwnerExits, OwnerAt, journal, worker, request,
     Replies
  <1>1. TypeOK'
    <2>1. (owner \in [Attempts -> Running \union {"none", "gone"}])'
      BY DEF TypeOK, Running
    <2>2. (in_flight \in [Servers -> Attempts \union {None}])'
      BY DEF TypeOK
    <2>3. (slot \in [Attempts -> BOOLEAN])'
      BY DEF TypeOK
    <2>4. (job \in [Attempts -> Attempts \union {None}])'
      BY DEF TypeOK
    <2> QED BY <2>1, <2>2, <2>3, <2>4 DEF TypeOK
  <1>2. RowOK' /\ PurgedOK' /\ CacheOK'
    BY DEF RowOK, PurgedOK, CacheOK, Absent, CachedIsJournaled
  <1>3. DecidedOK'
    BY ReplyFacts DEF DecidedOK, TypeOK, Running
  <1>4. HandleOK'
    BY DEF HandleOK, TypeOK, Running
  <1>5. JobOK'
    BY DEF JobOK, TypeOK, Running
  <1>6. RunOK'
    BY DEF RunOK, TypeOK, can_replay, Running
  <1>7. ASSUME NEW b \in Attempts PROVE PathOK(b)'
    BY ReplyFacts DEF PathOK, TypeOK, Busy, Running, Completing, Unstarted
  <1>8. ASSUME NEW b \in Attempts PROVE CancelOK(b)'
    BY ReplyFacts DEF CancelOK, TypeOK, Busy, Running, Completing
  <1> QED BY <1>1, <1>2, <1>3, <1>4, <1>5, <1>6, <1>7, <1>8

(* complete_bounded reads the row, or finds the recorded reply.             *)
LEMMA CompleteReadKeeps ==
    ASSUME IInv, NEW a \in Attempts, CompleteRead(a)
    PROVE  IInv'
  <1> USE AttemptFacts DEF IInv, Live, CompleteRead, With, PathAt, journal, worker, task,
     replica, Replies
  <1>1. TypeOK'
    <2>1. (path \in [Attempts -> Busy \union {"none", "queued", "over"}])'
      <3>1. \E p \in {"finish", "update"} : path' = [path EXCEPT ![a] = p]
        OBVIOUS
      <3> QED BY <3>1 DEF TypeOK, Busy
    <2>2. (out \in [Attempts -> Replies \union {None}])'
      BY ReplyFacts DEF TypeOK
    <2>3. (seen \in [Attempts -> Nat])'
      BY DEF TypeOK
    <2> QED BY <2>1, <2>2, <2>3 DEF TypeOK
  <1>2. DecidedOK' /\ HandleOK' /\ JobOK' /\ RunOK'
    BY DEF DecidedOK, HandleOK, JobOK, RunOK, can_replay
  <1>3. RowOK'
    BY DEF RowOK, TypeOK, Absent, Busy
  <1>4. PurgedOK'
    BY DEF PurgedOK, TypeOK, Busy
  <1>5. CacheOK'
    <2>1. \A b \in Attempts : /\ path[b] \in Executing => path'[b] \in Executing
                              /\ path'[b] = "wait" => path[b] = "wait"
      BY DEF TypeOK, Executing, Busy, PathOK
    <2> QED BY <2>1, CacheFrame
  <1>6. ASSUME NEW b \in Attempts PROVE PathOK(b)'
    BY ReplyFacts DEF PathOK, TypeOK, Busy, Running, Completing, Unstarted, RowOK
  <1>7. ASSUME NEW b \in Attempts PROVE CancelOK(b)'
    BY ReplyFacts DEF CancelOK, TypeOK, Busy, Running, Completing
  <1> QED BY <1>1, <1>2, <1>3, <1>4, <1>5, <1>6, <1>7

(* The write of the outcome: it applies at the revision that was read,      *)
(* where the row is live and has no reply, so nothing was decided before.   *)
LEMMA CompleteUpdateKeeps ==
    ASSUME IInv, NEW a \in Attempts, CompleteUpdate(a)
    PROVE  IInv'
  <1> USE AttemptFacts DEF IInv, Live, CompleteUpdate, With, PathAt, Disturb,
     UpdateApplies, worker, task, replica, Replies
  <1>1. TypeOK'
    <2>1. (row \in [op : {"none", "put", "purge"}, rev : Nat,
                 reply : Outcomes \union {None}, checkpoint : Attempts \union {None}])'
      BY ReplyFacts DEF TypeOK, PathOK, Completing
    <2>2. (decided \in Outcomes \union {None})'
      BY ReplyFacts DEF TypeOK, PathOK, Completing
    <2>3. (path \in [Attempts -> Busy \union {"none", "queued", "over"}])'
      <3>1. \E p \in {"finish", "recheck", "complete"} : path' = [path EXCEPT ![a] = p]
        OBVIOUS
      <3> QED BY <3>1 DEF TypeOK, Busy
    <2>4. (faults \in 0 .. MaxFaults)'
      BY CallConstants DEF TypeOK
    <2>5. (seen \in [Attempts -> Nat])'
      BY DEF TypeOK
    <2> QED BY <2>1, <2>2, <2>3, <2>4, <2>5 DEF TypeOK
  <1>2. HandleOK' /\ RunOK'
    BY DEF HandleOK, RunOK, can_replay
  <1>3. RowOK'
    BY DEF RowOK, TypeOK, Absent, Busy, PathOK
  <1>4. PurgedOK'
    BY DEF PurgedOK, TypeOK, Busy, PathOK
  <1>5. DecidedOK'
    BY ReplyFacts DEF DecidedOK, TypeOK, Running, PathOK, RowOK, Completing
  <1>6. CacheOK'
    <2>1. CASE decided' = decided
      <3>1. \A b \in Attempts : /\ path[b] \in Executing => path'[b] \in Executing
                                /\ path'[b] = "wait" => path[b] = "wait"
        BY DEF TypeOK, Executing, Busy
      <3> QED BY <2>1, <3>1, CacheFrame
    <2>2. CASE decided = None
      <3>0. \A s \in Servers, k \in Keys : reply_cache[s][k] \in {None, InProgress}
        BY <2>2 DEF CacheOK, CachedIsJournaled
      <3>1. \A b \in Attempts : /\ path[b] \in Executing => path'[b] \in Executing
                                /\ path'[b] = "wait" => path[b] = "wait"
        BY DEF TypeOK, Executing, Busy
      <3>2. UNCHANGED <<reply_cache, at>> OBVIOUS
      <3> HIDE DEF CompleteUpdate
      <3> QED BY <3>0, <3>1, <3>2 DEF CacheOK, CachedIsJournaled
    <2> QED BY <2>1, <2>2 DEF PathOK, RowOK
  <1>7. JobOK'
    BY DEF JobOK, TypeOK, Running, PathOK
  <1>8. ASSUME NEW b \in Attempts PROVE PathOK(b)'
    BY ReplyFacts DEF PathOK, TypeOK, Busy, Running, Completing, Unstarted, RowOK
  <1>9. ASSUME NEW b \in Attempts PROVE CancelOK(b)'
    BY ReplyFacts DEF CancelOK, TypeOK, Busy, Running, Completing, PathOK
  <1> QED BY <1>1, <1>2, <1>3, <1>4, <1>5, <1>6, <1>7, <1>8, <1>9

(* complete_checked reads the row again after a failed write.               *)
LEMMA RecheckKeeps ==
    ASSUME IInv, NEW a \in Attempts, Recheck(a)
    PROVE  IInv'
  <1> USE AttemptFacts DEF IInv, Live, Recheck, With, PathAt, journal, worker, task,
     replica, Replies
  <1>1. TypeOK'
    <2>1. (path \in [Attempts -> Busy \union {"none", "queued", "over"}])'
      BY DEF TypeOK, Busy
    <2>2. (out \in [Attempts -> Replies \union {None}])'
      BY ReplyFacts DEF TypeOK
    <2> QED BY <2>1, <2>2 DEF TypeOK
  <1>2. DecidedOK' /\ HandleOK' /\ JobOK' /\ RunOK'
    BY DEF DecidedOK, HandleOK, JobOK, RunOK, can_replay
  <1>3. RowOK'
    BY DEF RowOK, TypeOK, Absent, Busy
  <1>4. PurgedOK'
    BY DEF PurgedOK, TypeOK, Busy
  <1>5. CacheOK'
    <2>1. \A b \in Attempts : /\ path[b] \in Executing => path'[b] \in Executing
                              /\ path'[b] = "wait" => path[b] = "wait"
      BY DEF TypeOK, Executing, Busy, PathOK
    <2> QED BY <2>1, CacheFrame
  <1>6. ASSUME NEW b \in Attempts PROVE PathOK(b)'
    BY ReplyFacts DEF PathOK, TypeOK, Busy, Running, Completing, Unstarted, RowOK
  <1>7. ASSUME NEW b \in Attempts PROVE CancelOK(b)'
    BY ReplyFacts DEF CancelOK, TypeOK, Busy, Running, Completing
  <1> QED BY <1>1, <1>2, <1>3, <1>4, <1>5, <1>6, <1>7

(* The outcome goes to the cache, the duplicates and the caller.            *)
LEMMA FinishKeeps ==
    ASSUME IInv, NEW a \in Attempts, Finish(a)
    PROVE  IInv'
  <1> USE AttemptFacts DEF IInv, Live, Finish, Published, CallerAt, Told, Kept, Waiters,
     journal, task, Replies
  <1> Key[a] \in Keys BY DEF Keys
  <1>1. TypeOK'
    <2>1. (reply_cache \in [Servers -> [Keys -> Replies \union {None, InProgress}]])'
      BY ReplyFacts DEF TypeOK, PathOK, Busy
    <2>2. (path \in [Attempts -> Busy \union {"none", "queued", "over"}])'
      BY DEF TypeOK, Busy
    <2>3. (out \in [Attempts -> Replies \union {None}])'
      BY ReplyFacts DEF TypeOK
    <2>4. (caller \in [Attempts -> {"idle", "creating", "created", "waiting", "over",
                                "stranded"}])'
      BY DEF TypeOK
    <2>5. (heard \subseteq Outcomes)'
      BY DEF TypeOK
    <2> QED BY <2>1, <2>2, <2>3, <2>4, <2>5 DEF TypeOK
  <1>2. HandleOK' /\ JobOK' /\ RunOK'
    BY DEF HandleOK, JobOK, RunOK, can_replay
  <1>3. RowOK'
    BY DEF RowOK, TypeOK, Absent, Busy
  <1>4. PurgedOK'
    BY DEF PurgedOK, TypeOK, Busy
  <1>5. DecidedOK'
    BY ReplyFacts DEF DecidedOK, TypeOK, Running, PathOK
  <1>6. CacheOK'
    BY ReplyFacts DEF CacheOK, TypeOK, CachedIsJournaled, Executing, Busy, PathOK
  <1>7. ASSUME NEW b \in Attempts PROVE PathOK(b)'
    BY ReplyFacts DEF PathOK, TypeOK, Busy, Running, Completing, Unstarted
  <1>8. ASSUME NEW b \in Attempts PROVE CancelOK(b)'
    BY ReplyFacts DEF CancelOK, TypeOK, Busy, Running, Completing
  <1> QED BY <1>1, <1>2, <1>3, <1>4, <1>5, <1>6, <1>7, <1>8

(* A duplicate that waited is answered.                                     *)
LEMMA ServeCachedKeeps ==
    ASSUME IInv, NEW a \in Attempts, ServeCached(a)
    PROVE  IInv'
  <1> USE AttemptFacts DEF IInv, Live, ServeCached, With, PathAt, Published, CallerAt,
     Told, journal, task, replica, Replies
  <1>1. TypeOK'
    <2>1. (path \in [Attempts -> Busy \union {"none", "queued", "over"}])'
      BY DEF TypeOK, Busy
    <2>2. (out \in [Attempts -> Replies \union {None}])'
      BY ReplyFacts DEF TypeOK
    <2>3. (caller \in [Attempts -> {"idle", "creating", "created", "waiting", "over",
                                "stranded"}])'
      BY DEF TypeOK
    <2>4. (heard \subseteq Outcomes)'
      BY DEF TypeOK
    <2> QED BY <2>1, <2>2, <2>3, <2>4 DEF TypeOK
  <1>2. HandleOK' /\ JobOK' /\ RunOK'
    BY DEF HandleOK, JobOK, RunOK, can_replay
  <1>3. RowOK'
    BY DEF RowOK, TypeOK, Absent, Busy
  <1>4. PurgedOK'
    BY DEF PurgedOK, TypeOK, Busy
  <1>5. DecidedOK'
    BY ReplyFacts DEF DecidedOK, TypeOK, Running, PathOK
  <1>6. CacheOK'
    <2>1. \A b \in Attempts : /\ path[b] \in Executing => path'[b] \in Executing
                              /\ path'[b] = "wait" => path[b] = "wait"
      BY DEF TypeOK, Executing, Busy, PathOK
    <2> QED BY <2>1, CacheFrame
  <1>7. ASSUME NEW b \in Attempts PROVE PathOK(b)'
    BY ReplyFacts DEF PathOK, TypeOK, Busy, Running, Completing, Unstarted
  <1>8. ASSUME NEW b \in Attempts PROVE CancelOK(b)'
    BY ReplyFacts DEF CancelOK, TypeOK, Busy, Running, Completing
  <1> QED BY <1>1, <1>2, <1>3, <1>4, <1>5, <1>6, <1>7, <1>8

(* The first job handle is kept; a later one gets it back.                  *)
LEMMA CheckpointKeeps ==
    ASSUME IInv, NEW a \in Attempts, Checkpoint(a)
    PROVE  IInv'
  <1> USE AttemptFacts DEF IInv, Live, Checkpoint, Disturb, worker, request, replica,
     Replies
  <1>0. /\ row' \in [op : {"none", "put", "purge"}, rev : Nat,
                   reply : Outcomes \union {None}, checkpoint : Attempts \union {None}]
        /\ row'.op = row.op /\ row'.reply = row.reply
        /\ IF row.checkpoint = None THEN row'.checkpoint = a /\ row'.rev = row.rev + 1
                                     ELSE row' = row
    <2>1. CASE row.checkpoint = None
      <3>1. row' = [row EXCEPT !.checkpoint = a, !.rev = @ + 1] BY <2>1
      <3>2. row' = [op |-> row.op, rev |-> row.rev + 1, reply |-> row.reply,
                    checkpoint |-> a]
        BY <3>1, Zenon DEF TypeOK
      <3> HIDE DEF Checkpoint
      <3> QED BY <2>1, <3>2 DEF TypeOK
    <2>2. CASE row.checkpoint # None BY <2>2 DEF TypeOK
    <2> QED BY <2>1, <2>2
  <1>1. TypeOK'
    <2>1. (row \in [op : {"none", "put", "purge"}, rev : Nat,
                 reply : Outcomes \union {None}, checkpoint : Attempts \union {None}])'
      BY <1>0
    <2>2. (job \in [Attempts -> Attempts \union {None}])'
      BY DEF TypeOK
    <2>3. (faults \in 0 .. MaxFaults)'
      BY CallConstants DEF TypeOK
    <2> QED BY <2>1, <2>2, <2>3 DEF TypeOK
  <1>2. /\ DecidedOK' /\ CacheOK' /\ HandleOK' /\ RunOK'
        /\ \A b \in Attempts : CancelOK(b)'
    BY DEF DecidedOK, CacheOK, HandleOK, RunOK, CancelOK, CachedIsJournaled, can_replay
  <1>3. RowOK'
    BY <1>0 DEF RowOK, TypeOK
  <1>4. PurgedOK'
    BY DEF PurgedOK, TypeOK, Busy, PathOK, Unstarted, Running
  <1>5. JobOK'
    <2>1. job'[a] = None \/ job'[a] = row'.checkpoint BY <1>0 DEF TypeOK
    <2>2. \A b \in Attempts \ {a} : job'[b] = job[b] BY DEF TypeOK
    <2> HIDE DEF Checkpoint
    <2>3. owner[a] \in Running /\ owner' = owner BY DEF Checkpoint, Running
    <2> QED BY <1>0, <2>1, <2>2, <2>3 DEF JobOK
  <1>6. ASSUME NEW b \in Attempts PROVE PathOK(b)'
    BY <1>0 DEF PathOK, TypeOK
  <1> QED BY <1>1, <1>2, <1>3, <1>4, <1>5, <1>6

(* The handler is ready; a cancellation accepted before wins.               *)
LEMMA HandlerReadyKeeps ==
    ASSUME IInv, NEW a \in Attempts, HandlerReady(a)
    PROVE  IInv'
  <1> USE AttemptFacts DEF IInv, Live, HandlerReady, OwnerAt, With, PathAt, Decision,
     journal, worker, replica, Replies
  <1>1. TypeOK'
    <2>1. (owner \in [Attempts -> Running \union {"none", "gone"}])'
      BY DEF TypeOK, Running
    <2>2. (path \in [Attempts -> Busy \union {"none", "queued", "over"}])'
      BY DEF TypeOK, Busy
    <2>3. (out \in [Attempts -> Replies \union {None}])'
      BY ReplyFacts DEF TypeOK
    <2> QED BY <2>1, <2>2, <2>3 DEF TypeOK
  <1>2. RowOK'
    BY DEF RowOK, TypeOK, Absent, Busy, PathOK
  <1>3. PurgedOK'
    BY DEF PurgedOK, TypeOK, Busy, PathOK
  <1>4. DecidedOK'
    BY ReplyFacts DEF DecidedOK, TypeOK, Running
  <1>5. CacheOK'
    <2>1. \A b \in Attempts : /\ path[b] \in Executing => path'[b] \in Executing
                              /\ path'[b] = "wait" => path[b] = "wait"
      BY DEF TypeOK, Executing, Busy, PathOK
    <2> QED BY <2>1, CacheFrame
  <1>6. HandleOK'
    BY DEF HandleOK, TypeOK, Running
  <1>7. JobOK'
    BY DEF JobOK, TypeOK, Running
  <1>8. RunOK'
    BY DEF RunOK, TypeOK, can_replay, Running
  <1>9. ASSUME NEW b \in Attempts PROVE PathOK(b)'
    BY ReplyFacts DEF PathOK, TypeOK, Busy, Running, Completing, Unstarted
  <1>10. ASSUME NEW b \in Attempts PROVE CancelOK(b)'
    BY ReplyFacts DEF CancelOK, TypeOK, Busy, Running, Completing
  <1> QED BY <1>1, <1>2, <1>3, <1>4, <1>5, <1>6, <1>7, <1>8, <1>9, <1>10

(* A cancelled handler stops.                                               *)
LEMMA DrainHandlerKeeps ==
    ASSUME IInv, NEW a \in Attempts, DrainHandler(a)
    PROVE  IInv'
  <1> USE AttemptFacts DEF IInv, Live, DrainHandler, OwnerAt, journal, worker, request,
     replica, Replies
  <1>1. TypeOK'
    <2>1. (owner \in [Attempts -> Running \union {"none", "gone"}])'
      BY DEF TypeOK, Running
    <2> QED BY <2>1 DEF TypeOK
  <1>2. RowOK' /\ PurgedOK' /\ CacheOK'
    BY DEF RowOK, PurgedOK, CacheOK, Absent, CachedIsJournaled
  <1>3. DecidedOK'
    BY ReplyFacts DEF DecidedOK, TypeOK, Running
  <1>4. HandleOK'
    BY DEF HandleOK, TypeOK, Running
  <1>5. JobOK'
    BY DEF JobOK, TypeOK, Running
  <1>6. RunOK'
    BY DEF RunOK, TypeOK, can_replay, Running
  <1>7. ASSUME NEW b \in Attempts PROVE PathOK(b)'
    BY ReplyFacts DEF PathOK, TypeOK, Busy, Running, Completing, Unstarted
  <1>8. ASSUME NEW b \in Attempts PROVE CancelOK(b)'
    BY ReplyFacts DEF CancelOK, TypeOK, Busy, Running, Completing
  <1> QED BY <1>1, <1>2, <1>3, <1>4, <1>5, <1>6, <1>7, <1>8

(* A control message finds the handle of the running call.                  *)
LEMMA FindActiveCallKeeps ==
    ASSUME IInv, NEW s \in Servers, FindActiveCall(s)
    PROVE  IInv'
  <1> USE AttemptFacts DEF IInv, Live, FindActiveCall, journal, worker, request, task,
     Replies
  <1>1. TypeOK'
    <2>1. (control \in [Servers -> {Cancel(a) : a \in Attempts \union {None}}
                           \union {None}])'
      BY DEF TypeOK
    <2> QED BY <2>1 DEF TypeOK
  <1> QED BY <1>1, SameCall

(* stop_call cancels the token of the run it found: the early ones are      *)
(* those of a run that still has its handler.                               *)
LEMMA StopCallKeeps ==
    ASSUME IInv, NEW s \in Servers, StopCall(s)
    PROVE  IInv'
  <1> USE AttemptFacts DEF IInv, Live, StopCall, Cancel, journal, worker, request, Replies
  <1>0. control[s].found \in Attempts BY DEF TypeOK
  <1>1. TypeOK'
    <2>1. (slot \in [Attempts -> BOOLEAN])'
      BY DEF TypeOK
    <2>2. (ack \in [Attempts -> {"none", "early", "late"}])'
      BY DEF TypeOK
    <2>3. (control \in [Servers -> {Cancel(a) : a \in Attempts \union {None}}
                           \union {None}])'
      BY DEF TypeOK
    <2> QED BY <2>1, <2>2, <2>3 DEF TypeOK
  <1>2. /\ RowOK' /\ PurgedOK' /\ DecidedOK' /\ CacheOK' /\ HandleOK' /\ JobOK' /\ RunOK'
        /\ \A a \in Attempts : PathOK(a)'
    BY DEF RowOK, PurgedOK, DecidedOK, CacheOK, HandleOK, JobOK, RunOK, PathOK, Absent,
       CachedIsJournaled, can_replay
  <1>3. ASSUME NEW a \in Attempts PROVE CancelOK(a)'
    <2> DEFINE c == control[s].found
    <2>1. CASE a # c BY <1>0, <2>1 DEF CancelOK, TypeOK
    <2>2. CASE a = c
      <3>1. slot'[a] = (owner[a] \in Running) BY <1>0, <2>2 DEF TypeOK
      <3>2. ack'[a] = "early" => ack[a] = "early" \/ owner[a] = "handler"
        BY <1>0, <2>2 DEF TypeOK
      <3> HIDE DEF StopCall
      <3>3. UNCHANGED <<owner, path, out, decided>> BY DEF StopCall
      <3> QED BY <3>1, <3>2, <3>3 DEF CancelOK, PathOK, DecidedOK, Completing, Running
    <2> QED BY <2>1, <2>2
  <1> QED BY <1>1, <1>2, <1>3

(* A cancel that finds no running call.                                     *)
LEMMA OrphanCancelKeeps ==
    ASSUME IInv, NEW s \in Servers, OrphanCancel(s)
    PROVE  IInv'
  <1> USE AttemptFacts DEF IInv, Live, OrphanCancel, journal, worker, request, task, Replies
  <1>1. TypeOK'
    <2>1. (control \in [Servers -> {Cancel(a) : a \in Attempts \union {None}}
                           \union {None}])'
      BY DEF TypeOK
    <2> QED BY <2>1 DEF TypeOK
  <1> QED BY <1>1, SameCall

(* A replica leaves the queue group.                                        *)
LEMMA ShutdownKeeps ==
    ASSUME IInv, NEW s \in Servers, Shutdown(s)
    PROVE  IInv'
  <1> USE AttemptFacts DEF IInv, Live, Shutdown, Disturb, journal, worker, request, task,
     Replies
  <1>1. TypeOK'
    <2>1. (server \in [Servers -> {"up", "draining"}])'
      BY DEF TypeOK
    <2>2. (control \in [Servers -> {Cancel(a) : a \in Attempts \union {None}}
                           \union {None}])'
      BY DEF TypeOK
    <2>3. (faults \in 0 .. MaxFaults)'
      BY CallConstants DEF TypeOK
    <2> QED BY <2>1, <2>2, <2>3 DEF TypeOK
  <1> QED BY <1>1, SameCall

(* A complete cache entry is dropped.                                       *)
LEMMA EvictKeeps ==
    ASSUME IInv, NEW s \in Servers, NEW k \in Keys, Evict(s, k)
    PROVE  IInv'
  <1> USE AttemptFacts DEF IInv, Live, Evict, journal, worker, request, task, Replies
  <1>1. TypeOK'
    <2>1. (reply_cache \in [Servers -> [Keys -> Replies \union {None, InProgress}]])'
      BY ReplyFacts DEF TypeOK
    <2> QED BY <2>1 DEF TypeOK
  <1>2. /\ RowOK' /\ PurgedOK' /\ DecidedOK' /\ HandleOK' /\ JobOK' /\ RunOK'
        /\ \A a \in Attempts : PathOK(a)' /\ CancelOK(a)'
    BY DEF RowOK, PurgedOK, DecidedOK, HandleOK, JobOK, RunOK, PathOK, CancelOK, Absent,
       can_replay
  <1>3. CacheOK'
    BY ReplyFacts DEF CacheOK, TypeOK, CachedIsJournaled, Executing, Busy, PathOK
  <1> QED BY <1>1, <1>2, <1>3

(* A replica's process ends: its paths, tasks, handles and cache are gone, *)
(* and so is every waiter together with the execution it waited for.       *)
LEMMA ExitKeeps ==
    ASSUME IInv, NEW s \in Servers, Exit(s)
    PROVE  IInv'
  <1> USE AttemptFacts, ReplyFacts DEF IInv, Live, Exit, Disturb, journal, worker, Replies
  <1>1. TypeOK'
    <2>1. (path \in [Attempts -> Busy \union {"none", "queued", "over"}])'
      BY DEF TypeOK
    <2>2. (out \in [Attempts -> Replies \union {None}])'
      BY DEF TypeOK
    <2>3. (seen \in [Attempts -> Nat])'
      BY DEF TypeOK
    <2>4. (owner \in [Attempts -> Running \union {"none", "gone"}])'
      BY DEF TypeOK
    <2>5. (slot \in [Attempts -> BOOLEAN])'
      BY DEF TypeOK
    <2>6. (job \in [Attempts -> Attempts \union {None}])'
      BY DEF TypeOK
    <2>7. (server \in [Servers -> {"up", "draining"}])'
      BY DEF TypeOK
    <2>8. (in_flight \in [Servers -> Attempts \union {None}])'
      BY DEF TypeOK
    <2>9. (reply_cache \in [Servers -> [Keys -> Replies \union {None, InProgress}]])'
      BY DEF TypeOK
    <2>10. (control \in [Servers -> {Cancel(a) : a \in Attempts \union {None}} \union {None}])'
      BY DEF TypeOK
    <2>11. (faults \in 0 .. MaxFaults)'
      BY CallConstants DEF TypeOK
    <2> QED BY <2>1, <2>2, <2>3, <2>4, <2>5, <2>6, <2>7, <2>8, <2>9, <2>10, <2>11 DEF TypeOK
  <1>2. RowOK'
    BY DEF RowOK, TypeOK, Absent, Busy
  <1>3. PurgedOK'
    BY DEF PurgedOK, TypeOK, Busy
  <1>4. DecidedOK'
    BY DEF DecidedOK, TypeOK
  <1>5. CacheOK'
    BY DEF CacheOK, CachedIsJournaled, TypeOK, Executing, Busy, PathOK
  <1>6. HandleOK'
    BY DEF HandleOK, TypeOK, Running
  <1>7. JobOK'
    BY DEF JobOK, TypeOK, Running
  <1>8. RunOK'
    BY DEF RunOK, TypeOK, can_replay, Running
  <1>9. ASSUME NEW a \in Attempts PROVE PathOK(a)'
    BY DEF PathOK, TypeOK, Busy, Running, Completing, Unstarted
  <1>10. ASSUME NEW a \in Attempts PROVE CancelOK(a)'
    BY DEF CancelOK, TypeOK, Busy, Running, Completing
  <1> QED BY <1>1, <1>2, <1>3, <1>4, <1>5, <1>6, <1>7, <1>8, <1>9, <1>10

-----------------------------------------------------------------------------
(* The invariant holds before anything has happened.                        *)
LEMMA InitInv == Init => IInv
  <1> SUFFICES ASSUME Init PROVE IInv
    OBVIOUS
  <1> USE AttemptFacts, ReplyFacts DEF Init
  <1>1. TypeOK
    <2>1. faults \in 0 .. MaxFaults /\ sends \in Nat
      BY CallConstants
    <2>2. row \in [op : {"none", "put", "purge"}, rev : Nat,
                  reply : Outcomes \union {None}, checkpoint : Attempts \union {None}]
      BY DEF Absent
    <2>3. path \in [Attempts -> Busy \union {"none", "queued", "over"}]
      OBVIOUS
    <2>4. reply_cache \in [Servers -> [Keys -> Replies \union {None, InProgress}]]
      OBVIOUS
    <2> QED BY <2>1, <2>2, <2>3, <2>4, Zenon DEF TypeOK
  <1>2. RowOK /\ PurgedOK
    BY DEF RowOK, PurgedOK, Absent, Live
  <1>3. DecidedOK /\ CacheOK
    BY DEF DecidedOK, CacheOK, CachedIsJournaled
  <1>4. HandleOK /\ JobOK /\ RunOK
    BY DEF HandleOK, JobOK, RunOK
  <1>5. ASSUME NEW a \in Attempts PROVE PathOK(a) /\ CancelOK(a)
    BY DEF PathOK, CancelOK, Unstarted, Busy, Completing
  <1> QED BY <1>1, <1>2, <1>3, <1>4, <1>5 DEF IInv

(* Every step keeps the invariant.                                          *)
LEMMA NextInv == IInv /\ [Next]_vars => IInv'
  <1> SUFFICES ASSUME IInv, [Next]_vars PROVE IInv'
    OBVIOUS
  <1>1. CASE Record
    BY <1>1, RecordStartKeeps, RecordCreateKeeps, RecordedKeeps DEF Record
  <1>2. CASE Purge
    BY <1>2, PutTombstoneKeeps, ListKeysKeeps, PurgeRowKeeps DEF Purge
  <1>3. CASE WorkerDies \/ Interrupt \/ PublishCancel
    BY <1>3, WorkerDiesKeeps, InterruptKeeps, PublishCancelKeeps
  <1>4. ASSUME NEW a \in Attempts, ReplayRecordedCall(a) \/ GiveUp(a) PROVE IInv'
    BY <1>4, ReplayRecordedCallKeeps, GiveUpKeeps
  <1>5. ASSUME NEW a \in Attempts, Step(a) PROVE IInv'
    BY <1>5, ReceiveKeeps, AdmitKeeps, InterruptedKeeps, OwnerExitsKeeps, CompleteReadKeeps,
       CompleteUpdateKeeps, RecheckKeeps, FinishKeeps, ServeCachedKeeps DEF Step
  <1>6. ASSUME NEW a \in Attempts, Handler(a) PROVE IInv'
    BY <1>6, CheckpointKeeps, HandlerReadyKeeps, DrainHandlerKeeps DEF Handler
  <1>7. ASSUME NEW s \in Servers, Control(s) PROVE IInv'
    BY <1>7, FindActiveCallKeeps, StopCallKeeps, OrphanCancelKeeps DEF Control
  <1>8. ASSUME NEW s \in Servers, Shutdown(s) \/ Exit(s) \/ \E k \in Keys : Evict(s, k)
        PROVE  IInv'
    BY <1>8, ShutdownKeeps, ExitKeeps, EvictKeeps
  <1>9. CASE UNCHANGED vars
    <2>1. TypeOK'
      BY <1>9 DEF IInv, TypeOK, vars, journal, worker, request, task, replica
    <2> QED BY <1>9, <2>1, SameCall DEF vars, journal, worker, request, task, replica
  <1> QED BY <1>1, <1>2, <1>3, <1>4, <1>5, <1>6, <1>7, <1>8, <1>9 DEF Next

(* The invariant of the journal, the request paths, the owner tasks and the *)
(* reply caches holds in every reachable state.                             *)
THEOREM CallInvariant == Spec => []IInv
  BY InitInv, NextInv, PTL DEF Spec

(* TypeOK: rows, paths, tasks and replicas stay in states the code has.     *)
THEOREM CallTypeCorrect == Spec => []TypeOK
  <1>1. IInv => TypeOK
    BY DEF IInv
  <1> QED BY <1>1, CallInvariant, PTL

(* CachedIsJournaled: whatever servers, replays and failed writes do, the   *)
(* reply cache holds no reply but the outcome the journal decided.          *)
THEOREM CacheFollowsJournal == Spec => []CachedIsJournaled
  <1>1. IInv => CachedIsJournaled
    BY DEF IInv, CacheOK
  <1> QED BY <1>1, CallInvariant, PTL

(* OneJob: all the runs of a call work on the job that its row names.       *)
THEOREM OneJobPerCall == Spec => []OneJob
  <1>1. IInv => OneJob
    BY DEF IInv, JobOK, OneJob
  <1> QED BY <1>1, CallInvariant, PTL

(* MutatingToolRunsOnce: a tool that cannot replay is started once at most. *)
THEOREM MutatingToolStartsOnce == Spec => []MutatingToolRunsOnce
  <1>1. IInv => MutatingToolRunsOnce
    <2> SUFFICES ASSUME IInv, ~can_replay
                 PROVE  Cardinality({a \in Attempts : owner[a] # "none"}) <= 1
      BY DEF MutatingToolRunsOnce
    <2> DEFINE Started == {a \in Attempts : owner[a] # "none"}
    <2>1. Started \subseteq {0}
      BY DEF IInv, RunOK
    <2>2. IsFiniteSet({0}) /\ Cardinality({0}) = 1
      BY FS_Singleton
    <2> HIDE DEF Started
    <2>3. Cardinality(Started) <= Cardinality({0})
      BY <2>1, <2>2, FS_Subset
    <2> QED BY <2>2, <2>3 DEF Started
  <1> QED BY <1>1, CallInvariant, PTL

(* PurgeIsFinal: purge_session leaves no row behind but one that was never  *)
(* used, of a recorder that has not looked at the tombstone again.          *)
THEOREM PurgeStaysFinal == Spec => []PurgeIsFinal
  <1>1. IInv => PurgeIsFinal
    BY DEF IInv, PurgedOK, PurgeIsFinal
  <1> QED BY <1>1, CallInvariant, PTL

(* EarlyCancelInterrupts: a cancel that was accepted before the owner task  *)
(* decided is never overtaken by a result of that run.                      *)
THEOREM EarlyCancelWins == Spec => []EarlyCancelInterrupts
  <1>1. IInv => EarlyCancelInterrupts
    BY DEF IInv, CancelOK, EarlyCancelInterrupts
  <1> QED BY <1>1, CallInvariant, PTL

(* WaiterHasExecution: a duplicate that waits in the reply cache always has *)
(* an execution on its replica that will wake it.                           *)
THEOREM NobodyWaitsForNobody == Spec => []WaiterHasExecution
  <1>1. IInv => WaiterHasExecution
    <2> SUFFICES ASSUME IInv, NEW a \in Attempts, path[a] = "wait"
                 PROVE  \E b \in Attempts : /\ at[b] = at[a] /\ Key[b] = Key[a]
                                            /\ path[b] \in Busy \ {"wait", "serve"}
      BY DEF WaiterHasExecution
    <2>1. at[a] \in Servers /\ Key[a] \in Keys
      BY DEF IInv, PathOK, Busy, Keys
    <2>2. reply_cache[at[a]][Key[a]] = InProgress
      BY DEF IInv, CacheOK
    <2> QED BY <2>1, <2>2 DEF IInv, CacheOK, Executing
  <1> QED BY <1>1, CallInvariant, PTL

-----------------------------------------------------------------------------
(* Only a run that starts, one that ends and the end of its process change  *)
(* which handle a replica has registered.                                   *)
LEMMA HandleSteps ==
    ASSUME Next, in_flight' # in_flight
    PROVE  (\E a \in Attempts : Admit(a) \/ OwnerExits(a)) \/ \E s \in Servers : Exit(s)
  <1> USE DEF replica
  <1>1. CASE Record \/ WorkerDies \/ Interrupt \/ PublishCancel \/ Purge
    BY <1>1 DEF Record, RecordStart, RecordCreate, Recorded, WorkerDies, Interrupt, PublishCancel,
       Purge, PutTombstone, ListKeys, PurgeRow
  <1>2. ASSUME NEW a \in Attempts, ReplayRecordedCall(a) \/ GiveUp(a) \/ Step(a) \/ Handler(a)
        PROVE  Admit(a) \/ OwnerExits(a)
    BY <1>2 DEF ReplayRecordedCall, GiveUp, Step, Handler, Receive, Interrupted, CompleteRead,
       CompleteUpdate, Recheck, Finish, ServeCached, Checkpoint, HandlerReady, DrainHandler
  <1>3. ASSUME NEW s \in Servers,
               Control(s) \/ Shutdown(s) \/ Exit(s) \/ \E k \in Keys : Evict(s, k)
        PROVE  Exit(s)
    BY <1>3 DEF Control, FindActiveCall, StopCall, OrphanCancel, Shutdown, Evict
  <1> QED BY <1>1, <1>2, <1>3 DEF Next

(* HandleOutlivesItsRun: a handle leaves the table with its own run or for  *)
(* the handle of a run that starts, so a cancel always finds a live run.    *)
THEOREM HandlesOutliveRuns == Spec => HandleOutlivesItsRun
  <1>1. ASSUME IInv, [Next]_vars, NEW s \in Servers,
               in_flight[s] # None, in_flight'[s] # in_flight[s]
        PROVE  \/ owner'[in_flight[s]] = "gone"
               \/ in_flight'[s] # None /\ owner[in_flight'[s]] = "none"
    <2>1. Next /\ in_flight' # in_flight
      BY <1>1 DEF vars, replica
    <2> USE AttemptFacts DEF IInv, TypeOK
    <2>2. ASSUME NEW a \in Attempts, Admit(a)
          PROVE  in_flight'[s] # None /\ owner[in_flight'[s]] = "none"
      BY <1>1, <2>2 DEF Admit, PathOK, Unstarted
    <2>3. ASSUME NEW a \in Attempts, OwnerExits(a)
          PROVE  owner'[in_flight[s]] = "gone"
      BY <1>1, <2>3 DEF OwnerExits, OwnerAt
    <2>4. ASSUME NEW t \in Servers, Exit(t)
          PROVE  owner'[in_flight[s]] = "gone"
      BY <1>1, <2>4 DEF Exit, HandleOK
    <2> QED BY <2>1, <2>2, <2>3, <2>4, HandleSteps
  <1>2. IInv /\ [Next]_vars =>
            [\A s \in Servers :
               in_flight[s] # None /\ in_flight'[s] # in_flight[s] =>
                   \/ owner'[in_flight[s]] = "gone"
                   \/ in_flight'[s] # None /\ owner[in_flight'[s]] = "none"]_vars
    BY <1>1
  <1> QED BY <1>2, CallInvariant, PTL DEF Spec, HandleOutlivesItsRun

-----------------------------------------------------------------------------
(* The write of an outcome is the only step that decides one, and callers   *)
(* never unlearn what they heard.                                           *)
LEMMA DecidedSteps ==
    ASSUME Next
    PROVE  /\ heard \subseteq heard'
           /\ decided' # decided => \E a \in Attempts : CompleteUpdate(a)
  <1> USE DEF journal, worker
  <1>1. CASE Record \/ WorkerDies \/ Interrupt \/ PublishCancel \/ Purge
    BY <1>1 DEF Record, RecordStart, RecordCreate, Recorded, Told, Dispatch, WorkerDies, Interrupt,
       PublishCancel, Purge, PutTombstone, ListKeys, PurgeRow
  <1>2. ASSUME NEW a \in Attempts, ReplayRecordedCall(a) \/ GiveUp(a) \/ Step(a) \/ Handler(a)
        PROVE  heard \subseteq heard' /\ (decided' # decided => CompleteUpdate(a))
    <2> USE DEF Told, Published
    <2>1. CASE ReplayRecordedCall(a) \/ GiveUp(a)
      BY <2>1 DEF ReplayRecordedCall, GiveUp, Dispatch
    <2>2. ASSUME NEW s \in Servers, Receive(a, s)
          PROVE  heard \subseteq heard' /\ decided' = decided
      BY <2>2 DEF Receive, Reserve
    <2>3. CASE Finish(a) \/ ServeCached(a)
      BY <2>3 DEF Finish, ServeCached
    <2>4. CASE Handler(a)
      BY <2>4 DEF Handler, Checkpoint, HandlerReady, DrainHandler
    <2>5. CASE Admit(a) \/ Interrupted(a) \/ OwnerExits(a) \/ CompleteRead(a)
               \/ CompleteUpdate(a) \/ Recheck(a)
      BY <2>5 DEF Admit, Interrupted, OwnerExits, CompleteRead, CompleteUpdate, Recheck
    <2> QED BY <1>2, <2>1, <2>2, <2>3, <2>4, <2>5 DEF Step
  <1>3. ASSUME NEW s \in Servers,
               Control(s) \/ Shutdown(s) \/ Exit(s) \/ \E k \in Keys : Evict(s, k)
        PROVE  UNCHANGED <<decided, heard>>
    BY <1>3 DEF Control, FindActiveCall, StopCall, OrphanCancel, Shutdown, Exit, Evict
  <1> QED BY <1>1, <1>2, <1>3 DEF Next

(* Every step decides the one outcome, teaches it, or does neither.         *)
LEMMA CallStep ==
    ASSUME IInv, IInv', [Next]_vars
    PROVE  [Call!Next]_<<decided, heard>>
  <1>1. CASE UNCHANGED vars
    BY <1>1 DEF vars, journal, worker
  <1>2. CASE Next /\ decided' = decided
    <2>1. heard \subseteq heard' /\ heard' \subseteq {decided} /\ heard' \subseteq Outcomes
      BY <1>2, DecidedSteps DEF IInv, DecidedOK, TypeOK
    <2>2. CASE heard' = heard
      BY <1>2, <2>2
    <2>3. CASE heard' # heard
      <3>1. heard' = {decided} /\ decided \in Outcomes
        BY <2>1, <2>3
      <3> QED BY <1>2, <3>1, ReplyFacts DEF Call!Next, Call!Learn
    <2> QED BY <2>2, <2>3
  <1>3. CASE Next /\ decided' # decided
    <2>1. PICK a \in Attempts : CompleteUpdate(a)
      BY <1>3, DecidedSteps
    <2>2. decided' = out[a] /\ UpdateApplies(a) /\ path[a] = "update" /\ UNCHANGED heard
      BY <1>3, <2>1 DEF CompleteUpdate, worker
    <2>3. out[a] \in Outcomes /\ Live /\ row.reply = None
      BY <2>2 DEF IInv, PathOK, UpdateApplies, Completing
    <2>4. decided = None
      BY <2>3 DEF IInv, RowOK
    <2> QED BY <2>2, <2>3, <2>4 DEF Call!Next, Call!Decide
  <1> QED BY <1>1, <1>2, <1>3

(* ImplementsCallOutcome: the journal, the servers, the caches and the      *)
(* replays together keep the promise of CallOutcome: one outcome for the    *)
(* call, and nobody ever learns another.                                    *)
THEOREM CallImplementsOutcome == Spec => ImplementsCallOutcome
  <1>1. Init => Call!Init
    BY DEF Init, Call!Init
  <1>2. IInv /\ IInv' /\ [Next]_vars => [Call!Next]_<<decided, heard>>
    BY CallStep
  <1> QED BY <1>1, <1>2, CallInvariant, PTL DEF Spec, ImplementsCallOutcome, Call!Spec
=============================================================================
