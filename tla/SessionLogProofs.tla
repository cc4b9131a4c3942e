-------------------------- MODULE SessionLogProofs --------------------------
(***************************************************************************)
(* What the readers of SessionLog compute, for every log.  The replay is a *)
(* recursive function: its values are found by induction on the sequence,  *)
(* in the form of a set that contains the first sequence and the successor *)
(* of each of its members.                                                 *)
(***************************************************************************)
EXTENDS SessionLog, WellFoundedInduction, TLAPS

-----------------------------------------------------------------------------
(* Numbers and sequences *)

(* Induction from m on, for a set in place of a predicate: a least number  *)
(* outside of the set would have a predecessor inside                      *)
LEMMA InductFrom ==
    ASSUME NEW S, NEW m \in Nat, m \in S,
           \A n \in Nat : (n >= m /\ n \in S) => n + 1 \in S
    PROVE  \A n \in Nat : n >= m => n \in S
<1> DEFINE T == {n \in Nat : n >= m /\ n \notin S}
           R == OpToRel(<, Nat)
<1>1. SUFFICES ASSUME T # {} PROVE FALSE
  OBVIOUS
<1>2. IsWellFoundedOn(R, Nat)
  BY NatLessThanWellFounded, Zenon
<1>3. T \subseteq Nat
  OBVIOUS
<1>4. \A x, y \in Nat : y < x => <<y, x>> \in R
  BY DEF OpToRel
<1> HIDE DEF R, T
<1>5. PICK x \in T : \A y \in T : <<y, x>> \notin R
  BY <1>1, <1>2, <1>3, WFMin, Zenon
<1>6. x # m /\ x \in Nat /\ x >= m
  BY DEF T
<1>7. x - 1 \in Nat /\ x - 1 >= m /\ x - 1 < x /\ (x - 1) + 1 = x
  BY <1>6
<1>8. x - 1 \in S
  BY <1>4, <1>5, <1>6, <1>7 DEF T
<1>9. x \in S
  BY <1>7, <1>8
<1> QED
  BY <1>9 DEF T

(* Max finds the largest member of a set of sequences of a log             *)
LEMMA MaxOfBounded ==
    ASSUME NEW n \in Nat, NEW S \in SUBSET (0..n), S # {}
    PROVE  Max(S) \in S /\ \A y \in S : y <= Max(S)
<1> DEFINE Good == {k \in Nat : \A T \in SUBSET (0..k) :
                        T # {} => \E x \in T : \A y \in T : x >= y}
<1>1. 0 \in Good
  <2>1. SUFFICES ASSUME NEW T \in SUBSET (0..0), T # {}
                 PROVE  \E x \in T : \A y \in T : x >= y
    OBVIOUS
  <2>2. PICK x \in T : TRUE
    BY <2>1
  <2>3. \A y \in T : y = 0
    OBVIOUS
  <2> QED
    BY <2>2, <2>3
<1>2. ASSUME NEW k \in Nat, k \in Good PROVE k + 1 \in Good
  <2>1. SUFFICES ASSUME NEW T \in SUBSET (0..(k + 1)), T # {}
                 PROVE  \E x \in T : \A y \in T : x >= y
    OBVIOUS
  <2>2. CASE k + 1 \in T
    BY <2>2
  <2>3. CASE k + 1 \notin T
    <3>1. T \in SUBSET (0..k)
      BY <2>3
    <3> QED
      BY <1>2, <2>1, <3>1
  <2> QED
    BY <2>2, <2>3
<1> HIDE DEF Good
<1>3. n \in Good
  BY <1>1, <1>2, InductFrom
<1>4. \E x \in S : \A y \in S : x >= y
  BY <1>3 DEF Good
<1> QED
  BY <1>4 DEF Max

(* FirstOf finds the first of a set of sequences, and 0 means there is none *)
LEMMA FirstOfSequences ==
    ASSUME NEW S \in SUBSET (Nat \ {0})
    PROVE  /\ S = {} => FirstOf(S) = 0
           /\ S # {} => FirstOf(S) \in S /\ \A y \in S : FirstOf(S) <= y
<1> DEFINE Below == {k \in Nat : \A y \in S : y > k}
<1>1. SUFFICES ASSUME S # {} PROVE Min(S) \in S /\ \A y \in S : Min(S) <= y
  BY DEF FirstOf
<1>2. \E x \in S : \A y \in S : x <= y
  <2>1. SUFFICES ASSUME \A x \in S : \E y \in S : y < x PROVE FALSE
    OBVIOUS
  <2>2. 0 \in Below
    OBVIOUS
  <2>3. ASSUME NEW k \in Nat, k \in Below PROVE k + 1 \in Below
    BY <2>1, <2>3
  <2> HIDE DEF Below
  <2>4. \A k \in Nat : k \in Below
    BY <2>2, <2>3, InductFrom
  <2>5. PICK x \in S : TRUE
    BY <1>1
  <2> QED
    BY <2>4, <2>5 DEF Below
<1> QED
  BY <1>2 DEF Min

-----------------------------------------------------------------------------
(* The replay is defined: every step of the fold yields an accumulator *)

CallsIn(l) == UNION {l[i].calls : i \in DOMAIN l}

Accumulators(l) ==
    [queue : Seq(1..Len(l)), round : BOOLEAN, lastUser : 0..Len(l),
     open : SUBSET ((1..Len(l)) \X CallsIn(l)), cancel : 0..Len(l),
     owed : SUBSET ((1..Len(l)) \X CallsIn(l))]

(* apply_entry_with_seq yields an accumulator whatever the entry is        *)
LEMMA ApplyType ==
    ASSUME NEW E, NEW l \in Seq(E), NEW split, NEW i \in 1..Len(l),
           NEW acc \in Accumulators(l)
    PROVE  apply_entry_with_seq(l, split, acc, i) \in Accumulators(l)
<1> USE DEF Accumulators
<1> DEFINE Pairs == SUBSET ((1..Len(l)) \X CallsIn(l))
<1>0. /\ acc.queue \in Seq(1..Len(l)) /\ acc.round \in BOOLEAN
      /\ acc.lastUser \in 0..Len(l) /\ acc.cancel \in 0..Len(l)
      /\ acc.open \in Pairs /\ acc.owed \in Pairs /\ acc.owed \union acc.open \in Pairs
  OBVIOUS
<1>1. on_cancel(acc, i) \in Accumulators(l)
  <2>1. StartReplay \in Accumulators(l)
    BY DEF StartReplay
  <2>2. i \in 0..Len(l)
    OBVIOUS
  <2> QED
    BY <1>0, <2>1, <2>2 DEF on_cancel
<1>2. on_user_message(acc, i) \in Accumulators(l)
  <2>1. Append(acc.queue, i) \in Seq(1..Len(l))
    BY <1>0
  <2> DEFINE queued == [acc EXCEPT !.queue = Append(@, i)]
             fresh == [queued EXCEPT !.lastUser = 0]
  <2>2. queued \in Accumulators(l)
    BY <1>0, <2>1
  <2>3. 0 \in 0..Len(l)
    OBVIOUS
  <2>4. fresh \in Accumulators(l)
    <3> HIDE DEF queued
    <3> QED
      BY <2>2, <2>3
  <2>5. on_user_message(acc, i) = queued \/ on_user_message(acc, i) = fresh
    BY Zenon DEF on_user_message
  <2> QED
    BY <2>2, <2>4, <2>5, Zenon
<1>3. on_tool_calls(acc, i, l[i].calls) \in Accumulators(l)
  <2>1. {i} \X l[i].calls \subseteq (1..Len(l)) \X CallsIn(l)
    BY DEF CallsIn
  <2>2. acc.open \union ({i} \X l[i].calls) \in Pairs
    BY <1>0, <2>1
  <2>3. acc.queue # <<>> => Last(acc.queue) \in 0..Len(l)
    BY <1>0 DEF Last
  <2>4. <<>> \in Seq(1..Len(l))
    OBVIOUS
  <2> HIDE DEF Pairs
  <2> QED
    BY <1>0, <2>2, <2>3, <2>4 DEF on_tool_calls, Pairs
<1>4. close_calls(acc, l[i].calls) \in Accumulators(l)
  BY DEF close_calls, Unanswered
<1> HIDE DEF Accumulators
<1> QED
  BY <1>1, <1>2, <1>3, <1>4 DEF apply_entry_with_seq

(* Replay(l, split) takes the values its definition gives it               *)
LEMMA ReplayIsDefined ==
    ASSUME NEW E, NEW l \in Seq(E), NEW split \in 0..Len(l)
    PROVE  /\ Replay(l, split) \in [split..Len(l) -> Accumulators(l)]
           /\ Replay(l, split)[split] = StartReplay
           /\ \A i \in (split + 1)..Len(l) :
                Replay(l, split)[i] =
                    apply_entry_with_seq(l, split, Replay(l, split)[i - 1], i)
<1> DEFINE A == Accumulators(l)
           Step(acc, i) == apply_entry_with_seq(l, split, acc, i)
           Value(r, i) == IF i = split THEN StartReplay ELSE Step(r[i - 1], i)
           Upto == {n \in Nat : n <= Len(l) =>
                        \E r \in [split..n -> A] : \A i \in split..n : r[i] = Value(r, i)}
<1>0. Len(l) \in Nat /\ split \in Nat /\ split <= Len(l)
  OBVIOUS
<1>1. StartReplay \in A
  BY DEF StartReplay, Accumulators
<1>2. \A acc \in A, i \in 1..Len(l) : Step(acc, i) \in A
  BY ApplyType
<1> HIDE DEF A, Step
<1>3. split \in Upto
  <2> DEFINE r == [i \in split..split |-> StartReplay]
  <2>1. r \in [split..split -> A]
    BY <1>1
  <2>2. \A i \in split..split : r[i] = Value(r, i)
    BY <1>0
  <2> QED
    BY <1>0, <2>1, <2>2
<1>4. ASSUME NEW n \in Nat, n >= split, n \in Upto PROVE n + 1 \in Upto
  <2>1. SUFFICES ASSUME n + 1 <= Len(l)
                 PROVE  \E r \in [split..(n + 1) -> A] :
                            \A i \in split..(n + 1) : r[i] = Value(r, i)
    OBVIOUS
  <2>2. PICK r \in [split..n -> A] : \A i \in split..n : r[i] = Value(r, i)
    BY <1>0, <1>4, <2>1
  <2> DEFINE q == [i \in split..(n + 1) |-> IF i <= n THEN r[i] ELSE Step(r[n], n + 1)]
  <2>3. q \in [split..(n + 1) -> A]
    BY <1>0, <1>2, <1>4, <2>1, <2>2
  <2>4. \A i \in split..(n + 1) : q[i] = Value(q, i)
    <3>1. ASSUME NEW i \in split..(n + 1), i <= n PROVE q[i] = Value(q, i)
      BY <1>0, <1>4, <2>2, <3>1
    <3>2. q[n + 1] = Value(q, n + 1)
      BY <1>0, <1>4
    <3>3. \A i \in split..(n + 1) : i <= n \/ i = n + 1
      BY <1>0, <1>4
    <3> HIDE DEF q, Value
    <3> QED
      BY <3>1, <3>2, <3>3
  <2> QED
    BY <2>3, <2>4
<1>5. Len(l) \in Upto
  <2> HIDE DEF Upto
  <2> QED
    BY <1>0, <1>3, <1>4, InductFrom
<1>6. PICK r \in [split..Len(l) -> A] : \A i \in split..Len(l) : r[i] = Value(r, i)
  BY <1>0, <1>5
<1>7. r = [i \in split..Len(l) |-> Value(r, i)]
  BY <1>6
<1>8. Replay(l, split) = CHOOSE q : q = [i \in split..Len(l) |-> Value(q, i)]
  BY DEF Replay, Step
<1>9. Replay(l, split) = [i \in split..Len(l) |-> Value(Replay(l, split), i)]
  BY <1>7, <1>8
<1>10. \A i \in split..Len(l) : Replay(l, split)[i] \in A
  <2> DEFINE P == {n \in Nat : n <= Len(l) => Replay(l, split)[n] \in A}
  <2>1. split \in P
    BY <1>0, <1>1, <1>9
  <2>2. ASSUME NEW n \in Nat, n >= split, n \in P PROVE n + 1 \in P
    <3>1. SUFFICES ASSUME n + 1 <= Len(l) PROVE Replay(l, split)[n + 1] \in A
      OBVIOUS
    <3>2. Replay(l, split)[n] \in A
      BY <1>0, <2>2, <3>1
    <3>3. Replay(l, split)[n + 1] = Step(Replay(l, split)[n], n + 1)
      BY <1>0, <1>9, <2>2, <3>1
    <3> QED
      BY <1>0, <1>2, <3>1, <3>2, <3>3
  <2> HIDE DEF P
  <2>3. \A n \in Nat : n >= split => n \in P
    BY <1>0, <2>1, <2>2, InductFrom
  <2> QED
    BY <1>0, <2>3 DEF P
<1>11. /\ Replay(l, split)[split] = StartReplay
       /\ \A i \in (split + 1)..Len(l) :
            Replay(l, split)[i] = Step(Replay(l, split)[i - 1], i)
  BY <1>0, <1>9
<1> QED
  BY <1>9, <1>10, <1>11 DEF A, Step

-----------------------------------------------------------------------------
(* What the accumulator means, said of the log as a set.  s is the barrier *)
(* the window starts behind, i the last entry applied.                     *)

Pairs(l) == (1..Len(l)) \X CallsIn(l)

IsOpen(l, o, i) ==
    /\ l[o[1]].kind = "calls" /\ o[2] \in l[o[1]].calls
    /\ \A j \in (o[1] + 1)..i : l[j].kind = "results" => o[2] \notin l[j].calls

OpenCalls(l, s, c, i) == {o \in Pairs(l) : s < o[1] /\ c < o[1] /\ o[1] <= i /\ IsOpen(l, o, i)}
OwedCalls(l, s, c, i) == {o \in Pairs(l) : s < o[1] /\ o[1] < c /\ IsOpen(l, o, i)}
Queued(l, s, c, i) ==
    {p \in Prompts(l) : /\ s < p /\ c < p /\ p <= i
                        /\ c = 0 => \A j \in (p + 1)..i : l[j].kind # "calls"}

CancelMeaning(l, s, i, acc) ==
    /\ acc.cancel # 0 => acc.cancel \in (s + 1)..i /\ l[acc.cancel].kind = "cancel"
    /\ \A j \in (s + 1)..i : l[j].kind = "cancel" => j <= acc.cancel

CallsMeaning(l, s, i, acc) ==
    /\ acc.open = OpenCalls(l, s, acc.cancel, i)
    /\ acc.owed = OwedCalls(l, s, acc.cancel, i)

RoundMeaning(l, s, i, acc) ==
    acc.round = (acc.cancel = 0 /\ \E j \in (s + 1)..i : l[j].kind = "calls")

Increasing(q) == \A m, n \in DOMAIN q : m < n => q[m] < q[n]

QueueMeaning(l, s, i, acc) ==
    /\ \A n \in DOMAIN acc.queue : acc.queue[n] \in Queued(l, s, acc.cancel, i)
    /\ \A p \in Queued(l, s, acc.cancel, i) : \E n \in DOMAIN acc.queue : acc.queue[n] = p
    /\ Increasing(acc.queue)

LastUserMeaning(l, s, i, acc) ==
    /\ ~ acc.round => acc.lastUser = 0
    /\ acc.round => \A p \in Prompts(l) :
            (s < p /\ p <= i /\ p \notin Queued(l, s, acc.cancel, i)) => p <= acc.lastUser
    /\ acc.lastUser # 0 => acc.lastUser \in Prompts(l) /\ s < acc.lastUser /\ acc.lastUser <= i

Meaning(l, s, i, acc) ==
    /\ CancelMeaning(l, s, i, acc) /\ CallsMeaning(l, s, i, acc)
    /\ RoundMeaning(l, s, i, acc) /\ QueueMeaning(l, s, i, acc)
    /\ LastUserMeaning(l, s, i, acc)

(* Only a ToolResults closes a call                                        *)
LEMMA OpenStep ==
    ASSUME NEW l, NEW i \in Nat, NEW o \in Pairs(l), o[1] <= i
    PROVE  IsOpen(l, o, i + 1) <=>
               IsOpen(l, o, i) /\ (l[i + 1].kind = "results" => o[2] \notin l[i + 1].calls)
<1>1. o[1] \in Nat
  BY DEF Pairs
<1>2. \A j \in (o[1] + 1)..(i + 1) : j \in (o[1] + 1)..i \/ j = i + 1
  BY <1>1
<1>3. \A j \in (o[1] + 1)..i : j \in (o[1] + 1)..(i + 1)
  BY <1>1
<1>4. i + 1 \in (o[1] + 1)..(i + 1)
  BY <1>1
<1> QED
  BY <1>2, <1>3, <1>4 DEF IsOpen

(* A Cancel moves what is open to what is owed and drops the queue         *)
LEMMA CancelStep ==
    ASSUME NEW E, NEW l \in Seq(E), NEW s \in Nat, NEW i \in Nat, s <= i, i + 1 <= Len(l),
           NEW acc \in Accumulators(l), Meaning(l, s, i, acc),
           l[i + 1].kind = "cancel"
    PROVE  Meaning(l, s, i + 1, on_cancel(acc, i + 1))
<1> DEFINE n == i + 1
           a == on_cancel(acc, n)
<1>1. /\ a.cancel = n /\ a.owed = acc.owed \union acc.open /\ a.queue = <<>>
      /\ a.round = FALSE /\ a.lastUser = 0 /\ a.open = {}
  BY DEF on_cancel, StartReplay
<1>2. n \in Nat /\ n # 0 /\ s < n
  OBVIOUS
<1>3. acc.cancel \in Nat /\ acc.cancel <= i
  BY DEF Accumulators, Meaning, CancelMeaning
<1> HIDE DEF a
<1>4. CancelMeaning(l, s, n, a)
  BY <1>1, <1>2 DEF CancelMeaning
<1>5. CallsMeaning(l, s, n, a)
  <2>1. ASSUME NEW o \in Pairs(l), o[1] <= i PROVE IsOpen(l, o, n) <=> IsOpen(l, o, i)
    BY <2>1, OpenStep
  <2>2. OpenCalls(l, s, n, n) = {}
    BY <1>2 DEF OpenCalls, Pairs
  <2>3. ASSUME NEW o \in Pairs(l)
        PROVE  o \in OwedCalls(l, s, n, n)
                    <=> o \in OwedCalls(l, s, acc.cancel, i) \union OpenCalls(l, s, acc.cancel, i)
    <3>1. o[1] \in Nat
      BY DEF Pairs
    <3>2. l[o[1]].kind = "calls" => o[1] # acc.cancel
      BY <3>1 DEF Meaning, CancelMeaning, Pairs
    <3> QED
      BY <1>3, <2>1, <3>1, <3>2 DEF OwedCalls, OpenCalls, IsOpen
  <2>4. OwedCalls(l, s, n, n) = acc.owed \union acc.open
    BY <2>3 DEF OwedCalls, OpenCalls, Meaning, CallsMeaning
  <2> QED
    BY <1>1, <2>2, <2>4 DEF CallsMeaning
<1>6. RoundMeaning(l, s, n, a)
  BY <1>1, <1>2 DEF RoundMeaning
<1>7. QueueMeaning(l, s, n, a)
  <2>1. Queued(l, s, n, n) = {}
    BY <1>2 DEF Queued, Prompts
  <2> QED
    BY <1>1, <2>1 DEF QueueMeaning, Increasing
<1>8. LastUserMeaning(l, s, n, a)
  BY <1>1 DEF LastUserMeaning
<1> QED
  BY <1>4, <1>5, <1>6, <1>7, <1>8 DEF Meaning, a

(* An entry that opens and closes nothing leaves the calls as they are     *)
LEMMA CallsStay ==
    ASSUME NEW E, NEW l \in Seq(E), NEW s \in Nat, NEW i \in Nat, s <= i, i + 1 <= Len(l),
           NEW acc \in Accumulators(l), Meaning(l, s, i, acc),
           l[i + 1].kind \notin {"calls", "results"}
    PROVE  /\ acc.open = OpenCalls(l, s, acc.cancel, i + 1)
           /\ acc.owed = OwedCalls(l, s, acc.cancel, i + 1)
<1> DEFINE n == i + 1
<1>1. acc.cancel \in Nat /\ acc.cancel <= i
  BY DEF Accumulators, Meaning, CancelMeaning
<1>2. ASSUME NEW o \in Pairs(l)
      PROVE  /\ o \in OpenCalls(l, s, acc.cancel, n) <=> o \in OpenCalls(l, s, acc.cancel, i)
             /\ o \in OwedCalls(l, s, acc.cancel, n) <=> o \in OwedCalls(l, s, acc.cancel, i)
  <2>1. o[1] \in Nat
    BY DEF Pairs
  <2>2. o[1] <= i => (IsOpen(l, o, n) <=> IsOpen(l, o, i))
    BY OpenStep
  <2>3. o[1] = n => ~ IsOpen(l, o, n)
    BY DEF IsOpen
  <2> QED
    BY <1>1, <2>1, <2>2, <2>3 DEF OpenCalls, OwedCalls
<1> QED
  BY <1>2 DEF OpenCalls, OwedCalls, Meaning, CallsMeaning

(* The prompts up to the next entry                                        *)
LEMMA QueueStep ==
    ASSUME NEW E, NEW l \in Seq(E), NEW s \in Nat, NEW i \in Nat, s <= i, i + 1 <= Len(l),
           NEW c \in 0..i, l[i + 1].kind # "calls"
    PROVE  Queued(l, s, c, i + 1) =
               Queued(l, s, c, i) \union ({i + 1} \intersect Prompts(l))
<1>1. ASSUME NEW p \in Prompts(l)
      PROVE  p \in Queued(l, s, c, i + 1) <=> p \in Queued(l, s, c, i) \/ p = i + 1
  <2>1. p \in Nat
    BY DEF Prompts
  <2>2. p <= i => \A j \in (p + 1)..(i + 1) : j \in (p + 1)..i \/ j = i + 1
    BY <2>1
  <2>3. \A j \in (p + 1)..i : j \in (p + 1)..(i + 1)
    BY <2>1
  <2>4. CASE p <= i
    BY <2>1, <2>2, <2>3, <2>4 DEF Queued
  <2>5. CASE p = i + 1
    <3>1. \A j \in (p + 1)..(i + 1) : FALSE
      BY <2>5
    <3> QED
      BY <2>5, <3>1 DEF Queued
  <2>6. CASE p > i + 1
    BY <2>1, <2>6 DEF Queued
  <2> QED
    BY <2>1, <2>4, <2>5, <2>6
<1>2. Queued(l, s, c, i + 1) \subseteq Prompts(l) /\ Queued(l, s, c, i) \subseteq Prompts(l)
  BY DEF Queued
<1> HIDE DEF Queued
<1> QED
  BY <1>1, <1>2

(* A prompt is queued behind the others, and only a tool round keeps the   *)
(* prompt it runs on                                                       *)
LEMMA UserStep ==
    ASSUME NEW E, NEW l \in Seq(E), NEW s \in Nat, NEW i \in Nat, s <= i, i + 1 <= Len(l),
           NEW acc \in Accumulators(l), Meaning(l, s, i, acc),
           i + 1 \in Prompts(l)
    PROVE  Meaning(l, s, i + 1, on_user_message(acc, i + 1))
<1> DEFINE n == i + 1
           a == on_user_message(acc, n)
<1>0. l[n].kind = "user"
  BY DEF Prompts
<1>1. /\ a.queue = Append(acc.queue, n) /\ a.open = acc.open /\ a.owed = acc.owed
      /\ a.cancel = acc.cancel /\ a.round = acc.round
      /\ a.lastUser = IF acc.round THEN acc.lastUser ELSE 0
  BY DEF on_user_message, Accumulators
<1>2. /\ acc.cancel \in 0..i /\ n \in Nat /\ acc.queue \in Seq(Nat) /\ n > acc.cancel
      /\ acc.round \in BOOLEAN
  BY DEF Accumulators, Meaning, CancelMeaning
<1> HIDE DEF a
<1>3. CancelMeaning(l, s, n, a)
  BY <1>0, <1>1, <1>2 DEF Meaning, CancelMeaning
<1>4. CallsMeaning(l, s, n, a)
  BY <1>0, <1>1, CallsStay DEF CallsMeaning
<1>5. RoundMeaning(l, s, n, a)
  <2>1. (\E j \in (s + 1)..n : l[j].kind = "calls") <=> (\E j \in (s + 1)..i : l[j].kind = "calls")
    BY <1>0
  <2> QED
    BY <1>1, <2>1 DEF Meaning, RoundMeaning
<1>6. Queued(l, s, acc.cancel, n) = Queued(l, s, acc.cancel, i) \union {n}
  BY <1>0, <1>2, QueueStep
<1>7. QueueMeaning(l, s, n, a)
  <2> DEFINE q == acc.queue
             r == Append(acc.queue, n)
  <2>1. /\ DOMAIN r = 1..(Len(q) + 1) /\ DOMAIN q = 1..Len(q) /\ Len(q) \in Nat
        /\ r[Len(q) + 1] = n /\ \A m \in 1..Len(q) : r[m] = q[m]
    BY <1>2
  <2>2. \A m \in DOMAIN q : q[m] \in Queued(l, s, acc.cancel, i) /\ q[m] < n /\ q[m] \in Nat
    BY <1>2 DEF Meaning, QueueMeaning, Queued
  <2> HIDE DEF r
  <2>3. \A m \in DOMAIN r : r[m] \in Queued(l, s, acc.cancel, n)
    BY <1>6, <2>1, <2>2
  <2>4. \A p \in Queued(l, s, acc.cancel, n) : \E m \in DOMAIN r : r[m] = p
    <3>1. ASSUME NEW p \in Queued(l, s, acc.cancel, i) PROVE \E m \in DOMAIN r : r[m] = p
      <4>1. PICK m \in DOMAIN q : q[m] = p
        BY DEF Meaning, QueueMeaning
      <4> QED
        BY <2>1, <4>1
    <3> QED
      BY <1>6, <2>1, <3>1
  <2>5. Increasing(r)
    <3>1. SUFFICES ASSUME NEW x \in DOMAIN r, NEW y \in DOMAIN r, x < y PROVE r[x] < r[y]
      BY DEF Increasing
    <3>2. CASE y \in 1..Len(q)
      BY <2>1, <3>1, <3>2 DEF Meaning, QueueMeaning, Increasing
    <3>3. CASE y = Len(q) + 1
      BY <2>1, <2>2, <3>1, <3>3
    <3> QED
      BY <2>1, <3>2, <3>3
  <2> QED
    BY <1>1, <2>3, <2>4, <2>5 DEF QueueMeaning, r
<1>8. LastUserMeaning(l, s, n, a)
  <2>1. \A p \in Prompts(l) : p \in Nat
    BY DEF Prompts
  <2> QED
    BY <1>1, <1>2, <1>6, <2>1 DEF Meaning, LastUserMeaning
<1> QED
  BY <1>3, <1>4, <1>5, <1>7, <1>8 DEF Meaning, a

(* An entry that is none of these changes nothing                          *)
LEMMA SkipStep ==
    ASSUME NEW E, NEW l \in Seq(E), NEW s \in Nat, NEW i \in Nat, s <= i, i + 1 <= Len(l),
           NEW acc \in Accumulators(l), Meaning(l, s, i, acc),
           l[i + 1].kind \notin {"calls", "results", "cancel"}, i + 1 \notin Prompts(l)
    PROVE  Meaning(l, s, i + 1, acc)
<1> DEFINE n == i + 1
<1>1. acc.cancel \in 0..i /\ n \in Nat
  BY DEF Accumulators, Meaning, CancelMeaning
<1>2. CancelMeaning(l, s, n, acc)
  BY <1>1 DEF Meaning, CancelMeaning
<1>3. CallsMeaning(l, s, n, acc)
  BY CallsStay DEF CallsMeaning
<1>4. RoundMeaning(l, s, n, acc)
  <2>1. (\E j \in (s + 1)..n : l[j].kind = "calls") <=> (\E j \in (s + 1)..i : l[j].kind = "calls")
    OBVIOUS
  <2> QED
    BY <2>1 DEF Meaning, RoundMeaning
<1>5. Queued(l, s, acc.cancel, n) = Queued(l, s, acc.cancel, i)
  <2>1. {n} \intersect Prompts(l) = {} /\ l[n].kind # "calls"
    OBVIOUS
  <2>2. Queued(l, s, acc.cancel, n) =
            Queued(l, s, acc.cancel, i) \union ({n} \intersect Prompts(l))
    BY <1>1, <2>1, QueueStep
  <2> QED
    BY <2>1, <2>2
<1>6. QueueMeaning(l, s, n, acc)
  BY <1>5 DEF Meaning, QueueMeaning
<1>7. LastUserMeaning(l, s, n, acc)
  <2>1. \A p \in Prompts(l) : p \in Nat /\ (p <= n => p <= i)
    BY DEF Prompts
  <2> QED
    BY <1>1, <1>5, <2>1 DEF Meaning, LastUserMeaning
<1> QED
  BY <1>2, <1>3, <1>4, <1>6, <1>7 DEF Meaning

(* A ToolResults closes its calls, of the running turn and of one cut off  *)
LEMMA ResultsStep ==
    ASSUME NEW E, NEW l \in Seq(E), NEW s \in Nat, NEW i \in Nat, s <= i, i + 1 <= Len(l),
           NEW acc \in Accumulators(l), Meaning(l, s, i, acc),
           l[i + 1].kind = "results"
    PROVE  Meaning(l, s, i + 1, close_calls(acc, l[i + 1].calls))
<1> DEFINE n == i + 1
           ks == l[n].calls
           a == close_calls(acc, ks)
<1>1. /\ a.open = Unanswered(acc.open, ks) /\ a.owed = Unanswered(acc.owed, ks)
      /\ a.queue = acc.queue /\ a.cancel = acc.cancel /\ a.round = acc.round
      /\ a.lastUser = acc.lastUser
  BY DEF close_calls, Accumulators
<1>2. acc.cancel \in 0..i /\ n \in Nat
  BY DEF Accumulators, Meaning, CancelMeaning
<1>3. n \notin Prompts(l)
  BY DEF Prompts
<1> HIDE DEF a
<1>4. CancelMeaning(l, s, n, a)
  BY <1>1, <1>2 DEF Meaning, CancelMeaning
<1>5. CallsMeaning(l, s, n, a)
  <2>1. ASSUME NEW o \in Pairs(l)
        PROVE  /\ o \in OpenCalls(l, s, acc.cancel, n)
                    <=> o \in OpenCalls(l, s, acc.cancel, i) /\ o[2] \notin ks
               /\ o \in OwedCalls(l, s, acc.cancel, n)
                    <=> o \in OwedCalls(l, s, acc.cancel, i) /\ o[2] \notin ks
    <3>1. o[1] \in Nat
      BY DEF Pairs
    <3>2. o[1] <= i => (IsOpen(l, o, n) <=> IsOpen(l, o, i) /\ o[2] \notin ks)
      BY OpenStep
    <3>3. o[1] = n => ~ IsOpen(l, o, n)
      BY DEF IsOpen
    <3> QED
      BY <1>2, <3>1, <3>2, <3>3 DEF OpenCalls, OwedCalls
  <2>2. /\ acc.open = OpenCalls(l, s, acc.cancel, i) /\ acc.owed = OwedCalls(l, s, acc.cancel, i)
        /\ OpenCalls(l, s, acc.cancel, n) \subseteq Pairs(l)
        /\ OwedCalls(l, s, acc.cancel, n) \subseteq Pairs(l)
        /\ OpenCalls(l, s, acc.cancel, i) \subseteq Pairs(l)
        /\ OwedCalls(l, s, acc.cancel, i) \subseteq Pairs(l)
    BY DEF Meaning, CallsMeaning, OpenCalls, OwedCalls
  <2> HIDE DEF ks
  <2> QED
    BY <1>1, <2>1, <2>2 DEF CallsMeaning, Unanswered
<1>6. RoundMeaning(l, s, n, a)
  <2>1. (\E j \in (s + 1)..n : l[j].kind = "calls") <=> (\E j \in (s + 1)..i : l[j].kind = "calls")
    OBVIOUS
  <2> QED
    BY <1>1, <2>1 DEF Meaning, RoundMeaning
<1>7. Queued(l, s, acc.cancel, n) = Queued(l, s, acc.cancel, i)
  <2>1. {n} \intersect Prompts(l) = {} /\ l[n].kind # "calls"
    BY <1>3
  <2>2. Queued(l, s, acc.cancel, n) =
            Queued(l, s, acc.cancel, i) \union ({n} \intersect Prompts(l))
    BY <1>2, <2>1, QueueStep
  <2> QED
    BY <2>1, <2>2
<1>8. QueueMeaning(l, s, n, a)
  BY <1>1, <1>7 DEF Meaning, QueueMeaning
<1>9. LastUserMeaning(l, s, n, a)
  <2>1. \A p \in Prompts(l) : p \in Nat /\ (p <= n => p <= i)
    BY <1>3 DEF Prompts
  <2> QED
    BY <1>1, <1>2, <1>7, <2>1 DEF Meaning, LastUserMeaning
<1> QED
  BY <1>4, <1>5, <1>6, <1>8, <1>9 DEF Meaning, a

(* A round opens its calls and, unless the turn was cut off, takes the     *)
(* queue and runs on its last prompt                                       *)
LEMMA CallsStep ==
    ASSUME NEW E, NEW l \in Seq(E), NEW s \in Nat, NEW i \in Nat, s <= i, i + 1 <= Len(l),
           NEW acc \in Accumulators(l), Meaning(l, s, i, acc),
           l[i + 1].kind = "calls"
    PROVE  Meaning(l, s, i + 1, on_tool_calls(acc, i + 1, l[i + 1].calls))
<1> DEFINE n == i + 1
           ks == l[n].calls
           a == on_tool_calls(acc, n, ks)
<1>1. /\ a.open = acc.open \union ({n} \X ks) /\ a.owed = acc.owed /\ a.cancel = acc.cancel
      /\ acc.cancel # 0 => a.queue = acc.queue /\ a.round = acc.round /\ a.lastUser = acc.lastUser
      /\ acc.cancel = 0 => /\ a.queue = <<>> /\ a.round = TRUE
                           /\ a.lastUser = IF acc.queue = <<>> THEN acc.lastUser
                                           ELSE Last(acc.queue)
  BY DEF on_tool_calls, Accumulators
<1>2. /\ acc.cancel \in 0..i /\ n \in Nat /\ acc.queue \in Seq(1..Len(l))
      /\ acc.round \in BOOLEAN
  BY DEF Accumulators, Meaning, CancelMeaning
<1>3. \A p \in Prompts(l) : p \in Nat /\ p # n
  BY DEF Prompts
<1> HIDE DEF a
<1>4. CancelMeaning(l, s, n, a)
  BY <1>1, <1>2 DEF Meaning, CancelMeaning
<1>5. CallsMeaning(l, s, n, a)
  <2>1. ASSUME NEW o \in Pairs(l)
        PROVE  /\ o \in OpenCalls(l, s, acc.cancel, n)
                    <=> o \in OpenCalls(l, s, acc.cancel, i) \/ (o[1] = n /\ o[2] \in ks)
               /\ o \in OwedCalls(l, s, acc.cancel, n) <=> o \in OwedCalls(l, s, acc.cancel, i)
    <3>1. o[1] \in Nat
      BY DEF Pairs
    <3>2. o[1] <= i => (IsOpen(l, o, n) <=> IsOpen(l, o, i))
      BY OpenStep
    <3>3. o[1] = n => (IsOpen(l, o, n) <=> o[2] \in ks)
      BY DEF IsOpen
    <3> QED
      BY <1>2, <3>1, <3>2, <3>3 DEF OpenCalls, OwedCalls
  <2>2. /\ acc.open = OpenCalls(l, s, acc.cancel, i) /\ acc.owed = OwedCalls(l, s, acc.cancel, i)
        /\ OpenCalls(l, s, acc.cancel, n) \subseteq Pairs(l)
        /\ OwedCalls(l, s, acc.cancel, n) \subseteq Pairs(l)
        /\ OpenCalls(l, s, acc.cancel, i) \subseteq Pairs(l)
        /\ OwedCalls(l, s, acc.cancel, i) \subseteq Pairs(l)
    BY DEF Meaning, CallsMeaning, OpenCalls, OwedCalls
  <2>3. {n} \X ks \subseteq Pairs(l)
    BY DEF Pairs, CallsIn
  <2>4. \A o \in Pairs(l) : o \in {n} \X ks <=> o[1] = n /\ o[2] \in ks
    BY DEF Pairs
  <2> HIDE DEF ks, n
  <2>5. acc.open \union ({n} \X ks) = OpenCalls(l, s, acc.cancel, n)
    BY <2>1, <2>2, <2>3, <2>4
  <2>6. acc.owed = OwedCalls(l, s, acc.cancel, n)
    BY <2>1, <2>2
  <2> QED
    BY <1>1, <2>5, <2>6 DEF CallsMeaning
<1>6. RoundMeaning(l, s, n, a)
  <2>1. n \in (s + 1)..n /\ l[n].kind = "calls"
    OBVIOUS
  <2>2. acc.cancel # 0 => acc.round = FALSE
    BY DEF Meaning, RoundMeaning
  <2>3. CASE acc.cancel = 0
    BY <1>1, <2>1, <2>3 DEF RoundMeaning
  <2>4. CASE acc.cancel # 0
    BY <1>1, <2>2, <2>4 DEF RoundMeaning
  <2> QED
    BY <2>3, <2>4
<1>7. CASE acc.cancel # 0
  <2>1. Queued(l, s, acc.cancel, n) = Queued(l, s, acc.cancel, i)
    BY <1>2, <1>3, <1>7 DEF Queued
  <2>2. QueueMeaning(l, s, n, a)
    BY <1>1, <1>7, <2>1 DEF Meaning, QueueMeaning
  <2>3. LastUserMeaning(l, s, n, a)
    BY <1>1, <1>2, <1>3, <1>7, <2>1 DEF Meaning, LastUserMeaning
  <2> QED
    BY <1>4, <1>5, <1>6, <2>2, <2>3 DEF Meaning, a
<1>8. CASE acc.cancel = 0
  <2>1. Queued(l, s, 0, n) = {}
    <3>1. \A p \in Prompts(l) : p <= i => n \in (p + 1)..n
      BY <1>3
    <3> QED
      BY <1>3, <3>1 DEF Queued
  <2>2. QueueMeaning(l, s, n, a)
    BY <1>1, <1>8, <2>1 DEF QueueMeaning, Increasing
  <2>3. ASSUME acc.queue # <<>>
        PROVE  /\ Last(acc.queue) \in Queued(l, s, 0, i)
               /\ \A p \in Queued(l, s, 0, i) : p <= Last(acc.queue)
    <3>1. Len(acc.queue) \in Nat \ {0} /\ DOMAIN acc.queue = 1..Len(acc.queue)
      BY <1>2, <2>3
    <3>2. Last(acc.queue) = acc.queue[Len(acc.queue)] /\ Len(acc.queue) \in DOMAIN acc.queue
      BY <3>1 DEF Last
    <3>3. \A m \in DOMAIN acc.queue : acc.queue[m] \in Nat
      BY <1>2
    <3>4. Last(acc.queue) \in Queued(l, s, 0, i)
      BY <1>8, <3>2 DEF Meaning, QueueMeaning
    <3>5. ASSUME NEW p \in Queued(l, s, 0, i) PROVE p <= Last(acc.queue)
      <4>1. PICK m \in DOMAIN acc.queue : acc.queue[m] = p
        BY <1>8 DEF Meaning, QueueMeaning
      <4>2. m = Len(acc.queue) \/ acc.queue[m] < acc.queue[Len(acc.queue)]
        <5>1. Increasing(acc.queue)
          BY DEF Meaning, QueueMeaning
        <5>2. m = Len(acc.queue) \/ m < Len(acc.queue)
          BY <3>1, <4>1
        <5> QED
          BY <3>2, <4>1, <5>1, <5>2 DEF Increasing
      <4> QED
        BY <3>2, <3>3, <4>1, <4>2
    <3> QED
      BY <3>4, <3>5
  <2>4. ASSUME NEW p \in Prompts(l), s < p, p <= i, p \notin Queued(l, s, 0, i)
        PROVE  \E j \in (p + 1)..i : l[j].kind = "calls"
    BY <1>3, <2>4 DEF Queued
  <2>5. ASSUME NEW p \in Prompts(l), s < p, p <= i PROVE p <= a.lastUser
    <3>1. CASE acc.queue = <<>>
      <4>1. p \notin Queued(l, s, 0, i)
        BY <1>8, <3>1 DEF Meaning, QueueMeaning
      <4>2. acc.round
        <5>1. PICK j \in (p + 1)..i : l[j].kind = "calls"
          BY <2>4, <2>5, <4>1
        <5>2. j \in (s + 1)..i
          BY <1>3, <2>5, <5>1
        <5> QED
          BY <1>8, <5>1, <5>2 DEF Meaning, RoundMeaning
      <4> QED
        BY <1>1, <1>8, <2>5, <3>1, <4>1, <4>2 DEF Meaning, LastUserMeaning
    <3>2. CASE acc.queue # <<>>
      <4>1. CASE p \in Queued(l, s, 0, i)
        BY <1>1, <1>8, <2>3, <3>2, <4>1
      <4>2. CASE p \notin Queued(l, s, 0, i)
        <5>1. PICK j \in (p + 1)..i : l[j].kind = "calls"
          BY <2>4, <2>5, <4>2
        <5>2. Last(acc.queue) \in Nat /\ j \notin (Last(acc.queue) + 1)..i
          BY <1>3, <2>3, <3>2, <5>1 DEF Queued
        <5> QED
          BY <1>1, <1>3, <1>8, <3>2, <5>1, <5>2
      <4> QED
        BY <4>1, <4>2
    <3> QED
      BY <3>1, <3>2
  <2>6. a.lastUser # 0 => a.lastUser \in Prompts(l) /\ s < a.lastUser /\ a.lastUser <= n
    <3>1. CASE acc.queue = <<>>
      BY <1>1, <1>3, <1>8, <3>1 DEF Meaning, LastUserMeaning
    <3>2. CASE acc.queue # <<>>
      BY <1>1, <1>3, <1>8, <2>3, <3>2 DEF Queued
    <3> QED
      BY <3>1, <3>2
  <2>7. LastUserMeaning(l, s, n, a)
    BY <1>1, <1>3, <1>8, <2>5, <2>6 DEF LastUserMeaning
  <2> QED
    BY <1>4, <1>5, <1>6, <2>2, <2>7 DEF Meaning, a
<1> QED
  BY <1>7, <1>8

-----------------------------------------------------------------------------
(* What reconstruct_state returns *)

BarrierOf(l) == LastWhere(l, is_terminal_barrier)
FinalAcc(l) == Replay(l, BarrierOf(l))[Len(l)]

(* The barrier is the last assistant Message or Error of the log           *)
LEMMA BarrierIsLast ==
    ASSUME NEW E, NEW l \in Seq(E)
    PROVE  /\ BarrierOf(l) \in 0..Len(l)
           /\ BarrierOf(l) # 0 => is_terminal_barrier(l[BarrierOf(l)])
           /\ \A i \in 1..Len(l) : is_terminal_barrier(l[i]) => i <= BarrierOf(l)
<1> DEFINE S == {0} \union {i \in DOMAIN l : is_terminal_barrier(l[i])}
<1>1. S \in SUBSET (0..Len(l)) /\ S # {} /\ Len(l) \in Nat /\ DOMAIN l = 1..Len(l)
  OBVIOUS
<1>2. BarrierOf(l) = Max(S)
  BY DEF BarrierOf, LastWhere
<1>3. Max(S) \in S /\ \A y \in S : y <= Max(S)
  <2> HIDE DEF S
  <2> QED
    BY <1>1, MaxOfBounded
<1> QED
  BY <1>1, <1>2, <1>3

(* The accumulator after the last entry means what the log says            *)
LEMMA ReplayMeaning ==
    ASSUME NEW E, NEW l \in Seq(E)
    PROVE  /\ FinalAcc(l) \in Accumulators(l)
           /\ Meaning(l, BarrierOf(l), Len(l), FinalAcc(l))
           /\ reconstruct_state(l) = finish(FinalAcc(l))
<1> DEFINE s == BarrierOf(l)
           R == Replay(l, s)
           P == {n \in Nat : n <= Len(l) => Meaning(l, s, n, R[n])}
<1>1. s \in 0..Len(l) /\ Len(l) \in Nat /\ s \in Nat /\ s <= Len(l)
  BY BarrierIsLast
<1> HIDE DEF s
<1>2. /\ R \in [s..Len(l) -> Accumulators(l)]
      /\ R[s] = StartReplay
      /\ \A i \in (s + 1)..Len(l) : R[i] = apply_entry_with_seq(l, s, R[i - 1], i)
  BY <1>1, ReplayIsDefined
<1> HIDE DEF R
<1>3. s \in P
  <2> DEFINE a == StartReplay
  <2>1. /\ a.queue = <<>> /\ a.round = FALSE /\ a.lastUser = 0 /\ a.open = {}
        /\ a.cancel = 0 /\ a.owed = {}
    BY DEF StartReplay
  <2> HIDE DEF a
  <2>2. \A o \in Pairs(l) : o[1] \in Nat
    BY DEF Pairs
  <2>3. OpenCalls(l, s, 0, s) = {} /\ OwedCalls(l, s, 0, s) = {} /\ Queued(l, s, 0, s) = {}
    BY <1>1, <2>2 DEF OpenCalls, OwedCalls, Queued, Prompts
  <2>4. CancelMeaning(l, s, s, a) /\ CallsMeaning(l, s, s, a)
    BY <1>1, <2>1, <2>3 DEF CancelMeaning, CallsMeaning
  <2>5. RoundMeaning(l, s, s, a)
    <3>1. ~ \E j \in (s + 1)..s : l[j].kind = "calls"
      BY <1>1
    <3> QED
      BY <2>1, <3>1 DEF RoundMeaning
  <2>6. QueueMeaning(l, s, s, a) /\ LastUserMeaning(l, s, s, a)
    BY <1>1, <2>1, <2>3 DEF QueueMeaning, LastUserMeaning, Increasing
  <2> QED
    BY <1>1, <1>2, <2>4, <2>5, <2>6 DEF Meaning, a
<1>4. ASSUME NEW i \in Nat, i >= s, i \in P PROVE i + 1 \in P
  <2>1. SUFFICES ASSUME i + 1 <= Len(l) PROVE Meaning(l, s, i + 1, R[i + 1])
    BY <1>4
  <2> DEFINE acc == R[i]
             n == i + 1
  <2>2. acc \in Accumulators(l) /\ Meaning(l, s, i, acc)
    BY <1>1, <1>2, <1>4, <2>1
  <2>3. R[n] = apply_entry_with_seq(l, s, acc, n) /\ n \in DOMAIN l
    BY <1>1, <1>2, <1>4, <2>1
  <2> HIDE DEF acc
  <2>4. CASE l[n].kind = "cancel"
    BY <1>1, <1>4, <2>1, <2>2, <2>3, <2>4, CancelStep DEF apply_entry_with_seq
  <2>5. CASE l[n].kind = "user" /\ ~ IsCopy(l, n)
    <3>1. n \in Prompts(l)
      BY <2>3, <2>5 DEF Prompts
    <3>2. R[n] = on_user_message(acc, n)
      BY <2>3, <2>5 DEF apply_entry_with_seq, IsKnown
    <3> QED
      BY <1>1, <1>4, <2>1, <2>2, <3>1, <3>2, UserStep
  <2>6. CASE l[n].kind = "calls"
    BY <1>1, <1>4, <2>1, <2>2, <2>3, <2>6, CallsStep DEF apply_entry_with_seq
  <2>7. CASE l[n].kind = "results"
    BY <1>1, <1>4, <2>1, <2>2, <2>3, <2>7, ResultsStep DEF apply_entry_with_seq
  <2>8. CASE /\ l[n].kind \notin {"cancel", "calls", "results"}
             /\ ~ (l[n].kind = "user" /\ ~ IsCopy(l, n))
    <3>1. n \notin Prompts(l)
      BY <2>8 DEF Prompts
    <3>2. R[n] = acc
      BY <2>3, <2>8 DEF apply_entry_with_seq, IsKnown
    <3> QED
      BY <1>1, <1>4, <2>1, <2>2, <2>8, <3>1, <3>2, SkipStep
  <2> QED
    BY <2>4, <2>5, <2>6, <2>7, <2>8
<1>5. Len(l) \in P
  <2> HIDE DEF P
  <2> QED
    BY <1>1, <1>3, <1>4, InductFrom
<1>6. FinalAcc(l) = R[Len(l)]
  BY DEF FinalAcc, R, s
<1> QED
  BY <1>1, <1>2, <1>5, <1>6 DEF reconstruct_state, FinalAcc, s, BarrierOf

(* The fields of the outcome, read off the accumulator                     *)
LEMMA FinishFields ==
    ASSUME NEW acc, acc.round \in BOOLEAN
    PROVE  LET st == finish(acc)
           IN  /\ st.status \in {"Idle", "InterruptedPendingWindUp", "InFlightResumable"}
               /\ st.status = "InterruptedPendingWindUp" <=> acc.owed # {}
               /\ st.status = "InFlightResumable" <=> acc.owed = {} /\ acc.round
               /\ st.queue = acc.queue
               /\ acc.owed # {} => st.orphans = acc.owed /\ st.cancel = acc.cancel
               /\ acc.owed = {} => st.orphans = IF acc.round THEN acc.open ELSE {}
               /\ st.lastUser = IF acc.owed = {} /\ acc.round THEN acc.lastUser ELSE 0
<1>1. CASE acc.owed # {}
  BY <1>1 DEF finish, Outcome
<1>2. CASE acc.owed = {} /\ acc.round
  BY <1>2 DEF finish, Outcome
<1>3. CASE acc.owed = {} /\ ~ acc.round
  BY <1>3 DEF finish, Outcome
<1> QED
  BY <1>1, <1>2, <1>3

-----------------------------------------------------------------------------
(* A log that grows by one entry *)

(* Whether an entry is a copy is settled by the entries before it          *)
LEMMA PrefixStays ==
    ASSUME NEW E, NEW l \in Seq(E), NEW e \in E
    PROVE  LET k == Append(l, e)
           IN  /\ k \in Seq(E) /\ Len(k) = Len(l) + 1 /\ k[Len(l) + 1] = e
               /\ DOMAIN k = 1..(Len(l) + 1) /\ DOMAIN l = 1..Len(l) /\ Len(l) \in Nat
               /\ \A i \in 1..Len(l) : k[i] = l[i] /\ (IsCopy(k, i) <=> IsCopy(l, i))
               /\ e.kind # "user" => Prompts(k) = Prompts(l)
               /\ Prompts(l) \subseteq Prompts(k)
               /\ \A i \in Prompts(k) : i \in Prompts(l) \/ i = Len(l) + 1
<1> DEFINE k == Append(l, e)
<1>1. /\ k \in Seq(E) /\ Len(k) = Len(l) + 1 /\ k[Len(l) + 1] = e
      /\ DOMAIN k = 1..(Len(l) + 1) /\ DOMAIN l = 1..Len(l) /\ Len(l) \in Nat
      /\ \A i \in 1..Len(l) : k[i] = l[i]
  OBVIOUS
<1> HIDE DEF k
<1>2. \A i \in 1..Len(l) : IsCopy(k, i) <=> IsCopy(l, i)
  <2>1. \A i \in 1..Len(l) : \A j \in 1..(i - 1) : j \in 1..Len(l)
    BY <1>1
  <2> QED
    BY <1>1, <2>1 DEF IsCopy
<1>3. \A i \in Prompts(k) : i \in Prompts(l) \/ i = Len(l) + 1
  BY <1>1, <1>2 DEF Prompts
<1>4. Prompts(l) \subseteq Prompts(k)
  BY <1>1, <1>2 DEF Prompts
<1>5. e.kind # "user" => Prompts(k) \subseteq Prompts(l)
  BY <1>1, <1>3 DEF Prompts
<1> QED
  BY <1>1, <1>2, <1>3, <1>4, <1>5 DEF k

(* The replay of a longer log begins like the replay of the shorter one    *)
LEMMA ReplayExtends ==
    ASSUME NEW E, NEW l \in Seq(E), NEW e \in E, NEW s \in 0..Len(l)
    PROVE  Replay(Append(l, e), s)[Len(l)] = Replay(l, s)[Len(l)]
<1> DEFINE k == Append(l, e)
           P == {n \in Nat : n <= Len(l) => Replay(k, s)[n] = Replay(l, s)[n]}
<1>1. /\ k \in Seq(E) /\ Len(k) = Len(l) + 1 /\ Len(l) \in Nat /\ s \in Nat /\ s <= Len(l)
      /\ \A i \in 1..Len(l) : k[i] = l[i] /\ (IsCopy(k, i) <=> IsCopy(l, i))
  BY PrefixStays
<1> HIDE DEF k
<1>2. /\ Replay(l, s)[s] = StartReplay
      /\ \A i \in (s + 1)..Len(l) :
            Replay(l, s)[i] = apply_entry_with_seq(l, s, Replay(l, s)[i - 1], i)
  BY <1>1, ReplayIsDefined
<1>3. /\ Replay(k, s)[s] = StartReplay
      /\ \A i \in (s + 1)..(Len(l) + 1) :
            Replay(k, s)[i] = apply_entry_with_seq(k, s, Replay(k, s)[i - 1], i)
  <2>1. s \in 0..Len(k)
    BY <1>1
  <2> QED
    BY <1>1, <2>1, ReplayIsDefined
<1>4. s \in P
  BY <1>1, <1>2, <1>3
<1>5. ASSUME NEW n \in Nat, n >= s, n \in P PROVE n + 1 \in P
  <2>1. SUFFICES ASSUME n + 1 <= Len(l) PROVE Replay(k, s)[n + 1] = Replay(l, s)[n + 1]
    OBVIOUS
  <2>2. Replay(k, s)[n] = Replay(l, s)[n]
    BY <1>1, <1>5, <2>1
  <2>3. \A acc : apply_entry_with_seq(k, s, acc, n + 1) = apply_entry_with_seq(l, s, acc, n + 1)
    <3>1. k[n + 1] = l[n + 1] /\ (IsCopy(k, n + 1) <=> IsCopy(l, n + 1))
      BY <1>1, <2>1
    <3> QED
      BY <3>1, Zenon DEF apply_entry_with_seq, IsKnown
  <2>4. n + 1 \in (s + 1)..Len(l) /\ n + 1 \in (s + 1)..(Len(l) + 1) /\ (n + 1) - 1 = n
    BY <1>1, <1>5, <2>1
  <2> QED
    BY <1>2, <1>3, <2>2, <2>3, <2>4
<1> HIDE DEF P
<1>6. Len(l) \in P
  BY <1>1, <1>4, <1>5, InductFrom
<1> QED
  BY <1>1, <1>6 DEF P, k

(* The barrier of a longer log                                             *)
LEMMA BarrierStays ==
    ASSUME NEW E, NEW l \in Seq(E), NEW e \in E, ~ is_terminal_barrier(e)
    PROVE  BarrierOf(Append(l, e)) = BarrierOf(l)
<1> DEFINE k == Append(l, e)
<1>1. /\ k \in Seq(E) /\ Len(k) = Len(l) + 1 /\ Len(l) \in Nat /\ k[Len(l) + 1] = e
      /\ \A i \in 1..Len(l) : k[i] = l[i]
  BY PrefixStays
<1> HIDE DEF k
<1>2. /\ BarrierOf(l) \in 0..Len(l)
      /\ BarrierOf(l) # 0 => is_terminal_barrier(l[BarrierOf(l)])
      /\ \A i \in 1..Len(l) : is_terminal_barrier(l[i]) => i <= BarrierOf(l)
  BY BarrierIsLast
<1>3. /\ BarrierOf(k) \in 0..Len(k)
      /\ BarrierOf(k) # 0 => is_terminal_barrier(k[BarrierOf(k)])
      /\ \A i \in 1..Len(k) : is_terminal_barrier(k[i]) => i <= BarrierOf(k)
  BY <1>1, BarrierIsLast
<1>4. BarrierOf(k) # Len(l) + 1
  BY <1>1, <1>3
<1>5. BarrierOf(k) <= BarrierOf(l)
  BY <1>1, <1>2, <1>3, <1>4
<1>6. BarrierOf(l) <= BarrierOf(k)
  BY <1>1, <1>2, <1>3
<1> QED
  BY <1>1, <1>2, <1>3, <1>5, <1>6 DEF k

-----------------------------------------------------------------------------
(* What settles a prompt *)

(* The two questions asked of a log about a prompt have an entry for an    *)
(* answer                                                                  *)
LEMMA CoveredByAnEntry ==
    ASSUME NEW E, NEW l \in Seq(E), NEW p
    PROVE  /\ prompt_is_covered(l, p) <=> \E i \in DOMAIN l : Covers(l, i, p)
           /\ invocation_terminal_seq(l, p) # 0 <=> \E i \in DOMAIN l : i > p /\ Covers(l, i, p)
<1> DEFINE S == {i \in DOMAIN l : Covers(l, i, p)}
           T == {i \in DOMAIN l : i > p /\ Covers(l, i, p)}
<1>1. S \in SUBSET (Nat \ {0}) /\ T \in SUBSET (Nat \ {0})
  OBVIOUS
<1>2. (FirstOf(S) # 0 <=> S # {}) /\ (FirstOf(T) # 0 <=> T # {})
  <2> HIDE DEF S, T
  <2> QED
    BY <1>1, FirstOfSequences
<1> QED
  BY <1>2 DEF prompt_is_covered, prompt_terminal_entry, invocation_terminal_seq

(* An append uncovers nothing                                              *)
LEMMA CoveredStays ==
    ASSUME NEW E, NEW l \in Seq(E), NEW e \in E, NEW p, prompt_is_covered(l, p)
    PROVE  prompt_is_covered(Append(l, e), p)
<1> DEFINE k == Append(l, e)
<1>1. /\ k \in Seq(E) /\ DOMAIN l \subseteq DOMAIN k
      /\ \A i \in DOMAIN l : k[i] = l[i]
  BY PrefixStays
<1>2. PICK i \in DOMAIN l : Covers(l, i, p)
  BY CoveredByAnEntry
<1> HIDE DEF k
<1>3. Covers(k, i, p)
  BY <1>1, <1>2 DEF Covers
<1> QED
  BY <1>1, <1>3, CoveredByAnEntry DEF k

=============================================================================
