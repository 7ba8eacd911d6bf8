---------------------------- MODULE WaiterFifoProofs ----------------------------
(***************************************************************************)
(* Facts about the waiter FIFO, for every queue and every set of threads.  *)
(***************************************************************************)
EXTENDS WaiterFifo, SequenceTheorems, TLAPS

(***************************************************************************)
(* cancel_waiter removes exactly the entry of t: the queue stays free of   *)
(* duplicates and every other thread keeps its entry.                      *)
(***************************************************************************)
LEMMA CancelledFacts ==
  ASSUME NEW S, NEW q \in Seq(S), NEW t, NoDuplicates(q)
  PROVE  /\ Cancelled(q, t) \in Seq(S)
         /\ NoDuplicates(Cancelled(q, t))
         /\ \A u : Queued(Cancelled(q, t), u) <=> Queued(q, u) /\ u # t
         /\ ~Queued(q, t) => Cancelled(q, t) = q
<1>1. CASE ~Queued(q, t)
  BY <1>1 DEF Cancelled, Queued
<1>2. CASE Queued(q, t)
  <2> DEFINE n == Len(q)
             p == PositionOf(q, t)
             r == Cancelled(q, t)
  <2>1. n \in Nat /\ q \in [1..n -> S]
    OBVIOUS
  <2>2. p \in 1..n /\ q[p] = t
    BY <1>2 DEF Queued, PositionOf
  <2>3. r = SubSeq(q, 1, p - 1) \o SubSeq(q, p + 1, n)
    BY <1>2 DEF Cancelled, RemoveAt
  <2>4. /\ SubSeq(q, 1, p - 1) \in Seq(S)
        /\ Len(SubSeq(q, 1, p - 1)) = p - 1
        /\ \A i \in 1..(p - 1) : SubSeq(q, 1, p - 1)[i] = q[i]
    BY <2>1, <2>2
  <2>5. /\ SubSeq(q, p + 1, n) \in Seq(S)
        /\ Len(SubSeq(q, p + 1, n)) = n - p
        /\ \A i \in 1..(n - p) : SubSeq(q, p + 1, n)[i] = q[p + i]
    <3> HIDE DEF p, n
    <3>1. \A i \in (p + 1)..n : q[i] \in S
      BY <2>1, <2>2
    <3>2. /\ SubSeq(q, p + 1, n) \in Seq(S)
          /\ Len(SubSeq(q, p + 1, n)) =
               IF p + 1 <= n THEN n - (p + 1) + 1 ELSE 0
          /\ \A i \in 1..(n - (p + 1) + 1) :
               SubSeq(q, p + 1, n)[i] = q[(p + 1) + i - 1]
      BY <2>1, <2>2, <3>1, SubSeqProperties, p + 1 \in Int, n \in Int
    <3>3. ASSUME NEW i \in 1..(n - p)
          PROVE  i \in 1..(n - (p + 1) + 1) /\ (p + 1) + i - 1 = p + i
      BY <2>1, <2>2
    <3> QED BY <2>1, <2>2, <3>2, <3>3
  <2> HIDE DEF r, p, n
  <2>6. /\ r \in Seq(S)
        /\ Len(r) = n - 1
        /\ \A i \in 1..(n - 1) : r[i] = IF i < p THEN q[i] ELSE q[i + 1]
    <3> DEFINE a == SubSeq(q, 1, p - 1)
               b == SubSeq(q, p + 1, n)
    <3>1. /\ a \in Seq(S) /\ Len(a) = p - 1
          /\ \A i \in 1..(p - 1) : a[i] = q[i]
      BY <2>4
    <3>2. /\ b \in Seq(S) /\ Len(b) = n - p
          /\ \A i \in 1..(n - p) : b[i] = q[p + i]
      BY <2>5
    <3> HIDE DEF a, b
    <3>3. /\ a \o b \in Seq(S)
          /\ Len(a \o b) = Len(a) + Len(b)
          /\ \A i \in 1..(Len(a) + Len(b)) :
               (a \o b)[i] = IF i <= Len(a) THEN a[i] ELSE b[i - Len(a)]
      BY <3>1, <3>2, ConcatProperties
    <3>4. r = a \o b
      BY <2>3 DEF a, b
    <3>5. ASSUME NEW i \in 1..(n - 1)
          PROVE  r[i] = IF i < p THEN q[i] ELSE q[i + 1]
      <4>1. CASE i < p
        BY <4>1, <3>1, <3>2, <3>3, <3>4, <2>1, <2>2
      <4>2. CASE ~(i < p)
        <5>1. /\ i - (p - 1) \in 1..(n - p)
              /\ p + (i - (p - 1)) = i + 1
              /\ ~(i <= p - 1) /\ i \in 1..((p - 1) + (n - p))
          BY <4>2, <2>1, <2>2
        <5> QED BY <5>1, <4>2, <3>1, <3>2, <3>3, <3>4
      <4> QED BY <4>1, <4>2
    <3>6. (p - 1) + (n - p) = n - 1
      BY <2>1, <2>2
    <3> QED BY <3>1, <3>2, <3>3, <3>4, <3>5, <3>6
  <2>7. NoDuplicates(r)
    BY <2>1, <2>2, <2>6 DEF NoDuplicates, n
  <2>8. ASSUME NEW u
        PROVE  Queued(r, u) <=> Queued(q, u) /\ u # t
    <3>1. ASSUME Queued(r, u) PROVE Queued(q, u) /\ u # t
      <4>1. PICK i \in 1..(n - 1) : r[i] = u
        BY <2>6, <3>1 DEF Queued
      <4>2. PICK j \in 1..n : q[j] = u /\ j # p
        <5>1. CASE i < p
          BY <5>1, <4>1, <2>6, <2>1, <2>2
        <5>2. CASE ~(i < p)
          BY <5>2, <4>1, <2>6, <2>1, <2>2
        <5> QED BY <5>1, <5>2
      <4> QED BY <4>2, <2>2 DEF Queued, NoDuplicates, n
    <3>2. ASSUME Queued(q, u), u # t PROVE Queued(r, u)
      <4>1. PICK j \in 1..n : q[j] = u /\ j # p
        BY <3>2, <2>2 DEF Queued, n
      <4>2. PICK i \in 1..(n - 1) : r[i] = u
        <5>1. CASE j < p
          BY <5>1, <4>1, <2>6, <2>1, <2>2
        <5>2. CASE ~(j < p)
          <6>1. j - 1 \in 1..(n - 1) /\ ~(j - 1 < p) /\ (j - 1) + 1 = j
            BY <5>2, <4>1, <2>1, <2>2
          <6> QED BY <6>1, <4>1, <2>6
        <5> QED BY <5>1, <5>2
      <4> QED BY <4>2, <2>6 DEF Queued
    <3> QED BY <3>1, <3>2
  <2> QED BY <2>6, <2>7, <2>8, <1>2 DEF r
<1> QED BY <1>1, <1>2

(***************************************************************************)
(* enqueue_waiter of a thread that is not queued: it becomes the last      *)
(* entry.                                                                  *)
(***************************************************************************)
LEMMA JoinedFacts ==
  ASSUME NEW S, NEW q \in Seq(S), NEW t \in S, NoDuplicates(q), ~Queued(q, t)
  PROVE  /\ Joined(q, t) \in Seq(S)
         /\ Joined(q, t) # <<>>
         /\ NoDuplicates(Joined(q, t))
         /\ \A u : Queued(Joined(q, t), u) <=> Queued(q, u) \/ u = t
         /\ q # <<>> => Head(Joined(q, t)) = Head(q)
         /\ q = <<>> => Head(Joined(q, t)) = t
<1>1. Joined(q, t) = Append(q, t)
  BY CancelledFacts DEF Joined
<1>2. /\ Append(q, t) \in Seq(S)
      /\ Len(Append(q, t)) = Len(q) + 1
      /\ \A i \in 1..Len(q) : Append(q, t)[i] = q[i]
      /\ Append(q, t)[Len(q) + 1] = t
  OBVIOUS
<1>3. Append(q, t) # <<>>
  BY <1>2
<1>4. NoDuplicates(Append(q, t))
  BY <1>2 DEF NoDuplicates, Queued
<1>5. \A u : Queued(Append(q, t), u) <=> Queued(q, u) \/ u = t
  BY <1>2 DEF Queued
<1>6. /\ q # <<>> => Head(Append(q, t)) = Head(q)
      /\ q = <<>> => Head(Append(q, t)) = t
  BY <1>2
<1> QED BY <1>1, <1>2, <1>3, <1>4, <1>5, <1>6

(***************************************************************************)
(* pop_front takes out exactly the oldest entry.                           *)
(***************************************************************************)
LEMMA PopFacts ==
  ASSUME NEW S, NEW q \in Seq(S), NoDuplicates(q), q # <<>>
  PROVE  /\ Head(q) \in S
         /\ Tail(q) \in Seq(S)
         /\ NoDuplicates(Tail(q))
         /\ Queued(q, Head(q))
         /\ \A u : Queued(Tail(q), u) <=> Queued(q, u) /\ u # Head(q)
<1>1. /\ Head(q) \in S /\ Head(q) = q[1]
      /\ Tail(q) \in Seq(S)
      /\ Len(q) \in Nat /\ Len(q) >= 1
      /\ Len(Tail(q)) = Len(q) - 1
      /\ \A i \in 1..(Len(q) - 1) : Tail(q)[i] = q[i + 1]
  OBVIOUS
<1>2. NoDuplicates(Tail(q))
  BY <1>1 DEF NoDuplicates
<1>3. Queued(q, Head(q))
  BY <1>1 DEF Queued
<1>4. ASSUME NEW u
      PROVE  Queued(Tail(q), u) <=> Queued(q, u) /\ u # Head(q)
  <2>1. ASSUME Queued(Tail(q), u) PROVE Queued(q, u) /\ u # Head(q)
    <3>1. PICK i \in 1..(Len(q) - 1) : q[i + 1] = u
      BY <2>1, <1>1 DEF Queued
    <3>2. i + 1 \in 1..Len(q) /\ i + 1 # 1 /\ 1 \in 1..Len(q)
      BY <3>1, <1>1
    <3> QED BY <3>1, <3>2, <1>1 DEF Queued, NoDuplicates
  <2>2. ASSUME Queued(q, u), u # Head(q) PROVE Queued(Tail(q), u)
    <3>1. PICK j \in 1..Len(q) : q[j] = u
      BY <2>2 DEF Queued
    <3>2. j - 1 \in 1..(Len(q) - 1) /\ (j - 1) + 1 = j
      BY <3>1, <2>2, <1>1
    <3> QED BY <3>1, <3>2, <1>1 DEF Queued
  <2> QED BY <2>1, <2>2
<1> QED BY <1>1, <1>2, <1>3, <1>4

(***************************************************************************)
(* Removing the k oldest entries (a wake of several waiters) leaves the    *)
(* others in the queue.                                                    *)
(***************************************************************************)
LEMMA DropFacts ==
  ASSUME NEW S, NEW q \in Seq(S), NoDuplicates(q), NEW k \in 0..Len(q)
  PROVE  /\ SubSeq(q, k + 1, Len(q)) \in Seq(S)
         /\ NoDuplicates(SubSeq(q, k + 1, Len(q)))
         /\ {q[i] : i \in 1..k} \subseteq S
         /\ \A u : Queued(SubSeq(q, k + 1, Len(q)), u)
                     <=> Queued(q, u) /\ u \notin {q[i] : i \in 1..k}
<1> DEFINE r == SubSeq(q, k + 1, Len(q))
<1>0. Len(q) \in Nat /\ q \in [1..Len(q) -> S]
  OBVIOUS
<1>1. /\ r \in Seq(S)
      /\ Len(r) = Len(q) - k
      /\ \A i \in 1..(Len(q) - k) : r[i] = q[i + k]
  <2>1. /\ k + 1 \in Int /\ Len(q) \in Int
        /\ \A i \in (k + 1)..Len(q) : q[i] \in S
    BY <1>0
  <2>2. /\ r \in Seq(S)
        /\ Len(r) = IF k + 1 <= Len(q) THEN Len(q) - (k + 1) + 1 ELSE 0
        /\ \A i \in 1..(Len(q) - (k + 1) + 1) : r[i] = q[(k + 1) + i - 1]
    BY <2>1, SubSeqProperties
  <2> HIDE DEF r
  <2>3. Len(q) - (k + 1) + 1 = Len(q) - k
    BY <1>0
  <2>4. \A i \in 1..(Len(q) - k) : (k + 1) + i - 1 = i + k
    BY <1>0
  <2>5. Len(r) = Len(q) - k
    <3>1. Len(r) = IF k + 1 <= Len(q) THEN Len(q) - (k + 1) + 1 ELSE 0
      BY <2>2
    <3>2. CASE k + 1 <= Len(q)
      BY <2>3, <3>1, <3>2
    <3>3. CASE ~(k + 1 <= Len(q))
      <4>1. \A n \in Nat : \A j \in 0..n : ~(j + 1 <= n) => j = n /\ n - j = 0
        OBVIOUS
      <4>2. Len(q) \in Nat
        OBVIOUS
      <4>3. k = Len(q) /\ Len(q) - k = 0
        BY <3>3, <4>1, <4>2
      <4> QED BY <3>1, <3>3, <4>3
    <3> QED BY <3>2, <3>3
  <2>6. ASSUME NEW i \in 1..(Len(q) - k) PROVE r[i] = q[i + k]
    BY <2>2, <2>3, <2>4
  <2> QED BY <2>2, <2>5, <2>6
<1> HIDE DEF r
<1>2. NoDuplicates(r)
  BY <1>0, <1>1 DEF NoDuplicates
<1>3. {q[i] : i \in 1..k} \subseteq S
  BY <1>0
<1>4. ASSUME NEW u, Queued(r, u)
      PROVE  Queued(q, u) /\ u \notin {q[i] : i \in 1..k}
  BY <1>0, <1>1, <1>4 DEF Queued, NoDuplicates
<1>5. ASSUME NEW u, Queued(q, u), u \notin {q[i] : i \in 1..k}
      PROVE  Queued(r, u)
  <2>1. PICK i \in 1..Len(q) : q[i] = u
    BY <1>5 DEF Queued
  <2>2. i \notin 1..k
    BY <1>5, <2>1
  <2>3. i - k \in 1..Len(r) /\ r[i - k] = q[(i - k) + k] /\ (i - k) + k = i
    BY <1>0, <1>1, <2>1, <2>2
  <2> QED BY <2>1, <2>3 DEF Queued
<1> QED BY <1>1, <1>2, <1>3, <1>4, <1>5 DEF r
===============================================================================
