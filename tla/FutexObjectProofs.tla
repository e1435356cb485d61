------------------------- MODULE FutexObjectProofs --------------------------
(***************************************************************************)
(* Lemmas on the data of futex.c: the wait queues, and what the operations *)
(* on one lock or one condition variable do to its object; the inductive   *)
(* invariant, and how a critical section that changes one object keeps it. *)
(***************************************************************************)
EXTENDS Futex, FiniteSetTheorems, SequenceTheorems, TLAPS

(***************************************************************************)
(* The wait queues: which threads an operation on a queue leaves in it.    *)
(***************************************************************************)
\* A TAILQ is empty exactly when futex_queue_count() is zero.
LEMMA EmptyLen ==
  ASSUME NEW S, NEW q \in Seq(S)
  PROVE  Len(q) \in Nat /\ (q = <<>> <=> Len(q) = 0)
BY EmptySeq, LenProperties

\* An empty TAILQ holds nobody; the first entry of another one is in it.
LEMMA EmptyQueue ==
  ASSUME NEW S, NEW q \in Seq(S)
  PROVE  /\ q = <<>> => Once(q) /\ \A u : ~InQueue(q, u)
         /\ q # <<>> => Head(q) \in S /\ InQueue(q, Head(q))
<1>1. Len(q) \in Nat /\ DOMAIN q = 1..Len(q)
  BY LenProperties
<1>2. ASSUME q = <<>> PROVE Once(q) /\ \A u : ~InQueue(q, u)
  <2>1. DOMAIN q = {}
    BY <1>1, <1>2, EmptyLen
  <2>2. QED BY <2>1 DEF InQueue, Once
<1>3. ASSUME q # <<>> PROVE Head(q) \in S /\ InQueue(q, Head(q))
  <2>1. Len(q) \in Nat \ {0}
    BY <1>3, EmptySeq
  <2>2. Head(q) = q[1]
    BY <1>3, SMT
  <2>3. QED BY <1>1, <1>3, <2>1, <2>2, HeadTailProperties DEF InQueue
<1>4. QED BY <1>2, <1>3

\* futex_queue_sleep() inserts at the tail: the queue gains exactly the new
\* thread, and keeps its entries distinct.
LEMMA AppendQueue ==
  ASSUME NEW S, NEW q \in Seq(S), NEW t \in S
  PROVE  /\ Append(q, t) \in Seq(S)
         /\ Append(q, t) # <<>>
         /\ \A u : InQueue(Append(q, t), u) <=> InQueue(q, u) \/ u = t
         /\ Once(q) /\ ~InQueue(q, t) => Once(Append(q, t))
<1> DEFINE p == Append(q, t)
<1>1. /\ p \in Seq(S) /\ p # <<>> /\ Len(p) = Len(q) + 1
      /\ \A i \in 1..Len(q) : p[i] = q[i]
      /\ p[Len(q) + 1] = t
  BY AppendProperties
<1>2. Len(q) \in Nat /\ DOMAIN q = 1..Len(q) /\ DOMAIN p = 1..(Len(q) + 1)
  BY <1>1, LenProperties
<1> HIDE DEF p
<1>3. \A u : InQueue(p, u) <=> InQueue(q, u) \/ u = t
  BY <1>1, <1>2 DEF InQueue
<1>4. Once(q) /\ ~InQueue(q, t) => Once(p)
  BY <1>1, <1>2 DEF InQueue, Once
<1>5. QED BY <1>1, <1>3, <1>4 DEF p

\* A wake-up that removes the first entry takes exactly that thread.
LEMMA TailQueue ==
  ASSUME NEW S, NEW q \in Seq(S), q # <<>>
  PROVE  /\ Tail(q) \in Seq(S)
         /\ \A u : InQueue(q, u) <=> InQueue(Tail(q), u) \/ u = Head(q)
         /\ Once(q) => Once(Tail(q)) /\ ~InQueue(Tail(q), Head(q))
         /\ Len(q) > 1 <=> Tail(q) # <<>>
<1> DEFINE p == Tail(q)
<1>1. /\ p \in Seq(S) /\ Len(p) = Len(q) - 1
      /\ \A i \in 1..Len(p) : p[i] = q[i + 1]
  BY HeadTailProperties
<1>2. Len(q) \in Nat \ {0} /\ DOMAIN q = 1..Len(q) /\ DOMAIN p = 1..(Len(q) - 1)
  BY <1>1, LenProperties, EmptySeq
<1>3. Head(q) = q[1]
  BY SMT
<1> HIDE DEF p
<1>4. Len(q) > 1 <=> p # <<>>
  <2>1. p = <<>> <=> Len(p) = 0
    BY <1>1, EmptyLen
  <2>2. QED BY <1>1, <1>2, <2>1
<1>5. \A u : InQueue(q, u) <=> InQueue(p, u) \/ u = q[1]
  <2> TAKE u
  <2>1. ASSUME NEW j \in DOMAIN q, q[j] = u PROVE InQueue(p, u) \/ u = q[1]
    <3>1. CASE j = 1 BY <2>1, <3>1
    <3>2. CASE j # 1
      <4>1. j - 1 \in DOMAIN p /\ p[j - 1] = q[j]
        BY <1>1, <1>2, <3>2
      <4>2. QED BY <2>1, <4>1 DEF InQueue
    <3>3. QED BY <3>1, <3>2
  <2>2. ASSUME NEW j \in DOMAIN p, p[j] = u PROVE InQueue(q, u)
    <3>1. j + 1 \in DOMAIN q /\ q[j + 1] = u
      BY <1>1, <1>2, <2>2
    <3>2. QED BY <3>1 DEF InQueue
  <2>3. InQueue(q, q[1])
    BY <1>2 DEF InQueue
  <2>4. QED BY <2>1, <2>2, <2>3 DEF InQueue
<1>6. ASSUME Once(q) PROVE Once(p) /\ ~InQueue(p, q[1])
  <2>1. ASSUME NEW i \in DOMAIN p
        PROVE  i \in Nat /\ i + 1 \in DOMAIN q /\ q[i + 1] = p[i] /\ i + 1 # 1
    BY <1>1, <1>2
  <2>2. ~InQueue(p, q[1])
    BY <1>2, <1>6, <2>1 DEF InQueue, Once
  <2>3. ASSUME NEW i \in DOMAIN p, NEW j \in DOMAIN p, p[i] = p[j] PROVE i = j
    <3>1. i + 1 = j + 1
      BY <1>6, <2>1, <2>3 DEF Once
    <3>2. QED BY <2>1, <3>1
  <2>4. QED BY <2>2, <2>3 DEF Once
<1>7. QED BY <1>1, <1>3, <1>4, <1>5, <1>6 DEF p

\* A stretch of a queue holds the threads of its positions.
LEMMA SubQueue ==
  ASSUME NEW S, NEW q \in Seq(S), NEW m \in Nat \ {0}, NEW n \in 0..Len(q)
  PROVE  LET p == SubSeq(q, m, n)
         IN  /\ p \in Seq(S)
             /\ \A u : InQueue(p, u) <=> \E i \in m..n : q[i] = u
             /\ Once(q) => Once(p)
             /\ p = <<>> <=> n < m
<1> DEFINE p == SubSeq(q, m, n)
<1>1. Len(q) \in Nat /\ DOMAIN q = 1..Len(q)
  BY LenProperties
<1>2. \A i \in m..n : q[i] \in S
  BY <1>1, ElementOfSeq
<1>3. /\ p \in Seq(S) /\ Len(p) = IF m <= n THEN n - m + 1 ELSE 0
      /\ \A i \in 1..(n - m + 1) : p[i] = q[m + i - 1]
  BY <1>1, <1>2, SubSeqProperties
<1>4. DOMAIN p = 1..Len(p)
  BY <1>3, LenProperties
<1>5. p = <<>> <=> n < m
  BY <1>1, <1>3, EmptySeq
<1> HIDE DEF p
<1>6. \A u : InQueue(p, u) <=> \E i \in m..n : q[i] = u
  <2> TAKE u
  <2>1. ASSUME NEW j \in DOMAIN p, p[j] = u PROVE \E i \in m..n : q[i] = u
    <3>1. m + j - 1 \in m..n /\ q[m + j - 1] = u
      BY <1>1, <1>3, <1>4, <2>1
    <3>2. QED BY <3>1
  <2>2. ASSUME NEW i \in m..n, q[i] = u PROVE InQueue(p, u)
    <3>1. i - m + 1 \in DOMAIN p /\ p[i - m + 1] = u
      BY <1>1, <1>3, <1>4, <2>2
    <3>2. QED BY <3>1 DEF InQueue
  <2>3. QED BY <2>1, <2>2 DEF InQueue
<1>7. Once(q) => Once(p)
  <2> SUFFICES ASSUME Once(q), NEW i \in DOMAIN p, NEW j \in DOMAIN p, p[i] = p[j]
               PROVE  i = j
    BY DEF Once
  <2>1. ASSUME NEW k \in DOMAIN p
        PROVE  k \in Nat /\ m + k - 1 \in DOMAIN q /\ q[m + k - 1] = p[k]
    <3>1. m \in Nat /\ n \in Nat /\ n <= Len(q) /\ 1 <= m
      BY <1>1
    <3>2. k \in 1..(n - m + 1) /\ k \in Nat /\ 1 <= k
      BY <1>3, <1>4, <3>1
    <3>3. QED BY <1>1, <1>3, <3>1, <3>2
  <2>2. m + i - 1 = m + j - 1
    BY <2>1 DEF Once
  <2>3. QED BY <2>1, <2>2
<1>8. QED BY <1>3, <1>5, <1>6, <1>7 DEF p

\* Joining two queues, as futex_queue_requeue() does, holds the threads of
\* both.
LEMMA ConcatQueue ==
  ASSUME NEW S, NEW p \in Seq(S), NEW q \in Seq(S)
  PROVE  /\ p \o q \in Seq(S)
         /\ \A u : InQueue(p \o q, u) <=> InQueue(p, u) \/ InQueue(q, u)
         /\ Once(p) /\ Once(q) /\ (\A u : ~(InQueue(p, u) /\ InQueue(q, u))) => Once(p \o q)
         /\ p \o q = <<>> <=> p = <<>> /\ q = <<>>
<1> DEFINE r == p \o q
<1>1. /\ r \in Seq(S) /\ Len(r) = Len(p) + Len(q)
      /\ \A i \in 1..(Len(p) + Len(q)) : r[i] = IF i <= Len(p) THEN p[i] ELSE q[i - Len(p)]
  BY ConcatProperties
<1>2. /\ Len(p) \in Nat /\ DOMAIN p = 1..Len(p)
      /\ Len(q) \in Nat /\ DOMAIN q = 1..Len(q)
      /\ DOMAIN r = 1..(Len(p) + Len(q))
  BY <1>1, LenProperties
<1>3. r = <<>> <=> p = <<>> /\ q = <<>>
  BY <1>1, <1>2, EmptySeq
<1> HIDE DEF r
<1>4. \A u : InQueue(r, u) <=> InQueue(p, u) \/ InQueue(q, u)
  <2> TAKE u
  <2>1. InQueue(r, u) => InQueue(p, u) \/ InQueue(q, u)
    BY <1>1, <1>2 DEF InQueue
  <2>2. InQueue(p, u) => InQueue(r, u)
    BY <1>1, <1>2 DEF InQueue
  <2>3. ASSUME NEW j \in DOMAIN q, q[j] = u PROVE InQueue(r, u)
    <3>1. Len(p) + j \in DOMAIN r /\ r[Len(p) + j] = u
      BY <1>1, <1>2, <2>3
    <3>2. QED BY <3>1 DEF InQueue
  <2>4. QED BY <2>1, <2>2, <2>3 DEF InQueue
<1>5. ASSUME Once(p), Once(q), \A u : ~(InQueue(p, u) /\ InQueue(q, u))
      PROVE  Once(r)
  <2> SUFFICES ASSUME NEW i \in DOMAIN r, NEW j \in DOMAIN r, r[i] = r[j]
               PROVE  i = j
    BY DEF Once
  <2>1. CASE i <= Len(p) /\ j <= Len(p)
    BY <1>1, <1>2, <1>5, <2>1 DEF Once
  <2>2. CASE i > Len(p) /\ j > Len(p)
    <3>1. i - Len(p) \in DOMAIN q /\ j - Len(p) \in DOMAIN q /\ q[i - Len(p)] = q[j - Len(p)]
      BY <1>1, <1>2, <2>2
    <3>2. i - Len(p) = j - Len(p)
      BY <1>5, <3>1 DEF Once
    <3>3. QED BY <1>2, <3>2
  <2>3. CASE i <= Len(p) /\ j > Len(p)
    <3>1. i \in DOMAIN p /\ p[i] = r[i] /\ j - Len(p) \in DOMAIN q /\ q[j - Len(p)] = r[j]
      BY <1>1, <1>2, <2>3
    <3>2. QED BY <1>5, <3>1 DEF InQueue
  <2>4. CASE i > Len(p) /\ j <= Len(p)
    <3>1. j \in DOMAIN p /\ p[j] = r[j] /\ i - Len(p) \in DOMAIN q /\ q[i - Len(p)] = r[i]
      BY <1>1, <1>2, <2>4
    <3>2. QED BY <1>5, <3>1 DEF InQueue
  <2>5. QED BY <1>2, <2>1, <2>2, <2>3, <2>4
<1>6. QED BY <1>1, <1>3, <1>4, <1>5 DEF r

\* A timeout that removes its entry takes exactly its own thread out.
LEMMA DequeueQueue ==
  ASSUME NEW S, NEW q \in Seq(S), NEW t, InQueue(q, t)
  PROVE  /\ Dequeue(q, t) \in Seq(S)
         /\ \A u : InQueue(Dequeue(q, t), u) => InQueue(q, u)
         /\ \A u : InQueue(q, u) => InQueue(Dequeue(q, t), u) \/ u = t
         /\ Once(q) => Once(Dequeue(q, t)) /\ ~InQueue(Dequeue(q, t), t)
<1> DEFINE i == CHOOSE j \in DOMAIN q : q[j] = t
           a == SubSeq(q, 1, i - 1)
           b == SubSeq(q, i + 1, Len(q))
<1>1. Len(q) \in Nat /\ DOMAIN q = 1..Len(q)
  BY LenProperties
<1>2. i \in DOMAIN q /\ q[i] = t
  BY DEF InQueue
<1>3. Dequeue(q, t) = a \o b
  BY DEF Dequeue
<1> HIDE DEF i
<1>4. i - 1 \in 0..Len(q) /\ i + 1 \in Nat \ {0} /\ Len(q) \in 0..Len(q) /\ i \in Nat
  BY <1>1, <1>2
<1>5. /\ a \in Seq(S) /\ (Once(q) => Once(a))
      /\ \A u : InQueue(a, u) <=> \E k \in 1..(i - 1) : q[k] = u
  BY <1>4, SubQueue
<1>6. /\ b \in Seq(S) /\ (Once(q) => Once(b))
      /\ \A u : InQueue(b, u) <=> \E k \in (i + 1)..Len(q) : q[k] = u
  BY <1>4, SubQueue
<1> HIDE DEF a, b
<1>7. /\ a \o b \in Seq(S)
      /\ \A u : InQueue(a \o b, u) <=> InQueue(a, u) \/ InQueue(b, u)
      /\ Once(a) /\ Once(b) /\ (\A u : ~(InQueue(a, u) /\ InQueue(b, u))) => Once(a \o b)
  BY <1>5, <1>6, ConcatQueue
<1>8. \A u : InQueue(a \o b, u) => InQueue(q, u)
  <2> SUFFICES ASSUME NEW u, InQueue(a \o b, u) PROVE InQueue(q, u)
    OBVIOUS
  <2>1. PICK k \in (1..(i - 1)) \cup ((i + 1)..Len(q)) : q[k] = u
    BY <1>5, <1>6, <1>7
  <2>2. k \in DOMAIN q
    BY <1>1, <1>2
  <2>3. QED BY <2>1, <2>2 DEF InQueue
<1>9. \A u : InQueue(q, u) => InQueue(a \o b, u) \/ u = t
  <2> SUFFICES ASSUME NEW u, NEW k \in DOMAIN q, q[k] = u PROVE InQueue(a \o b, u) \/ u = t
    BY DEF InQueue
  <2>1. k \in 1..(i - 1) \/ k \in (i + 1)..Len(q) \/ k = i
    BY <1>1, <1>2
  <2>2. QED BY <1>2, <1>5, <1>6, <1>7, <2>1
<1>10. ASSUME Once(q) PROVE Once(a \o b) /\ ~InQueue(a \o b, t)
  <2>1. ASSUME NEW k \in (1..(i - 1)) \cup ((i + 1)..Len(q)) PROVE k \in DOMAIN q /\ k # i
    BY <1>1, <1>2
  <2>2. ~InQueue(a \o b, t)
    BY <1>2, <1>5, <1>6, <1>7, <1>10, <2>1 DEF Once
  <2>3. ASSUME NEW u, InQueue(a, u), InQueue(b, u) PROVE FALSE
    <3>1. PICK k \in 1..(i - 1) : q[k] = u
      BY <1>5, <2>3
    <3>2. PICK m \in (i + 1)..Len(q) : q[m] = u
      BY <1>6, <2>3
    <3>3. k # m
      BY <1>4
    <3>4. QED BY <1>10, <2>1, <3>1, <3>2, <3>3 DEF Once
  <2>4. QED BY <1>5, <1>6, <1>7, <1>10, <2>2, <2>3
<1>11. QED BY <1>3, <1>7, <1>8, <1>9, <1>10

\* futex_queue_requeue() splits a queue into the threads it moves and the
\* threads that stay, and moves one if it can.
LEMMA RequeueQueue ==
  ASSUME NEW S, NEW q \in Seq(S), NEW n \in Nat
  PROVE  /\ Requeued(q, n) \in Seq(S)
         /\ Remaining(q, n) \in Seq(S)
         /\ \A u : InQueue(q, u) <=> InQueue(Requeued(q, n), u) \/ InQueue(Remaining(q, n), u)
         /\ Once(q) => /\ Once(Requeued(q, n)) /\ Once(Remaining(q, n))
                       /\ \A u : ~(InQueue(Requeued(q, n), u) /\ InQueue(Remaining(q, n), u))
         /\ Requeued(q, n) # <<>> <=> q # <<>> /\ n # 0
<1> DEFINE k == IF n < Len(q) THEN n ELSE Len(q)
           a == SubSeq(q, 1, k)
           b == SubSeq(q, n + 1, Len(q))
<1>1. Len(q) \in Nat /\ DOMAIN q = 1..Len(q)
  BY LenProperties
<1>2. k \in 0..Len(q) /\ 1 \in Nat \ {0} /\ n + 1 \in Nat \ {0} /\ Len(q) \in 0..Len(q)
  BY <1>1
<1>3. a = Requeued(q, n) /\ b = Remaining(q, n)
  BY DEF Requeued, Remaining
<1>4. DOMAIN q = (1..k) \cup ((n + 1)..Len(q)) /\ (1..k) \cap ((n + 1)..Len(q)) = {}
  BY <1>1
<1>5. q # <<>> /\ n # 0 <=> k # 0
  BY <1>1, EmptyLen
<1> HIDE DEF k
<1>6. /\ a \in Seq(S) /\ (Once(q) => Once(a)) /\ (a = <<>> <=> k < 1)
      /\ \A u : InQueue(a, u) <=> \E i \in 1..k : q[i] = u
  BY <1>2, SubQueue
<1>7. /\ b \in Seq(S) /\ (Once(q) => Once(b))
      /\ \A u : InQueue(b, u) <=> \E i \in (n + 1)..Len(q) : q[i] = u
  BY <1>2, SubQueue
<1> HIDE DEF a, b
<1>8. \A u : InQueue(q, u) <=> InQueue(a, u) \/ InQueue(b, u)
  <2> TAKE u
  <2>1. InQueue(q, u) <=> \E i \in (1..k) \cup ((n + 1)..Len(q)) : q[i] = u
    BY <1>4 DEF InQueue
  <2>2. QED BY <1>6, <1>7, <2>1
<1>9. ASSUME Once(q), NEW u, InQueue(a, u), InQueue(b, u) PROVE FALSE
  <2>1. PICK i \in 1..k : q[i] = u
    BY <1>6, <1>9
  <2>2. PICK j \in (n + 1)..Len(q) : q[j] = u
    BY <1>7, <1>9
  <2>3. QED BY <1>4, <1>9, <2>1, <2>2 DEF Once
<1>10. q # <<>> /\ n # 0 <=> a # <<>>
  BY <1>2, <1>5, <1>6
<1>11. QED BY <1>3, <1>6, <1>7, <1>8, <1>9, <1>10

(***************************************************************************)
(* Operations on one lock.  futex_lock_assert() holds of a lock at rest; a *)
(* failed attempt to lock it leaves it pinned: managed for a thread that   *)
(* is about to queue, or that futex_lock_unmanage() undoes.                *)
(***************************************************************************)
Queued(L) == L.writers # <<>> \/ L.readers # <<>>
Managed(L) == (L.km <=> Queued(L)) /\ (L.owner # LOCK_UNMANAGED <=> Queued(L))
Pinned(L) == L.km /\ L.owner # LOCK_UNMANAGED
LockOK(L) == L \in LockState /\ Managed(L) /\ Once(L.writers) /\ Once(L.readers)
SameQueues(L, M) ==
  M.writers = L.writers /\ M.readers = L.readers /\ M.waitcount = L.waitcount

\* Setting the kernel-managed bit leaves the queues alone.
LEMMA ManageType ==
  ASSUME NEW L \in LockState
  PROVE  Manage(L) \in LockState /\ Pinned(Manage(L)) /\ SameQueues(L, Manage(L))
<1>1. futex_lock_set_owner(L.n) \in Nat /\ futex_lock_set_owner(L.n) # LOCK_UNMANAGED
  BY DEF LockState, futex_lock_set_owner, LOCK_UNMANAGED, LOCK_OWNER_UNKNOWN
<1>2. QED BY Zenon, <1>1 DEF Manage, LockState, Pinned, SameQueues

\* futex_lock_unmanage() re-establishes futex_lock_assert() after a queue has
\* changed.
LEMMA UnmanageOK ==
  ASSUME NEW L \in LockState, Once(L.writers), Once(L.readers), Managed(L) \/ Pinned(L)
  PROVE  LockOK(futex_lock_unmanage(L)) /\ SameQueues(L, futex_lock_unmanage(L))
<1>1. CASE L.readers = <<>> /\ L.writers = <<>>
  <2> DEFINE M == [L EXCEPT !.owner = LOCK_UNMANAGED, !.km = FALSE]
  <2>1. futex_lock_unmanage(L) = M
    BY <1>1 DEF futex_lock_unmanage
  <2>2. M \in LockState
    BY Zenon DEF LockState, LOCK_UNMANAGED
  <2>3. SameQueues(L, M) /\ ~M.km /\ M.owner = LOCK_UNMANAGED
    BY DEF LockState, SameQueues
  <2> HIDE DEF M
  <2>4. QED BY <1>1, <2>1, <2>2, <2>3 DEF LockOK, Managed, Queued, SameQueues
<1>2. CASE ~(L.readers = <<>> /\ L.writers = <<>>)
  <2>1. futex_lock_unmanage(L) = L
    BY <1>2 DEF futex_lock_unmanage
  <2>2. QED BY <1>2, <2>1 DEF LockOK, Managed, Pinned, Queued, SameQueues
<1>3. QED BY <1>1, <1>2

\* futex_lock_tryrdlock() succeeds, or leaves the lock managed; in a
\* consistent state it never reports EINVAL.
LEMMA TryrdlockOK ==
  ASSUME NEW L, LockOK(L)
  PROVE  LET try == futex_lock_tryrdlock(L)
         IN  /\ try.error \in {"0", "EBUSY"}
             /\ try.lock \in LockState /\ SameQueues(L, try.lock)
             /\ try.error = "0" => Managed(try.lock)
             /\ try.error = "EBUSY" => Pinned(try.lock)
<1>1. L \in LockState /\ Managed(L)
  BY DEF LockOK
<1>2. CASE L.owner # LOCK_UNMANAGED
  <2>1. futex_lock_tryrdlock(L) = Result("EBUSY", L)
    BY <1>2 DEF futex_lock_tryrdlock, InUserspace
  <2>2. QED BY <1>1, <1>2, <2>1 DEF Result, SameQueues, Managed, Pinned
<1>3. CASE InUserspace(L) /\ ~L.wr
  <2>1. futex_lock_tryrdlock(L) = Result("0", [L EXCEPT !.n = L.n + 1])
    BY <1>3 DEF futex_lock_tryrdlock, InUserspace
  <2>2. QED BY SMTT(30), <1>1, <2>1 DEF Result, SameQueues, Managed, Queued, LockState
<1>4. CASE InUserspace(L) /\ L.wr
  <2>1. futex_lock_tryrdlock(L) = Result("EBUSY", Manage(L))
    BY <1>4 DEF futex_lock_tryrdlock, InUserspace
  <2>2. QED BY <1>1, <2>1, ManageType DEF Result
<1>5. QED BY <1>1, <1>2, <1>3, <1>4 DEF InUserspace, Managed

\* futex_lock_trywrlock() succeeds, reports a deadlock, or leaves the lock
\* managed; in a consistent state it never reports EINVAL.
LEMMA TrywrlockOK ==
  ASSUME NEW L, LockOK(L), NEW tid \in Threads, NEW force \in BOOLEAN
  PROVE  LET try == futex_lock_trywrlock(L, tid, force)
         IN  /\ try.error \in {"0", "EBUSY", "EDEADLK"}
             /\ try.lock \in LockState /\ SameQueues(L, try.lock)
             /\ try.error = "0" => IF force THEN Pinned(try.lock) ELSE Managed(try.lock)
             /\ try.error = "EBUSY" => Pinned(try.lock)
             /\ try.error = "EDEADLK" => try.lock = L
             /\ try.error = "0" => ~Queued(L)
<1>1. L \in LockState /\ Managed(L) /\ tid \in Nat \ {LOCK_UNMANAGED}
  BY ThreadsAssumption DEF LockOK
<1>2. CASE L.owner = tid
  <2>1. futex_lock_trywrlock(L, tid, force) = Result("EDEADLK", L)
    BY <1>1, <1>2 DEF futex_lock_trywrlock, InUserspace
  <2>2. QED BY <1>1, <2>1 DEF Result, SameQueues
<1>3. CASE L.owner \notin {tid, LOCK_UNMANAGED}
  <2>1. futex_lock_trywrlock(L, tid, force) = Result("EBUSY", L)
    BY <1>1, <1>3 DEF futex_lock_trywrlock, InUserspace
  <2>2. QED BY <1>1, <1>3, <2>1 DEF Result, SameQueues, Managed, Pinned
<1>4. CASE InUserspace(L) /\ L.wr /\ L.n = tid
  <2>1. futex_lock_trywrlock(L, tid, force) = Result("EDEADLK", L)
    BY <1>1, <1>4 DEF futex_lock_trywrlock, InUserspace
  <2>2. QED BY <1>1, <2>1 DEF Result, SameQueues
<1>5. CASE InUserspace(L) /\ ~L.wr /\ L.n = 0
  <2>1. futex_lock_trywrlock(L, tid, force) = Result("0", WriteLocked(L, tid, force))
    BY <1>1, <1>5 DEF futex_lock_trywrlock, InUserspace
  <2>2. WriteLocked(L, tid, force) \in LockState /\ SameQueues(L, WriteLocked(L, tid, force))
    BY Zenon, <1>1 DEF WriteLocked, LockState, SameQueues
  <2>3. IF force THEN Pinned(WriteLocked(L, tid, force)) ELSE Managed(WriteLocked(L, tid, force))
    BY <1>1, <1>5 DEF WriteLocked, LockState, Pinned, Managed, Queued, InUserspace
  <2>4. QED BY <1>1, <1>5, <2>1, <2>2, <2>3 DEF Result, InUserspace, Managed
<1>6. CASE InUserspace(L) /\ L.n # IF L.wr THEN tid ELSE 0
  <2>1. futex_lock_trywrlock(L, tid, force) = Result("EBUSY", Manage(L))
    BY SMTT(30), <1>1, <1>6 DEF futex_lock_trywrlock, InUserspace
  <2>2. QED BY <1>1, <2>1, ManageType DEF Result
<1>7. QED BY <1>1, <1>2, <1>3, <1>4, <1>5, <1>6 DEF InUserspace, Managed

\* futex_lock_wake_up_next() leaves the lock managed exactly if somebody
\* remains queued, and wakes up only threads that were queued.
LEMMA WakeUpNextOK ==
  ASSUME NEW L \in LockState, Once(L.writers), Once(L.readers)
  PROVE  LET M == futex_lock_wake_up_next(L)
         IN  /\ LockOK(M) /\ M.waitcount = L.waitcount
             /\ \A u : InQueue(M.writers, u) => InQueue(L.writers, u)
             /\ \A u : InQueue(M.readers, u) => InQueue(L.readers, u)
<1>1. CASE L.writers # <<>>
  <2> DEFINE W == Tail(L.writers)
             tid == Head(L.writers)
             managed == Len(L.writers) > 1 \/ L.readers # <<>>
             M == [L EXCEPT !.km = managed, !.wr = TRUE, !.n = tid,
                            !.owner = IF managed THEN tid ELSE LOCK_UNMANAGED, !.writers = W]
  <2>1. L.writers \in Seq(Threads)
    BY DEF LockState
  <2>2. /\ W \in Seq(Threads) /\ Once(W) /\ (Len(L.writers) > 1 <=> W # <<>>)
        /\ \A u : InQueue(L.writers, u) <=> InQueue(W, u) \/ u = tid
    BY <1>1, <2>1, TailQueue
  <2>3. tid \in Nat /\ tid # LOCK_UNMANAGED
    BY Zenon, <1>1, <2>1, EmptyQueue, ThreadsAssumption
  <2>4. futex_lock_wake_up_next(L) = M
    BY <1>1 DEF futex_lock_wake_up_next
  <2>5. managed \in BOOLEAN /\ (managed <=> W # <<>> \/ L.readers # <<>>)
    BY <2>2
  <2> HIDE DEF managed, W, tid
  <2>6. M \in LockState
    BY Zenon, <2>2, <2>3, <2>5 DEF LockState, LOCK_UNMANAGED
  <2>7. M.writers = W /\ M.readers = L.readers /\ M.waitcount = L.waitcount /\ M.km = managed
        /\ (M.owner # LOCK_UNMANAGED <=> managed)
    BY <2>3, <2>5 DEF LockState
  <2> HIDE DEF M
  <2>8. QED BY <2>2, <2>4, <2>5, <2>6, <2>7 DEF LockOK, Managed, Queued
<1>2. CASE L.writers = <<>>
  <2> DEFINE M == [L EXCEPT !.km = FALSE, !.wr = FALSE, !.n = Len(L.readers),
                            !.owner = LOCK_UNMANAGED, !.readers = <<>>]
  <2>1. Len(L.readers) \in Nat /\ <<>> \in Seq(Threads)
    BY LenProperties, EmptySeq DEF LockState
  <2>2. Once(<<>>) /\ \A u : ~InQueue(<<>>, u)
    BY <2>1, EmptyQueue, Zenon
  <2>3. futex_lock_wake_up_next(L) = M
    BY <1>2 DEF futex_lock_wake_up_next
  <2>4. M \in LockState
    BY Zenon, <2>1 DEF LockState, LOCK_UNMANAGED
  <2>5. M.writers = L.writers /\ M.readers = <<>> /\ M.waitcount = L.waitcount /\ ~M.km
        /\ M.owner = LOCK_UNMANAGED
    BY SMTT(30) DEF LockState
  <2> HIDE DEF M
  <2>6. QED BY <1>2, <2>2, <2>3, <2>4, <2>5 DEF LockOK, Managed, Queued
<1>3. QED BY <1>1, <1>2

\* futex_lock_unlock() keeps the lock consistent, whoever calls it.
LEMMA UnlockOK ==
  ASSUME NEW L, LockOK(L), NEW tid \in Threads
  PROVE  LET res == futex_lock_unlock(L, tid)
         IN  /\ res.error \in {"0", "EPERM"}
             /\ LockOK(res.lock) /\ res.lock.waitcount = L.waitcount
             /\ \A u : InQueue(res.lock.writers, u) => InQueue(L.writers, u)
             /\ \A u : InQueue(res.lock.readers, u) => InQueue(L.readers, u)
<1> DEFINE M == futex_lock_update_owner(L)
<1>1. futex_lock_set_owner(L.n) \in Nat /\ futex_lock_set_owner(L.n) # LOCK_UNMANAGED
  BY DEF LockOK, LockState, futex_lock_set_owner, LOCK_UNMANAGED, LOCK_OWNER_UNKNOWN
<1>2. M = L \/ (L.owner # LOCK_UNMANAGED /\ M = [L EXCEPT !.owner = futex_lock_set_owner(L.n)])
  BY DEF futex_lock_update_owner, LOCK_UNMANAGED, LOCK_OWNER_UNKNOWN
<1>3. M \in LockState
  BY <1>1, <1>2 DEF LockOK, LockState
<1>4. SameQueues(L, M)
  BY <1>2 DEF LockOK, LockState, SameQueues
<1>5. Managed(M)
  BY <1>1, <1>2, <1>4 DEF LockOK, LockState, Managed, Queued, SameQueues
<1> HIDE DEF M
<1>6. LockOK(M)
  BY <1>3, <1>4, <1>5 DEF LockOK, SameQueues
<1>7. \/ futex_lock_unlock(L, tid) = Result("EPERM", M)
      \/ futex_lock_unlock(L, tid) = Result("0", futex_lock_wake_up_next(M))
  BY DEF futex_lock_unlock, M
<1>8. CASE futex_lock_unlock(L, tid) = Result("EPERM", M)
  BY SMTT(30), <1>4, <1>6, <1>8 DEF Result, SameQueues
<1>9. CASE futex_lock_unlock(L, tid) = Result("0", futex_lock_wake_up_next(M))
  <2> DEFINE N == futex_lock_wake_up_next(M)
  <2>1. /\ LockOK(N) /\ N.waitcount = M.waitcount
        /\ \A u : InQueue(N.writers, u) => InQueue(M.writers, u)
        /\ \A u : InQueue(N.readers, u) => InQueue(M.readers, u)
    BY <1>6, WakeUpNextOK DEF LockOK
  <2> HIDE DEF N
  <2>2. QED BY SMTT(30), <1>4, <1>9, <2>1 DEF Result, SameQueues, N
<1>10. QED BY <1>7, <1>8, <1>9

\* The wait count does not matter to futex_lock_assert().
LEMMA CountOK ==
  ASSUME NEW L, LockOK(L), NEW k \in Nat
  PROVE  LET M == [L EXCEPT !.waitcount = k]
         IN  /\ LockOK(M) /\ M.waitcount = k
             /\ M.writers = L.writers /\ M.readers = L.readers
             /\ M.km = L.km /\ M.wr = L.wr /\ M.n = L.n /\ M.owner = L.owner
<1> DEFINE M == [L EXCEPT !.waitcount = k]
<1>1. M \in LockState
  BY DEF LockOK, LockState
<1>2. /\ M.waitcount = k /\ M.writers = L.writers /\ M.readers = L.readers
      /\ M.km = L.km /\ M.wr = L.wr /\ M.n = L.n /\ M.owner = L.owner
  BY DEF LockOK, LockState
<1> HIDE DEF M
<1>3. LockOK(M)
  BY <1>1, <1>2 DEF LockOK, Managed, Queued
<1>4. QED BY <1>2, <1>3 DEF M

\* A reader that goes to sleep on a managed lock leaves it consistent.
LEMMA SleepOnReadersOK ==
  ASSUME NEW L \in LockState, Pinned(L), Once(L.writers), Once(L.readers),
         NEW t \in Threads, ~InQueue(L.readers, t)
  PROVE  LET M == SleepOnReaders(L, t)
         IN  /\ LockOK(M) /\ M.waitcount = L.waitcount + 1 /\ M.writers = L.writers
             /\ \A u : InQueue(M.readers, u) => InQueue(L.readers, u) \/ u = t
<1> DEFINE q == Append(L.readers, t)
           k == L.waitcount + 1
           M == [L EXCEPT !.readers = q, !.waitcount = k]
<1>1. /\ q \in Seq(Threads) /\ q # <<>> /\ Once(q)
      /\ \A u : InQueue(q, u) <=> InQueue(L.readers, u) \/ u = t
  BY AppendQueue DEF LockState
<1>2. SleepOnReaders(L, t) = M
  BY DEF SleepOnReaders
<1>3. k \in Nat
  BY DEF LockState
<1> HIDE DEF q, k
<1>4. M \in LockState
  BY Zenon, <1>1, <1>3 DEF LockState
<1>5. /\ M.readers = q /\ M.writers = L.writers /\ M.waitcount = k
      /\ M.km = L.km /\ M.owner = L.owner
  BY DEF LockState
<1> HIDE DEF M
<1>6. QED BY <1>1, <1>2, <1>4, <1>5 DEF LockOK, Managed, Queued, Pinned, k

\* The entries of a queue are threads.
LEMMA MemberType ==
  ASSUME NEW S, NEW q \in Seq(S), NEW u, InQueue(q, u)
  PROVE  u \in S
BY LenProperties, ElementOfSeq DEF InQueue

\* Moving waiters of a condition variable to the writers of its lock, as
\* futex_op_condvar_signal() does, leaves the lock consistent.
LEMMA RequeueOK ==
  ASSUME NEW L \in LockState, Once(L.writers), Once(L.readers), NEW q \in Seq(Threads), Once(q),
         \A u \in Threads : ~(InQueue(L.writers, u) /\ InQueue(q, u)),
         IF q = <<>> THEN Managed(L) ELSE Pinned(L)
  PROVE  LET M == [L EXCEPT !.writers = L.writers \o q]
         IN  /\ LockOK(M) /\ M.waitcount = L.waitcount /\ M.readers = L.readers
             /\ \A u : InQueue(M.writers, u) <=> InQueue(L.writers, u) \/ InQueue(q, u)
<1> DEFINE w == L.writers \o q
           M == [L EXCEPT !.writers = w]
<1>1. L.writers \in Seq(Threads)
  BY DEF LockState
<1>2. \A u : ~(InQueue(L.writers, u) /\ InQueue(q, u))
  BY MemberType
<1>3. /\ w \in Seq(Threads) /\ Once(w) /\ (w = <<>> <=> L.writers = <<>> /\ q = <<>>)
      /\ \A u : InQueue(w, u) <=> InQueue(L.writers, u) \/ InQueue(q, u)
  BY <1>1, <1>2, ConcatQueue
<1> HIDE DEF w
<1>4. M \in LockState
  BY Zenon, <1>3 DEF LockState
<1>5. /\ M.readers = L.readers /\ M.writers = w /\ M.waitcount = L.waitcount
      /\ M.km = L.km /\ M.owner = L.owner
  BY DEF LockState
<1> HIDE DEF M
<1>6. LockOK(M)
  BY SMTT(30), <1>3, <1>4, <1>5 DEF LockOK, Managed, Queued, Pinned
<1>7. QED BY <1>3, <1>5, <1>6 DEF M, w

\* A writer that goes to sleep on a managed lock leaves it consistent.
LEMMA SleepOnWritersOK ==
  ASSUME NEW L \in LockState, Pinned(L), Once(L.writers), Once(L.readers),
         NEW t \in Threads, ~InQueue(L.writers, t)
  PROVE  LET M == SleepOnWriters(L, t)
         IN  /\ LockOK(M) /\ M.waitcount = L.waitcount + 1 /\ M.readers = L.readers
             /\ \A u : InQueue(M.writers, u) => InQueue(L.writers, u) \/ u = t
<1> DEFINE q == Append(L.writers, t)
           k == L.waitcount + 1
           M == [L EXCEPT !.writers = q, !.waitcount = k]
<1>1. /\ q \in Seq(Threads) /\ q # <<>> /\ Once(q)
      /\ \A u : InQueue(q, u) <=> InQueue(L.writers, u) \/ u = t
  BY AppendQueue DEF LockState
<1>2. SleepOnWriters(L, t) = M
  BY DEF SleepOnWriters
<1>3. k \in Nat
  BY DEF LockState
<1> HIDE DEF q, k
<1>4. M \in LockState
  BY Zenon, <1>1, <1>3 DEF LockState
<1>5. /\ M.writers = q /\ M.readers = L.readers /\ M.waitcount = k
      /\ M.km = L.km /\ M.owner = L.owner
  BY DEF LockState
<1> HIDE DEF M
<1>6. QED BY <1>1, <1>2, <1>4, <1>5 DEF LockOK, Managed, Queued, Pinned, k

CondvarOK(C) == C \in CondvarState /\ Once(C.waiters) /\ (C.word <=> C.waiters # <<>>)

\* futex_condvar_unmanage() makes the word of a condition variable agree with
\* its queue.
LEMMA CondvarUnmanageOK ==
  ASSUME NEW C \in CondvarState, Once(C.waiters), C.waiters # <<>> => C.word
  PROVE  LET D == futex_condvar_unmanage(C)
         IN  /\ CondvarOK(D) /\ D.waiters = C.waiters
             /\ D.lock = C.lock /\ D.waitcount = C.waitcount
<1>1. CASE C.waiters = <<>>
  <2> DEFINE D == [C EXCEPT !.word = FALSE]
  <2>1. futex_condvar_unmanage(C) = D
    BY <1>1 DEF futex_condvar_unmanage
  <2>2. D \in CondvarState
    BY Zenon DEF CondvarState
  <2>3. ~D.word /\ D.waiters = C.waiters /\ D.lock = C.lock /\ D.waitcount = C.waitcount
    BY DEF CondvarState
  <2> HIDE DEF D
  <2>4. QED BY <1>1, <2>1, <2>2, <2>3 DEF CondvarOK
<1>2. CASE C.waiters # <<>>
  BY <1>2 DEF futex_condvar_unmanage, CondvarOK
<1>3. QED BY <1>1, <1>2

\* If two sets of threads differ at most in thread t, so do their sizes: this
\* is how one thread's step changes the wait counts of futex_queue_sleep().
LEMMA CountStep ==
  ASSUME NEW S, NEW T, S \subseteq Threads, T \subseteq Threads, NEW t \in Threads,
         \A u \in Threads \ {t} : u \in S <=> u \in T
  PROVE  /\ Cardinality(S) \in Nat /\ Cardinality(T) \in Nat
         /\ Cardinality(S) = 0 <=> S = {}
         /\ t \in S => Cardinality(S) # 0
         /\ Cardinality(T) = Cardinality(S) - (IF t \in S THEN 1 ELSE 0)
                                            + (IF t \in T THEN 1 ELSE 0)
<1> DEFINE R == S \ {t}
<1>1. IsFiniteSet(S) /\ IsFiniteSet(T) /\ IsFiniteSet(R)
  BY Zenon, FS_Subset, ThreadsAssumption
<1>2. Cardinality(S) \in Nat /\ Cardinality(T) \in Nat /\ Cardinality(R) \in Nat
  BY <1>1, FS_CardinalityType
<1>3. Cardinality(S) = 0 <=> S = {}
  BY <1>1, FS_EmptySet
<1>4. S = IF t \in S THEN R \cup {t} ELSE R
  OBVIOUS
<1>5. T = IF t \in T THEN R \cup {t} ELSE R
  OBVIOUS
<1>6. t \notin R
  OBVIOUS
<1> HIDE DEF R
<1>7. Cardinality(R \cup {t}) = Cardinality(R) + 1
  BY Zenon, <1>1, <1>6, FS_AddElement
<1>8. Cardinality(S) = IF t \in S THEN Cardinality(R) + 1 ELSE Cardinality(R)
  BY <1>4, <1>7
<1>9. Cardinality(T) = IF t \in T THEN Cardinality(R) + 1 ELSE Cardinality(R)
  BY <1>5, <1>7
<1>10. QED BY <1>2, <1>3, <1>8, <1>9

(***************************************************************************)
(* The inductive invariant: what futex.c relies on in every critical       *)
(* section, per lock, per condition variable and per thread.               *)
(***************************************************************************)
WriteSleep == {"wrwait", "cvwait", "relock"}

LockInv(l) ==
  /\ LockOK(lock[l])
  /\ \A u \in Threads :
       /\ InQueue(lock[l].writers, u) => pc[u] \in WriteSleep /\ at[u] = l
       /\ InQueue(lock[l].readers, u) => pc[u] = "rdwait" /\ at[u] = l
  /\ lock[l].waitcount = Cardinality(SleepersOn(l))
  /\ l \in futex_lock_list <=> SleepersOn(l) # {}

CondvarInv(c) ==
  /\ CondvarOK(condvar[c])
  /\ \A u \in Threads : InQueue(condvar[c].waiters, u) => pc[u] = "cvwait" /\ cv[u] = c
  /\ condvar[c].waitcount = Cardinality(WaitersOf(c))
  /\ c \in futex_condvar_list <=> WaitersOf(c) # {}
  /\ \A u \in WaitersOf(c) : at[u] = condvar[c].lock

ThreadInv(t) ==
  /\ pc[t] # "idle" => at[t] \in Locks
  /\ cv[t] # NoCondvar <=> pc[t] \in {"cvwait", "relock"}
  /\ sig[t] # NoCondvar => pc[t] \in {"idle", "wrheld"}

OneQueue ==
  \A l \in Locks, c \in Condvars, u \in Threads :
    ~(InQueue(lock[l].writers, u) /\ InQueue(condvar[c].waiters, u))

LocksInv == \A l \in Locks : LockInv(l)
CondvarsInv == \A c \in Condvars : CondvarInv(c)
ThreadsInv == \A t \in Threads : ThreadInv(t)
IInv == TypeOK /\ LocksInv /\ CondvarsInv /\ ThreadsInv /\ OneQueue

\* Only thread t moves.
OnlyMoves(t) ==
  /\ pc' \in [Threads -> PCs] /\ at' \in [Threads -> Locks \cup {NoLock}]
  /\ \A u \in Threads \ {t} : pc'[u] = pc[u] /\ at'[u] = at[u]

One(b) == IF b THEN 1 ELSE 0

\* One critical section changes one lock: if its new object is consistent and
\* counts the thread that moved, all locks keep their invariant.
LEMMA LockStep ==
  ASSUME IInv, NEW t \in Threads, NEW l \in Locks, NEW M, LockOK(M),
         OnlyMoves(t), futex_lock_release(l, M),
         pc[t] \in Sleeping => at[t] = l,
         pc'[t] \in Sleeping => at'[t] = l,
         \A u \in Threads : InQueue(M.writers, u) =>
           IF u = t THEN pc'[t] \in WriteSleep
           ELSE InQueue(lock[l].writers, u) \/ (pc[u] = "cvwait" /\ at[u] = l),
         \A u \in Threads : InQueue(M.readers, u) =>
           IF u = t THEN pc'[t] = "rdwait" ELSE InQueue(lock[l].readers, u),
         M.waitcount = lock[l].waitcount - One(pc[t] \in Sleeping) + One(pc'[t] \in Sleeping)
  PROVE  /\ lock' \in [Locks -> LockState] /\ futex_lock_list' \subseteq Locks
         /\ LocksInv'
<1>1. /\ lock \in [Locks -> LockState] /\ futex_lock_list \subseteq Locks /\ M \in LockState
      /\ pc \in [Threads -> PCs] /\ at \in [Threads -> Locks \cup {NoLock}]
  BY DEF IInv, TypeOK, LockOK
<1>2. /\ lock' \in [Locks -> LockState] /\ lock'[l] = M
      /\ \A m \in Locks \ {l} : lock'[m] = lock[m] /\ (m \in futex_lock_list' <=> m \in futex_lock_list)
      /\ l \in futex_lock_list' <=> M.waitcount # 0
      /\ futex_lock_list' \subseteq Locks
  BY <1>1 DEF futex_lock_release
<1>3. /\ \A u \in Threads \ {t} : pc'[u] = pc[u] /\ at'[u] = at[u]
      /\ pc' \in [Threads -> PCs] /\ at' \in [Threads -> Locks \cup {NoLock}]
  BY DEF OnlyMoves
<1>4. LockInv(l)
  BY DEF IInv, LocksInv
<1>5. LockInv(l)'
  <2>1. /\ SleepersOn(l) \subseteq Threads /\ SleepersOn(l)' \subseteq Threads
        /\ \A u \in Threads \ {t} : u \in SleepersOn(l) <=> u \in SleepersOn(l)'
        /\ t \in SleepersOn(l) <=> pc[t] \in Sleeping
        /\ t \in SleepersOn(l)' <=> pc'[t] \in Sleeping
    BY <1>3 DEF SleepersOn
  <2> DEFINE S == SleepersOn(l)
             T == SleepersOn(l)'
  <2> HIDE DEF S, T
  <2>2. /\ Cardinality(S) \in Nat /\ Cardinality(T) \in Nat
        /\ Cardinality(T) = Cardinality(S) - (IF t \in S THEN 1 ELSE 0)
                                           + (IF t \in T THEN 1 ELSE 0)
    BY <2>1, CountStep DEF S, T
  <2>3. Cardinality(T) = 0 <=> T = {}
    BY SMTT(30), <2>1, CountStep DEF S, T
  <2>4. M.waitcount = Cardinality(T)
    BY SMTT(30), <1>4, <2>1, <2>2 DEF LockInv, One, S, T
  <2>5. \A u \in Threads :
          /\ InQueue(M.writers, u) => pc'[u] \in WriteSleep /\ at'[u] = l
          /\ InQueue(M.readers, u) => pc'[u] = "rdwait" /\ at'[u] = l
    BY SMTT(30), <1>3, <1>4 DEF LockInv, WriteSleep, Sleeping
  <2>6. QED BY SMTT(30), <1>2, <2>3, <2>4, <2>5 DEF LockInv, T
<1>6. ASSUME NEW m \in Locks \ {l} PROVE LockInv(m)'
  <2>1. LockInv(m)
    BY DEF IInv, LocksInv
  <2>2. SleepersOn(m)' = SleepersOn(m)
    BY SMTT(30), <1>3 DEF SleepersOn
  <2>3. \A u \in Threads :
          /\ InQueue(lock[m].writers, u) => pc'[u] \in WriteSleep /\ at'[u] = m
          /\ InQueue(lock[m].readers, u) => pc'[u] = "rdwait" /\ at'[u] = m
    BY <1>3, <2>1 DEF LockInv, WriteSleep, Sleeping
  <2>4. QED BY SMTT(30), <1>2, <2>1, <2>2, <2>3 DEF LockInv
<1>7. QED BY SMTT(30), <1>2, <1>5, <1>6 DEF LocksInv

\* Without a change of the wait count the object stays where it is.
LEMMA ListStable ==
  ASSUME IInv, NEW l \in Locks, NEW M, M.waitcount = lock[l].waitcount,
         lock' = [lock EXCEPT ![l] = M], UNCHANGED futex_lock_list
  PROVE  futex_lock_release(l, M)
<1>1. LockInv(l) /\ futex_lock_list \subseteq Locks
  BY DEF IInv, LocksInv, TypeOK
<1>2. Cardinality(SleepersOn(l)) = 0 <=> SleepersOn(l) = {}
  <2>1. IsFiniteSet(SleepersOn(l))
    BY FS_Subset, ThreadsAssumption DEF SleepersOn
  <2>2. QED BY <2>1, FS_EmptySet
<1>3. futex_lock_list = IF M.waitcount = 0 THEN futex_lock_list \ {l} ELSE futex_lock_list \cup {l}
  BY <1>1, <1>2 DEF LockInv
<1>4. QED BY <1>3 DEF futex_lock_release

\* futex_lock_lookup_locked() loses nothing: a lock without an object has
\* empty queues and no owner, like a new object.
LEMMA LookupLocked ==
  ASSUME IInv, NEW l \in Locks
  PROVE  futex_lock_lookup_locked(l) = lock[l]
<1>1. CASE l \in futex_lock_list
  BY <1>1 DEF futex_lock_lookup_locked
<1>2. CASE l \notin futex_lock_list
  <2>1. LockInv(l) /\ lock[l] \in LockState
    BY DEF IInv, LocksInv, LockInv, LockOK
  <2>2. SleepersOn(l) = {}
    BY <1>2, <2>1 DEF LockInv
  <2>3. lock[l].waitcount = 0
    BY <2>1, <2>2, FS_EmptySet DEF LockInv
  <2>4. \A u \in Threads : ~InQueue(lock[l].writers, u) /\ ~InQueue(lock[l].readers, u)
    BY <2>1, <2>2 DEF LockInv, SleepersOn, WriteSleep, Sleeping
  <2>5. lock[l].writers \in Seq(Threads) /\ lock[l].readers \in Seq(Threads)
    BY <2>1 DEF LockState
  <2>6. lock[l].writers = <<>> /\ lock[l].readers = <<>>
    BY <2>4, <2>5, EmptyQueue
  <2>7. lock[l].owner = LOCK_UNMANAGED
    BY <2>1, <2>6 DEF LockInv, LockOK, Managed, Queued
  <2> DEFINE L == lock[l]
  <2>8. L \in LockState /\ L.owner = LOCK_UNMANAGED /\ L.readers = <<>> /\ L.writers = <<>> /\ L.waitcount = 0
    BY <2>1, <2>3, <2>6, <2>7
  <2>9. futex_lock_lookup_locked(l) = [L EXCEPT !.owner = LOCK_UNMANAGED, !.readers = <<>>,
                                               !.writers = <<>>, !.waitcount = 0]
    BY <1>2 DEF futex_lock_lookup_locked
  <2> HIDE DEF L
  <2>10. [L EXCEPT !.owner = LOCK_UNMANAGED, !.readers = <<>>,
                   !.writers = <<>>, !.waitcount = 0] = L
    BY Zenon, <2>8 DEF LockState
  <2>11. QED BY <2>9, <2>10 DEF L
<1>3. QED BY <1>1, <1>2

\* One critical section changes one condition variable: if its new object is
\* consistent and counts the thread that moved, all keep their invariant.
LEMMA CondvarStep ==
  ASSUME IInv, NEW t \in Threads, NEW c \in Condvars, NEW D, CondvarOK(D),
         OnlyMoves(t), futex_condvar_release(c, D),
         \A u \in Threads \ {t} : cv'[u] = cv[u],
         cv[t] \in {NoCondvar, c}, cv'[t] \in {NoCondvar, c},
         D.waitcount = condvar[c].waitcount - One(cv[t] = c) + One(cv'[t] = c),
         \A u \in Threads : InQueue(D.waiters, u) =>
           IF u = t THEN pc'[t] = "cvwait" /\ cv'[t] = c ELSE InQueue(condvar[c].waiters, u),
         \A u \in Threads \ {t} : cv[u] = c => D.lock = condvar[c].lock,
         cv'[t] = c => at'[t] = D.lock
  PROVE  /\ condvar' \in [Condvars -> CondvarState] /\ futex_condvar_list' \subseteq Condvars
         /\ CondvarsInv'
<1>1. /\ condvar \in [Condvars -> CondvarState] /\ futex_condvar_list \subseteq Condvars
      /\ D \in CondvarState
  BY DEF IInv, TypeOK, CondvarOK
<1>2. /\ [D EXCEPT !.lock = NoLock] \in CondvarState
      /\ [D EXCEPT !.lock = NoLock].waiters = D.waiters
      /\ [D EXCEPT !.lock = NoLock].word = D.word
      /\ [D EXCEPT !.lock = NoLock].waitcount = D.waitcount
  BY <1>1 DEF CondvarState
<1> DEFINE E == IF D.waitcount = 0 THEN [D EXCEPT !.lock = NoLock] ELSE D
<1>3. /\ E \in CondvarState /\ E.waiters = D.waiters /\ (E.word <=> D.word)
      /\ E.waitcount = D.waitcount /\ (D.waitcount # 0 => E = D)
  BY <1>1, <1>2
<1>4. condvar' = [condvar EXCEPT ![c] = E]
  BY DEF futex_condvar_release
<1> HIDE DEF E
<1>5. /\ condvar' \in [Condvars -> CondvarState] /\ condvar'[c] = E
      /\ \A d \in Condvars \ {c} : condvar'[d] = condvar[d]
  BY <1>1, <1>3, <1>4
<1>6. /\ \A d \in Condvars \ {c} : d \in futex_condvar_list' <=> d \in futex_condvar_list
      /\ c \in futex_condvar_list' <=> D.waitcount # 0
      /\ futex_condvar_list' \subseteq Condvars
  BY <1>1 DEF futex_condvar_release
<1>7. \A u \in Threads \ {t} : pc'[u] = pc[u] /\ at'[u] = at[u]
  BY SMTT(30) DEF OnlyMoves
<1>8. CondvarInv(c)'
  <2>1. CondvarInv(c)
    BY DEF IInv, CondvarsInv
  <2>2. /\ WaitersOf(c) \subseteq Threads /\ WaitersOf(c)' \subseteq Threads
        /\ \A u \in Threads \ {t} : u \in WaitersOf(c) <=> u \in WaitersOf(c)'
        /\ t \in WaitersOf(c) <=> cv[t] = c
        /\ t \in WaitersOf(c)' <=> cv'[t] = c
    BY Zenon DEF WaitersOf
  <2> DEFINE S == WaitersOf(c)
             T == WaitersOf(c)'
  <2> HIDE DEF S, T
  <2>3. /\ Cardinality(S) \in Nat /\ Cardinality(T) \in Nat
        /\ Cardinality(T) = Cardinality(S) - (IF t \in S THEN 1 ELSE 0)
                                           + (IF t \in T THEN 1 ELSE 0)
    BY SMTT(30), <2>2, CountStep DEF S, T
  <2>4. Cardinality(T) = 0 <=> T = {}
    BY SMTT(30), <2>2, CountStep DEF S, T
  <2>5. D.waitcount = Cardinality(T)
    BY SMTT(30), <2>1, <2>2, <2>3 DEF CondvarInv, One, S, T
  <2>6. CondvarOK(E)
    BY SMTT(30), <1>3 DEF CondvarOK
  <2>7. \A u \in Threads : InQueue(E.waiters, u) => pc'[u] = "cvwait" /\ cv'[u] = c
    BY SMTT(30), <1>3, <1>7, <2>1 DEF CondvarInv
  <2>8. \A u \in T : at'[u] = E.lock
    BY <1>3, <1>7, <2>1, <2>2, <2>4, <2>5 DEF CondvarInv, WaitersOf, T
  <2>9. QED BY SMTT(30), <1>3, <1>5, <1>6, <2>4, <2>5, <2>6, <2>7, <2>8 DEF CondvarInv, T
<1>9. ASSUME NEW d \in Condvars \ {c} PROVE CondvarInv(d)'
  <2>1. CondvarInv(d)
    BY Zenon DEF IInv, CondvarsInv
  <2>2. d # NoCondvar
    BY AddressAssumption
  <2>3. WaitersOf(d)' = WaitersOf(d) /\ t \notin WaitersOf(d)
    BY SMTT(30), <2>2 DEF WaitersOf
  <2>4. \A u \in Threads : InQueue(condvar[d].waiters, u) => pc'[u] = "cvwait" /\ cv'[u] = d
    BY SMTT(30), <1>7, <2>1, <2>2 DEF CondvarInv
  <2>5. \A u \in WaitersOf(d) : at'[u] = condvar[d].lock
    BY SMTT(30), <1>7, <2>1, <2>3 DEF CondvarInv, WaitersOf
  <2>6. condvar'[d] = condvar[d] /\ (d \in futex_condvar_list' <=> d \in futex_condvar_list)
    BY Zenon, <1>5, <1>6
  <2>7. /\ CondvarOK(condvar[d]) /\ condvar[d].waitcount = Cardinality(WaitersOf(d))
        /\ d \in futex_condvar_list <=> WaitersOf(d) # {}
    BY Zenon, <2>1 DEF CondvarInv
  <2>8. QED BY Zenon, <2>3, <2>4, <2>5, <2>6, <2>7 DEF CondvarInv
<1>10. CondvarsInv'
  BY Zenon, <1>8, <1>9 DEF CondvarsInv
<1>11. QED BY Zenon, <1>5, <1>6, <1>10

\* A step of a thread that waits on no condition variable, and that changes
\* none, keeps their invariant.
LEMMA CondvarFrame ==
  ASSUME IInv, NEW t \in Threads, OnlyMoves(t), cv[t] = NoCondvar,
         UNCHANGED <<condvar, futex_condvar_list, cv>>
  PROVE  CondvarsInv'
<1> SUFFICES ASSUME NEW c \in Condvars PROVE CondvarInv(c)'
  BY DEF CondvarsInv
<1>1. CondvarInv(c) /\ c # NoCondvar
  BY AddressAssumption DEF IInv, CondvarsInv
<1>2. \A u \in Threads \ {t} : pc'[u] = pc[u] /\ at'[u] = at[u]
  BY DEF OnlyMoves
<1>3. WaitersOf(c)' = WaitersOf(c) /\ t \notin WaitersOf(c)
  BY SMTT(30), <1>1 DEF WaitersOf
<1>4. \A u \in Threads : InQueue(condvar[c].waiters, u) => pc'[u] = "cvwait" /\ cv[u] = c
  BY <1>1, <1>2 DEF CondvarInv
<1>5. \A u \in WaitersOf(c) : at'[u] = condvar[c].lock
  BY <1>1, <1>2, <1>3 DEF CondvarInv, WaitersOf
<1>6. QED BY <1>1, <1>3, <1>4, <1>5 DEF CondvarInv
=============================================================================
