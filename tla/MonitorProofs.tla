--------------------------- MODULE MonitorProofs ---------------------------
(***************************************************************************)
(* What programs may rely on if futex.c implements Monitor, for any        *)
(* number of threads, locks and condition variables.                       *)
(***************************************************************************)
EXTENDS Monitor, TLAPS

\* A lock that is held for writing is held by one thread and by no reader.
Exclusive ==
  \A l \in Locks : writer[l] # {} =>
    readers[l] = {} /\ \E t \in Threads : writer[l] = {t}

\* Nobody waits in line for a lock that is free: no wake-up is lost.
NoIdleLine ==
  \A l \in Locks : IsFree(l) => writing[l] = <<>> /\ reading[l] = <<>>

MTypeInv ==
  /\ writer \in [Locks -> SUBSET Threads] /\ readers \in [Locks -> SUBSET Threads]
  /\ writing \in [Locks -> Seq(Threads)] /\ reading \in [Locks -> Seq(Threads)]
  /\ waiting \in [Condvars -> Seq(Threads)]

MInv == MTypeInv /\ Exclusive /\ NoIdleLine

-----------------------------------------------------------------------------
\* A line without one of its threads is still a line of threads.
LEMMA WithoutType ==
  ASSUME NEW q \in Seq(Threads), NEW t, In(q, t) PROVE Without(q, t) \in Seq(Threads)
  <1> DEFINE place == CHOOSE i \in DOMAIN q : q[i] = t
  <1>1. place \in 1 .. Len(q)
    BY DEF In
  <1> HIDE DEF place
  <1>2. SubSeq(q, 1, place - 1) \in Seq(Threads) /\ SubSeq(q, place + 1, Len(q)) \in Seq(Threads)
    BY <1>1
  <1> QED
    BY <1>2 DEF Without, place

\* The threads of a line are threads, and some if the line is not empty.
LEMMA MembersType ==
  ASSUME NEW q \in Seq(Threads)
  PROVE  Members(q) \in SUBSET Threads /\ (Members(q) = {} => q = <<>>)
  <1>1. \A i \in DOMAIN q : q[i] \in Threads
    OBVIOUS
  <1>2. q # <<>> => 1 \in DOMAIN q
    OBVIOUS
  <1> QED
    BY <1>1, <1>2 DEF Members

\* A step that concerns lock l alone: w and r hold it, ww and rr wait for it.
Becomes(l, w, r, ww, rr) ==
  /\ writer'[l] = w /\ readers'[l] = r /\ writing'[l] = ww /\ reading'[l] = rr
  /\ \A m \in Locks \ {l} : /\ writer'[m] = writer[m] /\ readers'[m] = readers[m]
                            /\ writing'[m] = writing[m] /\ reading'[m] = reading[m]

\* Such a step keeps what is said of locks if it holds of l afterwards.
LEMMA OneLock ==
  ASSUME MInv, MTypeInv', NEW l \in Locks, NEW w, NEW r, NEW ww, NEW rr, Becomes(l, w, r, ww, rr),
         w # {} => r = {} /\ \E t \in Threads : w = {t},
         w = {} /\ r = {} => ww = <<>> /\ rr = <<>>
  PROVE  MInv'
  <1>1. ASSUME NEW m \in Locks
        PROVE  /\ writer'[m] # {} => readers'[m] = {} /\ \E t \in Threads : writer'[m] = {t}
               /\ writer'[m] = {} /\ readers'[m] = {} => writing'[m] = <<>> /\ reading'[m] = <<>>
    <2>1. CASE m = l
      BY <2>1 DEF Becomes
    <2>2. CASE m # l
      <3>1. /\ writer'[m] = writer[m] /\ readers'[m] = readers[m]
            /\ writing'[m] = writing[m] /\ reading'[m] = reading[m]
        BY <2>2 DEF Becomes
      <3>2. /\ writer[m] # {} => readers[m] = {} /\ \E t \in Threads : writer[m] = {t}
            /\ writer[m] = {} /\ readers[m] = {} => writing[m] = <<>> /\ reading[m] = <<>>
        BY DEF MInv, Exclusive, NoIdleLine, IsFree
      <3> QED
        BY <3>1, <3>2
    <2> QED
      BY <2>1, <2>2
  <1> QED
    BY <1>1 DEF MInv, Exclusive, NoIdleLine, IsFree

\* Taking, queueing and leaving a queue.
LEMMA TakeStep ==
  ASSUME MInv, NEW t \in Threads, NEW l \in Locks,
         \/ TakeWrite(t, l) \/ TakeRead(t, l) \/ QueueWrite(t, l)
         \/ QueueRead(t, l) \/ Abandon(t, l)
  PROVE  MInv'
  <1> DEFINE w == writer[l]
             r == readers[l]
             ww == writing[l]
             rr == reading[l]
  <1>0. /\ w \in SUBSET Threads /\ r \in SUBSET Threads /\ ww \in Seq(Threads) /\ rr \in Seq(Threads)
        /\ w # {} => r = {} /\ \E u \in Threads : w = {u}
        /\ w = {} /\ r = {} => ww = <<>> /\ rr = <<>>
    BY Zenon DEF MInv, MTypeInv, Exclusive, NoIdleLine, IsFree
  <1>1. CASE TakeWrite(t, l)
    <2>1. Becomes(l, {t}, {}, ww, rr)
      BY <1>1 DEF TakeWrite, IsFree, MInv, MTypeInv, Becomes
    <2>2. MTypeInv'
      BY <1>1 DEF TakeWrite, MInv, MTypeInv
    <2> QED
      BY <2>1, <2>2, OneLock
  <1>2. CASE TakeRead(t, l)
    <2>1. Becomes(l, {}, r \cup {t}, <<>>, <<>>)
      BY <1>2 DEF TakeRead, MInv, MTypeInv, Becomes
    <2>2. MTypeInv'
      BY <1>2 DEF TakeRead, MInv, MTypeInv
    <2> QED
      BY <2>1, <2>2, OneLock
  <1>3. CASE QueueWrite(t, l)
    <2>1. Append(ww, t) \in Seq(Threads)
      BY <1>0
    <2>2. ~(w = {} /\ r = {}) /\ Becomes(l, w, r, Append(ww, t), rr)
      BY <1>3 DEF QueueWrite, IsFree, MInv, MTypeInv, Becomes
    <2>3. MTypeInv'
      BY <1>3, <2>1 DEF QueueWrite, MInv, MTypeInv
    <2> HIDE DEF w, r, ww, rr
    <2> QED
      BY <1>0, <2>2, <2>3, OneLock
  <1>4. CASE QueueRead(t, l)
    <2>1. Append(rr, t) \in Seq(Threads)
      BY <1>0
    <2>2. ~(w = {} /\ r = {}) /\ Becomes(l, w, r, ww, Append(rr, t))
      BY <1>4 DEF QueueRead, IsFree, MInv, MTypeInv, Becomes
    <2>3. MTypeInv'
      BY <1>4, <2>1 DEF QueueRead, MInv, MTypeInv
    <2> HIDE DEF w, r, ww, rr
    <2> QED
      BY <1>0, <2>2, <2>3, OneLock
  <1>5. CASE Abandon(t, l)
    <2>1. ~(w = {} /\ r = {})
      BY <1>0, <1>5 DEF Abandon, In
    <2>2. /\ In(ww, t) => Without(ww, t) \in Seq(Threads)
          /\ In(rr, t) => Without(rr, t) \in Seq(Threads)
      BY <1>0, WithoutType
    <2>3. MTypeInv'
      BY Zenon, <1>5, <2>2 DEF Abandon, MInv, MTypeInv
    <2>4. \E p, q : Becomes(l, w, r, p, q)
      BY <1>5 DEF Abandon, MInv, MTypeInv, Becomes
    <2> HIDE DEF w, r, ww, rr
    <2> QED
      BY <1>0, <2>1, <2>3, <2>4, OneLock
  <1> QED
    BY <1>1, <1>2, <1>3, <1>4, <1>5

\* Handing over a lock keeps what is said of locks.
LEMMA HandOverStep ==
  ASSUME MInv, NEW t \in Threads, NEW l \in Locks, writer[l] = {t}, HandOver(l),
         waiting' \in [Condvars -> Seq(Threads)]
  PROVE  MInv'
  <1>1. readers[l] = {}
    BY DEF MInv, Exclusive
  <1>2. CASE writing[l] # <<>>
    <2>1. Head(writing[l]) \in Threads /\ Tail(writing[l]) \in Seq(Threads)
      BY <1>2 DEF MInv, MTypeInv
    <2>2. /\ writer' = [writer EXCEPT ![l] = {Head(writing[l])}]
          /\ writing' = [writing EXCEPT ![l] = Tail(writing[l])]
          /\ UNCHANGED <<readers, reading>>
      BY <1>2 DEF HandOver
    <2>3. {Head(writing[l])} \in SUBSET Threads
      BY <2>1
    <2>4. MTypeInv'
      BY <2>1, <2>2, <2>3 DEF MInv, MTypeInv
    <2>5. Becomes(l, {Head(writing[l])}, {}, Tail(writing[l]), reading[l])
      BY <1>1, <2>2 DEF MInv, MTypeInv, Becomes
    <2> QED
      BY Zenon, <2>1, <2>4, <2>5, OneLock
  <1>3. CASE writing[l] = <<>>
    <2>1. Members(reading[l]) \in SUBSET Threads
      BY MembersType DEF MInv, MTypeInv
    <2>2. <<>> \in Seq(Threads)
      OBVIOUS
    <2>3. /\ writer' = [writer EXCEPT ![l] = {}] /\ reading' = [reading EXCEPT ![l] = <<>>]
          /\ readers' = [readers EXCEPT ![l] = Members(reading[l])] /\ writing' = writing
      BY <1>3 DEF HandOver
    <2>4. MTypeInv'
      BY <2>1, <2>2, <2>3 DEF MInv, MTypeInv
    <2>5. Becomes(l, {}, Members(reading[l]), <<>>, <<>>)
      BY <1>3, <2>3 DEF MInv, MTypeInv, Becomes
    <2> QED
      BY <2>4, <2>5, OneLock
  <1> QED
    BY <1>2, <1>3

\* Leaving a lock.
LEMMA LeaveStep ==
  ASSUME MInv, NEW t \in Threads, NEW l \in Locks,
         \/ Unlock(t, l) \/ Unread(t, l) \/ Yield(t, l) \/ YieldToReaders(t, l)
         \/ \E c \in Condvars : Wait(t, l, c)
  PROVE  MInv'
  <1>1. CASE Unlock(t, l)
    <2>1. waiting' \in [Condvars -> Seq(Threads)] /\ writer[l] = {t} /\ HandOver(l)
      BY <1>1 DEF Unlock, MInv, MTypeInv
    <2> QED
      BY <2>1, HandOverStep
  <1>2. CASE Unread(t, l)
    <2>1. writer[l] = {}
      BY <1>2 DEF MInv, Exclusive, Unread
    <2>2. writing[l] \o reading[l] = <<>> => writing[l] = <<>> /\ reading[l] = <<>>
      BY DEF MInv, MTypeInv
    <2>3. readers[l] \ {t} \in SUBSET Threads /\ {t} \in SUBSET Threads
      BY DEF MInv, MTypeInv
    <2>4. readers[l] # {t} => readers[l] \ {t} # {}
      BY <1>2 DEF Unread
    <2>5. MTypeInv'
      BY Zenon, <1>2, <2>3 DEF MInv, MTypeInv, Unread
    <2>6. CASE readers[l] = {t} /\ writer' = [writer EXCEPT ![l] = {t}]
      <3>1. Becomes(l, {t}, {}, writing[l], reading[l])
        BY <1>2, <2>6 DEF MInv, MTypeInv, Unread, Becomes
      <3> QED
        BY <2>5, <3>1, OneLock
    <2>7. CASE (readers[l] = {t} => writing[l] \o reading[l] = <<>>) /\ UNCHANGED writer
      <3>1. Becomes(l, {}, readers[l] \ {t}, writing[l], reading[l])
        BY <1>2, <2>1, <2>7 DEF MInv, MTypeInv, Unread, Becomes
      <3> QED
        BY <2>2, <2>4, <2>5, <2>7, <3>1, OneLock
    <2> QED
      BY <1>2, <2>6, <2>7 DEF Unread
  <1>3. CASE Yield(t, l)
    <2>1. Head(writing[l]) \in Threads /\ Append(Tail(writing[l]), t) \in Seq(Threads)
      BY <1>3 DEF MInv, MTypeInv, Yield
    <2>2. readers[l] = {}
      BY <1>3 DEF MInv, Exclusive, Yield
    <2>3. {Head(writing[l])} \in SUBSET Threads
      BY <2>1
    <2>4. MTypeInv'
      BY <1>3, <2>1, <2>3 DEF MInv, MTypeInv, Yield
    <2>5. Becomes(l, {Head(writing[l])}, {}, Append(Tail(writing[l]), t), reading[l])
      BY <1>3, <2>2 DEF MInv, MTypeInv, Yield, Becomes
    <2> QED
      BY Zenon, <2>1, <2>4, <2>5, OneLock
  <1>4. CASE YieldToReaders(t, l)
    <2>1. Members(reading[l]) \in SUBSET Threads /\ Members(reading[l]) # {}
      BY <1>4, MembersType DEF MInv, MTypeInv, YieldToReaders
    <2>2. <<>> \in Seq(Threads) /\ <<t>> \in Seq(Threads)
      OBVIOUS
    <2>3. MTypeInv'
      BY <1>4, <2>1, <2>2 DEF MInv, MTypeInv, YieldToReaders
    <2>4. Becomes(l, {}, Members(reading[l]), <<t>>, <<>>)
      BY <1>4 DEF MInv, MTypeInv, YieldToReaders, Becomes
    <2> QED
      BY <2>1, <2>3, <2>4, OneLock
  <1>5. ASSUME NEW c \in Condvars, Wait(t, l, c) PROVE MInv'
    <2>1. waiting' \in [Condvars -> Seq(Threads)]
      BY <1>5 DEF Wait, MInv, MTypeInv
    <2> QED
      BY <1>5, <2>1, HandOverStep DEF Wait
  <1> QED
    BY <1>1, <1>2, <1>3, <1>4, <1>5

\* Threads that come from a condition variable get the lock or queue for it.
LEMMA EnterStep ==
  ASSUME MInv, NEW l \in Locks, NEW q \in Seq(Threads), q # <<>>, Enter(q, l),
         UNCHANGED <<readers, reading>>, waiting' \in [Condvars -> Seq(Threads)]
  PROVE  MInv'
  <1>1. /\ Head(q) \in Threads
        /\ writing[l] \o Tail(q) \in Seq(Threads) /\ writing[l] \o q \in Seq(Threads)
    BY DEF MInv, MTypeInv
  <1>2. CASE /\ writer[l] = {} /\ readers[l] = {}
             /\ writer' = [writer EXCEPT ![l] = {Head(q)}]
             /\ writing' = [writing EXCEPT ![l] = writing[l] \o Tail(q)]
    <2>1. {Head(q)} \in SUBSET Threads
      BY <1>1
    <2>2. MTypeInv'
      BY <1>1, <1>2, <2>1 DEF MInv, MTypeInv
    <2>3. Becomes(l, {Head(q)}, {}, writing[l] \o Tail(q), reading[l])
      BY <1>2 DEF MInv, MTypeInv, Becomes
    <2> QED
      BY Zenon, <1>1, <2>2, <2>3, OneLock
  <1>3. CASE /\ ~(writer[l] = {} /\ readers[l] = {})
             /\ writing' = [writing EXCEPT ![l] = writing[l] \o q] /\ writer' = writer
    <2>1. MTypeInv'
      BY <1>1, <1>3 DEF MInv, MTypeInv
    <2>2. Becomes(l, writer[l], readers[l], writing[l] \o q, reading[l])
      BY <1>3 DEF MInv, MTypeInv, Becomes
    <2>3. writer[l] # {} => readers[l] = {} /\ \E u \in Threads : writer[l] = {u}
      BY DEF MInv, Exclusive
    <2> QED
      BY Zenon, <1>3, <2>1, <2>2, <2>3, OneLock
  <1> QED
    BY <1>2, <1>3 DEF Enter, IsFree

\* Signals and time-outs.
LEMMA WakeStep ==
  ASSUME MInv, NEW l \in Locks, NEW c \in Condvars,
         \/ \E t \in Threads : Timeout(t, c, l)
         \/ \E n \in 1..Len(waiting[c]) : Signal(c, l, n)
  PROVE  MInv'
  <1>0. waiting[c] \in Seq(Threads)
    BY DEF MInv, MTypeInv
  <1>1. ASSUME NEW t \in Threads, Timeout(t, c, l) PROVE MInv'
    <2>1. <<t>> \in Seq(Threads) /\ <<t>> # <<>>
      OBVIOUS
    <2>2. waiting' \in [Condvars -> Seq(Threads)]
      BY <1>0, <1>1, WithoutType DEF Timeout, MInv, MTypeInv
    <2> QED
      BY Zenon, <1>1, <2>1, <2>2, EnterStep DEF Timeout
  <1>2. ASSUME NEW n \in 1..Len(waiting[c]), Signal(c, l, n) PROVE MInv'
    <2>1. SubSeq(waiting[c], 1, n) \in Seq(Threads) /\ SubSeq(waiting[c], 1, n) # <<>>
      BY <1>0
    <2>2. SubSeq(waiting[c], n + 1, Len(waiting[c])) \in Seq(Threads)
      BY <1>0
    <2>3. waiting' \in [Condvars -> Seq(Threads)]
      BY <1>2, <2>2 DEF Signal, MInv, MTypeInv
    <2> QED
      BY Zenon, <1>2, <2>1, <2>3, EnterStep DEF Signal
  <1> QED
    BY <1>1, <1>2

-----------------------------------------------------------------------------
\* What Monitor promises: locks exclude, and a free lock has no waiters, so
\* that no release, time-out or signal leaves a thread behind in a line that
\* nobody serves.
THEOREM MonitorPromise == MSpec => [](Exclusive /\ NoIdleLine)
  <1>1. Init => MInv
    <2> SUFFICES ASSUME Init PROVE MInv
      OBVIOUS
    <2>1. <<>> \in Seq(Threads)
      OBVIOUS
    <2> QED
      BY <2>1 DEF Init, MInv, MTypeInv, Exclusive, NoIdleLine
  <1>2. MInv /\ [Next]_mvars => MInv'
    <2> SUFFICES ASSUME MInv, [Next]_mvars PROVE MInv'
      OBVIOUS
    <2>1. CASE UNCHANGED mvars
      BY Zenon, <2>1 DEF MInv, MTypeInv, Exclusive, NoIdleLine, IsFree, mvars
    <2>2. CASE Next
      BY <2>2, TakeStep, LeaveStep, WakeStep DEF Next
    <2> QED
      BY <2>1, <2>2
  <1>3. MInv => Exclusive /\ NoIdleLine
    BY DEF MInv
  <1> QED
    BY <1>1, <1>2, <1>3, PTL DEF MSpec
=============================================================================
