---------------------------- MODULE FutexSleepProofs ----------------------------
(***************************************************************************)
(* That the ends of a sleep keep the invariant: a wake-up or a timeout, in *)
(* a wait for a lock or on a condition variable.                           *)
(***************************************************************************)
EXTENDS FutexLockProofs

\* The objects that a sleeping thread will look at in futex_queue_sleep()
\* exist and count it.
LEMMA Counted ==
  ASSUME IInv, NEW t \in Threads, pc[t] \in Sleeping
  PROVE  /\ at[t] \in Locks /\ lock[at[t]].waitcount \in Nat \ {0}
         /\ sig[t] = NoCondvar
         /\ pc[t] \in {"cvwait", "relock"} =>
              /\ cv[t] \in Condvars /\ condvar[cv[t]].waitcount \in Nat \ {0}
              /\ condvar[cv[t]].lock = at[t]
         /\ pc[t] \notin {"cvwait", "relock"} => cv[t] = NoCondvar
<1>1. ThreadInv(t) /\ cv[t] \in Condvars \cup {NoCondvar}
  BY DEF IInv, ThreadsInv, TypeOK
<1>2. at[t] \in Locks /\ sig[t] = NoCondvar
  BY <1>1 DEF ThreadInv, Sleeping
<1>3. LockInv(at[t])
  BY <1>2 DEF IInv, LocksInv
<1>4. SleepersOn(at[t]) \subseteq Threads /\ t \in SleepersOn(at[t])
  BY DEF SleepersOn
<1>5. Cardinality(SleepersOn(at[t])) \in Nat \ {0}
  BY <1>4, CountStep
<1>6. ASSUME pc[t] \in {"cvwait", "relock"}
      PROVE  /\ cv[t] \in Condvars /\ condvar[cv[t]].waitcount \in Nat \ {0}
             /\ condvar[cv[t]].lock = at[t]
  <2>1. cv[t] \in Condvars
    BY <1>1, <1>6 DEF ThreadInv
  <2>2. CondvarInv(cv[t])
    BY <2>1 DEF IInv, CondvarsInv
  <2>3. WaitersOf(cv[t]) \subseteq Threads /\ t \in WaitersOf(cv[t])
    BY DEF WaitersOf
  <2>4. Cardinality(WaitersOf(cv[t])) \in Nat \ {0}
    BY <2>3, CountStep
  <2>5. QED BY <2>1, <2>2, <2>3, <2>4 DEF CondvarInv
<1>7. pc[t] \notin {"cvwait", "relock"} => cv[t] = NoCondvar
  BY <1>1 DEF ThreadInv
<1>8. QED BY <1>2, <1>3, <1>5, <1>6, <1>7 DEF LockInv

\* A thread that wakes up with its lock keeps the invariant.
LEMMA ResumeLockInv ==
  ASSUME IInv, NEW t \in Threads, ResumeLock(t)
  PROVE  IInv'
<1> DEFINE l == at[t]
           k == lock[l].waitcount - 1
           M == [lock[l] EXCEPT !.waitcount = k]
<1>1. pc[t] \in {"rdwait", "wrwait"} /\ pc[t] \in Sleeping
  BY DEF ResumeLock, Sleeping
<1>2. l \in Locks /\ lock[l].waitcount \in Nat \ {0} /\ sig[t] = NoCondvar /\ cv[t] = NoCondvar
  BY <1>1, Counted
<1>3. k \in Nat
  BY <1>2
<1>4. futex_lock_release(l, M)
  BY DEF ResumeLock
<1>5. LockOK(lock[l]) /\ ~InQueue(lock[l].writers, t) /\ ~InQueue(lock[l].readers, t)
  BY <1>2 DEF IInv, LocksInv, LockInv, ResumeLock, FwQueueIsNull
<1> DEFINE p == IF pc[t] = "rdwait" THEN "rdheld" ELSE "wrheld"
           e == IF pc[t] = "rdwait" THEN futex_op_poll("LOCK_RDLOCK", "0")
                ELSE futex_op_poll("LOCK_WRLOCK", "0")
<1>6. /\ Become(t, p, l) /\ ret' = [ret EXCEPT ![t] = e]
      /\ UNCHANGED <<condvar, futex_condvar_list, cv, sig, crashed>>
  BY DEF ResumeLock
<1>7. p \in PCs \ {"cvwait", "relock"} /\ p \notin Sleeping
  BY DEF PCs, Sleeping
<1>8. e \in Events
  BY EventTypesOK DEF Errors, EventTypes
<1> HIDE DEF l, k, p, e
<1>9. /\ LockOK(M) /\ M.waitcount = k
      /\ M.writers = lock[l].writers /\ M.readers = lock[l].readers
  BY <1>3, <1>5, CountOK
<1> HIDE DEF M
<1>10. OnlyMoves(t) /\ ThreadStep(t) /\ pc'[t] = p
  BY Zenon, <1>2, <1>6, <1>7, <1>8, MoveStep
<1>11. M.waitcount = lock[l].waitcount - One(pc[t] \in Sleeping) + One(pc'[t] \in Sleeping)
  BY <1>1, <1>2, <1>7, <1>9, <1>10 DEF One, k
<1>12. at[t] = l
  BY DEF l
<1>13. /\ \A u \in Threads : InQueue(M.writers, u) =>
            IF u = t THEN pc'[t] \in WriteSleep ELSE InQueue(lock[l].writers, u)
       /\ \A u \in Threads : InQueue(M.readers, u) =>
            IF u = t THEN pc'[t] = "rdwait" ELSE InQueue(lock[l].readers, u)
  BY <1>5, <1>9
<1>14. QED BY Zenon, <1>2, <1>4, <1>6, <1>7, <1>9, <1>10, <1>11, <1>12, <1>13, LockActionStep

\* A reader whose wait times out leaves the lock consistent.
LEMMA DequeueReadersOK ==
  ASSUME NEW L, LockOK(L), NEW t, InQueue(L.readers, t)
  PROVE  LET M == futex_lock_unmanage([L EXCEPT !.readers = Dequeue(L.readers, t)])
         IN  /\ LockOK(M) /\ M.waitcount = L.waitcount /\ M.writers = L.writers
             /\ \A u : InQueue(M.readers, u) => InQueue(L.readers, u) /\ u # t
<1> DEFINE q == Dequeue(L.readers, t)
           N == [L EXCEPT !.readers = q]
<1>1. /\ L \in LockState /\ L.readers \in Seq(Threads) /\ Once(L.readers) /\ Once(L.writers)
      /\ Managed(L)
  BY DEF LockOK, LockState
<1>2. /\ q \in Seq(Threads) /\ Once(q) /\ ~InQueue(q, t)
      /\ \A u : InQueue(q, u) => InQueue(L.readers, u)
  BY <1>1, DequeueQueue
<1>3. L.readers # <<>>
  BY <1>1, EmptyQueue
<1> HIDE DEF q
<1>4. N \in LockState
  BY <1>1, <1>2 DEF LockState
<1>5. /\ N.readers = q /\ N.writers = L.writers /\ N.waitcount = L.waitcount
      /\ N.km = L.km /\ N.owner = L.owner
  BY <1>1 DEF LockState
<1>6. Pinned(N)
  BY <1>1, <1>3, <1>5 DEF Managed, Queued, Pinned
<1> HIDE DEF N
<1>7. LockOK(futex_lock_unmanage(N)) /\ SameQueues(N, futex_lock_unmanage(N))
  BY <1>1, <1>2, <1>4, <1>5, <1>6, UnmanageOK
<1>8. QED BY <1>2, <1>5, <1>7 DEF SameQueues, N, q

\* A writer whose wait times out leaves the lock consistent.
LEMMA DequeueWritersOK ==
  ASSUME NEW L, LockOK(L), NEW t, InQueue(L.writers, t)
  PROVE  LET M == futex_lock_unmanage([L EXCEPT !.writers = Dequeue(L.writers, t)])
         IN  /\ LockOK(M) /\ M.waitcount = L.waitcount /\ M.readers = L.readers
             /\ \A u : InQueue(M.writers, u) => InQueue(L.writers, u) /\ u # t
<1> DEFINE q == Dequeue(L.writers, t)
           N == [L EXCEPT !.writers = q]
<1>1. /\ L \in LockState /\ L.writers \in Seq(Threads) /\ Once(L.readers) /\ Once(L.writers)
      /\ Managed(L)
  BY DEF LockOK, LockState
<1>2. /\ q \in Seq(Threads) /\ Once(q) /\ ~InQueue(q, t)
      /\ \A u : InQueue(q, u) => InQueue(L.writers, u)
  BY <1>1, DequeueQueue
<1>3. L.writers # <<>>
  BY <1>1, EmptyQueue
<1> HIDE DEF q
<1>4. N \in LockState
  BY <1>1, <1>2 DEF LockState
<1>5. /\ N.writers = q /\ N.readers = L.readers /\ N.waitcount = L.waitcount
      /\ N.km = L.km /\ N.owner = L.owner
  BY <1>1 DEF LockState
<1>6. Pinned(N)
  BY <1>1, <1>3, <1>5 DEF Managed, Queued, Pinned
<1> HIDE DEF N
<1>7. LockOK(futex_lock_unmanage(N)) /\ SameQueues(N, futex_lock_unmanage(N))
  BY <1>1, <1>2, <1>4, <1>5, <1>6, UnmanageOK
<1>8. QED BY <1>2, <1>5, <1>7 DEF SameQueues, N, q

\* A wait on a lock that times out keeps the invariant.
LEMMA TimeoutLockInv ==
  ASSUME IInv, NEW t \in Threads, TimeoutLock(t)
  PROVE  IInv'
<1> DEFINE l == at[t]
           k == lock[l].waitcount - 1
           L == [lock[l] EXCEPT !.waitcount = k]
           R == futex_lock_unmanage([L EXCEPT !.readers = Dequeue(L.readers, t)])
           W == futex_lock_unmanage([L EXCEPT !.writers = Dequeue(L.writers, t)])
           er == futex_op_poll("LOCK_RDLOCK", "ETIMEDOUT")
           ew == futex_op_poll("LOCK_WRLOCK", "ETIMEDOUT")
<1>1. pc[t] \in {"rdwait", "wrwait"} /\ pc[t] \in Sleeping
  BY DEF TimeoutLock, Sleeping
<1>2. l \in Locks /\ lock[l].waitcount \in Nat \ {0} /\ sig[t] = NoCondvar /\ cv[t] = NoCondvar
  BY <1>1, Counted
<1>3. LockOK(lock[l]) /\ k \in Nat
  BY <1>2 DEF IInv, LocksInv, LockInv
<1>4. \/ /\ pc[t] = "rdwait" /\ InQueue(L.readers, t) /\ futex_lock_release(l, R)
         /\ ret' = [ret EXCEPT ![t] = er]
      \/ /\ pc[t] = "wrwait" /\ InQueue(L.writers, t) /\ futex_lock_release(l, W)
         /\ ret' = [ret EXCEPT ![t] = ew]
  BY DEF TimeoutLock
<1>5. Become(t, "idle", NoLock) /\ UNCHANGED <<condvar, futex_condvar_list, cv, sig, crashed>>
  BY DEF TimeoutLock
<1>6. er \in Events /\ ew \in Events
  BY EventTypesOK DEF Errors, EventTypes
<1>7. "idle" \in PCs \ {"cvwait", "relock"} /\ "idle" \notin Sleeping
  BY DEF PCs, Sleeping
<1> HIDE DEF er, ew, k
<1>8. /\ LockOK(L) /\ L.waitcount = k
      /\ L.writers = lock[l].writers /\ L.readers = lock[l].readers
  BY <1>3, CountOK
<1> HIDE DEF l, L
<1>9. OnlyMoves(t) /\ ThreadStep(t) /\ pc'[t] = "idle"
  BY <1>2, <1>4, <1>5, <1>6, <1>7, MoveStep
<1>10. k = lock[l].waitcount - One(pc[t] \in Sleeping) + One(pc'[t] \in Sleeping) /\ at[t] = l
  BY <1>1, <1>2, <1>7, <1>9 DEF One, k, l
<1>11. \A u \in Threads : /\ InQueue(lock[l].writers, u) => pc[u] # "rdwait"
                          /\ InQueue(lock[l].readers, u) => pc[u] # "wrwait"
  BY <1>2 DEF IInv, LocksInv, LockInv, WriteSleep
<1>12. CASE pc[t] = "rdwait" /\ InQueue(L.readers, t) /\ futex_lock_release(l, R)
  <2>1. /\ LockOK(R) /\ R.waitcount = L.waitcount /\ R.writers = L.writers
        /\ \A u : InQueue(R.readers, u) => InQueue(L.readers, u) /\ u # t
    BY <1>8, <1>12, DequeueReadersOK
  <2> HIDE DEF R
  <2>2. /\ \A u \in Threads : InQueue(R.writers, u) =>
             IF u = t THEN pc'[t] \in WriteSleep ELSE InQueue(lock[l].writers, u)
        /\ \A u \in Threads : InQueue(R.readers, u) =>
             IF u = t THEN pc'[t] = "rdwait" ELSE InQueue(lock[l].readers, u)
    BY <1>8, <1>11, <1>12, <2>1
  <2>3. QED BY Zenon, <1>2, <1>5, <1>7, <1>8, <1>9, <1>10, <1>12, <2>1, <2>2, LockActionStep
<1>13. CASE pc[t] = "wrwait" /\ InQueue(L.writers, t) /\ futex_lock_release(l, W)
  <2>1. /\ LockOK(W) /\ W.waitcount = L.waitcount /\ W.readers = L.readers
        /\ \A u : InQueue(W.writers, u) => InQueue(L.writers, u) /\ u # t
    BY Zenon, <1>8, <1>13, DequeueWritersOK
  <2> HIDE DEF W
  <2>2. /\ \A u \in Threads : InQueue(W.writers, u) =>
             IF u = t THEN pc'[t] \in WriteSleep ELSE InQueue(lock[l].writers, u)
        /\ \A u \in Threads : InQueue(W.readers, u) =>
             IF u = t THEN pc'[t] = "rdwait" ELSE InQueue(lock[l].readers, u)
    BY <1>8, <1>11, <1>13, <2>1
  <2>3. QED BY Zenon, <1>2, <1>5, <1>7, <1>8, <1>9, <1>10, <1>13, <2>1, <2>2, LockActionStep
<1>14. QED BY <1>4, <1>12, <1>13

(***************************************************************************)
(* The operations on condition variables.                                  *)
(***************************************************************************)
Goes(t, p, a, d, e) ==
  Become(t, p, a) /\ cv' = [cv EXCEPT ![t] = d] /\ ret' = [ret EXCEPT ![t] = e]

\* A step of a wait on a condition variable moves its thread to a legal
\* place.
LEMMA CvMoveStep ==
  ASSUME IInv, NEW t \in Threads, NEW p \in PCs, NEW a \in Locks \cup {NoLock},
         NEW d \in Condvars \cup {NoCondvar}, NEW e \in Events, Goes(t, p, a, d, e),
         p # "idle" => a \in Locks, d # NoCondvar <=> p \in {"cvwait", "relock"},
         sig[t] = NoCondvar, UNCHANGED <<sig, crashed>>
  PROVE  OnlyMoves(t) /\ ThreadStep(t) /\ pc'[t] = p /\ at'[t] = a /\ cv'[t] = d
<1>1. OnlyMoves(t) /\ pc'[t] = p /\ at'[t] = a /\ cv'[t] = d
  BY DEF IInv, TypeOK, OnlyMoves, Become, Goes
<1>2. ThreadStep(t)
  BY <1>1 DEF IInv, TypeOK, ThreadStep, ThreadInv, Goes
<1>3. QED BY <1>1, <1>2

\* The wait count does not matter to futex_condvar_assert().
LEMMA CondvarCountOK ==
  ASSUME NEW C, CondvarOK(C), NEW k \in Nat
  PROVE  LET D == [C EXCEPT !.waitcount = k]
         IN  CondvarOK(D) /\ D.waitcount = k /\ D.waiters = C.waiters /\ D.lock = C.lock
<1> DEFINE D == [C EXCEPT !.waitcount = k]
<1>1. D \in CondvarState
  BY DEF CondvarOK, CondvarState
<1>2. D.waitcount = k /\ D.waiters = C.waiters /\ D.lock = C.lock /\ (D.word <=> C.word)
  BY DEF CondvarOK, CondvarState
<1> HIDE DEF D
<1>3. CondvarOK(D)
  BY SMTT(30), <1>1, <1>2 DEF CondvarOK
<1>4. QED BY <1>2, <1>3 DEF D

\* The end of futex_op_condvar_wait(), which takes the lock again after a
\* wait that failed, keeps the invariant.
LEMMA RelockInv ==
  ASSUME IInv, NEW t \in Threads, NEW c \in Condvars, NEW l \in Locks,
         NEW C, CondvarOK(C), NEW L, LockOK(L), NEW error \in Errors,
         Relock(t, c, C, l, L, error), UNCHANGED <<sig, crashed>>, sig[t] = NoCondvar,
         pc[t] \in Sleeping => at[t] = l, cv[t] \in {NoCondvar, c}, C.lock = l,
         \A u \in Threads \ {t} : cv[u] = c => C.lock = condvar[c].lock,
         C.waitcount = condvar[c].waitcount - One(cv[t] = c) + 1,
         L.waitcount = lock[l].waitcount - One(pc[t] \in Sleeping),
         \A u \in Threads : InQueue(L.writers, u) => u # t /\ InQueue(lock[l].writers, u),
         \A u \in Threads : InQueue(L.readers, u) => u # t /\ InQueue(lock[l].readers, u),
         \A u \in Threads : InQueue(C.waiters, u) => u # t /\ InQueue(condvar[c].waiters, u)
  PROVE  IInv'
<1> DEFINE try == futex_lock_trywrlock(L, t, FALSE)
           k == C.waitcount - 1
           D == [C EXCEPT !.waitcount = k]
           e == IF try.error = "0" THEN futex_op_poll("CONDVAR", error)
                ELSE IF try.error = "EBUSY" THEN Pending(error)
                ELSE futex_op_poll("CONDVAR", try.error)
<1>1. /\ try.error \in {"0", "EBUSY", "EDEADLK"}
      /\ try.lock \in LockState /\ SameQueues(L, try.lock)
      /\ try.error = "0" => Managed(try.lock)
      /\ try.error = "EBUSY" => Pinned(try.lock)
      /\ try.error = "EDEADLK" => try.lock = L
  BY Zenon, TrywrlockOK
<1>2. Once(try.lock.writers) /\ Once(try.lock.readers)
  BY Zenon, <1>1 DEF LockOK, SameQueues
<1>3. e \in Events
  BY Zenon, <1>1, EventTypesOK DEF Errors, EventTypes
<1>4. /\ condvar[c].waitcount \in Nat /\ lock[l].waitcount \in Nat
      /\ C.waitcount \in Nat /\ L.waitcount \in Nat
  BY SMTT(30) DEF IInv, LocksInv, LockInv, LockOK, LockState, CondvarsInv, CondvarInv, CondvarOK, CondvarState
<1>5. k \in Nat /\ k = condvar[c].waitcount - One(cv[t] = c)
  <2>1. cv[t] = c => condvar[c].waitcount # 0
    <3>1. WaitersOf(c) \subseteq Threads /\ (cv[t] = c => t \in WaitersOf(c))
      BY SMTT(30) DEF WaitersOf
    <3>2. t \in WaitersOf(c) => Cardinality(WaitersOf(c)) # 0
      BY SMTT(30), <3>1, CountStep
    <3>3. QED BY SMTT(30), <3>1, <3>2 DEF IInv, CondvarsInv, CondvarInv
  <2>2. QED BY SMTT(30), <1>4, <2>1 DEF One
<1>6. \A u \in Threads : ~(InQueue(lock[l].writers, u) /\ InQueue(condvar[c].waiters, u))
  BY DEF IInv, OneQueue
<1>7. \/ /\ try.error = "0" /\ futex_lock_release(l, try.lock) /\ futex_condvar_release(c, D)
         /\ Goes(t, "wrheld", l, NoCondvar, e)
      \/ /\ try.error = "EBUSY" /\ futex_lock_release(l, SleepOnWriters(try.lock, t))
         /\ futex_condvar_release(c, C)
         /\ Goes(t, "relock", l, c, e)
      \/ /\ try.error \notin {"0", "EBUSY"} /\ futex_lock_release(l, futex_lock_unmanage(try.lock))
         /\ futex_condvar_release(c, D)
         /\ Goes(t, "idle", NoLock, NoCondvar, e)
  BY Zenon DEF Relock, Goes
<1>8. c # NoCondvar /\ {"wrheld", "relock", "idle"} \subseteq PCs
      /\ "wrheld" \notin Sleeping /\ "idle" \notin Sleeping /\ "relock" \in Sleeping
      /\ "relock" \in WriteSleep
      /\ "relock" # "idle" /\ "wrheld" \notin {"cvwait", "relock"} /\ "idle" \notin {"cvwait", "relock"}
      /\ {c, NoCondvar} \subseteq Condvars \cup {NoCondvar}
      /\ {l, NoLock} \subseteq Locks \cup {NoLock}
  BY AddressAssumption DEF PCs, Sleeping, WriteSleep
<1> HIDE DEF try, k, e
<1>9. CondvarOK(D) /\ D.waitcount = k /\ D.waiters = C.waiters /\ D.lock = C.lock
  BY <1>5, CondvarCountOK
<1> HIDE DEF D
<1>10. ASSUME NEW M, LockOK(M), SameQueues(L, M), futex_lock_release(l, M),
              futex_condvar_release(c, D), OnlyMoves(t), ThreadStep(t),
              pc'[t] \notin Sleeping, cv'[t] = NoCondvar
       PROVE  IInv'
  <2>1. M.writers = L.writers /\ M.readers = L.readers /\ M.waitcount = L.waitcount
    BY Zenon, <1>10 DEF SameQueues
  <2>2. M.waitcount = lock[l].waitcount - One(pc[t] \in Sleeping) + One(pc'[t] \in Sleeping)
    BY SMTT(30), <1>4, <1>10, <2>1 DEF One
  <2>3. D.waitcount = condvar[c].waitcount - One(cv[t] = c) + One(cv'[t] = c)
    BY <1>4, <1>5, <1>8, <1>9, <1>10 DEF One
  <2>4. /\ \A u \in Threads : InQueue(M.writers, u) =>
             IF u = t THEN pc'[t] \in WriteSleep
             ELSE InQueue(lock[l].writers, u) \/ (InQueue(condvar[c].waiters, u) /\ at[u] = l)
        /\ \A u \in Threads : InQueue(M.readers, u) =>
             IF u = t THEN pc'[t] = "rdwait" ELSE InQueue(lock[l].readers, u)
        /\ \A u \in Threads : InQueue(D.waiters, u) =>
             IF u = t THEN pc'[t] = "cvwait" /\ cv'[t] = c ELSE InQueue(condvar[c].waiters, u)
        /\ \A u \in Threads : ~(InQueue(M.writers, u) /\ InQueue(D.waiters, u))
    BY SMTT(30), <1>6, <1>9, <2>1
  <2>5. /\ \A u \in Threads \ {t} : cv[u] = c => D.lock = condvar[c].lock
        /\ cv'[t] \in {NoCondvar, c} /\ (cv'[t] = c => at'[t] = D.lock)
        /\ pc'[t] \in Sleeping => at'[t] = l
    BY Zenon, <1>8, <1>9, <1>10
  <2>6. /\ LockOK(M) /\ CondvarOK(D) /\ OnlyMoves(t) /\ ThreadStep(t)
        /\ futex_lock_release(l, M) /\ futex_condvar_release(c, D)
    BY Zenon, <1>9, <1>10
  <2>7. QED BY SMTT(60), <2>2, <2>3, <2>4, <2>5, <2>6, CondvarActionStep
<1>11. CASE /\ try.error = "0" /\ futex_lock_release(l, try.lock) /\ futex_condvar_release(c, D)
            /\ Goes(t, "wrheld", l, NoCondvar, e)
  <2>1. LockOK(try.lock)
    BY SMTT(30), <1>1, <1>2, <1>11 DEF LockOK
  <2>2. OnlyMoves(t) /\ ThreadStep(t) /\ pc'[t] = "wrheld" /\ cv'[t] = NoCondvar
    BY SMTT(30), <1>3, <1>8, <1>11, CvMoveStep
  <2>3. QED BY <1>1, <1>8, <1>10, <1>11, <2>1, <2>2
<1>12. CASE /\ try.error = "EBUSY" /\ futex_lock_release(l, SleepOnWriters(try.lock, t))
            /\ futex_condvar_release(c, C)
            /\ Goes(t, "relock", l, c, e)
  <2> DEFINE M == SleepOnWriters(try.lock, t)
  <2>1. OnlyMoves(t) /\ ThreadStep(t) /\ pc'[t] = "relock" /\ cv'[t] = c /\ at'[t] = l
    BY SMTT(30), <1>3, <1>8, <1>12, CvMoveStep
  <2>2. /\ LockOK(M) /\ M.waitcount = L.waitcount + 1 /\ M.readers = L.readers
        /\ \A u : InQueue(M.writers, u) => InQueue(L.writers, u) \/ u = t
    BY SMTT(30), <1>1, <1>2, <1>12, SleepOnWritersOK DEF SameQueues
  <2>3. futex_lock_release(l, M)
    BY SMTT(30), <1>12
  <2> HIDE DEF M
  <2>4. M.waitcount = lock[l].waitcount - One(pc[t] \in Sleeping) + One(pc'[t] \in Sleeping)
    BY SMTT(30), <1>4, <1>8, <2>1, <2>2 DEF One
  <2>5. C.waitcount = condvar[c].waitcount - One(cv[t] = c) + One(cv'[t] = c)
    BY SMTT(30), <1>4, <2>1 DEF One
  <2>6. /\ \A u \in Threads : InQueue(M.writers, u) =>
             IF u = t THEN pc'[t] \in WriteSleep
             ELSE InQueue(lock[l].writers, u) \/ (InQueue(condvar[c].waiters, u) /\ at[u] = l)
        /\ \A u \in Threads : InQueue(M.readers, u) =>
             IF u = t THEN pc'[t] = "rdwait" ELSE InQueue(lock[l].readers, u)
        /\ \A u \in Threads : InQueue(C.waiters, u) =>
             IF u = t THEN pc'[t] = "cvwait" /\ cv'[t] = c ELSE InQueue(condvar[c].waiters, u)
        /\ \A u \in Threads : ~(InQueue(M.writers, u) /\ InQueue(C.waiters, u))
    BY SMTT(30), <1>6, <1>8, <2>1, <2>2
  <2>7. /\ pc[t] \in Sleeping => at[t] = l
        /\ pc'[t] \in Sleeping => at'[t] = l
        /\ cv[t] \in {NoCondvar, c} /\ cv'[t] \in {NoCondvar, c}
        /\ \A u \in Threads \ {t} : cv[u] = c => C.lock = condvar[c].lock
        /\ cv'[t] = c => at'[t] = C.lock
    BY Zenon, <2>1
  <2>8. LockOK(M) /\ futex_condvar_release(c, C) /\ OnlyMoves(t) /\ ThreadStep(t)
    BY Zenon, <1>12, <2>1, <2>2
  <2>9. QED BY Zenon, <2>3, <2>4, <2>5, <2>6, <2>7, <2>8, CondvarActionStep
<1>13. CASE /\ try.error \notin {"0", "EBUSY"} /\ futex_lock_release(l, futex_lock_unmanage(try.lock))
            /\ futex_condvar_release(c, D)
            /\ Goes(t, "idle", NoLock, NoCondvar, e)
  <2>1. LockOK(futex_lock_unmanage(try.lock)) /\ SameQueues(L, futex_lock_unmanage(try.lock))
    BY SMTT(30), <1>1, <1>13, UnmanageOK DEF LockOK
  <2>2. OnlyMoves(t) /\ ThreadStep(t) /\ pc'[t] = "idle" /\ cv'[t] = NoCondvar
    BY <1>3, <1>8, <1>13, CvMoveStep
  <2>3. QED BY SMTT(30), <1>8, <1>10, <1>13, <2>1, <2>2
<1>14. QED BY <1>7, <1>11, <1>12, <1>13

\* A wait on a condition variable that ends with the lock held keeps the
\* invariant.
LEMMA ResumeCondvarInv ==
  ASSUME IInv, NEW t \in Threads, ResumeCondvar(t)
  PROVE  IInv'
<1> DEFINE l == at[t]
           c == cv[t]
           k == lock[l].waitcount - 1
           M == [lock[l] EXCEPT !.waitcount = k]
           j == condvar[c].waitcount - 1
           D == [condvar[c] EXCEPT !.waitcount = j]
           e == futex_op_poll("CONDVAR", ret[t].error)
<1>1. pc[t] \in {"cvwait", "relock"} /\ pc[t] \in Sleeping
  BY DEF ResumeCondvar, Sleeping
<1>2. /\ l \in Locks /\ lock[l].waitcount \in Nat \ {0} /\ sig[t] = NoCondvar
      /\ c \in Condvars /\ condvar[c].waitcount \in Nat \ {0} /\ condvar[c].lock = l
  BY <1>1, Counted
<1>3. k \in Nat /\ j \in Nat
  BY <1>2
<1>4. /\ LockOK(lock[l]) /\ ~InQueue(lock[l].writers, t) /\ ~InQueue(lock[l].readers, t)
      /\ CondvarOK(condvar[c]) /\ ~InQueue(condvar[c].waiters, t)
  BY <1>2 DEF IInv, LocksInv, LockInv, CondvarsInv, CondvarInv, ResumeCondvar, FwQueueIsNull
<1>5. e \in Events
  BY EventTypesOK DEF IInv, TypeOK, Events, EventTypes
<1>6. /\ futex_lock_release(l, M) /\ futex_condvar_release(c, D)
      /\ Goes(t, "wrheld", l, NoCondvar, e) /\ UNCHANGED <<sig, crashed>>
  BY DEF ResumeCondvar, Goes
<1>7. /\ "wrheld" \in PCs /\ "wrheld" \notin Sleeping /\ "wrheld" \notin {"cvwait", "relock"}
      /\ c # NoCondvar
  BY <1>2, AddressAssumption DEF PCs, Sleeping
<1>8. \A u \in Threads : ~(InQueue(lock[l].writers, u) /\ InQueue(condvar[c].waiters, u))
  BY <1>2 DEF IInv, OneQueue
<1>9. at[t] = l /\ cv[t] = c
  OBVIOUS
<1> HIDE DEF e, k, j
<1>10. /\ LockOK(M) /\ M.waitcount = k
       /\ M.writers = lock[l].writers /\ M.readers = lock[l].readers
  BY <1>3, <1>4, CountOK
<1>11. CondvarOK(D) /\ D.waitcount = j /\ D.waiters = condvar[c].waiters /\ D.lock = condvar[c].lock
  BY <1>3, <1>4, CondvarCountOK
<1> HIDE DEF l, c, M, D
<1>12. OnlyMoves(t) /\ ThreadStep(t) /\ pc'[t] = "wrheld" /\ cv'[t] = NoCondvar
  BY <1>2, <1>5, <1>6, <1>7, CvMoveStep
<1>13. /\ M.waitcount = lock[l].waitcount - One(pc[t] \in Sleeping) + One(pc'[t] \in Sleeping)
       /\ D.waitcount = condvar[c].waitcount - One(cv[t] = c) + One(cv'[t] = c)
  BY SMTT(30), <1>1, <1>2, <1>7, <1>9, <1>10, <1>11, <1>12 DEF One, k, j
<1>14. /\ \A u \in Threads : InQueue(M.writers, u) =>
            IF u = t THEN pc'[t] \in WriteSleep
            ELSE InQueue(lock[l].writers, u) \/ (InQueue(condvar[c].waiters, u) /\ at[u] = l)
       /\ \A u \in Threads : InQueue(M.readers, u) =>
            IF u = t THEN pc'[t] = "rdwait" ELSE InQueue(lock[l].readers, u)
       /\ \A u \in Threads : InQueue(D.waiters, u) =>
            IF u = t THEN pc'[t] = "cvwait" /\ cv'[t] = c ELSE InQueue(condvar[c].waiters, u)
       /\ \A u \in Threads : ~(InQueue(M.writers, u) /\ InQueue(D.waiters, u))
  BY SMTT(30), <1>4, <1>8, <1>10, <1>11
<1>15. /\ pc[t] \in Sleeping => at[t] = l
       /\ pc'[t] \in Sleeping => at'[t] = l
       /\ cv[t] \in {NoCondvar, c} /\ cv'[t] \in {NoCondvar, c}
       /\ \A u \in Threads \ {t} : cv[u] = c => D.lock = condvar[c].lock
       /\ cv'[t] = c => at'[t] = D.lock
  BY Zenon, <1>7, <1>9, <1>11, <1>12
<1>16. QED
  BY Zenon, <1>2, <1>6, <1>10, <1>11, <1>12, <1>13, <1>14, <1>15, CondvarActionStep

\* A wait on a condition variable that times out keeps the invariant.
LEMMA TimeoutCondvarInv ==
  ASSUME IInv, NEW t \in Threads, TimeoutCondvar(t)
  PROVE  IInv'
<1> DEFINE l == at[t]
           c == cv[t]
           k == lock[l].waitcount - 1
           L == [lock[l] EXCEPT !.waitcount = k]
           q == Dequeue(condvar[c].waiters, t)
           B == [condvar[c] EXCEPT !.waiters = q]
           C == futex_condvar_unmanage(B)
<1>1. pc[t] = "cvwait" /\ pc[t] \in Sleeping /\ pc[t] \in {"cvwait", "relock"}
  BY SMTT(30) DEF TimeoutCondvar, Sleeping
<1>2. /\ l \in Locks /\ lock[l].waitcount \in Nat \ {0} /\ sig[t] = NoCondvar
      /\ c \in Condvars /\ condvar[c].waitcount \in Nat \ {0} /\ condvar[c].lock = l
  BY SMTT(30), <1>1, Counted
<1>3. k \in Nat
  BY <1>2
<1>4. /\ LockOK(lock[l]) /\ CondvarOK(condvar[c]) /\ InQueue(condvar[c].waiters, t)
      /\ ~InQueue(lock[l].writers, t) /\ ~InQueue(lock[l].readers, t)
  BY <1>1, <1>2 DEF IInv, LocksInv, LockInv, CondvarsInv, CondvarInv, TimeoutCondvar, OneQueue
<1>5. Relock(t, c, C, l, L, "ETIMEDOUT") /\ UNCHANGED <<sig, crashed>> /\ "ETIMEDOUT" \in Errors
  BY SMTT(30) DEF TimeoutCondvar, Errors
<1>6. /\ q \in Seq(Threads) /\ Once(q) /\ ~InQueue(q, t)
      /\ \A u : InQueue(q, u) => InQueue(condvar[c].waiters, u)
  BY SMTT(30), <1>4, DequeueQueue DEF CondvarOK, CondvarState
<1>7. condvar[c].word
  BY <1>4, EmptyQueue DEF CondvarOK, CondvarState
<1>8. at[t] = l /\ cv[t] = c
  OBVIOUS
<1> HIDE DEF k, q
<1>9. /\ LockOK(L) /\ L.waitcount = k
      /\ L.writers = lock[l].writers /\ L.readers = lock[l].readers
  BY <1>3, <1>4, CountOK
<1>10. B \in CondvarState
  BY <1>4, <1>6 DEF CondvarOK, CondvarState
<1>11. /\ B.waiters = q /\ B.word = condvar[c].word /\ B.lock = condvar[c].lock
       /\ B.waitcount = condvar[c].waitcount
  BY <1>4 DEF CondvarOK, CondvarState
<1> HIDE DEF B
<1>12. CondvarOK(C) /\ C.waiters = q /\ C.lock = l /\ C.waitcount = condvar[c].waitcount
  BY Zenon, <1>2, <1>6, <1>7, <1>10, <1>11, CondvarUnmanageOK
<1> HIDE DEF l, c, L, C
<1>13. /\ C.waitcount = condvar[c].waitcount - One(cv[t] = c) + 1
       /\ L.waitcount = lock[l].waitcount - One(pc[t] \in Sleeping)
  BY SMTT(30), <1>1, <1>2, <1>8, <1>9, <1>12 DEF One, k
<1>14. /\ \A u \in Threads : InQueue(L.writers, u) => u # t /\ InQueue(lock[l].writers, u)
       /\ \A u \in Threads : InQueue(L.readers, u) => u # t /\ InQueue(lock[l].readers, u)
       /\ \A u \in Threads : InQueue(C.waiters, u) => u # t /\ InQueue(condvar[c].waiters, u)
  BY <1>4, <1>6, <1>9, <1>12
<1>15. QED BY <1>2, <1>5, <1>8, <1>9, <1>12, <1>13, <1>14, RelockInv

\* futex_condvar_lookup_or_create() loses nothing: a condition variable
\* without an object has no waiters.
LEMMA NewCondvarOK ==
  ASSUME IInv, NEW c \in Condvars, NEW l \in Locks, c \in futex_condvar_list => condvar[c].lock = l
  PROVE  LET N == NewCondvar(c, l)
         IN  /\ N \in CondvarState /\ N.lock = l /\ N.waiters = condvar[c].waiters
             /\ N.waitcount = condvar[c].waitcount
             /\ \A u \in Threads : cv[u] = c => condvar[c].lock = l
<1>1. CondvarInv(c) /\ condvar[c] \in CondvarState
  BY DEF IInv, CondvarsInv, CondvarInv, CondvarOK
<1>2. \A u \in Threads : cv[u] = c => condvar[c].lock = l
  BY <1>1 DEF CondvarInv, WaitersOf
<1>3. CASE c \in futex_condvar_list
  BY <1>1, <1>2, <1>3 DEF NewCondvar
<1>4. CASE c \notin futex_condvar_list
  <2>1. WaitersOf(c) = {}
    BY <1>1, <1>4 DEF CondvarInv
  <2>2. condvar[c].waitcount = 0
    BY <1>1, <2>1, FS_EmptySet DEF CondvarInv
  <2>3. \A u \in Threads : ~InQueue(condvar[c].waiters, u)
    BY <1>1, <2>1 DEF CondvarInv, WaitersOf
  <2>4. condvar[c].waiters = <<>> /\ <<>> \in Seq(Threads)
    BY <1>1, <2>3, EmptyQueue, EmptySeq DEF CondvarState
  <2> DEFINE N == [condvar[c] EXCEPT !.lock = l, !.waiters = <<>>, !.waitcount = 0]
  <2>5. NewCondvar(c, l) = N
    BY <1>4 DEF NewCondvar
  <2>6. N \in CondvarState
    BY Zenon, <1>1, <2>4 DEF CondvarState
  <2>7. N.lock = l /\ N.waiters = <<>> /\ N.waitcount = 0
    BY <1>1 DEF CondvarState
  <2> HIDE DEF N
  <2>8. QED BY <1>2, <2>2, <2>4, <2>5, <2>6, <2>7
<1>5. QED BY <1>3, <1>4
=============================================================================
