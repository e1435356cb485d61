---------------------------- MODULE FutexProofs ----------------------------
(***************************************************************************)
(* That waiting on and signalling a condition variable keep the invariant, *)
(* and the theorems about futex.c.                                         *)
(***************************************************************************)
EXTENDS FutexSleepProofs

\* futex_op_condvar_wait() up to its sleep keeps the invariant.
LEMMA futex_op_condvar_waitInv ==
  ASSUME IInv, NEW t \in Threads, NEW c \in Condvars, NEW l \in Locks, NEW clock_id,
         futex_op_condvar_wait(t, c, l, clock_id)
  PROVE  IInv'
<1> DEFINE L == lock[l]
           N == NewCondvar(c, l)
           C == [N EXCEPT !.word = TRUE]
           k == C.waitcount + 1
           C1 == [C EXCEPT !.waitcount = k]
           q == Append(C.waiters, t)
           C2 == [C1 EXCEPT !.waiters = q]
           res == futex_lock_unlock(L, t)
           j == res.lock.waitcount + 1
           M == [res.lock EXCEPT !.waitcount = j]
           ew == futex_op_poll("CONDVAR", res.error)
<1>1. LockOK(L) /\ L.waitcount \in Nat /\ CondvarOK(condvar[c]) /\ condvar[c].waitcount \in Nat
  BY DEF IInv, LocksInv, LockInv, LockOK, LockState, CondvarsInv, CondvarInv, CondvarOK, CondvarState
<1>2. /\ sig[t] = NoCondvar /\ pc[t] \notin Sleeping /\ cv[t] = NoCondvar /\ c # NoCondvar
      /\ UNCHANGED <<sig, crashed>>
  <2>1. sig[t] = NoCondvar /\ pc[t] \notin Sleeping /\ UNCHANGED <<sig, crashed>>
    BY DEF futex_op_condvar_wait, Free, Sleeping
  <2>2. QED BY <2>1, Awake, AddressAssumption
<1>3. ~InQueue(L.writers, t) /\ ~InQueue(L.readers, t) /\ ~InQueue(condvar[c].waiters, t)
  BY <1>2, Awake
<1>4. /\ res.error \in {"0", "EPERM"}
      /\ LockOK(res.lock) /\ res.lock.waitcount = L.waitcount
      /\ \A u : InQueue(res.lock.writers, u) => InQueue(L.writers, u)
      /\ \A u : InQueue(res.lock.readers, u) => InQueue(L.readers, u)
  BY <1>1, UnlockOK
<1>5. \A u \in Threads : ~(InQueue(L.writers, u) /\ InQueue(condvar[c].waiters, u))
  BY DEF IInv, OneQueue
<1>6. \/ /\ \E error \in {"EINVAL", "ENOMEM"} : ret' = [ret EXCEPT ![t] = futex_op_poll("CONDVAR", error)]
         /\ UNCHANGED <<lock, futex_lock_list, condvar, futex_condvar_list, pc, at, cv>>
      \/ /\ c \in futex_condvar_list => condvar[c].lock = l
         /\ \/ /\ res.error # "0" /\ futex_condvar_release(c, futex_condvar_unmanage(C))
               /\ futex_lock_release(l, res.lock)
               /\ ret' = [ret EXCEPT ![t] = ew] /\ UNCHANGED <<pc, at, cv>>
            \/ /\ res.error = "0" /\ futex_condvar_release(c, C2) /\ futex_lock_release(l, M)
               /\ Goes(t, "cvwait", l, c, Pending("0"))
            \/ Relock(t, c, futex_condvar_unmanage(C1), l, res.lock, "ENOTSUP")
  BY LookupLocked DEF futex_op_condvar_wait, Goes
<1>7. /\ "cvwait" \in PCs /\ "cvwait" \in Sleeping /\ "cvwait" \in WriteSleep /\ "cvwait" # "idle"
      /\ c \in Condvars \cup {NoCondvar} /\ l \in Locks \cup {NoLock} /\ "ENOTSUP" \in Errors
  BY DEF PCs, Sleeping, WriteSleep, Errors
<1>8. ew \in Events /\ Pending("0") \in Events
      /\ \A error \in {"EINVAL", "ENOMEM"} : futex_op_poll("CONDVAR", error) \in Events
  BY <1>4, EventTypesOK DEF Errors, EventTypes
<1> HIDE DEF N, res
<1>9. CASE /\ \E error \in {"EINVAL", "ENOMEM"} : ret' = [ret EXCEPT ![t] = futex_op_poll("CONDVAR", error)]
           /\ UNCHANGED <<lock, futex_lock_list, condvar, futex_condvar_list, pc, at, cv>>
  <2>1. ThreadStep(t)
    BY Zenon, <1>2, <1>8, <1>9, RetStep
  <2>2. QED BY <1>9, <2>1, ReturnInv
<1>10. ASSUME c \in futex_condvar_list => condvar[c].lock = l
       PROVE  /\ C \in CondvarState /\ C.word /\ C.lock = l /\ C.waiters = condvar[c].waiters
              /\ C.waitcount = condvar[c].waitcount /\ Once(C.waiters)
              /\ \A u \in Threads \ {t} : cv[u] = c => l = condvar[c].lock
  <2>1. /\ N \in CondvarState /\ N.lock = l /\ N.waiters = condvar[c].waiters
        /\ N.waitcount = condvar[c].waitcount
        /\ \A u \in Threads : cv[u] = c => condvar[c].lock = l
    BY <1>10, NewCondvarOK DEF N
  <2>2. C \in CondvarState
    BY Zenon, <2>1 DEF CondvarState
  <2>3. C.word /\ C.lock = N.lock /\ C.waiters = N.waiters /\ C.waitcount = N.waitcount
    BY SMTT(30), <2>1 DEF CondvarState
  <2> HIDE DEF C
  <2>4. QED BY <1>1, <2>1, <2>2, <2>3 DEF CondvarOK
<1> HIDE DEF C
<1>11. CASE /\ c \in futex_condvar_list => condvar[c].lock = l
            /\ res.error # "0" /\ futex_condvar_release(c, futex_condvar_unmanage(C))
            /\ futex_lock_release(l, res.lock)
            /\ ret' = [ret EXCEPT ![t] = ew] /\ UNCHANGED <<pc, at, cv>>
  <2> DEFINE D == futex_condvar_unmanage(C)
  <2>1. CondvarOK(D) /\ D.waiters = condvar[c].waiters /\ D.lock = l /\ D.waitcount = condvar[c].waitcount
    BY <1>10, <1>11, CondvarUnmanageOK
  <2>2. OnlyMoves(t) /\ ThreadStep(t) /\ pc'[t] \notin Sleeping /\ cv'[t] = NoCondvar
    BY Zenon, <1>2, <1>8, <1>11, RetStep
  <2>3. futex_condvar_release(c, D)
    BY <1>11
  <2> HIDE DEF D
  <2>4. /\ res.lock.waitcount = lock[l].waitcount - One(pc[t] \in Sleeping) + One(pc'[t] \in Sleeping)
        /\ D.waitcount = condvar[c].waitcount - One(cv[t] = c) + One(cv'[t] = c)
    BY <1>1, <1>2, <1>4, <2>1, <2>2 DEF One
  <2>5. /\ \A u \in Threads : InQueue(res.lock.writers, u) =>
             IF u = t THEN pc'[t] \in WriteSleep
             ELSE InQueue(lock[l].writers, u) \/ (InQueue(condvar[c].waiters, u) /\ at[u] = l)
        /\ \A u \in Threads : InQueue(res.lock.readers, u) =>
             IF u = t THEN pc'[t] = "rdwait" ELSE InQueue(lock[l].readers, u)
        /\ \A u \in Threads : InQueue(D.waiters, u) =>
             IF u = t THEN pc'[t] = "cvwait" /\ cv'[t] = c ELSE InQueue(condvar[c].waiters, u)
        /\ \A u \in Threads : ~(InQueue(res.lock.writers, u) /\ InQueue(D.waiters, u))
    BY <1>3, <1>4, <1>5, <2>1
  <2>6. \A u \in Threads \ {t} : cv[u] = c => D.lock = condvar[c].lock
    BY SMTT(30), <1>10, <1>11, <2>1
  <2>7. QED BY Zenon, <1>2, <1>4, <1>11, <2>1, <2>2, <2>3, <2>4, <2>5, <2>6, CondvarActionStep
<1>12. CASE /\ c \in futex_condvar_list => condvar[c].lock = l
            /\ res.error = "0" /\ futex_condvar_release(c, C2) /\ futex_lock_release(l, M)
            /\ Goes(t, "cvwait", l, c, Pending("0"))
  <2>1. /\ C \in CondvarState /\ C.word /\ C.lock = l /\ C.waiters = condvar[c].waiters
        /\ C.waitcount = condvar[c].waitcount /\ Once(C.waiters)
    BY <1>10, <1>12
  <2>2. k \in Nat /\ k = condvar[c].waitcount + 1 /\ j \in Nat /\ j = L.waitcount + 1
    BY <1>1, <1>4, <2>1
  <2>3. /\ q \in Seq(Threads) /\ Once(q) /\ q # <<>>
        /\ \A u : InQueue(q, u) <=> InQueue(condvar[c].waiters, u) \/ u = t
    BY <1>3, <2>1, AppendQueue DEF CondvarState
  <2> HIDE DEF k, q, j
  <2>4. C2 \in CondvarState
    BY Zenon, <2>1, <2>2, <2>3 DEF CondvarState
  <2>5. C2.word /\ C2.lock = l /\ C2.waiters = q /\ C2.waitcount = k
    BY <2>1 DEF CondvarState
  <2>6. LockOK(M) /\ M.waitcount = j /\ M.writers = res.lock.writers /\ M.readers = res.lock.readers
    BY <1>4, <2>2, CountOK
  <2> HIDE DEF C2, M
  <2>7. OnlyMoves(t) /\ ThreadStep(t) /\ pc'[t] = "cvwait" /\ at'[t] = l /\ cv'[t] = c
    BY <1>2, <1>7, <1>8, <1>12, CvMoveStep
  <2>8. /\ M.waitcount = lock[l].waitcount - One(pc[t] \in Sleeping) + One(pc'[t] \in Sleeping)
        /\ C2.waitcount = condvar[c].waitcount - One(cv[t] = c) + One(cv'[t] = c)
    BY <1>1, <1>2, <1>7, <2>2, <2>5, <2>6, <2>7 DEF One
  <2>9. /\ \A u \in Threads : InQueue(M.writers, u) =>
             IF u = t THEN pc'[t] \in WriteSleep
             ELSE InQueue(lock[l].writers, u) \/ (InQueue(condvar[c].waiters, u) /\ at[u] = l)
        /\ \A u \in Threads : InQueue(M.readers, u) =>
             IF u = t THEN pc'[t] = "rdwait" ELSE InQueue(lock[l].readers, u)
        /\ \A u \in Threads : InQueue(C2.waiters, u) =>
             IF u = t THEN pc'[t] = "cvwait" /\ cv'[t] = c ELSE InQueue(condvar[c].waiters, u)
        /\ \A u \in Threads : ~(InQueue(M.writers, u) /\ InQueue(C2.waiters, u))
    BY <1>3, <1>4, <1>5, <2>3, <2>5, <2>6, <2>7
  <2>10. CondvarOK(C2) /\ \A u \in Threads \ {t} : cv[u] = c => C2.lock = condvar[c].lock
    BY SMTT(30), <1>10, <1>12, <2>3, <2>4, <2>5 DEF CondvarOK
  <2>11. /\ pc[t] \in Sleeping => at[t] = l
         /\ pc'[t] \in Sleeping => at'[t] = l
         /\ cv[t] \in {NoCondvar, c} /\ cv'[t] \in {NoCondvar, c}
         /\ cv'[t] = c => at'[t] = C2.lock
    BY Zenon, <1>2, <2>5, <2>7
  <2>12. LockOK(M) /\ futex_condvar_release(c, C2) /\ futex_lock_release(l, M)
    BY Zenon, <1>12, <2>6
  <2>13. QED BY SMTT(60), <2>7, <2>8, <2>9, <2>10, <2>11, <2>12, CondvarActionStep
<1>13. CASE /\ c \in futex_condvar_list => condvar[c].lock = l
            /\ Relock(t, c, futex_condvar_unmanage(C1), l, res.lock, "ENOTSUP")
  <2> DEFINE D == futex_condvar_unmanage(C1)
  <2>1. /\ C \in CondvarState /\ C.word /\ C.lock = l /\ C.waiters = condvar[c].waiters
        /\ C.waitcount = condvar[c].waitcount /\ Once(C.waiters)
    BY <1>10, <1>13
  <2>2. k \in Nat /\ k = condvar[c].waitcount + 1
    BY <1>1, <2>1
  <2> HIDE DEF k
  <2>3. C1 \in CondvarState
    BY <2>1, <2>2 DEF CondvarState
  <2>4. C1.word /\ C1.lock = l /\ C1.waiters = condvar[c].waiters /\ C1.waitcount = k
    BY <2>1 DEF CondvarState
  <2> HIDE DEF C1
  <2>5. CondvarOK(D) /\ D.waiters = condvar[c].waiters /\ D.lock = l /\ D.waitcount = k
    BY <2>1, <2>3, <2>4, CondvarUnmanageOK
  <2>6. Relock(t, c, D, l, res.lock, "ENOTSUP")
    BY SMTT(30), <1>13
  <2> HIDE DEF D
  <2>7. /\ D.waitcount = condvar[c].waitcount - One(cv[t] = c) + 1
        /\ res.lock.waitcount = lock[l].waitcount - One(pc[t] \in Sleeping)
    BY <1>1, <1>2, <1>4, <2>2, <2>5 DEF One
  <2>8. /\ \A u \in Threads : InQueue(res.lock.writers, u) => u # t /\ InQueue(lock[l].writers, u)
        /\ \A u \in Threads : InQueue(res.lock.readers, u) => u # t /\ InQueue(lock[l].readers, u)
        /\ \A u \in Threads : InQueue(D.waiters, u) => u # t /\ InQueue(condvar[c].waiters, u)
    BY SMTT(30), <1>3, <1>4, <2>5
  <2>9. \A u \in Threads \ {t} : cv[u] = c => D.lock = condvar[c].lock
    BY <1>10, <1>13, <2>5
  <2>10. QED BY <1>2, <1>4, <1>7, <2>5, <2>6, <2>7, <2>8, <2>9, RelockInv
<1>14. QED BY <1>6, <1>9, <1>11, <1>12, <1>13

\* futex_op_condvar_signal() moves no thread, its caller included.
LEMMA SignalStep ==
  ASSUME IInv, NEW t \in Threads, sig[t] # NoCondvar, UNCHANGED <<pc, at, cv>>,
         sig' = [sig EXCEPT ![t] = NoCondvar],
         ret' \in [Threads -> Events], crashed' \in BOOLEAN
  PROVE  OnlyMoves(t) /\ ThreadStep(t) /\ pc[t] \notin Sleeping
BY Zenon DEF IInv, TypeOK, ThreadsInv, ThreadInv, OnlyMoves, ThreadStep, Sleeping

\* The waiters R move from the queue of the condition variable to that of
\* the lock, or the first waiter leaves with the lock; q stay behind.
LEMMA SignalDoneInv ==
  ASSUME IInv, NEW t \in Threads, NEW c \in Condvars, NEW l \in Locks, condvar[c].lock = l,
         OnlyMoves(t), ThreadStep(t), pc[t] \notin Sleeping, UNCHANGED <<pc, at, cv>>,
         NEW T \in LockState, SameQueues(lock[l], T),
         NEW R \in Seq(Threads), Once(R), NEW q \in Seq(Threads), Once(q),
         IF R = <<>> THEN Managed(T) ELSE Pinned(T),
         \A u : InQueue(R, u) \/ InQueue(q, u) => InQueue(condvar[c].waiters, u),
         \A u : ~(InQueue(R, u) /\ InQueue(q, u)),
         futex_condvar_release(c, futex_condvar_unmanage([condvar[c] EXCEPT !.waiters = q])),
         futex_lock_release(l, [T EXCEPT !.writers = T.writers \o R])
  PROVE  IInv'
<1> DEFINE M == [T EXCEPT !.writers = T.writers \o R]
           C == [condvar[c] EXCEPT !.waiters = q]
           D == futex_condvar_unmanage(C)
<1>1. LockOK(lock[l]) /\ CondvarOK(condvar[c]) /\ condvar[c].waitcount \in Nat /\ lock[l].waitcount \in Nat
  BY SMTT(30) DEF IInv, LocksInv, LockInv, LockOK, LockState, CondvarsInv, CondvarInv, CondvarOK, CondvarState
<1>2. /\ \A u \in Threads : ~(InQueue(lock[l].writers, u) /\ InQueue(condvar[c].waiters, u))
      /\ \A u \in Threads : InQueue(condvar[c].waiters, u) => at[u] = l
  BY Zenon DEF IInv, OneQueue, CondvarsInv, CondvarInv, WaitersOf
<1>3. /\ T.writers = lock[l].writers /\ T.readers = lock[l].readers /\ T.waitcount = lock[l].waitcount
      /\ Once(T.writers) /\ Once(T.readers)
  BY <1>1 DEF SameQueues, LockOK
<1>4. /\ LockOK(M) /\ M.waitcount = T.waitcount /\ M.readers = T.readers
      /\ \A u : InQueue(M.writers, u) <=> InQueue(T.writers, u) \/ InQueue(R, u)
  BY Zenon, <1>2, <1>3, RequeueOK
<1>5. C \in CondvarState
  BY Zenon, <1>1 DEF CondvarOK, CondvarState
<1>6. /\ C.waiters = q /\ C.word = condvar[c].word /\ C.lock = l
      /\ C.waitcount = condvar[c].waitcount
  BY <1>1 DEF CondvarOK, CondvarState
<1>7. q # <<>> => condvar[c].word
  <2>1. q # <<>> => InQueue(q, Head(q))
    BY EmptyQueue
  <2>2. q # <<>> => condvar[c].waiters # <<>>
    BY <1>1, <2>1, EmptyQueue DEF CondvarOK, CondvarState
  <2>3. QED BY <1>1, <2>2 DEF CondvarOK
<1>8. futex_condvar_release(c, D) /\ futex_lock_release(l, M)
  BY SMTT(30)
<1> HIDE DEF C, M
<1>9. CondvarOK(D) /\ D.waiters = q /\ D.lock = l /\ D.waitcount = condvar[c].waitcount
  BY <1>5, <1>6, <1>7, CondvarUnmanageOK
<1> HIDE DEF D
<1>10. /\ ~InQueue(lock[l].writers, t) /\ ~InQueue(lock[l].readers, t)
       /\ ~InQueue(condvar[c].waiters, t) /\ cv[t] = NoCondvar /\ c # NoCondvar
  BY SMTT(30), Awake, AddressAssumption
<1>11. /\ M.waitcount = lock[l].waitcount - One(pc[t] \in Sleeping) + One(pc'[t] \in Sleeping)
       /\ D.waitcount = condvar[c].waitcount - One(cv[t] = c) + One(cv'[t] = c)
  BY <1>1, <1>3, <1>4, <1>9, <1>10 DEF One
<1>12. /\ \A u \in Threads : InQueue(M.writers, u) =>
            IF u = t THEN pc'[t] \in WriteSleep
            ELSE InQueue(lock[l].writers, u) \/ (InQueue(condvar[c].waiters, u) /\ at[u] = l)
       /\ \A u \in Threads : InQueue(M.readers, u) =>
            IF u = t THEN pc'[t] = "rdwait" ELSE InQueue(lock[l].readers, u)
       /\ \A u \in Threads : InQueue(D.waiters, u) =>
            IF u = t THEN pc'[t] = "cvwait" /\ cv'[t] = c ELSE InQueue(condvar[c].waiters, u)
       /\ \A u \in Threads : ~(InQueue(M.writers, u) /\ InQueue(D.waiters, u))
  BY <1>2, <1>3, <1>4, <1>9, <1>10
<1>13. pc'[t] \notin Sleeping /\ cv'[t] = NoCondvar
       /\ \A u \in Threads \ {t} : cv[u] = c => D.lock = condvar[c].lock
  BY <1>9, <1>10
<1>14. QED BY Zenon, <1>4, <1>8, <1>9, <1>10, <1>11, <1>12, <1>13, CondvarActionStep

\* futex_op_condvar_signal() keeps the invariant, whatever the number of
\* waiters it is asked to wake up.
LEMMA futex_op_condvar_signalInv ==
  ASSUME IInv, NEW t \in Threads, NEW nwaiters \in NWaiters, futex_op_condvar_signal(t, nwaiters)
  PROVE  IInv'
<1> DEFINE c == sig[t]
           C == condvar[c]
           l == C.lock
           L == lock[l]
           fq == C.waiters
           force == nwaiters > 1 /\ Len(fq) > 1
           try == futex_lock_trywrlock(L, Head(fq), force)
           SignalDone(L1, q) ==
             /\ futex_condvar_release(c, futex_condvar_unmanage([C EXCEPT !.waiters = q]))
             /\ futex_lock_release(l, L1)
<1>1. c # NoCondvar /\ sig' = [sig EXCEPT ![t] = NoCondvar] /\ UNCHANGED <<pc, at, cv>> /\ nwaiters \in Nat
  BY Zenon, EnvironmentAssumption DEF futex_op_condvar_signal
<1>2. c \in Condvars
  BY <1>1 DEF IInv, TypeOK
<1>3. Returned("0") \in Events /\ Returned("ENOENT") \in Events /\ Returned("EDEADLK") \in Events
  BY EventTypesOK DEF Errors, EventTypes
<1>4. CASE UNCHANGED <<lock, futex_lock_list, condvar, futex_condvar_list, ret>> /\ crashed' = TRUE
  <2>1. ret' \in [Threads -> Events] /\ crashed' \in BOOLEAN
    BY <1>4 DEF IInv, TypeOK
  <2>2. QED BY Zenon, <1>1, <1>4, <2>1, SignalStep, ReturnInv
<1>5. CASE /\ UNCHANGED <<lock, futex_lock_list, condvar, futex_condvar_list, crashed>>
           /\ \E error \in {"0", "ENOENT"} : ret' = [ret EXCEPT ![t] = Returned(error)]
  <2>1. ret' \in [Threads -> Events] /\ crashed' \in BOOLEAN
    BY SMTT(30), <1>3, <1>5 DEF IInv, TypeOK
  <2>2. QED BY Zenon, <1>1, <1>5, <2>1, SignalStep, ReturnInv
<1>6. CASE /\ nwaiters > 0 /\ c \in futex_condvar_list /\ fq # <<>> /\ UNCHANGED crashed
           /\ \/ /\ try.error = "0"
                 /\ SignalDone([try.lock EXCEPT !.writers = try.lock.writers \o Requeued(Tail(fq), nwaiters - 1)],
                               Remaining(Tail(fq), nwaiters - 1))
                 /\ ret' = [ret EXCEPT ![t] = Returned("0")]
              \/ /\ try.error = "EBUSY"
                 /\ SignalDone([try.lock EXCEPT !.writers = try.lock.writers \o Requeued(fq, nwaiters)],
                               Remaining(fq, nwaiters))
                 /\ ret' = [ret EXCEPT ![t] = Returned("0")]
              \/ /\ try.error \notin {"0", "EBUSY"} /\ ret' = [ret EXCEPT ![t] = Returned(try.error)]
                 /\ UNCHANGED <<lock, futex_lock_list, condvar, futex_condvar_list>>
  <2>1. CondvarOK(C) /\ fq \in Seq(Threads) /\ Once(fq) /\ Head(fq) \in Threads /\ InQueue(fq, Head(fq))
    BY Zenon, <1>2, <1>6, EmptyQueue DEF IInv, CondvarsInv, CondvarInv, CondvarOK, CondvarState
  <2>2. l \in Locks
    <3>1. pc[Head(fq)] = "cvwait" /\ Head(fq) \in WaitersOf(c)
      BY Zenon, <1>2, <2>1 DEF IInv, CondvarsInv, CondvarInv, WaitersOf
    <3>2. at[Head(fq)] = l
      BY <1>2, <3>1 DEF IInv, CondvarsInv, CondvarInv
    <3>3. QED BY <2>1, <3>1, <3>2 DEF IInv, ThreadsInv, ThreadInv
  <2>3. LockOK(L)
    BY <2>2 DEF IInv, LocksInv, LockInv
  <2>4. force \in BOOLEAN
    OBVIOUS
  <2>5. /\ try.error \in {"0", "EBUSY", "EDEADLK"}
        /\ try.lock \in LockState /\ SameQueues(L, try.lock)
        /\ try.error = "0" => IF force THEN Pinned(try.lock) ELSE Managed(try.lock)
        /\ try.error = "EBUSY" => Pinned(try.lock)
    <3> HIDE DEF force
    <3>1. QED BY Zenon, <2>1, <2>3, <2>4, TrywrlockOK
  <2>6. ret' \in [Threads -> Events] /\ crashed' \in BOOLEAN
    <3> HIDE DEF try
    <3>1. QED BY <1>3, <1>6, <2>5 DEF IInv, TypeOK
  <2>7. OnlyMoves(t) /\ ThreadStep(t) /\ pc[t] \notin Sleeping
    BY Zenon, <1>1, <2>6, SignalStep
  <2> HIDE DEF try
  <2>8. CASE /\ try.error = "0"
             /\ SignalDone([try.lock EXCEPT !.writers = try.lock.writers \o Requeued(Tail(fq), nwaiters - 1)],
                           Remaining(Tail(fq), nwaiters - 1))
    <3> DEFINE p == Tail(fq)
               n == nwaiters - 1
               R == Requeued(p, n)
               q == Remaining(p, n)
    <3>1. /\ p \in Seq(Threads) /\ Once(p) /\ (Len(fq) > 1 <=> p # <<>>)
          /\ \A u : InQueue(p, u) => InQueue(fq, u)
      BY <1>6, <2>1, TailQueue
    <3>2. n \in Nat /\ (nwaiters > 1 <=> n # 0)
      BY <1>1, <1>6
    <3> HIDE DEF p, n
    <3>3. /\ R \in Seq(Threads) /\ q \in Seq(Threads) /\ Once(R) /\ Once(q)
          /\ \A u : InQueue(p, u) <=> InQueue(R, u) \/ InQueue(q, u)
          /\ \A u : ~(InQueue(R, u) /\ InQueue(q, u))
          /\ R # <<>> <=> p # <<>> /\ n # 0
      BY Zenon, <3>1, <3>2, RequeueQueue
    <3>4. IF R = <<>> THEN Managed(try.lock) ELSE Pinned(try.lock)
      BY <2>5, <2>8, <3>1, <3>2, <3>3
    <3>5. \A u : InQueue(R, u) \/ InQueue(q, u) => InQueue(condvar[c].waiters, u)
      BY <3>1, <3>3
    <3>6. /\ futex_condvar_release(c, futex_condvar_unmanage([condvar[c] EXCEPT !.waiters = q]))
          /\ futex_lock_release(l, [try.lock EXCEPT !.writers = try.lock.writers \o R])
      BY <2>8 DEF p, n
    <3> HIDE DEF R, q
    <3>7. condvar[c].lock = l
      OBVIOUS
    <3> HIDE DEF c, l
    <3>8. QED BY Zenon, <1>1, <1>2, <2>2, <2>5, <2>7, <3>3, <3>4, <3>5, <3>6, <3>7, SignalDoneInv
  <2>9. CASE /\ try.error = "EBUSY"
             /\ SignalDone([try.lock EXCEPT !.writers = try.lock.writers \o Requeued(fq, nwaiters)],
                           Remaining(fq, nwaiters))
    <3> DEFINE R == Requeued(fq, nwaiters)
               q == Remaining(fq, nwaiters)
    <3>1. /\ R \in Seq(Threads) /\ q \in Seq(Threads) /\ Once(R) /\ Once(q)
          /\ \A u : InQueue(fq, u) <=> InQueue(R, u) \/ InQueue(q, u)
          /\ \A u : ~(InQueue(R, u) /\ InQueue(q, u))
          /\ R # <<>> <=> fq # <<>> /\ nwaiters # 0
      <4> HIDE DEF fq
      <4>1. QED BY Zenon, <1>1, <2>1, RequeueQueue
    <3>2. IF R = <<>> THEN Managed(try.lock) ELSE Pinned(try.lock)
      <4>1. fq # <<>> /\ nwaiters # 0
        BY <1>1, <1>6
      <4>2. R # <<>>
        BY <3>1, <4>1
      <4>3. Pinned(try.lock)
        BY <2>5, <2>9
      <4>4. QED BY <4>2, <4>3
    <3>3. /\ futex_condvar_release(c, futex_condvar_unmanage([condvar[c] EXCEPT !.waiters = q]))
          /\ futex_lock_release(l, [try.lock EXCEPT !.writers = try.lock.writers \o R])
      BY <2>9
    <3> HIDE DEF R, q
    <3>4. condvar[c].lock = l
      OBVIOUS
    <3> HIDE DEF c, l
    <3>5. QED BY Zenon, <1>1, <1>2, <2>2, <2>5, <2>7, <3>1, <3>2, <3>3, <3>4, SignalDoneInv
  <2>10. CASE UNCHANGED <<lock, futex_lock_list, condvar, futex_condvar_list>>
    BY <1>1, <2>7, <2>10, ReturnInv
  <2>11. QED BY <1>6, <2>8, <2>9, <2>10
<1>7. QED BY Zenon, <1>4, <1>5, <1>6 DEF futex_op_condvar_signal

(***************************************************************************)
(* The invariant is inductive, and implies the properties.                 *)
(***************************************************************************)
LEMMA InitIInv == Init => IInv
<1> SUFFICES ASSUME Init PROVE IInv
  OBVIOUS
<1> DEFINE L == [km |-> FALSE, wr |-> FALSE, n |-> 0, owner |-> LOCK_UNMANAGED,
                 writers |-> <<>>, readers |-> <<>>, waitcount |-> 0]
           C == [word |-> FALSE, lock |-> NoLock, waiters |-> <<>>, waitcount |-> 0]
<1>1. <<>> \in Seq(Threads) /\ Once(<<>>) /\ \A u : ~InQueue(<<>>, u)
  <2>1. <<>> \in Seq(Threads)
    BY EmptySeq
  <2>2. QED BY <2>1, EmptyQueue, Zenon
<1>2. L \in LockState
  BY <1>1 DEF LockState, LOCK_UNMANAGED
<1>3. C \in CondvarState
  BY <1>1 DEF CondvarState
<1>4. /\ L.writers = <<>> /\ L.readers = <<>> /\ L.waitcount = 0 /\ L.km = FALSE
      /\ L.owner = LOCK_UNMANAGED
      /\ C.waiters = <<>> /\ C.waitcount = 0 /\ C.word = FALSE
  OBVIOUS
<1>5. Returned("0") \in Events
  BY EventTypesOK DEF Errors, EventTypes
<1>6. lock = [l \in Locks |-> L] /\ condvar = [c \in Condvars |-> C]
  BY SMTT(30) DEF Init
<1> HIDE DEF L, C
<1>7. LockOK(L) /\ CondvarOK(C)
  BY <1>1, <1>2, <1>3, <1>4 DEF LockOK, Managed, Queued, CondvarOK
<1>8. TypeOK
  BY Zenon, <1>2, <1>3, <1>5, <1>6 DEF Init, TypeOK, PCs
<1>9. LocksInv
  <2> SUFFICES ASSUME NEW l \in Locks PROVE LockInv(l)
    BY DEF LocksInv
  <2>1. SleepersOn(l) = {} /\ lock[l] = L
    BY <1>6 DEF Init, SleepersOn, Sleeping
  <2>2. QED BY Zenon, <1>1, <1>4, <1>7, <2>1, FS_EmptySet DEF LockInv, Init
<1>10. CondvarsInv
  <2> SUFFICES ASSUME NEW c \in Condvars PROVE CondvarInv(c)
    BY DEF CondvarsInv
  <2>1. WaitersOf(c) = {} /\ condvar[c] = C
    BY <1>6, AddressAssumption DEF Init, WaitersOf
  <2>2. QED BY Zenon, <1>1, <1>4, <1>7, <2>1, FS_EmptySet DEF CondvarInv, Init
<1>11. ThreadsInv
  BY DEF Init, ThreadsInv, ThreadInv
<1>12. OneQueue
  BY <1>1, <1>4, <1>6 DEF OneQueue
<1>13. QED BY <1>8, <1>9, <1>10, <1>11, <1>12 DEF IInv

\* Every step of the futex operations and of the program keeps the invariant.
LEMMA NextIInv == IInv /\ [Next]_vars => IInv'
<1> SUFFICES ASSUME IInv, [Next]_vars PROVE IInv'
  OBVIOUS
<1>1. CASE Next
  <2>1. PICK t \in Threads :
          \/ \E l \in Locks :
               \/ UserRdlock(t, l)
               \/ UserWrlock(t, l)
               \/ \E clock_id \in Clocks :
                    \/ futex_op_lock_rdlock(t, l, clock_id)
                    \/ futex_op_lock_wrlock(t, l, clock_id)
                    \/ \E c \in Condvars : futex_op_condvar_wait(t, c, l, clock_id)
               \/ futex_op_lock_unlock(t, l)
          \/ UserWrunlock(t)
          \/ UserRdunlock(t)
          \/ \E c \in Condvars : UserSignal(t, c)
          \/ \E nwaiters \in NWaiters : futex_op_condvar_signal(t, nwaiters)
          \/ ResumeLock(t)
          \/ ResumeCondvar(t)
          \/ TimeoutLock(t)
          \/ TimeoutCondvar(t)
    BY <1>1 DEF Next
  <2>2. QED
    BY <2>1, UserRdlockInv, UserWrlockInv, UserWrunlockInv, UserRdunlockInv, UserSignalInv,
       futex_op_lock_rdlockInv, futex_op_lock_wrlockInv, futex_op_lock_unlockInv,
       futex_op_condvar_waitInv, futex_op_condvar_signalInv,
       ResumeLockInv, ResumeCondvarInv, TimeoutLockInv, TimeoutCondvarInv
<1>2. CASE UNCHANGED vars
  <2>1. UNCHANGED <<lock, futex_lock_list, condvar, futex_condvar_list, pc, at, cv, sig, ret, crashed>>
    BY <1>2 DEF vars
  <2>2. /\ \A l \in Locks : SleepersOn(l)' = SleepersOn(l)
        /\ \A c \in Condvars : WaitersOf(c)' = WaitersOf(c)
    BY SMTT(30), <2>1 DEF SleepersOn, WaitersOf
  <2>3. TypeOK' /\ ThreadsInv' /\ OneQueue'
    BY SMTT(30), <2>1 DEF IInv, TypeOK, ThreadsInv, ThreadInv, OneQueue
  <2>4. LocksInv'
    BY SMTT(30), <2>1, <2>2 DEF IInv, LocksInv, LockInv
  <2>5. CondvarsInv'
    BY <2>1, <2>2 DEF IInv, CondvarsInv, CondvarInv
  <2>6. QED BY <2>3, <2>4, <2>5 DEF IInv
<1>3. QED BY <1>1, <1>2

\* The inductive invariant of futex.c: the asserts of locks and condition
\* variables, exact wait counts, and queues that hold each sleeper once.
THEOREM Invariance == Spec => []IInv
BY InitIInv, NextIInv, PTL DEF Spec

\* Type correctness.
THEOREM TypeCorrect == Spec => []TypeOK
<1>1. IInv => TypeOK
  BY DEF IInv
<1>2. QED BY <1>1, Invariance, PTL

\* futex_lock_assert() and the kernel-managed bit of the word: a lock is
\* managed exactly when threads queue for it, for any number of threads and
\* locks, and whether or not programs misuse them.
THEOREM ManagedCorrect == Spec => []ManagedIffWaiters
<1>1. IInv => ManagedIffWaiters
  <2> SUFFICES ASSUME IInv, NEW l \in Locks,
                      NEW waiters, waiters = (lock[l].writers # <<>> \/ lock[l].readers # <<>>)
               PROVE  /\ lock[l].km = waiters
                      /\ (lock[l].owner # LOCK_UNMANAGED) = waiters
                      /\ waiters => l \in futex_lock_list
    BY Zenon DEF ManagedIffWaiters
  <2>1. LockInv(l) /\ lock[l] \in LockState
    BY SMTT(30) DEF IInv, LocksInv, LockInv, LockOK
  <2>2. lock[l].km = waiters /\ (lock[l].owner # LOCK_UNMANAGED) = waiters
    BY <2>1 DEF LockInv, LockOK, Managed, Queued, LockState
  <2>3. ASSUME waiters PROVE l \in futex_lock_list
    <3>1. \E u \in Threads : InQueue(lock[l].writers, u) \/ InQueue(lock[l].readers, u)
      BY Zenon, <2>1, <2>3, EmptyQueue DEF LockState
    <3>2. SleepersOn(l) # {}
      BY <2>1, <3>1 DEF LockInv, SleepersOn, WriteSleep, Sleeping
    <3>3. QED BY <2>1, <3>2 DEF LockInv
  <2>4. QED BY <2>2, <2>3
<1>2. QED BY <1>1, Invariance, PTL

\* No thread wakes up in futex_queue_sleep() to a freed object, and no object
\* outlives its last sleeper: the wait counts are exact.
THEOREM CountsCorrect == Spec => []ObjectsCountTheirSleepers
<1>1. IInv => ObjectsCountTheirSleepers
  <2> SUFFICES ASSUME IInv PROVE ObjectsCountTheirSleepers
    OBVIOUS
  <2>1. \A c \in Condvars : \A t \in WaitersOf(c) : pc[t] \in Sleeping
    BY AddressAssumption DEF IInv, ThreadsInv, ThreadInv, WaitersOf, Sleeping
  <2>2. QED BY <2>1 DEF IInv, LocksInv, LockInv, CondvarsInv, CondvarInv, ObjectsCountTheirSleepers
<1>2. QED BY <1>1, Invariance, PTL

\* The word of a condition variable tells userspace the truth about waiters.
THEOREM CondvarWordCorrect == Spec => []CondvarWordHonest
<1>1. IInv => CondvarWordHonest
  BY DEF IInv, CondvarsInv, CondvarInv, CondvarOK, CondvarWordHonest
<1>2. QED BY <1>1, Invariance, PTL

\* The TAILQs of futex.c hold only threads that sleep for them, each once.
THEOREM QueuesCorrect == Spec => []QueuesHoldSleepers
<1>1. IInv => QueuesHoldSleepers
  <2> SUFFICES ASSUME IInv PROVE QueuesHoldSleepers
    OBVIOUS
  <2>1. \A l \in Locks :
          /\ Once(lock[l].writers) /\ Once(lock[l].readers)
          /\ \A t \in Threads :
               /\ InQueue(lock[l].writers, t) =>
                    pc[t] \in {"wrwait", "cvwait", "relock"} /\ at[t] = l
               /\ InQueue(lock[l].readers, t) => pc[t] = "rdwait" /\ at[t] = l
    BY DEF IInv, LocksInv, LockInv, LockOK, WriteSleep
  <2>2. \A c \in Condvars : \A t \in Threads :
          InQueue(condvar[c].waiters, t) =>
            pc[t] = "cvwait" /\ cv[t] = c /\ ~InQueue(lock[at[t]].writers, t)
    BY DEF IInv, CondvarsInv, CondvarInv, ThreadsInv, ThreadInv, OneQueue
  <2>3. \A c \in Condvars : Once(condvar[c].waiters)
    BY DEF IInv, CondvarsInv, CondvarInv, CondvarOK
  <2>4. QED BY <2>1, <2>2, <2>3 DEF QueuesHoldSleepers
<1>2. QED BY <1>1, Invariance, PTL
=============================================================================
