---------------------------- MODULE FutexLockProofs ----------------------------
(***************************************************************************)
(* That one thread's step keeps the invariant of futex.c if it keeps its   *)
(* objects consistent, and that the program's own steps and the operations *)
(* on locks do.                                                            *)
(***************************************************************************)
EXTENDS FutexObjectProofs

\* What an action does to the variables that no queue depends on.
ThreadStep(t) ==
  /\ cv' \in [Threads -> Condvars \cup {NoCondvar}]
  /\ sig' \in [Threads -> Condvars \cup {NoCondvar}]
  /\ ret' \in [Threads -> Events]
  /\ crashed' \in BOOLEAN
  /\ \A u \in Threads \ {t} : cv'[u] = cv[u] /\ sig'[u] = sig[u]
  /\ ThreadInv(t)'

\* A step of one thread leaves what is known of the others alone.
LEMMA ThreadsStep ==
  ASSUME IInv, NEW t \in Threads, OnlyMoves(t), ThreadStep(t)
  PROVE  ThreadsInv'
BY DEF IInv, ThreadsInv, ThreadInv, OnlyMoves, ThreadStep

\* An action on one lock that leaves the condition variables alone.
LEMMA LockActionStep ==
  ASSUME IInv, NEW t \in Threads, NEW l \in Locks, NEW M, LockOK(M),
         OnlyMoves(t), ThreadStep(t), futex_lock_release(l, M),
         UNCHANGED <<condvar, futex_condvar_list, cv>>, cv[t] = NoCondvar,
         pc[t] \in Sleeping => at[t] = l,
         pc'[t] \in Sleeping => at'[t] = l,
         \A u \in Threads : InQueue(M.writers, u) =>
           IF u = t THEN pc'[t] \in WriteSleep ELSE InQueue(lock[l].writers, u),
         \A u \in Threads : InQueue(M.readers, u) =>
           IF u = t THEN pc'[t] = "rdwait" ELSE InQueue(lock[l].readers, u),
         M.waitcount = lock[l].waitcount - One(pc[t] \in Sleeping) + One(pc'[t] \in Sleeping)
  PROVE  IInv'
<1>1. /\ lock' \in [Locks -> LockState] /\ futex_lock_list' \subseteq Locks
      /\ LocksInv'
  BY LockStep
<1>2. CondvarsInv'
  BY CondvarFrame
<1>3. ThreadsInv'
  BY ThreadsStep
<1>4. TypeOK'
  BY SMTT(30), <1>1 DEF IInv, TypeOK, OnlyMoves, ThreadStep
<1>5. OneQueue'
  <2> SUFFICES ASSUME NEW m \in Locks, NEW c \in Condvars, NEW u \in Threads,
                      InQueue(lock'[m].writers, u), InQueue(condvar'[c].waiters, u)
               PROVE  FALSE
    BY DEF OneQueue
  <2>1. condvar'[c] = condvar[c]
    OBVIOUS
  <2>2. cv[u] = c /\ c # NoCondvar
    BY <2>1, AddressAssumption DEF IInv, CondvarsInv, CondvarInv
  <2>3. m = l => lock'[m] = M
    BY DEF IInv, TypeOK, futex_lock_release
  <2>4. m # l => lock'[m] = lock[m]
    BY DEF IInv, TypeOK, futex_lock_release
  <2>5. QED BY <2>1, <2>2, <2>3, <2>4 DEF IInv, OneQueue
<1>6. QED BY <1>1, <1>2, <1>3, <1>4, <1>5 DEF IInv

\* An action on a lock and a condition variable.
LEMMA CondvarActionStep ==
  ASSUME IInv, NEW t \in Threads, NEW l \in Locks, NEW M, LockOK(M),
         NEW c \in Condvars, NEW D, CondvarOK(D),
         OnlyMoves(t), ThreadStep(t), futex_lock_release(l, M), futex_condvar_release(c, D),
         pc[t] \in Sleeping => at[t] = l,
         pc'[t] \in Sleeping => at'[t] = l,
         \A u \in Threads : InQueue(M.writers, u) =>
           IF u = t THEN pc'[t] \in WriteSleep
           ELSE InQueue(lock[l].writers, u) \/ (InQueue(condvar[c].waiters, u) /\ at[u] = l),
         \A u \in Threads : InQueue(M.readers, u) =>
           IF u = t THEN pc'[t] = "rdwait" ELSE InQueue(lock[l].readers, u),
         M.waitcount = lock[l].waitcount - One(pc[t] \in Sleeping) + One(pc'[t] \in Sleeping),
         cv[t] \in {NoCondvar, c}, cv'[t] \in {NoCondvar, c},
         D.waitcount = condvar[c].waitcount - One(cv[t] = c) + One(cv'[t] = c),
         \A u \in Threads : InQueue(D.waiters, u) =>
           IF u = t THEN pc'[t] = "cvwait" /\ cv'[t] = c ELSE InQueue(condvar[c].waiters, u),
         \A u \in Threads \ {t} : cv[u] = c => D.lock = condvar[c].lock,
         cv'[t] = c => at'[t] = D.lock,
         \A u \in Threads : ~(InQueue(M.writers, u) /\ InQueue(D.waiters, u))
  PROVE  IInv'
<1>1. \A u \in Threads : InQueue(condvar[c].waiters, u) => pc[u] = "cvwait" /\ cv[u] = c
  BY DEF IInv, CondvarsInv, CondvarInv
<1>2. /\ lock' \in [Locks -> LockState] /\ futex_lock_list' \subseteq Locks
      /\ LocksInv'
  BY SMTT(30), <1>1, LockStep
<1>3. \A u \in Threads \ {t} : cv'[u] = cv[u]
  BY Zenon DEF ThreadStep
<1>4. /\ condvar' \in [Condvars -> CondvarState] /\ futex_condvar_list' \subseteq Condvars
      /\ CondvarsInv'
  BY SMTT(30), <1>3, CondvarStep
<1>5. ThreadsInv'
  BY SMTT(30), ThreadsStep
<1>6. TypeOK'
  BY SMTT(30), <1>2, <1>4 DEF TypeOK, OnlyMoves, ThreadStep
<1>7. OneQueue'
  <2> SUFFICES ASSUME NEW m \in Locks, NEW d \in Condvars, NEW u \in Threads,
                      InQueue(lock'[m].writers, u), InQueue(condvar'[d].waiters, u)
               PROVE  FALSE
    BY SMTT(30) DEF OneQueue
  <2>1. /\ m = l => lock'[m] = M
        /\ m # l => lock'[m] = lock[m]
    BY DEF IInv, TypeOK, futex_lock_release
  <2>2. d = c => condvar'[d].waiters = D.waiters
    <3>1. [D EXCEPT !.lock = NoLock].waiters = D.waiters
      BY DEF CondvarOK, CondvarState
    <3>2. QED BY Zenon, <3>1 DEF IInv, TypeOK, futex_condvar_release
  <2>3. d # c => condvar'[d] = condvar[d]
    BY SMTT(30) DEF IInv, TypeOK, futex_condvar_release
  <2>4. /\ \A e \in Condvars : InQueue(condvar[e].waiters, u) => cv[u] = e /\ e # NoCondvar
        /\ ~(InQueue(lock[m].writers, u) /\ InQueue(condvar[d].waiters, u))
        /\ ~(InQueue(lock[m].writers, u) /\ InQueue(condvar[c].waiters, u))
        /\ InQueue(lock[m].writers, u) => pc[u] \in Sleeping /\ at[u] = m
    BY AddressAssumption DEF IInv, CondvarsInv, CondvarInv, OneQueue, LocksInv, LockInv, WriteSleep, Sleeping
  <2>5. CASE m = l /\ d = c BY Zenon, <2>1, <2>2, <2>5
  <2>6. CASE m = l /\ d # c BY SMTT(30), <2>1, <2>3, <2>4, <2>6
  <2>7. CASE m # l /\ d = c BY SMTT(30), <2>1, <2>2, <2>4, <2>7
  <2>8. CASE m # l /\ d # c BY <2>1, <2>3, <2>4, <2>8
  <2>9. QED BY <2>5, <2>6, <2>7, <2>8
<1>8. QED BY SMTT(30), <1>2, <1>4, <1>5, <1>6, <1>7 DEF IInv

(***************************************************************************)
(* The actions of the emulated program, and the operations on locks.       *)
(***************************************************************************)
LEMMA EventTypesOK ==
  ASSUME NEW error \in Errors, NEW type \in EventTypes
  PROVE  /\ futex_op_poll(type, error) \in Events
         /\ Returned(error) \in Events /\ Pending(error) \in Events
BY SMTT(30) DEF futex_op_poll, Returned, Pending, Events, EventTypes, Errors

\* A thread that runs is in no queue of futex.c.
LEMMA Awake ==
  ASSUME IInv, NEW t \in Threads, pc[t] \notin Sleeping
  PROVE  /\ cv[t] = NoCondvar
         /\ \A l \in Locks : ~InQueue(lock[l].writers, t) /\ ~InQueue(lock[l].readers, t)
         /\ \A c \in Condvars : ~InQueue(condvar[c].waiters, t)
BY DEF IInv, LocksInv, LockInv, CondvarsInv, CondvarInv, ThreadsInv, ThreadInv, WriteSleep, Sleeping

\* A call that is not a wait on a condition variable moves its thread to a
\* legal place.
LEMMA MoveStep ==
  ASSUME IInv, NEW t \in Threads, NEW p \in PCs \ {"cvwait", "relock"},
         NEW a \in Locks \cup {NoLock}, Become(t, p, a), p # "idle" => a \in Locks,
         cv[t] = NoCondvar, sig[t] = NoCondvar, UNCHANGED <<cv, sig, crashed>>,
         NEW e \in Events, ret' = [ret EXCEPT ![t] = e]
  PROVE  OnlyMoves(t) /\ ThreadStep(t) /\ pc'[t] = p /\ at'[t] = a
<1>1. OnlyMoves(t) /\ pc'[t] = p /\ at'[t] = a
  BY DEF IInv, TypeOK, OnlyMoves, Become
<1>2. ThreadStep(t)
  BY SMTT(30), <1>1 DEF IInv, TypeOK, ThreadStep, ThreadInv
<1>3. QED BY <1>1, <1>2

\* A change of the low bits of a lock word by the program's C library keeps
\* the invariant.
LEMMA UserLockStep ==
  ASSUME IInv, NEW t \in Threads, NEW l \in Locks, NEW M \in LockState,
         SameQueues(lock[l], M), M.km = lock[l].km, M.owner = lock[l].owner,
         lock' = [lock EXCEPT ![l] = M],
         pc[t] \notin Sleeping, pc'[t] \notin Sleeping,
         OnlyMoves(t), ThreadStep(t), UserVarsUnchanged
  PROVE  IInv'
<1>1. LockOK(lock[l]) /\ lock[l].waitcount \in Nat
  BY DEF IInv, LocksInv, LockInv, LockOK, LockState
<1>2. LockOK(M)
  BY <1>1 DEF LockOK, Managed, Queued, SameQueues
<1>3. futex_lock_release(l, M)
  BY Zenon, ListStable DEF SameQueues, UserVarsUnchanged
<1>4. /\ M.waitcount = lock[l].waitcount - One(pc[t] \in Sleeping) + One(pc'[t] \in Sleeping)
      /\ \A u \in Threads : InQueue(M.writers, u) => u # t /\ InQueue(lock[l].writers, u)
      /\ \A u \in Threads : InQueue(M.readers, u) => u # t /\ InQueue(lock[l].readers, u)
      /\ cv[t] = NoCondvar
  BY SMTT(30), <1>1, Awake DEF One, SameQueues
<1>5. UNCHANGED <<condvar, futex_condvar_list, cv>>
  BY DEF UserVarsUnchanged
<1>6. QED BY Zenon, <1>2, <1>3, <1>4, <1>5, LockActionStep

\* Taking a read lock in userspace keeps the invariant.
LEMMA UserRdlockInv ==
  ASSUME IInv, NEW t \in Threads, NEW l \in Locks, UserRdlock(t, l)
  PROVE  IInv'
<1> DEFINE k == lock[l].n + 1
           M == [lock[l] EXCEPT !.n = k]
<1>1. lock[l] \in LockState /\ lock \in [Locks -> LockState]
  BY DEF IInv, TypeOK
<1>2. lock' = [lock EXCEPT ![l] = M]
  BY <1>1 DEF UserRdlock
<1>3. k \in Nat
  BY <1>1 DEF LockState
<1> HIDE DEF k
<1>4. M \in LockState /\ SameQueues(lock[l], M) /\ M.km = lock[l].km /\ M.owner = lock[l].owner
  BY Zenon, <1>1, <1>3 DEF LockState, SameQueues
<1> HIDE DEF M
<1>5. pc[t] \notin Sleeping /\ "rdheld" \in PCs \ {"cvwait", "relock"} /\ "rdheld" \notin Sleeping
  BY DEF UserRdlock, Sleeping, PCs
<1>6. Returned("0") \in Events
  BY EventTypesOK DEF Errors, EventTypes
<1>7. /\ Become(t, "rdheld", l) /\ UNCHANGED <<cv, sig, crashed>> /\ sig[t] = NoCondvar
      /\ ret' = [ret EXCEPT ![t] = Returned("0")] /\ UserVarsUnchanged
  BY DEF UserRdlock, UserVarsUnchanged, Free
<1>8. OnlyMoves(t) /\ ThreadStep(t) /\ pc'[t] = "rdheld"
  BY Zenon, <1>5, <1>6, <1>7, Awake, MoveStep
<1>9. QED BY Zenon, <1>2, <1>4, <1>5, <1>7, <1>8, UserLockStep

\* Taking a write lock in userspace keeps the invariant.
LEMMA UserWrlockInv ==
  ASSUME IInv, NEW t \in Threads, NEW l \in Locks, UserWrlock(t, l)
  PROVE  IInv'
<1> DEFINE M == [lock[l] EXCEPT !.wr = TRUE, !.n = t]
<1>1. lock[l] \in LockState /\ lock \in [Locks -> LockState] /\ t \in Nat
  BY ThreadsAssumption DEF IInv, TypeOK
<1>2. lock' = [lock EXCEPT ![l] = M]
  BY Zenon, <1>1 DEF UserWrlock
<1>3. M \in LockState /\ SameQueues(lock[l], M) /\ M.km = lock[l].km /\ M.owner = lock[l].owner
  BY Zenon, <1>1 DEF LockState, SameQueues
<1> HIDE DEF M
<1>4. pc[t] \notin Sleeping /\ "wrheld" \in PCs \ {"cvwait", "relock"} /\ "wrheld" \notin Sleeping
  BY DEF UserWrlock, Sleeping, PCs
<1>5. Returned("0") \in Events
  BY EventTypesOK DEF Errors, EventTypes
<1>6. /\ Become(t, "wrheld", l) /\ UNCHANGED <<cv, sig, crashed>> /\ sig[t] = NoCondvar
      /\ ret' = [ret EXCEPT ![t] = Returned("0")] /\ UserVarsUnchanged
  BY SMTT(30) DEF UserWrlock, UserVarsUnchanged, Free
<1>7. OnlyMoves(t) /\ ThreadStep(t) /\ pc'[t] = "wrheld"
  BY Zenon, <1>4, <1>5, <1>6, Awake, MoveStep
<1>8. QED BY Zenon, <1>2, <1>3, <1>4, <1>6, <1>7, UserLockStep

\* Dropping a write lock in userspace keeps the invariant.
LEMMA UserWrunlockInv ==
  ASSUME IInv, NEW t \in Threads, UserWrunlock(t)
  PROVE  IInv'
<1> DEFINE l == at[t]
           M == [lock[l] EXCEPT !.wr = FALSE, !.n = 0]
<1>1. l \in Locks
  BY DEF IInv, ThreadsInv, ThreadInv, UserWrunlock
<1>2. lock[l] \in LockState /\ lock \in [Locks -> LockState]
  BY <1>1 DEF IInv, TypeOK
<1>3. lock' = [lock EXCEPT ![l] = M]
  BY Zenon, <1>1, <1>2 DEF UserWrunlock
<1> HIDE DEF l
<1>4. M \in LockState /\ SameQueues(lock[l], M) /\ M.km = lock[l].km /\ M.owner = lock[l].owner
  BY Zenon, <1>2 DEF LockState, SameQueues
<1> HIDE DEF M
<1>5. pc[t] \notin Sleeping /\ "idle" \in PCs \ {"cvwait", "relock"} /\ "idle" \notin Sleeping
  BY DEF UserWrunlock, Sleeping, PCs
<1>6. Returned("0") \in Events
  BY EventTypesOK DEF Errors, EventTypes
<1>7. /\ Become(t, "idle", NoLock) /\ UNCHANGED <<cv, sig, crashed>> /\ sig[t] = NoCondvar
      /\ ret' = [ret EXCEPT ![t] = Returned("0")] /\ UserVarsUnchanged
  BY DEF UserWrunlock, UserVarsUnchanged, Free
<1>8. OnlyMoves(t) /\ ThreadStep(t) /\ pc'[t] = "idle"
  BY Zenon, <1>5, <1>6, <1>7, Awake, MoveStep
<1>9. QED BY Zenon, <1>1, <1>3, <1>4, <1>5, <1>7, <1>8, UserLockStep

\* Dropping a read lock, or upgrading it, in userspace keeps the invariant.
LEMMA UserRdunlockInv ==
  ASSUME IInv, NEW t \in Threads, UserRdunlock(t)
  PROVE  IInv'
<1> DEFINE l == at[t]
           k == lock[l].n - 1
           M == [lock[l] EXCEPT !.wr = TRUE, !.n = t]
           N == [lock[l] EXCEPT !.n = k]
<1>1. l \in Locks
  BY DEF IInv, ThreadsInv, ThreadInv, UserRdunlock
<1>2. lock[l] \in LockState /\ lock \in [Locks -> LockState] /\ t \in Nat
  BY SMTT(30), <1>1, ThreadsAssumption DEF IInv, TypeOK
<1>3. k \in Nat
  BY <1>2 DEF UserRdunlock, LockState
<1>4. \/ lock' = [lock EXCEPT ![l] = M] /\ Become(t, "upgraded", l)
      \/ lock' = [lock EXCEPT ![l] = N] /\ Become(t, "idle", NoLock)
  BY Zenon, <1>1, <1>2 DEF UserRdunlock
<1> HIDE DEF l, k
<1>5. M \in LockState /\ SameQueues(lock[l], M) /\ M.km = lock[l].km /\ M.owner = lock[l].owner
  BY Zenon, <1>2 DEF LockState, SameQueues
<1>6. N \in LockState /\ SameQueues(lock[l], N) /\ N.km = lock[l].km /\ N.owner = lock[l].owner
  BY Zenon, <1>2, <1>3 DEF LockState, SameQueues
<1> HIDE DEF M, N
<1>7. /\ pc[t] \notin Sleeping /\ "idle" \notin Sleeping /\ "upgraded" \notin Sleeping
      /\ "idle" \in PCs \ {"cvwait", "relock"} /\ "upgraded" \in PCs \ {"cvwait", "relock"}
  BY DEF UserRdunlock, Sleeping, PCs
<1>8. Returned("0") \in Events
  BY EventTypesOK DEF Errors, EventTypes
<1>9. /\ UNCHANGED <<cv, sig, crashed>> /\ sig[t] = NoCondvar
      /\ ret' = [ret EXCEPT ![t] = Returned("0")] /\ UserVarsUnchanged
  BY DEF UserRdunlock, UserVarsUnchanged, Free
<1>10. CASE lock' = [lock EXCEPT ![l] = M] /\ Become(t, "upgraded", l)
  <2>1. OnlyMoves(t) /\ ThreadStep(t) /\ pc'[t] = "upgraded"
    BY Zenon, <1>1, <1>7, <1>8, <1>9, <1>10, Awake, MoveStep
  <2>2. QED BY Zenon, <1>1, <1>5, <1>7, <1>9, <1>10, <2>1, UserLockStep
<1>11. CASE lock' = [lock EXCEPT ![l] = N] /\ Become(t, "idle", NoLock)
  <2>1. OnlyMoves(t) /\ ThreadStep(t) /\ pc'[t] = "idle"
    BY Zenon, <1>7, <1>8, <1>9, <1>11, Awake, MoveStep
  <2>2. QED BY Zenon, <1>1, <1>6, <1>7, <1>9, <1>11, <2>1, UserLockStep
<1>12. QED BY <1>4, <1>10, <1>11

\* A call that changes only what it returns, or what the thread is about to signal.
LEMMA ReturnInv ==
  ASSUME IInv, NEW t \in Threads, ThreadStep(t), UNCHANGED <<pc, at, cv>>,
         UNCHANGED <<lock, futex_lock_list, condvar, futex_condvar_list>>
  PROVE  IInv'
<1>1. OnlyMoves(t)
  BY SMTT(30) DEF IInv, TypeOK, OnlyMoves
<1>2. ThreadsInv'
  BY <1>1, ThreadsStep
<1>3. TypeOK'
  BY SMTT(30) DEF IInv, TypeOK, ThreadStep
<1>4. LocksInv'
  <2>1. \A l \in Locks : SleepersOn(l)' = SleepersOn(l)
    BY SMTT(30) DEF SleepersOn
  <2>2. QED BY <2>1 DEF IInv, LocksInv, LockInv
<1>5. CondvarsInv'
  <2>1. \A c \in Condvars : WaitersOf(c)' = WaitersOf(c)
    BY DEF WaitersOf
  <2>2. QED BY <2>1 DEF IInv, CondvarsInv, CondvarInv
<1>6. OneQueue'
  BY SMTT(30) DEF IInv, OneQueue
<1>7. QED BY <1>2, <1>3, <1>4, <1>5, <1>6 DEF IInv

\* The decision to call condvar_signal() keeps the invariant.
LEMMA UserSignalInv ==
  ASSUME IInv, NEW t \in Threads, NEW c \in Condvars, UserSignal(t, c)
  PROVE  IInv'
<1>1. ThreadStep(t)
  BY DEF IInv, TypeOK, ThreadsInv, ThreadInv, ThreadStep, UserSignal, UserVarsUnchanged
<1>2. QED BY SMTT(30), <1>1, ReturnInv DEF UserSignal, UserVarsUnchanged

\* A call that only returns an error moves no thread.
LEMMA RetStep ==
  ASSUME IInv, NEW t \in Threads, UNCHANGED <<pc, at, cv, sig, crashed>>,
         NEW e \in Events, ret' = [ret EXCEPT ![t] = e]
  PROVE  OnlyMoves(t) /\ ThreadStep(t)
BY DEF IInv, TypeOK, ThreadsInv, ThreadInv, OnlyMoves, ThreadStep

\* A lock operation that fails for lack of memory keeps the invariant.
LEMMA LockENOMEMInv ==
  ASSUME IInv, NEW t \in Threads, NEW l, NEW type \in EventTypes, LockENOMEM(t, l, type),
         UNCHANGED <<condvar, futex_condvar_list, cv, sig, crashed>>
  PROVE  IInv'
<1>1. futex_op_poll(type, "ENOMEM") \in Events
  BY EventTypesOK DEF Errors
<1>2. ThreadStep(t)
  BY Zenon, <1>1, RetStep DEF LockENOMEM
<1>3. QED BY <1>2, ReturnInv DEF LockENOMEM

\* A thread that neither sleeps before nor after a step that keeps the queues.
LEMMA SameQueuesStep ==
  ASSUME IInv, NEW t \in Threads, NEW l \in Locks, NEW M, LockOK(M),
         SameQueues(lock[l], M), futex_lock_release(l, M),
         pc[t] \notin Sleeping, pc'[t] \notin Sleeping, OnlyMoves(t), ThreadStep(t),
         UNCHANGED <<condvar, futex_condvar_list, cv>>
  PROVE  IInv'
<1>1. lock[l].waitcount \in Nat
  BY SMTT(30) DEF IInv, LocksInv, LockInv, LockOK, LockState
<1>2. /\ M.waitcount = lock[l].waitcount - One(pc[t] \in Sleeping) + One(pc'[t] \in Sleeping)
      /\ \A u \in Threads : InQueue(M.writers, u) => u # t /\ InQueue(lock[l].writers, u)
      /\ \A u \in Threads : InQueue(M.readers, u) => u # t /\ InQueue(lock[l].readers, u)
      /\ cv[t] = NoCondvar
  BY <1>1, Awake DEF One, SameQueues
<1>3. QED BY Zenon, <1>2, LockActionStep

\* futex_op_lock_rdlock() keeps the invariant.
LEMMA futex_op_lock_rdlockInv ==
  ASSUME IInv, NEW t \in Threads, NEW l \in Locks, NEW clock_id,
         futex_op_lock_rdlock(t, l, clock_id)
  PROVE  IInv'
<1> DEFINE L == lock[l]
           try == futex_lock_tryrdlock(L)
<1>1. LockOK(L)
  BY SMTT(30) DEF IInv, LocksInv, LockInv
<1>2. /\ pc[t] = "idle" /\ sig[t] = NoCondvar /\ pc[t] \notin Sleeping
      /\ UNCHANGED <<condvar, futex_condvar_list, cv, sig, crashed>>
  BY SMTT(30) DEF futex_op_lock_rdlock, Free, Sleeping
<1>3. /\ try.error \in {"0", "EBUSY"}
      /\ try.lock \in LockState /\ SameQueues(L, try.lock)
      /\ try.error = "0" => Managed(try.lock)
      /\ try.error = "EBUSY" => Pinned(try.lock)
  BY SMTT(30), <1>1, TryrdlockOK
<1>4. Once(try.lock.writers) /\ Once(try.lock.readers)
  BY SMTT(30), <1>1, <1>3 DEF LockOK, SameQueues
<1>5. \/ LockENOMEM(t, l, "LOCK_RDLOCK")
      \/ /\ try.error = "0" /\ futex_lock_release(l, try.lock) /\ Become(t, "rdheld", l)
         /\ ret' = [ret EXCEPT ![t] = futex_op_poll("LOCK_RDLOCK", "0")]
      \/ /\ try.error = "EBUSY" /\ futex_lock_release(l, SleepOnReaders(try.lock, t))
         /\ Become(t, "rdwait", l) /\ ret' = [ret EXCEPT ![t] = Pending("0")]
      \/ /\ try.error # "0" /\ futex_lock_release(l, futex_lock_unmanage(try.lock))
         /\ ret' = [ret EXCEPT ![t] = futex_op_poll("LOCK_RDLOCK",
                      IF try.error = "EBUSY" THEN "ENOTSUP" ELSE try.error)]
         /\ UNCHANGED <<pc, at>>
  BY LookupLocked DEF futex_op_lock_rdlock
<1>6. /\ futex_op_poll("LOCK_RDLOCK", "0") \in Events /\ Pending("0") \in Events
      /\ futex_op_poll("LOCK_RDLOCK", "ENOTSUP") \in Events
  BY EventTypesOK DEF Errors, EventTypes
<1>7. /\ {"rdheld", "rdwait"} \subseteq PCs \ {"cvwait", "relock"}
      /\ "rdheld" \notin Sleeping /\ "rdwait" \in Sleeping
  BY DEF PCs, Sleeping
<1> HIDE DEF try
<1>8. CASE LockENOMEM(t, l, "LOCK_RDLOCK")
  BY SMTT(30), <1>2, <1>8, LockENOMEMInv DEF EventTypes
<1>9. CASE /\ try.error = "0" /\ futex_lock_release(l, try.lock) /\ Become(t, "rdheld", l)
           /\ ret' = [ret EXCEPT ![t] = futex_op_poll("LOCK_RDLOCK", "0")]
  <2>1. OnlyMoves(t) /\ ThreadStep(t) /\ pc'[t] = "rdheld"
    BY Zenon, <1>2, <1>6, <1>7, <1>9, Awake, MoveStep
  <2>2. LockOK(try.lock)
    BY <1>3, <1>4, <1>9 DEF LockOK
  <2>3. QED BY SMTT(30), <1>2, <1>3, <1>7, <1>9, <2>1, <2>2, SameQueuesStep
<1>10. CASE /\ try.error = "EBUSY" /\ futex_lock_release(l, SleepOnReaders(try.lock, t))
            /\ Become(t, "rdwait", l) /\ ret' = [ret EXCEPT ![t] = Pending("0")]
  <2> DEFINE M == SleepOnReaders(try.lock, t)
  <2>1. OnlyMoves(t) /\ ThreadStep(t) /\ pc'[t] = "rdwait" /\ at'[t] = l
    BY Zenon, <1>2, <1>6, <1>7, <1>10, Awake, MoveStep
  <2>2. /\ ~InQueue(L.readers, t) /\ ~InQueue(L.writers, t) /\ cv[t] = NoCondvar
        /\ L.waitcount \in Nat
    BY SMTT(30), <1>1, <1>2, Awake DEF LockOK, LockState
  <2>3. /\ LockOK(M) /\ M.waitcount = L.waitcount + 1 /\ M.writers = L.writers
        /\ \A u : InQueue(M.readers, u) => InQueue(L.readers, u) \/ u = t
    BY Zenon, <1>3, <1>4, <1>10, <2>2, SleepOnReadersOK DEF SameQueues
  <2>4. M.waitcount = L.waitcount - One(pc[t] \in Sleeping) + One(pc'[t] \in Sleeping)
    BY SMTT(30), <1>2, <1>7, <2>1, <2>2, <2>3 DEF One
  <2> HIDE DEF M
  <2>5. /\ \A u \in Threads : InQueue(M.writers, u) =>
             IF u = t THEN pc'[t] \in WriteSleep ELSE InQueue(lock[l].writers, u)
        /\ \A u \in Threads : InQueue(M.readers, u) =>
             IF u = t THEN pc'[t] = "rdwait" ELSE InQueue(lock[l].readers, u)
    BY <2>1, <2>2, <2>3
  <2>6. futex_lock_release(l, M)
    BY SMTT(30), <1>10 DEF M
  <2>7. QED BY Zenon, <1>2, <2>1, <2>2, <2>3, <2>4, <2>5, <2>6, LockActionStep
<1>11. CASE /\ try.error # "0" /\ futex_lock_release(l, futex_lock_unmanage(try.lock))
            /\ ret' = [ret EXCEPT ![t] = futex_op_poll("LOCK_RDLOCK",
                         IF try.error = "EBUSY" THEN "ENOTSUP" ELSE try.error)]
            /\ UNCHANGED <<pc, at>>
  <2> DEFINE M == futex_lock_unmanage(try.lock)
  <2>1. LockOK(M) /\ SameQueues(L, M)
    BY SMTT(30), <1>3, <1>4, <1>11, UnmanageOK DEF SameQueues
  <2>2. OnlyMoves(t) /\ ThreadStep(t)
    BY Zenon, <1>2, <1>3, <1>6, <1>11, RetStep
  <2>3. QED BY SMTT(30), <1>2, <1>11, <2>1, <2>2, SameQueuesStep
<1>12. QED BY <1>5, <1>8, <1>9, <1>10, <1>11

\* futex_op_lock_wrlock() keeps the invariant.
LEMMA futex_op_lock_wrlockInv ==
  ASSUME IInv, NEW t \in Threads, NEW l \in Locks, NEW clock_id,
         futex_op_lock_wrlock(t, l, clock_id)
  PROVE  IInv'
<1> DEFINE L == lock[l]
           try == futex_lock_trywrlock(L, t, FALSE)
<1>1. LockOK(L)
  BY DEF IInv, LocksInv, LockInv
<1>2. /\ sig[t] = NoCondvar /\ pc[t] \notin Sleeping
      /\ UNCHANGED <<condvar, futex_condvar_list, cv, sig, crashed>>
  BY Zenon DEF futex_op_lock_wrlock, Free, Sleeping
<1>3. /\ try.error \in {"0", "EBUSY", "EDEADLK"}
      /\ try.lock \in LockState /\ SameQueues(L, try.lock)
      /\ try.error = "0" => Managed(try.lock)
      /\ try.error = "EBUSY" => Pinned(try.lock)
      /\ try.error = "EDEADLK" => try.lock = L
  BY Zenon, <1>1, TrywrlockOK
<1>4. Once(try.lock.writers) /\ Once(try.lock.readers)
  BY Zenon, <1>1, <1>3 DEF LockOK, SameQueues
<1>5. \/ LockENOMEM(t, l, "LOCK_WRLOCK")
      \/ /\ try.error = "0" /\ futex_lock_release(l, try.lock) /\ Become(t, "wrheld", l)
         /\ ret' = [ret EXCEPT ![t] = futex_op_poll("LOCK_WRLOCK", "0")]
      \/ /\ try.error = "EBUSY" /\ futex_lock_release(l, SleepOnWriters(try.lock, t))
         /\ Become(t, "wrwait", l) /\ ret' = [ret EXCEPT ![t] = Pending("0")]
      \/ /\ try.error # "0" /\ futex_lock_release(l, futex_lock_unmanage(try.lock))
         /\ ret' = [ret EXCEPT ![t] = futex_op_poll("LOCK_WRLOCK",
                      IF try.error = "EBUSY" THEN "ENOTSUP" ELSE try.error)]
         /\ UNCHANGED <<pc, at>>
  BY Zenon, LookupLocked DEF futex_op_lock_wrlock
<1>6. /\ futex_op_poll("LOCK_WRLOCK", "0") \in Events /\ Pending("0") \in Events
      /\ futex_op_poll("LOCK_WRLOCK", "ENOTSUP") \in Events
      /\ futex_op_poll("LOCK_WRLOCK", "EDEADLK") \in Events
  BY EventTypesOK DEF Errors, EventTypes
<1>7. /\ {"wrheld", "wrwait"} \subseteq PCs \ {"cvwait", "relock"}
      /\ "wrheld" \notin Sleeping /\ "wrwait" \in Sleeping
  BY DEF PCs, Sleeping
<1> HIDE DEF try
<1>8. CASE LockENOMEM(t, l, "LOCK_WRLOCK")
  BY SMTT(30), <1>2, <1>8, LockENOMEMInv DEF EventTypes
<1>9. CASE /\ try.error = "0" /\ futex_lock_release(l, try.lock) /\ Become(t, "wrheld", l)
           /\ ret' = [ret EXCEPT ![t] = futex_op_poll("LOCK_WRLOCK", "0")]
  <2>1. OnlyMoves(t) /\ ThreadStep(t) /\ pc'[t] = "wrheld"
    BY Zenon, <1>2, <1>6, <1>7, <1>9, Awake, MoveStep
  <2>2. LockOK(try.lock)
    BY <1>3, <1>4, <1>9 DEF LockOK
  <2>3. QED BY SMTT(30), <1>2, <1>3, <1>7, <1>9, <2>1, <2>2, SameQueuesStep
<1>10. CASE /\ try.error = "EBUSY" /\ futex_lock_release(l, SleepOnWriters(try.lock, t))
            /\ Become(t, "wrwait", l) /\ ret' = [ret EXCEPT ![t] = Pending("0")]
  <2> DEFINE M == SleepOnWriters(try.lock, t)
  <2>1. OnlyMoves(t) /\ ThreadStep(t) /\ pc'[t] = "wrwait" /\ at'[t] = l
    BY Zenon, <1>2, <1>6, <1>7, <1>10, Awake, MoveStep
  <2>2. /\ ~InQueue(L.readers, t) /\ ~InQueue(L.writers, t) /\ cv[t] = NoCondvar
        /\ L.waitcount \in Nat
    BY <1>1, <1>2, Awake DEF LockOK, LockState
  <2>3. /\ LockOK(M) /\ M.waitcount = L.waitcount + 1 /\ M.readers = L.readers
        /\ \A u : InQueue(M.writers, u) => InQueue(L.writers, u) \/ u = t
    BY Zenon, <1>3, <1>4, <1>10, <2>2, SleepOnWritersOK DEF SameQueues
  <2>4. M.waitcount = L.waitcount - One(pc[t] \in Sleeping) + One(pc'[t] \in Sleeping)
    BY SMTT(30), <1>2, <1>7, <2>1, <2>2, <2>3 DEF One
  <2> HIDE DEF M
  <2>5. /\ \A u \in Threads : InQueue(M.writers, u) =>
             IF u = t THEN pc'[t] \in WriteSleep ELSE InQueue(lock[l].writers, u)
        /\ \A u \in Threads : InQueue(M.readers, u) =>
             IF u = t THEN pc'[t] = "rdwait" ELSE InQueue(lock[l].readers, u)
    BY <2>1, <2>2, <2>3 DEF WriteSleep
  <2>6. futex_lock_release(l, M)
    BY SMTT(30), <1>10 DEF M
  <2>7. QED BY Zenon, <1>2, <2>1, <2>2, <2>3, <2>4, <2>5, <2>6, LockActionStep
<1>11. CASE /\ try.error # "0" /\ futex_lock_release(l, futex_lock_unmanage(try.lock))
            /\ ret' = [ret EXCEPT ![t] = futex_op_poll("LOCK_WRLOCK",
                         IF try.error = "EBUSY" THEN "ENOTSUP" ELSE try.error)]
            /\ UNCHANGED <<pc, at>>
  <2> DEFINE M == futex_lock_unmanage(try.lock)
  <2>1. LockOK(M) /\ SameQueues(L, M)
    BY Zenon, <1>1, <1>3, <1>4, <1>11, UnmanageOK DEF SameQueues, LockOK
  <2>2. OnlyMoves(t) /\ ThreadStep(t)
    BY Zenon, <1>2, <1>3, <1>6, <1>11, RetStep
  <2>3. QED BY <1>2, <1>11, <2>1, <2>2, SameQueuesStep
<1>12. QED BY <1>5, <1>8, <1>9, <1>10, <1>11

\* futex_op_lock_unlock() keeps the invariant, also if its caller does not
\* hold the lock.
LEMMA futex_op_lock_unlockInv ==
  ASSUME IInv, NEW t \in Threads, NEW l \in Locks, futex_op_lock_unlock(t, l)
  PROVE  IInv'
<1> DEFINE L == lock[l]
           res == futex_lock_unlock(L, t)
<1>1. LockOK(L) /\ L.waitcount \in Nat
  BY SMTT(30) DEF IInv, LocksInv, LockInv, LockOK, LockState
<1>2. /\ sig[t] = NoCondvar /\ pc[t] \notin Sleeping
      /\ UNCHANGED <<condvar, futex_condvar_list, cv, sig, crashed>>
  BY SMTT(30) DEF futex_op_lock_unlock, Free, Sleeping
<1>3. /\ res.error \in {"0", "EPERM"}
      /\ LockOK(res.lock) /\ res.lock.waitcount = L.waitcount
      /\ \A u : InQueue(res.lock.writers, u) => InQueue(L.writers, u)
      /\ \A u : InQueue(res.lock.readers, u) => InQueue(L.readers, u)
  BY SMTT(30), <1>1, UnlockOK
<1>4. \/ LockENOMEM(t, l, "NONE")
      \/ /\ futex_lock_release(l, res.lock) /\ ret' = [ret EXCEPT ![t] = Returned(res.error)]
         /\ Become(t, "idle", NoLock) \/ UNCHANGED <<pc, at>>
  BY SMTT(30), LookupLocked DEF futex_op_lock_unlock
<1> HIDE DEF res
<1>5. Returned(res.error) \in Events
  BY <1>3, EventTypesOK DEF Errors, EventTypes
<1>6. "idle" \in PCs \ {"cvwait", "relock"} /\ "idle" \notin Sleeping
  BY DEF PCs, Sleeping
<1>7. CASE LockENOMEM(t, l, "NONE")
  BY <1>2, <1>7, LockENOMEMInv DEF EventTypes
<1>8. CASE /\ futex_lock_release(l, res.lock) /\ ret' = [ret EXCEPT ![t] = Returned(res.error)]
           /\ Become(t, "idle", NoLock) \/ UNCHANGED <<pc, at>>
  <2>1. OnlyMoves(t) /\ ThreadStep(t) /\ pc'[t] \notin Sleeping
    <3>1. CASE Become(t, "idle", NoLock)
      BY Zenon, <1>2, <1>5, <1>6, <1>8, <3>1, Awake, MoveStep
    <3>2. CASE UNCHANGED <<pc, at>>
      BY Zenon, <1>2, <1>5, <1>8, <3>2, RetStep
    <3>3. QED BY SMTT(30), <1>8, <3>1, <3>2
  <2>2. ~InQueue(L.readers, t) /\ ~InQueue(L.writers, t) /\ cv[t] = NoCondvar
    BY SMTT(30), <1>2, Awake
  <2>3. res.lock.waitcount = L.waitcount - One(pc[t] \in Sleeping) + One(pc'[t] \in Sleeping)
    BY SMTT(30), <1>1, <1>2, <1>3, <2>1 DEF One
  <2>4. /\ \A u \in Threads : InQueue(res.lock.writers, u) =>
             IF u = t THEN pc'[t] \in WriteSleep ELSE InQueue(lock[l].writers, u)
        /\ \A u \in Threads : InQueue(res.lock.readers, u) =>
             IF u = t THEN pc'[t] = "rdwait" ELSE InQueue(lock[l].readers, u)
    BY <1>3, <2>2
  <2>5. QED BY Zenon, <1>2, <1>3, <1>8, <2>1, <2>2, <2>3, <2>4, LockActionStep
<1>9. QED BY SMTT(30), <1>4, <1>7, <1>8
=============================================================================
