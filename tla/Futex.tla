------------------------------- MODULE Futex -------------------------------
(***************************************************************************)
(* The userspace futexes of libemulator/futex.c: read-write locks and      *)
(* condition variables whose words live in the memory of the emulated      *)
(* program, and whose wait queues live in the emulator.                    *)
(*                                                                         *)
(* A lock word is the triple (km, wr, n): the KERNEL_MANAGED bit, the      *)
(* WRLOCKED bit and the low bits, which hold a thread ID when the lock is  *)
(* write-locked and the number of readers otherwise.  The emulator keeps   *)
(* a futex_lock object only for a lock that threads sleep on, and a        *)
(* futex_condvar object only for a condition variable that threads wait    *)
(* on; an operation that needs an absent object creates it, and drops it   *)
(* again when its wait count is zero at the end.                           *)
(*                                                                         *)
(* Every futex operation runs under futex_global_lock.  One action is one  *)
(* critical section: from the mutex_lock of the operation, or from the     *)
(* return of cond_timedwait, to the next sleep or mutex_unlock.  The       *)
(* actions named User* are the C library of the emulated program, which    *)
(* is not part of the repository: they are what the words' protocol allows *)
(* it to do without calling the emulator.                                  *)
(***************************************************************************)
EXTENDS Integers, Sequences, FiniteSets

CONSTANTS
  Threads,        \* thread IDs of the emulated program (tidpool.c)
  Locks,          \* addresses of locks
  Condvars,       \* addresses of condition variables
  NoLock,         \* no lock
  NoCondvar,      \* no condition variable
  Readers,        \* threads that take read locks
  TimedThreads,   \* threads that wait with a timeout
  NWaiters,       \* numbers of waiters that a signal may ask to wake up
  MallocMayFail,  \* may malloc() return NULL?
  SignalUnlocked, \* do threads signal without holding the lock?
  MisusedLocks    \* locks that threads unlock, or wait with, without holding them

LOCK_UNMANAGED == 0
LOCK_OWNER_UNKNOWN == 1

\* tidpool.c hands out thread IDs above LOCK_OWNER_UNKNOWN.
ASSUME ThreadsAssumption ==
  /\ IsFiniteSet(Threads)
  /\ Threads \subseteq Nat \ {LOCK_UNMANAGED, LOCK_OWNER_UNKNOWN}
  /\ Readers \subseteq Threads
  /\ TimedThreads \subseteq Threads
ASSUME AddressAssumption == NoLock \notin Locks /\ NoCondvar \notin Condvars
ASSUME EnvironmentAssumption ==
  /\ NWaiters \subseteq Nat
  /\ MallocMayFail \in BOOLEAN
  /\ SignalUnlocked \in BOOLEAN
  /\ MisusedLocks \subseteq Locks

VARIABLES
  lock,                \* lock words and futex_lock objects
  futex_lock_list,     \* the locks that have an object
  condvar,             \* condition variable words and futex_condvar objects
  futex_condvar_list,  \* the condition variables that have an object
  pc,                  \* what each thread is doing
  at,                  \* the lock a thread holds or sleeps on
  cv,                  \* the condition variable a thread waits on
  sig,                 \* the condition variable a thread is about to signal
  ret,                 \* what the last call of each thread returned
  crashed              \* has the process died on a NULL dereference?

vars == <<lock, futex_lock_list, condvar, futex_condvar_list,
          pc, at, cv, sig, ret, crashed>>

Errors == {"0", "EBUSY", "EDEADLK", "EINVAL", "ENOENT", "ENOMEM",
           "ENOTSUP", "EPERM", "ETIMEDOUT"}

\* An event as poll() hands it to the program; calls other than poll()
\* return "NONE", and "PENDING" is the error of a wait that is not over.
EventTypes == {"NONE", "PENDING", "CLOCK", "CONDVAR", "LOCK_RDLOCK", "LOCK_WRLOCK"}
Events == [type : EventTypes, error : Errors]
Returned(error) == [type |-> "NONE", error |-> error]
Pending(error) == [type |-> "PENDING", error |-> error]

\* futex_op_poll(): a timeout is reported as the clock event.
futex_op_poll(type, error) ==
  IF error = "ETIMEDOUT"
  THEN [type |-> "CLOCK", error |-> "0"]
  ELSE [type |-> type, error |-> error]

\* Clocks: one that pthread condition variables support, one they do not.
Clocks == {"REALTIME", "THREAD_CPUTIME_ID"}
SleepClocks == {"REALTIME"}

PCs == {"idle", "rdheld", "wrheld", "upgraded", "rdwait", "wrwait", "cvwait", "relock"}
Sleeping == {"rdwait", "wrwait", "cvwait", "relock"}

LockState == [km : BOOLEAN, wr : BOOLEAN, n : Nat, owner : Nat,
              writers : Seq(Threads), readers : Seq(Threads), waitcount : Nat]
CondvarState == [word : BOOLEAN, lock : Locks \cup {NoLock},
                 waiters : Seq(Threads), waitcount : Nat]

InQueue(q, t) == \E i \in DOMAIN q : q[i] = t
Once(q) == \A i, j \in DOMAIN q : q[i] = q[j] => i = j

\* Mutant: the entry stays in the queue.
DequeueMutant(q, t) == q

\* TAILQ_REMOVE of the (only) entry of thread t.
Dequeue(q, t) ==
  LET i == CHOOSE j \in DOMAIN q : q[j] = t
  IN  SubSeq(q, 1, i - 1) \o SubSeq(q, i + 1, Len(q))

-----------------------------------------------------------------------------
(***************************************************************************)
(* Operations on one lock.  L is the state of the lock: its word and the   *)
(* fields of its object.  A result is the error and the new state.         *)
(***************************************************************************)
Result(error, L) == [error |-> error, lock |-> L]

futex_lock_set_owner(n) ==
  IF n = LOCK_UNMANAGED THEN LOCK_OWNER_UNKNOWN ELSE n

\* The word gets its kernel-managed bit and the object its owner.
Manage(L) == [L EXCEPT !.km = TRUE, !.owner = futex_lock_set_owner(L.n)]

\* Mutant: an unknown owner stays unknown.
futex_lock_update_ownerMutant(L) == L

futex_lock_update_owner(L) ==
  IF L.owner = LOCK_OWNER_UNKNOWN
  THEN [L EXCEPT !.owner = futex_lock_set_owner(L.n)]
  ELSE L

\* Mutant: only the writers' queue is looked at.
futex_lock_unmanageMutant(L) ==
  IF L.writers = <<>> THEN [L EXCEPT !.owner = LOCK_UNMANAGED, !.km = FALSE] ELSE L

futex_lock_unmanage(L) ==
  IF L.readers = <<>> /\ L.writers = <<>>
  THEN [L EXCEPT !.owner = LOCK_UNMANAGED, !.km = FALSE]
  ELSE L

\* Neither the object nor the word is kernel-managed: the word decides.
InUserspace(L) == L.owner = LOCK_UNMANAGED /\ ~L.km

futex_lock_tryrdlock(L) ==
  CASE L.owner # LOCK_UNMANAGED -> Result("EBUSY", L)
    [] L.owner = LOCK_UNMANAGED /\ L.km -> Result("EINVAL", L)
    [] InUserspace(L) /\ ~L.wr -> Result("0", [L EXCEPT !.n = L.n + 1])
    [] InUserspace(L) /\ L.wr -> Result("EBUSY", Manage(L))

\* The state of a lock that tid acquired for writing.
WriteLocked(L, tid, force_kernel_managed) ==
  [L EXCEPT !.wr = TRUE, !.n = tid, !.km = force_kernel_managed,
            !.owner = IF force_kernel_managed THEN tid ELSE L.owner]

futex_lock_trywrlock(L, tid, force_kernel_managed) ==
  CASE L.owner = tid -> Result("EDEADLK", L)
    [] L.owner \notin {tid, LOCK_UNMANAGED} -> Result("EBUSY", L)
    [] L.owner = LOCK_UNMANAGED /\ L.km -> Result("EINVAL", L)
    [] InUserspace(L) /\ L.wr /\ L.n = tid -> Result("EDEADLK", L)
    [] InUserspace(L) /\ ~L.wr /\ L.n = 0 -> Result("0", WriteLocked(L, tid, force_kernel_managed))
    [] InUserspace(L) /\ L.n # IF L.wr THEN tid ELSE 0 -> Result("EBUSY", Manage(L))

\* Mutants: the word of a lock handed to readers counts one reader; the word
\* is unmanaged although other threads remain queued; the newest writer goes
\* first.
WakeOneReaderMutant(L) ==
  IF L.writers # <<>>
  THEN [L EXCEPT !.km = Len(L.writers) > 1 \/ L.readers # <<>>, !.wr = TRUE,
                 !.n = Head(L.writers),
                 !.owner = IF Len(L.writers) > 1 \/ L.readers # <<>>
                           THEN Head(L.writers) ELSE LOCK_UNMANAGED,
                 !.writers = Tail(L.writers)]
  ELSE [L EXCEPT !.km = FALSE, !.wr = FALSE, !.n = 1,
                 !.owner = LOCK_UNMANAGED, !.readers = <<>>]
WakeUnmanagedMutant(L) ==
  IF L.writers # <<>>
  THEN [L EXCEPT !.km = FALSE, !.wr = TRUE, !.n = Head(L.writers),
                 !.owner = LOCK_UNMANAGED, !.writers = Tail(L.writers)]
  ELSE [L EXCEPT !.km = FALSE, !.wr = FALSE, !.n = Len(L.readers),
                 !.owner = LOCK_UNMANAGED, !.readers = <<>>]
WakeNewestMutant(L) ==
  LET tid == L.writers[Len(L.writers)]
      managed == Len(L.writers) > 1 \/ L.readers # <<>>
  IN  IF L.writers # <<>>
      THEN [L EXCEPT !.km = managed, !.wr = TRUE, !.n = tid,
                     !.owner = IF managed THEN tid ELSE LOCK_UNMANAGED,
                     !.writers = SubSeq(L.writers, 1, Len(L.writers) - 1)]
      ELSE [L EXCEPT !.km = FALSE, !.wr = FALSE, !.n = Len(L.readers),
                     !.owner = LOCK_UNMANAGED, !.readers = <<>>]

\* Hands the lock to the first writer, or to all readers.  The word stays
\* managed when other threads remain queued.
futex_lock_wake_up_next(L) ==
  LET tid == Head(L.writers)
      managed == Len(L.writers) > 1 \/ L.readers # <<>>
  IN  IF L.writers # <<>>
      THEN [L EXCEPT !.km = managed, !.wr = TRUE, !.n = tid,
                     !.owner = IF managed THEN tid ELSE LOCK_UNMANAGED,
                     !.writers = Tail(L.writers)]
      ELSE [L EXCEPT !.km = FALSE, !.wr = FALSE, !.n = Len(L.readers),
                     !.owner = LOCK_UNMANAGED, !.readers = <<>>]

futex_lock_unlock(L, tid) ==
  LET M == futex_lock_update_owner(L)
  IN  IF M.owner \notin {LOCK_UNMANAGED, tid}
      THEN Result("EPERM", M)
      ELSE Result("0", futex_lock_wake_up_next(M))

\* Mutant: a writer that goes to sleep is not counted.
SleepOnWritersMutant(L, tid) == [L EXCEPT !.writers = Append(L.writers, tid)]

\* The part of futex_queue_sleep() up to the wait itself.
SleepOnReaders(L, tid) ==
  [L EXCEPT !.readers = Append(L.readers, tid), !.waitcount = L.waitcount + 1]
SleepOnWriters(L, tid) ==
  [L EXCEPT !.writers = Append(L.writers, tid), !.waitcount = L.waitcount + 1]

\* futex_lock_lookup_locked(): the object, or a new one for the same word.
futex_lock_lookup_locked(l) ==
  IF l \in futex_lock_list
  THEN lock[l]
  ELSE [lock[l] EXCEPT !.owner = LOCK_UNMANAGED, !.readers = <<>>,
                       !.writers = <<>>, !.waitcount = 0]

\* The critical section ends with object L for lock l: futex_lock_release()
\* frees it when nobody waits, and a sleep leaves it in the list.
futex_lock_release(l, L) ==
  /\ lock' = [lock EXCEPT ![l] = L]
  /\ futex_lock_list' = IF L.waitcount = 0
                        THEN futex_lock_list \ {l}
                        ELSE futex_lock_list \cup {l}

\* Mutant: the word keeps saying that there are waiters.
futex_condvar_unmanageMutant(C) == C

futex_condvar_unmanage(C) ==
  IF C.waiters = <<>> THEN [C EXCEPT !.word = FALSE] ELSE C

NewCondvar(c, l) ==
  IF c \in futex_condvar_list
  THEN condvar[c]
  ELSE [condvar[c] EXCEPT !.lock = l, !.waiters = <<>>, !.waitcount = 0]

futex_condvar_release(c, C) ==
  IF C.waitcount = 0
  THEN /\ condvar' = [condvar EXCEPT ![c] = [C EXCEPT !.lock = NoLock]]
       /\ futex_condvar_list' = futex_condvar_list \ {c}
  ELSE /\ condvar' = [condvar EXCEPT ![c] = C]
       /\ futex_condvar_list' = futex_condvar_list \cup {c}

-----------------------------------------------------------------------------
(***************************************************************************)
(* The emulated program's C library (external).                            *)
(***************************************************************************)
Become(t, p, l) ==
  /\ pc' = [pc EXCEPT ![t] = p]
  /\ at' = [at EXCEPT ![t] = l]

UserVarsUnchanged == UNCHANGED <<condvar, futex_condvar_list, futex_lock_list, cv, crashed>>
Free(t) == sig[t] = NoCondvar

\* An uncontended lock is taken by changing its word.
UserRdlock(t, l) ==
  /\ pc[t] = "idle" /\ Free(t) /\ t \in Readers
  /\ ~lock[l].km /\ ~lock[l].wr
  /\ lock' = [lock EXCEPT ![l].n = @ + 1]
  /\ Become(t, "rdheld", l)
  /\ ret' = [ret EXCEPT ![t] = Returned("0")]
  /\ UserVarsUnchanged /\ UNCHANGED sig

UserWrlock(t, l) ==
  /\ pc[t] = "idle" /\ Free(t)
  /\ ~lock[l].km /\ ~lock[l].wr /\ lock[l].n = 0
  /\ lock' = [lock EXCEPT ![l].wr = TRUE, ![l].n = t]
  /\ Become(t, "wrheld", l)
  /\ ret' = [ret EXCEPT ![t] = Returned("0")]
  /\ UserVarsUnchanged /\ UNCHANGED sig

\* A write lock that is not kernel-managed is released in the word.
UserWrunlock(t) ==
  /\ pc[t] = "wrheld" /\ Free(t)
  /\ ~lock[at[t]].km /\ lock[at[t]].wr /\ lock[at[t]].n = t
  /\ lock' = [lock EXCEPT ![at[t]].wr = FALSE, ![at[t]].n = 0]
  /\ Become(t, "idle", NoLock)
  /\ ret' = [ret EXCEPT ![t] = Returned("0")]
  /\ UserVarsUnchanged /\ UNCHANGED sig

\* A reader leaves by decrementing the word; the last reader of a
\* kernel-managed lock turns its read lock into a write lock instead, and
\* then has to call lock_unlock().
LastOfManaged(L) == L.km /\ L.n = 1
UserRdunlock(t) ==
  /\ pc[t] = "rdheld" /\ Free(t)
  /\ ~lock[at[t]].wr /\ lock[at[t]].n > 0
  /\ ret' = [ret EXCEPT ![t] = Returned("0")]
  /\ \/ /\ LastOfManaged(lock[at[t]])
        /\ lock' = [lock EXCEPT ![at[t]].wr = TRUE, ![at[t]].n = t]
        /\ Become(t, "upgraded", at[t])
     \/ /\ ~LastOfManaged(lock[at[t]])
        /\ lock' = [lock EXCEPT ![at[t]].n = @ - 1]
        /\ Become(t, "idle", NoLock)
  /\ UserVarsUnchanged /\ UNCHANGED sig

\* A thread that wants to signal reads the word of the condition variable
\* and calls condvar_signal() only if it says that there are waiters.
UserSignal(t, c) ==
  /\ Free(t)
  /\ pc[t] = "wrheld" \/ (pc[t] = "idle" /\ SignalUnlocked)
  /\ condvar[c].word
  /\ ~SignalUnlocked => condvar[c].lock = at[t]
  /\ sig' = [sig EXCEPT ![t] = c]
  /\ UserVarsUnchanged /\ UNCHANGED <<lock, pc, at, ret>>

-----------------------------------------------------------------------------
(***************************************************************************)
(* The operations of futex.c.                                              *)
(***************************************************************************)
\* malloc() fails for an absent object and the call changes nothing.
LockENOMEM(t, l, type) ==
  /\ MallocMayFail /\ l \notin futex_lock_list
  /\ ret' = [ret EXCEPT ![t] = futex_op_poll(type, "ENOMEM")]
  /\ UNCHANGED <<lock, futex_lock_list, pc, at>>

\* futex_op_lock_rdlock()
futex_op_lock_rdlock(t, l, clock_id) ==
  LET try == futex_lock_tryrdlock(futex_lock_lookup_locked(l))
  IN  /\ pc[t] = "idle" /\ Free(t) /\ t \in Readers
      /\ UNCHANGED <<condvar, futex_condvar_list, cv, sig, crashed>>
      /\ \/ LockENOMEM(t, l, "LOCK_RDLOCK")
         \/ /\ try.error = "0"
            /\ futex_lock_release(l, try.lock)
            /\ Become(t, "rdheld", l)
            /\ ret' = [ret EXCEPT ![t] = futex_op_poll("LOCK_RDLOCK", "0")]
         \/ /\ try.error = "EBUSY" /\ clock_id \in SleepClocks
            /\ futex_lock_release(l, SleepOnReaders(try.lock, t))
            /\ Become(t, "rdwait", l)
            /\ ret' = [ret EXCEPT ![t] = Pending("0")]
         \/ /\ try.error # "0"
            /\ try.error = "EBUSY" => clock_id \notin SleepClocks
            /\ futex_lock_release(l, futex_lock_unmanage(try.lock))
            /\ ret' = [ret EXCEPT ![t] = futex_op_poll("LOCK_RDLOCK",
                         IF try.error = "EBUSY" THEN "ENOTSUP" ELSE try.error)]
            /\ UNCHANGED <<pc, at>>

\* futex_op_lock_wrlock(); a thread may also ask for the lock it holds.
futex_op_lock_wrlock(t, l, clock_id) ==
  LET try == futex_lock_trywrlock(futex_lock_lookup_locked(l), t, FALSE)
  IN  /\ pc[t] = "idle" \/ (pc[t] = "wrheld" /\ at[t] = l)
      /\ Free(t)
      /\ UNCHANGED <<condvar, futex_condvar_list, cv, sig, crashed>>
      /\ \/ LockENOMEM(t, l, "LOCK_WRLOCK")
         \/ /\ try.error = "0"
            /\ futex_lock_release(l, try.lock)
            /\ Become(t, "wrheld", l)
            /\ ret' = [ret EXCEPT ![t] = futex_op_poll("LOCK_WRLOCK", "0")]
         \/ /\ try.error = "EBUSY" /\ clock_id \in SleepClocks
            /\ futex_lock_release(l, SleepOnWriters(try.lock, t))
            /\ Become(t, "wrwait", l)
            /\ ret' = [ret EXCEPT ![t] = Pending("0")]
         \/ /\ try.error # "0"
            /\ try.error = "EBUSY" => clock_id \notin SleepClocks
            /\ futex_lock_release(l, futex_lock_unmanage(try.lock))
            /\ ret' = [ret EXCEPT ![t] = futex_op_poll("LOCK_WRLOCK",
                         IF try.error = "EBUSY" THEN "ENOTSUP" ELSE try.error)]
            /\ UNCHANGED <<pc, at>>

\* futex_op_lock_unlock()
futex_op_lock_unlock(t, l) ==
  LET res == futex_lock_unlock(futex_lock_lookup_locked(l), t)
  IN  /\ \/ pc[t] \in {"wrheld", "upgraded"} /\ at[t] = l
         \/ pc[t] = "idle" /\ l \in MisusedLocks
      /\ Free(t)
      /\ UNCHANGED <<condvar, futex_condvar_list, cv, sig, crashed>>
      /\ \/ LockENOMEM(t, l, "NONE")
         \/ /\ futex_lock_release(l, res.lock)
            /\ ret' = [ret EXCEPT ![t] = Returned(res.error)]
            /\ \/ res.error = "0" /\ Become(t, "idle", NoLock)
               \/ res.error # "0" /\ UNCHANGED <<pc, at>>

\* Mutant: a wait that fails returns at once when the lock is busy.
RelockMutant(t, c, C, l, L, error) ==
  LET try == futex_lock_trywrlock(L, t, FALSE)
      C1 == [C EXCEPT !.waitcount = C.waitcount - 1]
  IN  /\ futex_lock_release(l, IF try.error = "0" THEN try.lock ELSE futex_lock_unmanage(try.lock))
      /\ futex_condvar_release(c, C1)
      /\ IF try.error = "0" THEN Become(t, "wrheld", l) ELSE Become(t, "idle", NoLock)
      /\ cv' = [cv EXCEPT ![t] = NoCondvar]
      /\ ret' = [ret EXCEPT ![t] = futex_op_poll("CONDVAR", error)]

\* The end of a wait on a condition variable: futex_lock_wrlock() with an
\* infinite timeout, after a wait that failed with error.  C and L are the
\* objects when it is called; C still counts this thread as a waiter.
Relock(t, c, C, l, L, error) ==
  LET try == futex_lock_trywrlock(L, t, FALSE)
      C1 == [C EXCEPT !.waitcount = C.waitcount - 1]
  IN  \/ /\ try.error = "0"
         /\ futex_lock_release(l, try.lock)
         /\ futex_condvar_release(c, C1)
         /\ Become(t, "wrheld", l)
         /\ cv' = [cv EXCEPT ![t] = NoCondvar]
         /\ ret' = [ret EXCEPT ![t] = futex_op_poll("CONDVAR", error)]
      \/ /\ try.error = "EBUSY"
         /\ futex_lock_release(l, SleepOnWriters(try.lock, t))
         /\ futex_condvar_release(c, C)
         /\ Become(t, "relock", l)
         /\ cv' = [cv EXCEPT ![t] = c]
         /\ ret' = [ret EXCEPT ![t] = Pending(error)]
      \/ /\ try.error \notin {"0", "EBUSY"}
         /\ futex_lock_release(l, futex_lock_unmanage(try.lock))
         /\ futex_condvar_release(c, C1)
         /\ Become(t, "idle", NoLock)
         /\ cv' = [cv EXCEPT ![t] = NoCondvar]
         /\ ret' = [ret EXCEPT ![t] = futex_op_poll("CONDVAR", try.error)]

\* futex_op_condvar_wait(): the first critical section.
futex_op_condvar_wait(t, c, l, clock_id) ==
  LET C == [NewCondvar(c, l) EXCEPT !.word = TRUE]
      res == futex_lock_unlock(futex_lock_lookup_locked(l), t)
      C1 == [C EXCEPT !.waitcount = C.waitcount + 1]
  IN  /\ \/ pc[t] = "wrheld" /\ at[t] = l
         \/ pc[t] = "idle" /\ l \in MisusedLocks
      /\ Free(t)
      /\ UNCHANGED <<sig, crashed>>
      /\ \/ /\ c \in futex_condvar_list /\ condvar[c].lock # l
            /\ ret' = [ret EXCEPT ![t] = futex_op_poll("CONDVAR", "EINVAL")]
            /\ UNCHANGED <<lock, futex_lock_list, condvar, futex_condvar_list, pc, at, cv>>
         \/ /\ MallocMayFail /\ c \notin futex_condvar_list
            /\ ret' = [ret EXCEPT ![t] = futex_op_poll("CONDVAR", "ENOMEM")]
            /\ UNCHANGED <<lock, futex_lock_list, condvar, futex_condvar_list, pc, at, cv>>
         \/ /\ c \in futex_condvar_list => condvar[c].lock = l
            /\ \/ /\ res.error # "0"
                  /\ futex_condvar_release(c, futex_condvar_unmanage(C))
                  /\ futex_lock_release(l, res.lock)
                  /\ ret' = [ret EXCEPT ![t] = futex_op_poll("CONDVAR", res.error)]
                  /\ UNCHANGED <<pc, at, cv>>
               \/ /\ res.error = "0" /\ clock_id \in SleepClocks
                  /\ futex_condvar_release(c, [C1 EXCEPT !.waiters = Append(C.waiters, t)])
                  /\ futex_lock_release(l, [res.lock EXCEPT !.waitcount = @ + 1])
                  /\ Become(t, "cvwait", l)
                  /\ cv' = [cv EXCEPT ![t] = c]
                  /\ ret' = [ret EXCEPT ![t] = Pending("0")]
               \/ /\ res.error = "0" /\ clock_id \notin SleepClocks
                  /\ Relock(t, c, futex_condvar_unmanage(C1), l, res.lock, "ENOTSUP")

\* futex_queue_requeue(): up to n waiters move to the writers of the lock.
Requeued(q, n) == SubSeq(q, 1, IF n < Len(q) THEN n ELSE Len(q))
Remaining(q, n) == SubSeq(q, n + 1, Len(q))

\* futex_op_condvar_signal()
futex_op_condvar_signal(t, nwaiters) ==
  LET c == sig[t]
      C == condvar[c]
      l == C.lock
      L == lock[l]
      fq == C.waiters
      try == futex_lock_trywrlock(L, Head(fq), nwaiters > 1 /\ Len(fq) > 1)
      SignalDone(L1, q) ==
        /\ futex_condvar_release(c, futex_condvar_unmanage([C EXCEPT !.waiters = q]))
        /\ futex_lock_release(l, L1)
      Idle == UNCHANGED <<lock, futex_lock_list, condvar, futex_condvar_list>>
  IN  /\ sig[t] # NoCondvar
      /\ sig' = [sig EXCEPT ![t] = NoCondvar]
      /\ UNCHANGED <<pc, at, cv>>
      /\ \/ /\ nwaiters = 0
            /\ ret' = [ret EXCEPT ![t] = Returned("0")]
            /\ Idle /\ UNCHANGED crashed
         \/ /\ nwaiters > 0 /\ c \notin futex_condvar_list
            /\ ret' = [ret EXCEPT ![t] = Returned("ENOENT")]
            /\ Idle /\ UNCHANGED crashed
         \/ \* futex_queue_tid_best() of an empty queue.
            /\ nwaiters > 0 /\ c \in futex_condvar_list /\ fq = <<>>
            /\ crashed' = TRUE
            /\ Idle /\ UNCHANGED ret
         \/ /\ nwaiters > 0 /\ c \in futex_condvar_list /\ fq # <<>>
            /\ UNCHANGED crashed
            /\ \/ /\ try.error = "0"
                  /\ SignalDone([try.lock EXCEPT !.writers =
                                   @ \o Requeued(Tail(fq), nwaiters - 1)],
                                Remaining(Tail(fq), nwaiters - 1))
                  /\ ret' = [ret EXCEPT ![t] = Returned("0")]
               \/ /\ try.error = "EBUSY"
                  /\ SignalDone([try.lock EXCEPT !.writers = @ \o Requeued(fq, nwaiters)],
                                Remaining(fq, nwaiters))
                  /\ ret' = [ret EXCEPT ![t] = Returned("0")]
               \/ /\ try.error \notin {"0", "EBUSY"}
                  /\ ret' = [ret EXCEPT ![t] = Returned(try.error)]
                  /\ Idle

-----------------------------------------------------------------------------
(***************************************************************************)
(* The second half of futex_queue_sleep().  fw_queue is the queue that     *)
(* holds the thread, or NULL when a wake-up removed it from its queue.     *)
(***************************************************************************)
FwQueueIsNull(t) ==
  /\ \A l \in Locks : ~InQueue(lock[l].writers, t) /\ ~InQueue(lock[l].readers, t)
  /\ \A c \in Condvars : ~InQueue(condvar[c].waiters, t)

\* futex_lock_rdlock() or futex_lock_wrlock() returns after the sleep.
ResumeLock(t) ==
  LET l == at[t]
      L == [lock[l] EXCEPT !.waitcount = @ - 1]
  IN  /\ pc[t] \in {"rdwait", "wrwait"} /\ FwQueueIsNull(t)
      /\ futex_lock_release(l, L)
      /\ UNCHANGED <<condvar, futex_condvar_list, cv, sig, crashed>>
      /\ \/ /\ pc[t] = "rdwait"
            /\ Become(t, "rdheld", l)
            /\ ret' = [ret EXCEPT ![t] = futex_op_poll("LOCK_RDLOCK", "0")]
         \/ /\ pc[t] = "wrwait"
            /\ Become(t, "wrheld", l)
            /\ ret' = [ret EXCEPT ![t] = futex_op_poll("LOCK_WRLOCK", "0")]

\* futex_op_condvar_wait() returns with the lock held, after a wake-up or
\* after the second sleep, on the lock, that follows a failed wait.
ResumeCondvar(t) ==
  LET l == at[t]
      c == cv[t]
  IN  /\ pc[t] \in {"cvwait", "relock"} /\ FwQueueIsNull(t)
      /\ futex_lock_release(l, [lock[l] EXCEPT !.waitcount = @ - 1])
      /\ futex_condvar_release(c, [condvar[c] EXCEPT !.waitcount = @ - 1])
      /\ Become(t, "wrheld", l)
      /\ cv' = [cv EXCEPT ![t] = NoCondvar]
      /\ ret' = [ret EXCEPT ![t] = futex_op_poll("CONDVAR", ret[t].error)]
      /\ UNCHANGED <<sig, crashed>>

\* The wait on a lock times out and the thread is still in its queue.
TimeoutLock(t) ==
  LET l == at[t]
      L == [lock[l] EXCEPT !.waitcount = @ - 1]
  IN  /\ t \in TimedThreads /\ pc[t] \in {"rdwait", "wrwait"}
      /\ \/ /\ pc[t] = "rdwait" /\ InQueue(L.readers, t)
            /\ futex_lock_release(l, futex_lock_unmanage([L EXCEPT !.readers = Dequeue(@, t)]))
            /\ ret' = [ret EXCEPT ![t] = futex_op_poll("LOCK_RDLOCK", "ETIMEDOUT")]
         \/ /\ pc[t] = "wrwait" /\ InQueue(L.writers, t)
            /\ futex_lock_release(l, futex_lock_unmanage([L EXCEPT !.writers = Dequeue(@, t)]))
            /\ ret' = [ret EXCEPT ![t] = futex_op_poll("LOCK_WRLOCK", "ETIMEDOUT")]
      /\ Become(t, "idle", NoLock)
      /\ UNCHANGED <<condvar, futex_condvar_list, cv, sig, crashed>>

\* Mutant: a timeout counts even if a signal has already dequeued the thread.
TimeoutCondvarMutant(t) ==
  LET l == at[t]
      c == cv[t]
      C == [condvar[c] EXCEPT !.waiters = IF InQueue(@, t) THEN Dequeue(@, t) ELSE @]
  IN  /\ t \in TimedThreads
      /\ pc[t] = "cvwait" /\ ~InQueue(lock[l].writers, t)
      /\ Relock(t, c, futex_condvar_unmanage(C), l,
                [lock[l] EXCEPT !.waitcount = @ - 1], "ETIMEDOUT")
      /\ UNCHANGED <<sig, crashed>>

\* The wait on a condition variable times out before a signal moved the
\* thread to the lock: it has to get the lock back before it returns.
TimeoutCondvar(t) ==
  LET l == at[t]
      c == cv[t]
      C == [condvar[c] EXCEPT !.waiters = Dequeue(@, t)]
  IN  /\ t \in TimedThreads
      /\ pc[t] = "cvwait" /\ InQueue(condvar[c].waiters, t)
      /\ Relock(t, c, futex_condvar_unmanage(C), l,
                [lock[l] EXCEPT !.waitcount = @ - 1], "ETIMEDOUT")
      /\ UNCHANGED <<sig, crashed>>

-----------------------------------------------------------------------------
Init ==
  /\ lock = [l \in Locks |-> [km |-> FALSE, wr |-> FALSE, n |-> 0,
                              owner |-> LOCK_UNMANAGED, writers |-> <<>>,
                              readers |-> <<>>, waitcount |-> 0]]
  /\ futex_lock_list = {}
  /\ condvar = [c \in Condvars |-> [word |-> FALSE, lock |-> NoLock,
                                    waiters |-> <<>>, waitcount |-> 0]]
  /\ futex_condvar_list = {}
  /\ pc = [t \in Threads |-> "idle"]
  /\ at = [t \in Threads |-> NoLock]
  /\ cv = [t \in Threads |-> NoCondvar]
  /\ sig = [t \in Threads |-> NoCondvar]
  /\ ret = [t \in Threads |-> Returned("0")]
  /\ crashed = FALSE

Next ==
  /\ ~crashed
  /\ \E t \in Threads :
       \/ \E l \in Locks :
            \/ UserRdlock(t, l)
            \/ UserWrlock(t, l)
            \/ \E clock_id \in Clocks :
                 \/ futex_op_lock_rdlock(t, l, clock_id)
                 \/ futex_op_lock_wrlock(t, l, clock_id)
                 \/ \E c \in Condvars : futex_op_condvar_wait(t, c, l, clock_id)
            \/ futex_op_lock_unlock(t, l)
       \/ UserWrunlock(t)
       \/ UserRdunlock(t)
       \/ \E c \in Condvars : UserSignal(t, c)
       \/ \E nwaiters \in NWaiters : futex_op_condvar_signal(t, nwaiters)
       \/ ResumeLock(t)
       \/ ResumeCondvar(t)
       \/ TimeoutLock(t)
       \/ TimeoutCondvar(t)

Spec == Init /\ [][Next]_vars

\* A program that gives every lock back, however often it signals while it
\* holds it, and a scheduler that runs every thread that can run.
Fairness ==
  \A t \in Threads :
    /\ WF_vars(~crashed /\ UserRdunlock(t))
    /\ SF_vars(~crashed /\ \E l \in Locks : futex_op_lock_unlock(t, l))
    /\ WF_vars(~crashed /\ \E nwaiters \in NWaiters : futex_op_condvar_signal(t, nwaiters))
    /\ WF_vars(~crashed /\ ResumeLock(t))
    /\ WF_vars(~crashed /\ ResumeCondvar(t))

-----------------------------------------------------------------------------
\* The words, objects and threads have their types; in particular no wait
\* count that futex_queue_sleep() maintains ever goes below zero.
TypeOK ==
  /\ lock \in [Locks -> LockState]
  /\ futex_lock_list \subseteq Locks
  /\ condvar \in [Condvars -> CondvarState]
  /\ futex_condvar_list \subseteq Condvars
  /\ pc \in [Threads -> PCs]
  /\ at \in [Threads -> Locks \cup {NoLock}]
  /\ cv \in [Threads -> Condvars \cup {NoCondvar}]
  /\ sig \in [Threads -> Condvars \cup {NoCondvar}]
  /\ ret \in [Threads -> Events]
  /\ crashed \in BOOLEAN

\* Threads that the word of l makes owners: they hold l, or a wake-up has
\* handed l to them and they have not run yet.
WrOwners(l) ==
  {t \in Threads : /\ at[t] = l
                   /\ \/ pc[t] \in {"wrheld", "upgraded"}
                      \/ pc[t] \in {"wrwait", "cvwait", "relock"} /\ FwQueueIsNull(t)}
RdOwners(l) ==
  {t \in Threads : /\ at[t] = l
                   /\ pc[t] = "rdheld" \/ (pc[t] = "rdwait" /\ FwQueueIsNull(t))}

\* The word of a lock names its owners: the thread ID of the writer, or the
\* number of readers, so that a writer is alone.  A thread that the emulator
\* dequeues (other than by a timeout) owns the lock from then on, whenever it
\* runs.  Locks that programs unlock without holding them are left out.
WordNamesOwners ==
  \A l \in Locks \ MisusedLocks :
    IF lock[l].wr
    THEN WrOwners(l) = {lock[l].n} /\ RdOwners(l) = {}
    ELSE WrOwners(l) = {} /\ lock[l].n = Cardinality(RdOwners(l))

\* futex_lock_assert(), for the word as well: a lock is kernel-managed, in
\* its object and in its word, exactly when threads queue for it.
ManagedIffWaiters ==
  \A l \in Locks :
    LET waiters == lock[l].writers # <<>> \/ lock[l].readers # <<>>
    IN  /\ lock[l].km = waiters
        /\ (lock[l].owner # LOCK_UNMANAGED) = waiters
        /\ waiters => l \in futex_lock_list

\* The wait counts are exact, so that an object lives exactly as long as a
\* thread sleeps on it and no thread wakes up to a freed object.
SleepersOn(l) == {t \in Threads : pc[t] \in Sleeping /\ at[t] = l}
WaitersOf(c) == {t \in Threads : cv[t] = c}
ObjectsCountTheirSleepers ==
  /\ \A l \in Locks :
       /\ lock[l].waitcount = Cardinality(SleepersOn(l))
       /\ l \in futex_lock_list <=> SleepersOn(l) # {}
  /\ \A c \in Condvars :
       /\ condvar[c].waitcount = Cardinality(WaitersOf(c))
       /\ c \in futex_condvar_list <=> WaitersOf(c) # {}
       /\ \A t \in WaitersOf(c) : pc[t] \in Sleeping /\ at[t] = condvar[c].lock

\* The word of a condition variable is nonzero exactly when threads queue on
\* it: no signal that a waiter needs stays in userspace.
CondvarWordHonest ==
  \A c \in Condvars : condvar[c].word <=> condvar[c].waiters # <<>>

\* A queue holds only threads that sleep for it, each of them once.
QueuesHoldSleepers ==
  /\ \A l \in Locks :
       /\ Once(lock[l].writers) /\ Once(lock[l].readers)
       /\ \A t \in Threads :
            /\ InQueue(lock[l].writers, t) =>
                 pc[t] \in {"wrwait", "cvwait", "relock"} /\ at[t] = l
            /\ InQueue(lock[l].readers, t) => pc[t] = "rdwait" /\ at[t] = l
  /\ \A c \in Condvars :
       /\ Once(condvar[c].waiters)
       /\ \A t \in Threads :
            InQueue(condvar[c].waiters, t) =>
              pc[t] = "cvwait" /\ cv[t] = c /\ ~InQueue(lock[at[t]].writers, t)

\* A thread that a signal has taken off its condition variable reports the
\* signal, never a timeout that strikes before the thread gets to run.
Signalled(t) ==
  pc[t] = "cvwait" /\ \A c \in Condvars : ~InQueue(condvar[c].waiters, t)
SignalBeatsTimeout ==
  [][\A t \in Threads :
       (Signalled(t) /\ pc'[t] # "cvwait") => ret'[t] = [type |-> "CONDVAR", error |-> "0"]]_vars

\* futex_op_condvar_wait() returns with the lock held once it has dropped it,
\* whether the wait was signalled, timed out or could not start.
WaitReturnsLocked ==
  [][\A t \in Threads :
       (pc[t] \in {"cvwait", "relock"} /\ pc'[t] \notin Sleeping) => pc'[t] = "wrheld"]_vars

\* futex_lock_unlock() does not refuse the thread that owns the lock, and
\* futex_lock_trywrlock() reports a deadlock only to the owner.
OwnersAreRecognised ==
  \A t \in Threads :
    /\ ret[t].error # "EPERM"
    /\ ret[t].error = "EDEADLK" => pc[t] = "wrheld"

\* The locks that programs use properly are the read-write locks of Monitor:
\* their holders are the threads that the words make owners, and the queues
\* of the objects are the waiting lines.
ProperLocks == Locks \ MisusedLocks
Abstract ==
  INSTANCE Monitor WITH
    Locks   <- ProperLocks,
    writer  <- [l \in ProperLocks |-> WrOwners(l)],
    readers <- [l \in ProperLocks |-> RdOwners(l)],
    writing <- [l \in ProperLocks |-> lock[l].writers],
    reading <- [l \in ProperLocks |-> lock[l].readers],
    waiting <- [c \in Condvars |->
                  IF condvar[c].lock \in ProperLocks THEN condvar[c].waiters ELSE <<>>]
ImplementsMonitor == Abstract!MSpec

\* The comment on fl_owner: the owner of a managed lock that is read-locked
\* is LOCK_OWNER_UNKNOWN.
ReadLockedOwnerUnknown ==
  \A l \in Locks :
    (lock[l].owner # LOCK_UNMANAGED /\ ~lock[l].wr) => lock[l].owner = LOCK_OWNER_UNKNOWN

\* futex_op_condvar_signal() acquires the lock on behalf of the first waiting
\* thread, so that there has to be one: futex_queue_tid_best() is never
\* applied to an empty queue.
SignalFindsAWaiter == ~crashed

\* A thread that queues for writing, or that a signal has taken off its
\* condition variable, gets to run (or the process dies).
WritersGetTheLock ==
  \A t \in Threads :
    (pc[t] \in {"wrwait", "relock"} \/ Signalled(t)) ~> (pc[t] \notin Sleeping \/ crashed)
=============================================================================
