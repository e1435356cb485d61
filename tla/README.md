# A verification of cloudabi-utils in TLA+

This directory holds TLA+ modules that model the CloudABI emulator of this
repository, TLC configurations that check them on small instances, and proofs
that TLAPS checks for instances of every size.

## 1. The system

`cloudabi-run` reads a YAML file, opens the files and sockets that its tags
name, and starts a CloudABI program with them. On a system without native
support it runs the program in `libemulator`: the program's system calls are
functions of the emulator, called by the program's threads, in one process.

| part | source | state | operations |
|---|---|---|---|
| futexes | `libemulator/futex.c` | lock and condition variable words in the program's memory; `futex_lock` and `futex_condvar` objects with owner, wait queues, wait counts; one global mutex | `lock_rdlock`, `lock_wrlock`, `lock_unlock`, `condvar_wait`, `condvar_signal`, sleeping, timeouts |
| descriptor table | `libemulator/posix.c`, `refcount.h` | table of entries (object, rights), size and used count; objects with a reference count and a host number | all `fd_*`, `file_*`, `sock_*`, `poll` and `mem_map` calls |
| rights | `libemulator/rights.h`, `posix.c` | base and inheriting rights of an entry | `fd_determine_type_rights`, `fd_stat_put`, `file_open` |
| pathnames | `posix.c` `path_get` | stacks of directories and pending paths, expansion count | all `file_*` calls that take a path |
| directory reading | `posix.c` `sys_file_readdir` | directory handle and its offset in the object | `file_readdir` |
| polling | `posix.c` `sys_poll` | none between calls | `poll`, also the entry to all waits on futexes |
| threads | `posix.c`, `tidpool.c`, `tls.c` | next thread identifier, TLS areas | `thread_create`, `thread_exit`, TLS switches |
| host wrappers | `locking.h`, `random.c`, `str.c`, `signals.c` | none | timed waits, random numbers, strings |
| loader | `emulate.c` | the program's address space, once | `emulate()` |
| start of programs | `cloudabi-run`, `cloudabi-emulate`, `libcloudabi`, `cloudabi-reexec` | the descriptors a program starts with | `program_exec`, splitting and joining arguments |

They interact in four places. The program's threads meet in the futexes, in
the table and in the objects of directories. The start of a program fills the
table and the address space. `poll()` calls either futexes or looks up
descriptors. And waits with a timeout, of futexes and of `poll()`, end up in
`cond_timedwait()`.

What makes this code hard to get right, and hardly tested:

* A lock has two masters. Its word is changed by the program's C library
  without any call, unless the kernel-managed bit is set, and by the emulator.
  The emulator keeps an object for a lock only while a thread sleeps on it.
* A waiter's queue entry is on its stack. A signal may move it from the queue
  of a condition variable to that of a lock while its timeout expires.
* A wait on a condition variable that fails has dropped the lock and must sleep
  a second time to get it back.
* Descriptors are closed and replaced by one thread while others use them,
  and each error path has to close exactly the numbers it owns.
* Rights are checked before a call to the host and installed after it.
* `path_get()` expands symbolic links itself, with two stacks of fixed size and a
  dozen exits, while other processes change the links.
* Threads share the handle of a directory, and each has its own place in it.
* A thread that exits wakes up the thread that frees its stack and its TLS.
* A pointer into the table is kept while the table grows, and a number may belong
  to several objects.
* Times, page ranges, string tables and argument vectors have boundaries at
  which an error of one is easily made.

`PROJECT.json` lists these hazards with their lines and properties.

## 2. Modules

| module | what it is |
|---|---|
| `Futex` | `futex.c`, with the program's C library as environment |
| `Monitor` | the abstract specification that `Futex` implements: read-write locks with waiting lines and condition variables |
| `MCFutex`, `MCFutexHistory` | its instances for TLC; the second one with a history variable |
| `FdTable` | the descriptor table and rights of `posix.c`, with the host as environment |
| `MCFdTable` | its instances for TLC |
| `PathGet` | `path_get()`, `path_put()` and the calls that use them, with a file system that changes |
| `MCPathGet` | its instances, and a recursive reference for the result of a look-up |
| `ReadDir` | `file_readdir()`, with threads that enumerate one directory |
| `MCReadDir` | its instance |
| `ThreadLife` | `thread_create()`, `thread_exit()`, `tidpool.c` and the wrappers of `tls.c` |
| `Deadline` | the arithmetic of `cond_timedwait()` for each kind of host |
| `Poll` | `sys_poll()` without futexes; uses `Deadline` |
| `Loader` | `emulate()`: loading an executable |
| `Launch` | `cloudabi-run`, `program_exec()`, `cloudabi-reexec`; uses `Loader` |
| `Process` | the composition of `Launch`, `Poll` and `ThreadLife`: a process from its command line to a blocking call or to the end of its threads |
| `MCProcess` | its instance |
| `FutexObjectProofs` | lemmas on queues and objects, the inductive invariant |
| `FutexLockProofs` | the operations on locks keep it |
| `FutexSleepProofs` | the ends of sleeps and the second sleep keep it |
| `FutexProofs` | waiting and signalling keep it; the theorems |
| `MonitorProofs`, `PathGetProofs`, `ReadDirProofs`, `ThreadLifeProofs` | theorems about the module of that name, with their invariants |

The definitions whose names end in `Mutant` are plausible mistakes. Each
property of a run is violated when the definition that `PROJECT.json` names is
replaced by its mutant.

### Futex

`lock[l]` is the word of a lock (`km`, `wr`, `n`: the kernel-managed bit, the
write-locked bit, and the thread identifier or number of readers) with the
fields of its `futex_lock`; `futex_lock_list` is the set of locks that have one.
`condvar` and `futex_condvar_list` are the same for condition variables. `pc`,
`at`, `cv` and `sig` say what each thread does, with which lock and condition
variable; `ret` is the result of its last call as `poll()` reports it.

All of `futex.c` runs under `futex_global_lock`, so an action is one critical
section: from the start of an operation, or the return of `cond_timedwait()`,
to the next sleep or to the end. The helpers have the names they have in C and
map the state of a lock to a new state and an error. Two things are
abstracted. A `compare_exchange` loop on a word is one atomic step, since it only takes effect
when the word has not changed. And wake-ups are not separate: a thread whose
entry is in no queue can run, which is what `fw_queue == NULL` says.

The actions `User*` are external: the C library takes and drops locks
in the word, upgrades the last read lock of a managed lock to a write lock
before it calls `lock_unlock`, and calls `condvar_signal` only if the word says
that there are waiters. Between reading this word and the call
(`sig`) any other thread may run. Threads also unlock, and wait with, the locks
in `MisusedLocks` when they do not hold them. The `scope` argument is left out: any but a
private scope is refused before the state is touched.

### FdTable

`curfds` is the table, `obj` the objects, `host` the numbers that
are open with their kind of file, access mode and owner (an object, or the thread
that has to dispose of it), `th` the system call each thread is in with its
locals. An action is a stretch of a call that other threads cannot interrupt
visibly: a critical section under the table's lock, a change of a reference
count, a call to the host that opens or closes a number or that may block. A call that fails before it changes
anything is a stuttering step. Data read and written, error numbers, and the way
pathnames resolve are left out. The host hands out the lowest number, as POSIX
requires, which is what makes a second `close()` of a number dangerous.

The same `poll`, `path_get` and `readdir` calls have modules of their own, below;
here they hold and drop references.

`fd_table_grow()` is stated as what its loop computes: the smallest doubling
that fits. A random free slot is any free slot. `fd_dup()` keeps a pointer to its
entry while the table grows. If `realloc()` moves the table (`reallocMoves` of a
program), what it reads afterwards is undefined: `Dangling` is any object or none,
with all rights or none (see the findings). With an allocator that extends the
table in place it is the entry. The safety run makes this assumption for its
programs that call `fd_dup()`, and only for them.

A program is given the numbers `args`, in which a number may occur several times:
the manual passes `stdout` three times (`cloudabi-run.1:171`). Each occurrence gets
an object, and the first of these to go closes the number of the others, which the
host may then hand out again. `PassedTwice` singles these numbers out. The counts,
the table, the leaks and the rights that descriptors pass on are checked for them
as for all; `ReferencedDescriptorValid` and `RightsMatchMode` do not hold of them
and say nothing about them.

### Monitor

A lock has a set of writers (at most one), a set of readers, and two lines of
threads that want to write and to read; a condition variable has a line. Releasing
a lock hands it to the first writer in line, or to all readers, in the same step.
A signal moves the oldest waiters to the lock, and a waiter whose time is up goes
there too. There are no words, objects, wait counts or
managed bits. `Futex` implements it with holders being the
threads that the word makes owners, whether or not they have run since they were
handed the lock (`WrOwners`, `RdOwners`), and with lines being the queues. This is
stated for the locks that programs use properly (`ProperLocks`), while other
locks of the same program are misused. The order of wake-ups is
visible in its actions; mutual exclusion is proved of it (section 4).

### PathGet

`fds` and `paths` are the two stacks, `todo` the pathnames of a call that are
still to be resolved, `leases` those that are, and `heap` and `host` the
allocated buffers and open directories. A step is one
component: a call of `openat()`, a call of `readlinkat()`, or a `.` or `..`. Between
any two of them another process may replace the file system by another
one (`ChangeTree`). The limits of the source (128 directories, 32 paths, 128
expansions) are constants. A pathname is a sequence of names with flags for a
leading and a trailing slash.

The model's host answers `ELOOP` for a symbolic link opened with `O_DIRECTORY |
O_NOFOLLOW`, which is what the code compares with (`posix.c:1311`). Linux answers
`ENOTDIR` and links in the middle of a path then are not expanded. When the
buffer of a link is given to `free()` by its end (see the findings), the model goes
on as if it had been freed, or the process ends.

The race that the comment at `posix.c:1341` describes, a final component with a
trailing slash that the caller's own system call expands once more, is after
`path_get()` has returned and outside of `StaysBelowBase`. The
detour of `file_link()` for macOS's `ENOTSUP` is left out.

### ReadDir

One directory object with its handle, the position of the host's stream, the
cached `offset` and the lock; each thread has a cookie, a buffer and the entries it
has seen. The loop `while (nbyte > 0)` (`posix.c:1650`) does not lower `nbyte`, so
a call reads to the end of the directory even if its buffer is full, and the
next call seeks back; the model does so. `UserReaddir` is the C library's
`readdir()`: it skips a last entry that is cut off, and doubles the buffer when no
entry fits.

### ThreadLife

The life of each thread (`pc`), the counter of identifiers, the parameters
that are allocated, the memory that the program has allocated for threads (a stack
and TLS), the lock that a joiner waits for, and for each thread the TLS register with the values saved for
program and host. `UserCreate` and `UserJoin` are the C library: the creator
allocates memory, and the joiner frees it once it gets the lock. The emulator does
not run on the program's stack, which is why it may be freed while the thread is
between the wake-up and `pthread_exit()`; `MemoryOutlivesUse` says that this is
the only place.

### Launch, Loader, Poll, Deadline and Process

`Launch` follows the nodes of a YAML document: each descriptor node opens a file
or socket at the lowest free number, kept by `fds_`. With `-e` the descriptors
are registered in the emulator's table in order and `emulate()` is called; without
it the argument data are serialised, split at their null bytes into arguments for
`cloudabi-reexec`, and joined again. `Loader` has memory as a function of
addresses: a byte of the file is its position, zero is zero, and what belongs to
others is `Foreign`. Pages have two bytes in the run. `do_pread()` may
return any number of bytes, and finds the end of a file that was truncated.

Nothing is assumed of program headers. Segments may overlap: each `mmap()` covers
what is there. `emulate()` does not compare `p_filesz` with `p_memsz`
(`emulate.c:128`), so a segment with more bytes in the file than in memory is mapped
over its neighbours and beyond the reservation. A page beyond the end of the file
(`Bus`) kills the process when `memset()` touches it. `ImageFaithful` therefore says
what holds of which segments: those that are alone in their pages, whose part in
the file is there and not larger than the part in memory are loaded exactly,
whatever the others are like; and memory outside the reservation is left alone if
no segment has more bytes in the file than in memory.

The number in `!fd` is a decimal one according to the manual
(`cloudabi-run.1:108`), but only `stdout` and `stderr` are accepted
(`yaml_file_descriptor_factory.cc:54`, a "TODO"): the launch ends with 127, in the model
as in the code, and `ProgramGetsExactSet`, which is about programs that start, says
nothing about it.

`Poll` converts subscriptions to entries, takes references, calls the host, reports
events and releases. `Deadline` converts a timeout in the ways the four kinds of
hosts do, one reading of a clock per step, while time passes; a second has
four nanoseconds in the run, so that every carry and borrow occurs.
`Process` runs them one after the other: `Enter` is the step in which `emulate()`
starts the program and its first thread, and then the program makes its call or has
threads. Every other step leaves the variables of `ThreadLife` alone or is a step
of it, so that its theorems hold of the process (`ProcessRunsThreads`). The
scenarios of the run vary one part at a time: all documents, all executables, all
calls, and threads.

## 3. Runs

| run | instance | question |
|---|---|---|
| `monitor` | 3 threads, 2 locks, one of them misused, 1 condition variable, 2 readers, 2 threads with timeouts, signals without the lock; 236,000 states | does `futex.c` implement `Monitor`; do words, owners, objects and queues agree; does a signal beat a timeout |
| `timed` | 3 threads, 1 lock, 1 reader, fair, all with timeouts, allocations fail, signals with and without the lock; 17,000 states | is a wake-up ever lost; is an owner ever refused; does a wait return with the lock; does a disciplined signal find a waiter |
| `owner` | as `monitor`, one lock, thread 2 among the threads | violated: see findings |
| `signal` | as `owner` | violated: see findings |
| `table` | 2 threads, several programs of calls, 3 objects, a table of at most 8, messages of up to 2 descriptors, a number that is passed twice, allocations and host calls fail; 439,000 states | growth, references, validity of numbers, leaks on error paths, rights |
| `recv_enomem` | 2 threads, a socket, memory may run out | violated: see findings |
| `dup_moved` | 2 threads, a table of at most 4 that moves when it grows | violated: see findings |
| `drop` | 2 threads, fair, also with a table that moves; 32,000 states | are dropped objects closed |
| `path` | 60 file systems, 6 of which other processes switch among, 10 pathnames, stacks of 3 directories and 3 paths, 5 expansions; 112,000 states | does a walk stay below its directory; are descriptors, references and buffers given up on every exit; is the result that of the reference; does every call return |
| `path_free` | as `path` | violated: see findings |
| `readdir` | 2 threads, 4 entries, buffers smaller than an entry, host failures, a concurrent close; 33,000 states | is every enumeration exact; does it end; does the handle live while it is used |
| `process` | 2,176 scenarios: a document, an executable (also overlapping, oversized and truncated segments), a call on 4 kinds of hosts, or 3 threads whose identifiers run out and whose creations fail; 215,000 states | does the program get its descriptors, arguments and image; does every launch end; are deadlines exact; does a poll report, release and end as it should; parameters, identifiers, memory and TLS of threads; can an exit be joined |

The bounds are chosen so that the cases that matter occur. Three threads are a
holder, a waiter and a third that signals or barges in. Signals wake 0, 1 or 2
threads: nothing, one thread, or one and a requeued one. Two locks
let a condition variable meet the wrong one. The table has to
grow several times (from 0 to 2, 4 and 8), and to refuse when memory for
it runs out. Two threads show every
race between a call and one that closes, replaces or restricts under it. Every limit
of `path_get()` is reached: too many directories, paths, expansions and host
descriptors. Four entries of three lengths end before, at and after the end of the
buffer. Segments of up to two pages end before, on and after a page boundary.
Calls with a timeout begin in every phase of a second and last up to three seconds.
Every action of every module fires. The only alternatives that no run takes are
`EDEADLK` for a thread that gets its lock back after a failed wait, or on whose behalf
a signal takes the lock: they need the confusion of identifiers described next.

Thread identifiers in `monitor` are 5, 6 and 7, above the number of
readers, because of the finding on the owner: an identifier that equals the number
of readers is mistaken for the owner, and then a waiter returns from a condition
variable without its lock, which `Monitor` forbids. `timed` has one reader
for the same reason.

Symmetry is used for threads and objects in `FdTable`'s safety run; not in
`Futex`, whose thread identifiers are numbers, and not for liveness. Deadlock is
checked in `path` and `readdir`, where a state with no next step would be a
call that is stuck; a process that `free()` has ended and enumerations that are
over stutter explicitly. It is not checked elsewhere: a program may wait for a lock
it holds or a signal that never comes, and a process may end; `LaunchEnds` and
`ExitLeadsToJoin` say where those of `process` may.

### Fairness

* `Futex`: a thread that can run does (`ResumeLock`, `ResumeCondvar`, a signal under
  way); the host's scheduler and condition variables give this. And
  the program gives back the locks it holds: strong fairness of `lock_unlock`,
  since a holder may signal in between, and weak fairness of the release of read
  locks. There is no fairness of timeouts or of taking locks. The liveness property
  is about writers, because the code prefers them: readers may starve behind
  a stream of writers.
* `FdTable`, `PathGet`, `ReadDir`: calls under way go on, since host calls
  return. This is false of a read that blocks for ever, and then its object stays
  referenced, as it should. Nothing is assumed of other processes
  or of the start of calls.
* `Process`: once the document is complete the launch is a single thread that
  waits for nobody, and goes on. Nothing is assumed of what comes before (`Prepare`:
  `open()`, standard input and the switchboard may block), and the host need not fail
  (`HostFails` is not part of the fair steps), so `LaunchEnds` holds because the
  code gets to an end. `sys_poll()` goes on except in the host's `poll()` when its
  timeout is infinite. Threads in the emulator go on (weak), and the main thread
  joins a thread that it can join infinitely often (strong: it may do other things
  in between). Nothing is assumed of time passing.

### Findings

* `owner`: the comment on `fl_owner` (`futex.c:42`) says that it is
  `LOCK_OWNER_UNKNOWN` for a lock that is read-locked. The code stores the number
  of readers (`futex.c:294`). For one reader this number happens to be
  `LOCK_OWNER_UNKNOWN`; for two or more it is a thread identifier, and since a known
  owner is never updated, the thread of that number is told `EDEADLK`, and the
  last reader is refused with `EPERM` when it unlocks, so that the writers behind
  it keep sleeping. `OwnersAreRecognised` and `WritersGetTheLock` therefore do not
  hold with two readers, and `timed` has one: it shows that with one reader no
  wake-up is lost. The state of the words and objects does not depend on the owner
  (`monitor` has two readers).
* `signal`: `condvar_signal` takes the first entry of a queue that may be empty
  (`futex.c:604`), when the object of the condition variable lives on for a thread
  that was requeued or timed out. A program that signals only with the lock
  held and waits without timeouts is not affected (`DisciplinedSignalsFindAWaiter`).
* `recv_enomem`: `sys_sock_recv()` closes a number that `fd_table_insert_fd()` has
  already closed (`posix.c:2434`), which another thread may have obtained.
* `dup_moved`: `sys_fd_dup()` uses `fe` after `fd_table_grow()` has reallocated
  the table that it points into (`posix.c:737`). The copy may then refer to an object
  that is not in use, and the comment in `sys_poll()` that references keep
  descriptors valid does not hold.
* `path_free`: after the last component of a symbolic link, `path_get()` calls
  `free(paths[curpath--])` (`posix.c:1366`). That pointer has moved along the target;
  the allocation starts at `paths_start[curpath]`.

Another thing is modelled, and not a finding because no line of the repository
speaks of it: `fd_replace()` of a descriptor by itself ends the process
(`posix.c:890`; a program of `FdTable` does so if `"self_replace"` is among its
`calls`).

## 4. Proofs

`FutexProofs` shows, for any finite set of threads, any sets of locks and condition
variables, and every setting of the environment, misuse included:

| theorem | states |
|---|---|
| `Invariance` | `Spec => []IInv` |
| `TypeCorrect` | `Spec => []TypeOK` |
| `ManagedCorrect` | `Spec => []ManagedIffWaiters` |
| `CountsCorrect` | `Spec => []ObjectsCountTheirSleepers` |
| `CondvarWordCorrect` | `Spec => []CondvarWordHonest` |
| `QueuesCorrect` | `Spec => []QueuesHoldSleepers` |

The assumptions are those of `Futex`: thread identifiers are numbers above
`LOCK_OWNER_UNKNOWN`, as `tidpool.c` hands them out, there are finitely many, and
the absent lock and condition variable are no address.

None of the properties is inductive. A managed bit that is right can only be kept
right if a lock's object is not discarded with threads in its queues, which needs
the wait counts; those need each queued thread to sleep, once, on that lock; and
requeueing keeps this only if the waiters of a condition variable
all sleep for its lock and are in none of its queues. `IInv` is the conjunction:

* `LockInv(l)`: the word and the object agree on being managed, a thread is
  at most once in each queue and sleeps for this lock, the wait count is the number
  of sleepers, and the object is listed while there are any;
* `CondvarInv(c)`: the same for a condition variable, whose waiters all
  sleep for its lock;
* `ThreadInv(t)`: what a thread's place says of its lock and condition variable;
* `OneQueue`: no thread waits for a signal and for a lock at once.

The proof is laid out by object. `LockStep` and `CondvarStep` say when replacing
one object, while one thread moves, keeps the invariant of all objects; each
helper of `futex.c` has a lemma that it keeps an object well formed and says which
threads it leaves in the queues; and each action has a lemma that combines the two.
Wait counts are handled by one lemma on the cardinality of a set that gains or
loses a thread.

### The other theorems

| theorem | states | for all |
|---|---|---|
| `MonitorPromise` | `MSpec => [](Exclusive /\ NoIdleLine)` | threads, locks, condition variables |
| `WalkStaysBelowBase` | `Spec => []StaysBelowBase` of `PathGet` | file systems, pathnames, limits, changes by other processes |
| `ResourcesBalance` | `Spec => []ResourcesExact` of `PathGet` | the same |
| `HandleCorrect` | `Spec => []HandleOpenWhileUsed` of `ReadDir` | finite sets of threads, directories, buffers |
| `EnumerationsCorrect` | `Spec => []EnumerationsExact` of `ReadDir`, if `FirstPositions` has only the start | the same |
| `ProcessRunsThreads` | `Spec => ThreadSpec` of `Process` | scenarios, and all other constants |
| `ParamsCorrect`, `IdentifiersCorrect`, `TlsCorrect`, `MemoryCorrect` | `Spec => []ParamsExact`, `[]IdentifiersAgree`, `[]TlsOfItsOwn`, `[]MemoryOutlivesUse` of `Process` | threads, widths of identifiers |

`MonitorPromise`: a lock has one writer or readers, and a lock that is free has
nobody in line. The two together are inductive. What they say of `futex.c` rests on
the refinement, which TLC checks.

`WalkStaysBelowBase`: `BelowBase` is the least set of directories that contains the
program's and is closed under subdirectories in all file systems that may occur.
`openat()` does not follow links, so it stays in this set; `..` pops the stack.
The invariant therefore says that the stack holds open descriptors, each of a
directory in `BelowBase`, and no descriptor twice: otherwise the `close()` of `..`
would leave a closed one behind, whose number the next `openat()` gets. That a
new descriptor is different from those on the stack is the host's lowest-number rule,
for which the proof uses that the numbers are well-founded. The assumptions
are the shape of file systems and limits.

`ResourcesBalance`: the invariant `Exact` says, next to the types of the locals at
each place (`Locals`), that the open descriptors are those of the stack above its
first element and of the leases, each once (`HandlesExact`), and that the buffers
are those of the paths, of the leases and of the target of `file_symlink()`
(`BuffersExact`). It needs the previous invariant for `..` and `openat()`. Each exit
of `path_get()` has a lemma (`FailExact`, `SucceedExact`), and so has each step of
the walk. The property counts, the invariant names; `CountPlaces` leads from one to
the other.

`HandleCorrect`: the count of references is the number of calls under way plus one
for the table, the holder of the lock is the one thread that reads, and the handle
is closed exactly when the count is zero.

`EnumerationsCorrect`: the invariant `Enumerating` says that the cached offset is the
position of the handle once there is one, and for each thread (`CallExact`) that its
cookie is the number of entries it has seen, that its buffer has the entries after
the cookie, and that the handle is behind them while it reads. Only a buffer that is
full may lack an entry that was read, or end in a part of one. A step that
moves the handle is one of the holder of the lock, so the previous invariant is
needed. The premise is about directories that are obtained from outside
with a handle that has been read from: the emulator takes the offset to be the start.

`ThreadLife`: a thread that is being created has one creator and does not run;
parameters exist exactly for threads between `malloc()` and their entry and carry
the identifier that the creator was told; identifiers are below the counter and
distinct; and the register, the saved TLS of the host and that of the program are
what the place of the thread requires. A thread holds its lock until it exits, and
its memory is there from its creation until a joiner, who needs the lock, frees it.
The invariant is proved of `ThreadSpec`, and `ProcessRunsThreads` carries it over to
the process that the run checks. The theorem on identifiers is about those
that the counter hands out below `MaxTid`.

### Only checked by TLC

That `Futex` implements `Monitor`, `WordNamesOwners`, `OwnersAreRecognised`, the
action properties, everything about `FdTable`, `Launch`, `Loader`, `Poll` and
`Deadline`, that look-ups agree with
the recursive reference (recursion is beyond the prover), and all liveness
(fairness and `ENABLED` are, too). `WordNamesOwners` is
stated for the locks that are not misused. A proof would need, next to `IInv`, that
misuse of one lock leaves the words of the others alone. A proof of `HalfFree` would
need that doubling reaches every size, an induction.

## 5. Not modelled

* `random_uniform()`: its rejection loop ends with probability one, which TLA+ does
  not express. A random slot is any free slot.
* Signals, clocks, advice and protection of memory: they convert arguments, call
  the host and keep no state.
* The patching of TLS instructions for hosts whose `gs` register is taken.
* Shared scopes, which `futex.c` refuses; `proc_fork` and `proc_exec`, which are not
  supported by the emulator.
* Parsing of YAML, its scalar tags, and the encoding of argument data: libraries.
* Bytes that are read, written or sent; error numbers of calls that only forward
  them; the contents of `stat` and of socket options.
* A directory that another process changes while it is read, and one that was
  received over a socket with its position not at the start.
* 30-bit overflow of thread identifiers: `thread_create()` of the model is refused
  beyond `MaxTid`, the code would wrap into the flag bits (`tidpool.c:17`).

## 6. Plan

1. Proofs: `RefcountsExact` and `AuthorityNeverGrows` of `FdTable`; a second
   layer on `IInv` for `WordNamesOwners`, and from it the refinement of `Monitor`.
2. Progress in `Monitor`: every writer in line gets the lock, from the fairness of
   unlocking, so that `WritersGetTheLock` becomes a consequence of the refinement.
3. A directory that changes while it is enumerated, in `ReadDir`.
