----------------------------- MODULE ThreadLife -----------------------------
(***************************************************************************)
(* The life of threads in libemulator: thread_create() and thread_exit()   *)
(* of posix.c, the identifiers of tidpool.c, and the wrappers of tls.c     *)
(* that switch between the thread-local storage (TLS) of the program and   *)
(* that of the emulator around every system call.                          *)
(*                                                                         *)
(* Threads run concurrently: code of the program at pc "guest", code of    *)
(* the emulator elsewhere.  Every thread has a lock that it holds until    *)
(* thread_exit() drops it; the program joins a thread by acquiring that    *)
(* lock (module Futex), and then frees the memory that it had provided for *)
(* the thread: its stack and its TLS.                                      *)
(***************************************************************************)
EXTENDS Integers, FiniteSets

CONSTANTS
  Threads,     \* threads, as the program names them
  Main,        \* the one that the process starts with
  TidBits,     \* width of identifiers without the flags of a lock (30)
  NoTid,       \* no identifier
  NULL         \* no thread

ASSUME ThreadAssumption ==
  Main \in Threads /\ TidBits \in Nat \ {0, 1} /\ NULL \notin Threads

VARIABLES
  pc,         \* what each thread is doing
  arg,        \* the thread that a thread creates
  utid,       \* the identifier that thread_create() gave the program
  curtid,     \* the thread-local variable curtid
  tidpool,    \* the next identifier
  params,     \* allocated parameters: thread and identifier
  join,       \* threads whose lock is held
  joined,     \* threads that have been joined
  ustack,     \* threads whose memory from the program is allocated
  tls,        \* the TLS register
  tls_host,   \* the TLS of the host, while the program runs
  tls_guest,  \* the TLS of the program, while the emulator runs
  tcb         \* the TLS that the program chose last

tlsvars == <<tls, tls_host, tls_guest, tcb>>
life == <<arg, utid, curtid, tidpool, params, join, joined, ustack>>
threadVars == <<pc, life, tlsvars>>

MaxTid == 2 ^ TidBits - 1
Tids == 2 .. MaxTid
Goto(t, l) == pc' = [pc EXCEPT ![t] = l]
HostTls(t) == [of |-> t, tcb |-> "host"]
GuestTls(t, n) == [of |-> t, tcb |-> n]
NoTls == [of |-> NULL, tcb |-> "none"]

-----------------------------------------------------------------------------
(***************************************************************************)
(* The wrappers of system calls.                                           *)
(***************************************************************************)
\* Mutant: the TLS of the program is kept in one variable for all threads.
EnterHostMutant(t) ==
  /\ tls_guest' = [u \in Threads |-> tls[t]]
  /\ tls' = [tls EXCEPT ![t] = tls_host[t]]
  /\ UNCHANGED <<tls_host, tcb>>

EnterHost(t) ==
  /\ tls_guest' = [tls_guest EXCEPT ![t] = tls[t]]
  /\ tls' = [tls EXCEPT ![t] = tls_host[t]]
  /\ UNCHANGED <<tls_host, tcb>>

LeaveHost(t) ==
  /\ tls_host' = [tls_host EXCEPT ![t] = tls[t]]
  /\ tls' = [tls EXCEPT ![t] = tls_guest[t]]
  /\ UNCHANGED <<tls_guest, tcb>>

\* tls_init(): the program starts with the control block of the emulator.
tls_init(t) ==
  /\ tls_host' = [tls_host EXCEPT ![t] = tls[t]]
  /\ tls' = [tls EXCEPT ![t] = GuestTls(t, "initial")]
  /\ tcb' = [tcb EXCEPT ![t] = GuestTls(t, "initial")]
  /\ UNCHANGED tls_guest

\* The program installs a control block of its own, with the same parent.
UserSetTcb(t) ==
  /\ pc[t] = "guest" /\ tls[t] = GuestTls(t, "initial")
  /\ tls' = [tls EXCEPT ![t] = GuestTls(t, "own")]
  /\ tcb' = [tcb EXCEPT ![t] = GuestTls(t, "own")]
  /\ UNCHANGED <<pc, life, tls_host, tls_guest>>

\* A system call that this module does not look into, such as thread_yield().
OtherCall(t) ==
  /\ pc[t] = "guest"
  /\ EnterHost(t) /\ Goto(t, "other")
  /\ UNCHANGED life

Return(t) ==
  /\ pc[t] \in {"other", "return"}
  /\ LeaveHost(t) /\ Goto(t, "guest")
  /\ UNCHANGED life

-----------------------------------------------------------------------------
(***************************************************************************)
(* Creation.                                                               *)
(***************************************************************************)
\* The program allocates memory for a thread and calls thread_create().
UserCreate(t, n) ==
  /\ pc[t] = "guest" /\ pc[n] = "none" /\ n \notin ustack
  /\ \A u \in Threads : arg[u] # n
  /\ ustack' = ustack \cup {n}
  /\ arg' = [arg EXCEPT ![t] = n]
  /\ EnterHost(t) /\ Goto(t, "create")
  /\ UNCHANGED <<utid, curtid, tidpool, params, join, joined>>

\* An error is returned, and the program frees the memory.
CreateFails(t) ==
  /\ arg' = [arg EXCEPT ![t] = NULL]
  /\ ustack' = ustack \ {arg[t]}
  /\ Goto(t, "return")

\* Mutant: the counter is not advanced before the identifier is used.
tidpool_allocateMutant(tid) == tid = tidpool /\ tidpool' = tidpool

\* The next identifier; the model stops creating threads when the bits of an
\* identifier are used up, which the code does not look out for.
tidpool_allocate(tid) == tid = tidpool /\ tidpool' = tidpool + 1

\* malloc() and tidpool_allocate().
AllocateParams(t) ==
  /\ pc[t] = "create"
  /\ \/ \E tid \in Tids :
          /\ tidpool_allocate(tid)
          /\ params' = params \cup {[thread |-> arg[t], tid |-> tid]}
          /\ utid' = [utid EXCEPT ![arg[t]] = tid]
          /\ Goto(t, "spawn")
          /\ UNCHANGED <<arg, ustack>>
     \/ /\ CreateFails(t)
        /\ UNCHANGED <<params, utid, tidpool>>
  /\ UNCHANGED <<curtid, join, joined, tlsvars>>

ParamsOf(n) == {p \in params : p.thread = n}

\* Mutant: parameters are not freed when the host refuses the thread.
SpawnLeakMutant(t) ==
  /\ pc[t] = "spawn"
  /\ CreateFails(t)
  /\ UNCHANGED <<utid, curtid, tidpool, params, join, joined, tlsvars>>

\* pthread_attr_init(), pthread_attr_setdetachstate() and pthread_create(),
\* each of which may fail.  The program has given the new thread its lock.
Spawn(t) ==
  LET n == arg[t]
  IN  /\ pc[t] = "spawn"
      /\ \/ /\ pc' = [pc EXCEPT ![t] = "return", ![n] = "entry"]
            /\ join' = join \cup {n}
            /\ arg' = [arg EXCEPT ![t] = NULL]
            /\ UNCHANGED <<params, ustack>>
         \/ /\ CreateFails(t)
            /\ params' = params \ ParamsOf(n)
            /\ UNCHANGED join
      /\ UNCHANGED <<utid, curtid, tidpool, joined, tlsvars>>

\* thread_entry(): the parameters are copied and freed, and the entry point
\* of the program is called.
thread_entry(t) ==
  /\ pc[t] = "entry"
  /\ \E p \in ParamsOf(t) :
       /\ params' = params \ {p}
       /\ curtid' = [curtid EXCEPT ![t] = p.tid]
  /\ tls_init(t)
  /\ Goto(t, "guest")
  /\ UNCHANGED <<arg, utid, tidpool, join, joined, ustack>>

-----------------------------------------------------------------------------
(***************************************************************************)
(* The end.                                                                *)
(***************************************************************************)
\* Mutants: the lock is not dropped; the call returns after that.
ExitLockedMutant(t) ==
  /\ pc[t] = "exit"
  /\ Goto(t, "exiting")
  /\ UNCHANGED <<life, tlsvars>>

ExitReturnsMutant(t) ==
  /\ pc[t] = "exit"
  /\ join' = join \ {t}
  /\ Goto(t, "return")
  /\ UNCHANGED <<arg, utid, curtid, tidpool, params, joined, ustack, tlsvars>>

UserExit(t) ==
  /\ pc[t] = "guest" /\ t # Main
  /\ EnterHost(t) /\ Goto(t, "exit")
  /\ UNCHANGED life

\* futex_op_lock_unlock(): from here on the thread can be joined.
sys_thread_exit(t) ==
  /\ pc[t] = "exit"
  /\ join' = join \ {t}
  /\ Goto(t, "exiting")
  /\ UNCHANGED <<arg, utid, curtid, tidpool, params, joined, ustack, tlsvars>>

\* pthread_exit().
PthreadExit(t) ==
  /\ pc[t] = "exiting"
  /\ Goto(t, "gone")
  /\ UNCHANGED <<life, tlsvars>>

\* pthread_join() of the program: acquires the lock and frees the memory.
UserJoin(t, n) ==
  /\ pc[t] = "guest" /\ t # n
  /\ pc[n] \notin {"none", "entry"} /\ n \in ustack /\ n \notin join /\ n \notin joined
  /\ joined' = joined \cup {n}
  /\ ustack' = ustack \ {n}
  /\ UNCHANGED <<pc, arg, utid, curtid, tidpool, params, join, tlsvars>>

\* The process starts in the emulator, with one thread.
ThreadInit ==
  /\ pc = [t \in Threads |-> IF t = Main THEN "boot" ELSE "none"]
  /\ arg = [t \in Threads |-> NULL]
  /\ tidpool = 2 /\ params = {}
  /\ utid = [t \in Threads |-> NoTid] /\ curtid = utid
  /\ join = {Main} /\ joined = {} /\ ustack = {}
  /\ tls = [t \in Threads |-> HostTls(t)]
  /\ tls_host = [t \in Threads |-> NoTls]
  /\ tls_guest = [t \in Threads |-> NoTls]
  /\ tcb = [t \in Threads |-> NoTls]

\* emulate() makes it the first thread of the program.
StartMain ==
  /\ pc[Main] = "boot"
  /\ \E tid \in Tids :
       /\ tidpool_allocate(tid)
       /\ utid' = [utid EXCEPT ![Main] = tid]
       /\ curtid' = [curtid EXCEPT ![Main] = tid]
  /\ tls_init(Main)
  /\ Goto(Main, "guest")
  /\ UNCHANGED <<arg, params, join, joined, ustack>>

\* What the emulator does next for a thread.
EmulatorStep(t) ==
  \/ Return(t) \/ AllocateParams(t) \/ Spawn(t) \/ thread_entry(t)
  \/ sys_thread_exit(t) \/ PthreadExit(t)

\* The steps of the threads of a program that has started.
ThreadNext ==
  \E t \in Threads :
    \/ EmulatorStep(t)
    \/ UserSetTcb(t) \/ OtherCall(t) \/ UserExit(t)
    \/ \E n \in Threads : UserCreate(t, n) \/ UserJoin(t, n)

ThreadSpec == ThreadInit /\ [][StartMain \/ ThreadNext]_threadVars

-----------------------------------------------------------------------------
(***************************************************************************)
(* Properties.                                                             *)
(***************************************************************************)
Live(t) == pc[t] \notin {"none", "gone"}

\* "thread_entry() is responsible for freeing it again" (posix.c:2588): the
\* parameters of a thread are allocated once, from malloc() until the new
\* thread has copied them or the creator has seen the failure, and never after.
ParamsExact ==
  /\ \A p \in params : \/ pc[p.thread] = "entry"
                       \/ \E t \in Threads : pc[t] = "spawn" /\ arg[t] = p.thread
  /\ \A n \in Threads :
       (pc[n] = "entry" \/ \E t \in Threads : pc[t] = "spawn" /\ arg[t] = n)
         => Cardinality(ParamsOf(n)) = 1

\* A thread that runs has the identifier that its creator was given, which no
\* other thread has or had, whatever creations failed in between.
IdentifiersAgree ==
  /\ \A t \in Threads : (Live(t) /\ pc[t] \notin {"boot", "entry"}) => curtid[t] = utid[t]
  /\ \A t, u \in Threads :
       (t # u /\ curtid[t] # NoTid /\ curtid[u] # NoTid) => curtid[t] # curtid[u]

\* "The wakeup performed by thread_exit() may cause another thread in the
\* application to free the stack while we're still shutting down"
\* (posix.c:2614): once the memory that the program had provided for a thread
\* is freed, the thread has nothing left to do but to exit, in the emulator and
\* with its TLS, and has been joined.
MemoryOutlivesUse ==
  \A t \in Threads \ {Main} :
    (Live(t) /\ t \notin ustack) => pc[t] = "exiting" /\ tls[t] = HostTls(t) /\ t \in joined

\* Code of the emulator runs with the TLS of its own thread, code of the
\* program with the control block that it chose last, whatever system calls
\* other threads make at the same time.
TlsOfItsOwn ==
  \A t \in Threads :
    /\ pc[t] = "guest" => tls[t] = tcb[t]
    /\ (Live(t) /\ pc[t] # "guest") => tls[t] = HostTls(t)

\* A thread that calls thread_exit() can be joined in the end.
ExitLeadsToJoin == \A t \in Threads \ {Main} : (pc[t] = "exit") ~> (t \in joined)
=============================================================================
