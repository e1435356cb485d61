-------------------------- MODULE ThreadLifeProofs --------------------------
(***************************************************************************)
(* For any number of threads and any width of identifiers: the parameters  *)
(* of thread_create() are freed exactly once, threads agree on identifiers *)
(* that nobody shares, each thread runs with its own TLS, and has no use   *)
(* left for its memory when a join frees it.  The theorems are first about *)
(* the threads alone, and then about the whole process.                    *)
(***************************************************************************)
EXTENDS Process, FiniteSetTheorems, TLAPS

PCs == {"none", "boot", "entry", "guest", "other", "return", "create", "spawn",
        "exit", "exiting", "gone"}
TlsValues == [of : Threads \cup {NULL}, tcb : {"none", "host", "initial", "own"}]

TypeInv ==
  /\ pc \in [Threads -> PCs]
  /\ arg \in [Threads -> Threads \cup {NULL}]
  /\ utid \in [Threads -> Nat \cup {NoTid}] /\ curtid \in [Threads -> Nat \cup {NoTid}]
  /\ tidpool \in Nat
  /\ params \subseteq [thread : Threads, tid : Nat]
  /\ tls \in [Threads -> TlsValues] /\ tls_host \in [Threads -> TlsValues]
  /\ tls_guest \in [Threads -> TlsValues] /\ tcb \in [Threads -> TlsValues]

\* A thread has an argument while it creates a thread, which does not run yet
\* and which nobody else creates.
CreateInv ==
  /\ \A t \in Threads : pc[t] \in {"create", "spawn"} <=> arg[t] # NULL
  /\ \A t \in Threads : arg[t] # NULL => pc[arg[t]] = "none"
  /\ \A t, u \in Threads : (arg[t] = arg[u] /\ arg[t] # NULL) => t = u

\* The parameters of a thread that waits for them.
Pending(n) == pc[n] = "entry" \/ \E t \in Threads : pc[t] = "spawn" /\ arg[t] = n
ParamsInv ==
  /\ \A p \in params : Pending(p.thread) /\ p.tid = utid[p.thread]
  /\ \A n \in Threads : Pending(n) => \E p \in params : p.thread = n

\* Identifiers that have been given out are below the counter, and differ.
TidInv ==
  /\ \A t \in Threads : utid[t] # NoTid => utid[t] \in Nat /\ utid[t] < tidpool
  /\ \A t, u \in Threads : (utid[t] = utid[u] /\ utid[t] # NoTid) => t = u
  /\ \A t \in Threads : curtid[t] = IF pc[t] \in {"none", "boot", "entry"} THEN NoTid ELSE utid[t]

\* The register and the two places in which TLS is saved.
TlsInv ==
  \A t \in Threads :
    /\ pc[t] = "guest" => tls[t] = tcb[t] /\ tls_host[t] = HostTls(t)
    /\ pc[t] # "guest" => tls[t] = HostTls(t)
    /\ pc[t] \in {"other", "return", "create", "spawn"} => tls_guest[t] = tcb[t] /\ tls_host[t] = HostTls(t)

\* A thread that has not exited holds its lock, and the memory of a thread is
\* there from the call of thread_create() until it is joined.
MemoryInv ==
  /\ \A t \in Threads : pc[t] \notin {"none", "exiting", "gone"} => t \in join
  /\ \A t \in Threads : arg[t] # NULL => arg[t] \in ustack
  /\ \A t \in Threads \ {Main} :
       (pc[t] # "none" /\ t \notin ustack) => pc[t] \in {"exiting", "gone"} /\ t \in joined

Inv == TypeInv /\ CreateInv /\ ParamsInv /\ TidInv /\ TlsInv /\ MemoryInv

-----------------------------------------------------------------------------
\* The state in which a process starts satisfies the invariant.
LEMMA InitInv == ThreadInit => Inv
  <1> SUFFICES ASSUME ThreadInit PROVE Inv
    OBVIOUS
  <1> USE ThreadAssumption DEF ThreadInit
  <1>1. TypeInv
    BY DEF TypeInv, PCs, TlsValues, GuestTls, HostTls, NoTls
  <1>2. CreateInv
    BY DEF CreateInv
  <1>3. ParamsInv
    BY DEF ParamsInv, Pending
  <1>4. TidInv
    BY DEF TidInv
  <1>5. TlsInv
    BY DEF TlsInv
  <1>6. MemoryInv
    BY DEF MemoryInv
  <1> QED
    BY <1>1, <1>2, <1>3, <1>4, <1>5, <1>6 DEF Inv

\* emulate() starts the first thread.
LEMMA StartStep ==
  ASSUME Inv, StartMain
  PROVE  Inv'
  <1> USE ThreadAssumption DEF Inv, StartMain, tls_init, tidpool_allocate, Goto
  <1>1. TypeInv'
    BY DEF TypeInv, PCs, TlsValues, HostTls, GuestTls
  <1>2. CreateInv'
    BY DEF TypeInv, CreateInv, PCs
  <1>3. ParamsInv'
    <2>1. \A n \in Threads : Pending(n)' <=> Pending(n)
      BY DEF TypeInv, CreateInv, Pending, PCs
    <2>2. ~Pending(Main)
      BY DEF TypeInv, CreateInv, Pending, PCs
    <2> QED
      BY <2>1, <2>2 DEF TypeInv, ParamsInv
  <1>4. TidInv'
    BY DEF TypeInv, CreateInv, TidInv, PCs
  <1>5. TlsInv'
    BY DEF TypeInv, CreateInv, TlsInv, PCs
  <1>6. MemoryInv'
    BY DEF TypeInv, CreateInv, MemoryInv, PCs
  <1> QED
    BY <1>1, <1>2, <1>3, <1>4, <1>5, <1>6

\* System calls that change nothing but the TLS start and return, and threads
\* exit.
LEMMA CallsStep ==
  ASSUME Inv, NEW t \in Threads, Return(t) \/ OtherCall(t) \/ UserExit(t) \/ PthreadExit(t)
  PROVE  Inv'
  <1> USE ThreadAssumption DEF Inv, Return, OtherCall, UserExit, PthreadExit, EnterHost, LeaveHost, Goto, life, tlsvars
  <1>1. TypeInv'
    BY DEF TypeInv, PCs
  <1>2. CreateInv'
    BY DEF TypeInv, CreateInv, PCs
  <1>3. ParamsInv'
    <2>1. \A n \in Threads : Pending(n)' <=> Pending(n)
      BY DEF TypeInv, CreateInv, Pending, PCs
    <2> QED
      BY <2>1 DEF TypeInv, ParamsInv
  <1>4. TidInv'
    BY DEF TypeInv, CreateInv, TidInv, PCs
  <1>5. TlsInv'
    BY DEF TypeInv, CreateInv, TlsInv, PCs
  <1>6. MemoryInv'
    BY DEF TypeInv, CreateInv, MemoryInv, PCs
  <1> QED
    BY <1>1, <1>2, <1>3, <1>4, <1>5, <1>6

\* thread_exit() drops the lock, and another thread joins.
LEMMA LockStep ==
  ASSUME Inv, NEW t \in Threads, sys_thread_exit(t) \/ \E n \in Threads : UserJoin(t, n)
  PROVE  Inv'
  <1> USE ThreadAssumption DEF Inv, sys_thread_exit, UserJoin, Goto, tlsvars
  <1>1. TypeInv'
    BY DEF TypeInv, PCs
  <1>2. CreateInv'
    BY DEF TypeInv, CreateInv, PCs
  <1>3. ParamsInv'
    <2>1. \A n \in Threads : Pending(n)' <=> Pending(n)
      BY DEF TypeInv, CreateInv, Pending, PCs
    <2> QED
      BY <2>1 DEF TypeInv, ParamsInv
  <1>4. TidInv'
    BY DEF TypeInv, CreateInv, TidInv, PCs
  <1>5. TlsInv'
    BY DEF TypeInv, CreateInv, TlsInv, PCs
  <1>6. MemoryInv'
    BY DEF TypeInv, CreateInv, MemoryInv, PCs
  <1> QED
    BY <1>1, <1>2, <1>3, <1>4, <1>5, <1>6

\* The program installs a control block.
LEMMA SetTcbStep ==
  ASSUME Inv, NEW t \in Threads, UserSetTcb(t)
  PROVE  Inv'
  <1> USE ThreadAssumption DEF Inv, UserSetTcb, life
  <1>1. TypeInv'
    BY DEF TypeInv, PCs, TlsValues, HostTls, GuestTls
  <1>2. CreateInv'
    BY DEF TypeInv, CreateInv, PCs
  <1>3. ParamsInv'
    BY DEF TypeInv, CreateInv, ParamsInv, Pending, PCs
  <1>4. TidInv'
    BY DEF TypeInv, CreateInv, TidInv, PCs
  <1>5. TlsInv'
    BY DEF TypeInv, CreateInv, TlsInv, PCs
  <1>6. MemoryInv'
    BY DEF TypeInv, CreateInv, MemoryInv, PCs
  <1> QED
    BY <1>1, <1>2, <1>3, <1>4, <1>5, <1>6

\* The program calls thread_create().
LEMMA UserCreateStep ==
  ASSUME Inv, NEW t \in Threads, NEW n \in Threads, UserCreate(t, n)
  PROVE  Inv'
  <1> USE ThreadAssumption DEF Inv, UserCreate, EnterHost, Goto
  <1>1. TypeInv'
    BY DEF TypeInv, PCs
  <1>2. CreateInv'
    BY DEF TypeInv, CreateInv, PCs
  <1>3. ParamsInv'
    <2>1. \A m \in Threads : Pending(m)' <=> Pending(m)
      BY DEF TypeInv, CreateInv, Pending, PCs
    <2> QED
      BY <2>1 DEF TypeInv, ParamsInv
  <1>4. TidInv'
    BY DEF TypeInv, CreateInv, TidInv, PCs
  <1>5. TlsInv'
    BY DEF TypeInv, CreateInv, TlsInv, PCs
  <1>6. MemoryInv'
    BY DEF TypeInv, CreateInv, MemoryInv, PCs
  <1> QED
    BY <1>1, <1>2, <1>3, <1>4, <1>5, <1>6

\* thread_create() allocates parameters and an identifier, or fails.
LEMMA AllocateStep ==
  ASSUME Inv, NEW t \in Threads, AllocateParams(t)
  PROVE  Inv'
  <1> USE ThreadAssumption DEF Inv, AllocateParams, CreateFails, tidpool_allocate, Goto, tlsvars
  <1>1. TypeInv'
    BY DEF TypeInv, CreateInv, PCs
  <1>2. CreateInv'
    BY DEF TypeInv, CreateInv, PCs
  <1>3. ParamsInv'
    <2>1. \A n \in Threads : Pending(n)' <=> Pending(n) \/ (n = arg[t] /\ pc'[t] = "spawn")
      BY DEF TypeInv, CreateInv, Pending, PCs
    <2>2. ~Pending(arg[t])
      BY DEF TypeInv, CreateInv, Pending, PCs
    <2>3. CASE pc'[t] = "spawn"
      <3> DEFINE new == [thread |-> arg[t], tid |-> tidpool]
      <3>1. params' = params \cup {new} /\ utid' = [utid EXCEPT ![arg[t]] = tidpool]
        BY <2>3 DEF TypeInv, PCs
      <3>2. arg[t] \in Threads /\ tidpool \in Nat
        BY DEF TypeInv, CreateInv
      <3>3. new.thread = arg[t] /\ new.tid = tidpool
        OBVIOUS
      <3> HIDE DEF new
      <3>4. \A p \in params' : Pending(p.thread)' /\ p.tid = utid'[p.thread]
        BY <2>1, <2>2, <2>3, <3>1, <3>2, <3>3 DEF TypeInv, ParamsInv
      <3> QED
        BY <2>1, <2>3, <3>1, <3>3, <3>4 DEF ParamsInv
    <2>4. CASE pc'[t] # "spawn"
      BY <2>1, <2>4 DEF TypeInv, CreateInv, ParamsInv, PCs
    <2> QED
      BY <2>3, <2>4
  <1>4. TidInv'
    BY DEF TypeInv, CreateInv, TidInv, PCs
  <1>5. TlsInv'
    BY DEF TypeInv, CreateInv, TlsInv, PCs
  <1>6. MemoryInv'
    BY DEF TypeInv, CreateInv, MemoryInv, PCs
  <1> QED
    BY <1>1, <1>2, <1>3, <1>4, <1>5, <1>6

\* The host creates the thread, or refuses.
LEMMA SpawnStep ==
  ASSUME Inv, NEW t \in Threads, Spawn(t)
  PROVE  Inv'
  <1> USE ThreadAssumption DEF Inv, Spawn, CreateFails, ParamsOf, Goto, tlsvars
  <1>1. TypeInv'
    BY DEF TypeInv, PCs
  <1>2. CreateInv'
    BY DEF TypeInv, CreateInv, PCs
  <1>3. ParamsInv'
    BY DEF TypeInv, CreateInv, ParamsInv, Pending, PCs
  <1>4. TidInv'
    BY DEF TypeInv, CreateInv, TidInv, PCs
  <1>5. TlsInv'
    BY DEF TypeInv, CreateInv, TlsInv, PCs
  <1>6. MemoryInv'
    BY DEF TypeInv, CreateInv, MemoryInv, PCs
  <1> QED
    BY <1>1, <1>2, <1>3, <1>4, <1>5, <1>6

\* The new thread takes over its parameters.
LEMMA EntryStep ==
  ASSUME Inv, NEW t \in Threads, thread_entry(t)
  PROVE  Inv'
  <1> USE ThreadAssumption DEF Inv, thread_entry, tls_init, ParamsOf, Goto
  <1>1. TypeInv'
    BY DEF TypeInv, PCs, TlsValues, HostTls, GuestTls
  <1>2. CreateInv'
    BY DEF TypeInv, CreateInv, PCs
  <1>3. ParamsInv'
    BY DEF TypeInv, CreateInv, ParamsInv, Pending, PCs
  <1>4. TidInv'
    BY DEF TypeInv, CreateInv, ParamsInv, TidInv, PCs
  <1>5. TlsInv'
    BY DEF TypeInv, CreateInv, TlsInv, PCs
  <1>6. MemoryInv'
    BY DEF TypeInv, CreateInv, MemoryInv, PCs
  <1> QED
    BY <1>1, <1>2, <1>3, <1>4, <1>5, <1>6

\* Every step of every thread keeps the invariant.
LEMMA NextInv == Inv /\ [StartMain \/ ThreadNext]_threadVars => Inv'
  <1> SUFFICES ASSUME Inv, [StartMain \/ ThreadNext]_threadVars PROVE Inv'
    OBVIOUS
  <1>1. CASE UNCHANGED threadVars
    <2>1. \A n \in Threads : Pending(n)' <=> Pending(n)
      BY <1>1 DEF Pending, threadVars, life
    <2> QED
      BY <1>1, <2>1
      DEF Inv, TypeInv, CreateInv, ParamsInv, TidInv, TlsInv, MemoryInv, threadVars, life, tlsvars
  <1>2. ASSUME NEW t \in Threads, EmulatorStep(t) PROVE Inv'
    BY <1>2, CallsStep, AllocateStep, SpawnStep, EntryStep, LockStep DEF EmulatorStep
  <1>3. ASSUME NEW t \in Threads, UserSetTcb(t) \/ OtherCall(t) \/ UserExit(t) PROVE Inv'
    BY <1>3, SetTcbStep, CallsStep
  <1>4. ASSUME NEW t \in Threads, NEW n \in Threads, UserCreate(t, n) \/ UserJoin(t, n)
        PROVE  Inv'
    BY <1>4, UserCreateStep, LockStep
  <1> QED
    BY <1>1, <1>2, <1>3, <1>4, StartStep DEF ThreadNext

\* The invariant of creation, identifiers, TLS and memory.
THEOREM ThreadInvariance == ThreadSpec => []Inv
  BY InitInv, NextInv, PTL DEF ThreadSpec

\* Whatever else a process does, from the launch to its system calls, its
\* threads behave as they do alone.
THEOREM ProcessRunsThreads == Spec => ThreadSpec
  <1>1. Init => ThreadInit
    BY DEF Init
  <1>2. [Next]_vars => [StartMain \/ ThreadNext]_threadVars
    BY DEF Next, Launching, Enter, Calling, Threading, Running, vars
  <1> QED
    BY <1>1, <1>2, PTL DEF Spec, ThreadSpec

-----------------------------------------------------------------------------
\* thread_create() and thread_entry() between them free the parameters of each
\* thread exactly once, however many threads are created at the same time and
\* whichever step of a creation fails.
THEOREM ParamsCorrect == Spec => []ParamsExact
  <1>1. Inv => ParamsExact
    <2> SUFFICES ASSUME Inv PROVE ParamsExact
      OBVIOUS
    <2>1. \A p \in params : Pending(p.thread)
      BY DEF Inv, ParamsInv
    <2>2. ASSUME NEW n \in Threads, Pending(n) PROVE Cardinality(ParamsOf(n)) = 1
      <3>1. PICK p \in params : p.thread = n
        BY <2>2 DEF Inv, ParamsInv
      <3>2. ASSUME NEW q \in params, q.thread = n PROVE q = p
        BY <3>1, <3>2 DEF Inv, TypeInv, ParamsInv
      <3>3. ParamsOf(n) = {p}
        BY <3>1, <3>2 DEF ParamsOf
      <3> QED
        BY <3>3, FS_Singleton
    <2> QED
      BY <2>1, <2>2 DEF ParamsExact, Pending
  <1> QED
    BY <1>1, ThreadInvariance, ProcessRunsThreads, PTL

\* A thread has the identifier that thread_create() returned for it, and no
\* two threads ever have the same one, whatever the number of bits.
THEOREM IdentifiersCorrect == Spec => []IdentifiersAgree
  <1>1. Inv => IdentifiersAgree
    BY DEF Inv, TypeInv, TidInv, IdentifiersAgree, Live, PCs
  <1> QED
    BY <1>1, ThreadInvariance, ProcessRunsThreads, PTL

\* The wrappers around system calls give each thread its own TLS on both
\* sides, however the calls of threads interleave.
THEOREM TlsCorrect == Spec => []TlsOfItsOwn
  <1>1. Inv => TlsOfItsOwn
    BY DEF Inv, TlsInv, TlsOfItsOwn, Live
  <1> QED
    BY <1>1, ThreadInvariance, ProcessRunsThreads, PTL

\* When the program has joined a thread and frees its stack and its TLS, the
\* thread only has to leave the emulator, with the TLS of the host: whichever
\* thread joins it, and however the wakeup of thread_exit() races with that.
THEOREM MemoryCorrect == Spec => []MemoryOutlivesUse
  <1>1. Inv => MemoryOutlivesUse
    BY DEF Inv, TlsInv, MemoryInv, MemoryOutlivesUse, Live
  <1> QED
    BY <1>1, ThreadInvariance, ProcessRunsThreads, PTL
=============================================================================
