--------------------------- MODULE PathGetProofs ---------------------------
(***************************************************************************)
(* path_get() never leaves the directory of the program, and gives up once *)
(* whatever it opens, allocates or refers to: for all file systems,        *)
(* pathnames and limits, and whatever other processes change meanwhile.    *)
(***************************************************************************)
EXTENDS PathGet, FiniteSetTheorems, TLAPS

\* Open descriptors are below the program's directory.
GoodHost(h) ==
  /\ h \in [Handles -> Dirs \cup {Closed}]
  /\ \A n \in Handles : h[n] # Closed => h[n] \in BelowBase

\* The descriptors of the stack are open, and no two entries share one, so
\* that closing the last one for ".." leaves the others open.
GoodStack(s, h) ==
  /\ s \in Seq(Handles \cup {BaseFd}) /\ s # <<>>
  /\ \A i \in DOMAIN s : s[i] = BaseFd \/ h[s[i]] # Closed
  /\ \A i, j \in DOMAIN s : s[i] = s[j] => i = j

Inv ==
  /\ tree \in Trees
  /\ GoodHost(host)
  /\ pc \in {"walk", "readlink"} => GoodStack(fds, host)
  /\ ret.dir \in BelowBase

-----------------------------------------------------------------------------
\* The program's directory is below itself, and so is every directory in one
\* that is, in whichever file system there is at that moment.
LEMMA BelowBaseClosed ==
  /\ Base \in BelowBase
  /\ BelowBase \subseteq Dirs
  /\ \A t \in Trees, d \in BelowBase, n \in Names :
       t[d][n].type = "dir" => t[d][n].dir \in BelowBase
  <1>1. Base \in BelowBase /\ BelowBase \subseteq Dirs
    BY Zenon, TreesAssumption DEF BelowBase
  <1>2. ASSUME NEW t \in Trees, NEW d \in BelowBase, NEW n \in Names, t[d][n].type = "dir"
        PROVE  t[d][n].dir \in BelowBase
    <2>1. d \in Dirs
      BY Zenon, <1>1
    <2>2. t[d][n].dir \in Dirs
      BY <2>1, TreesAssumption
    <2>3. ASSUME NEW S \in SUBSET Dirs, Base \in S,
                 \A u \in Trees, e \in S, m \in Names : u[e][m].type = "dir" => u[e][m].dir \in S
          PROVE  t[d][n].dir \in S
      <3>1. d \in S
        BY Zenon, <2>3 DEF BelowBase
      <3> QED
        BY Zenon, <1>2, <2>3, <3>1
    <2> QED
      BY Zenon, <2>2, <2>3 DEF BelowBase
  <1> QED
    BY Zenon, <1>1, <1>2

\* A set of descriptors that is not empty has a lowest one.
LEMMA LowestHandle ==
  ASSUME NEW S \in SUBSET Handles, S # {} PROVE Min(S) \in S
  <1>1. S \subseteq Nat
    BY LimitsAssumption DEF Handles
  <1>2. PICK x \in S : \A y \in S : ~(<<y, x>> \in OpToRel(<, Nat))
    BY Zenon, <1>1, NatLessThanWellFounded, WFMin
  <1>3. \A y \in S : x <= y
    <2> TAKE y \in S
    <2>1. x \in Nat /\ y \in Nat
      BY Zenon, <1>1
    <2>2. y < x => <<y, x>> \in OpToRel(<, Nat)
      BY Zenon, <2>1 DEF OpToRel
    <2>3. ~(y < x)
      BY <1>2, <2>2, Zenon
    <2> QED
      BY <2>1, <2>3
  <1> QED
    BY Zenon, <1>2, <1>3 DEF Min

\* Closing descriptors leaves the others as they are.
LEMMA ClosingIsGood ==
  ASSUME NEW h, GoodHost(h), NEW S
  PROVE  /\ GoodHost(WithClosed(h, S))
         /\ \A n \in Handles : n \notin S => WithClosed(h, S)[n] = h[n]
  BY Zenon DEF GoodHost, WithClosed

\* The directory on top of a stack.
LEMMA TopIsGood ==
  ASSUME NEW h, GoodHost(h), NEW s, GoodStack(s, h)
  PROVE  (IF s[Len(s)] = BaseFd THEN Base ELSE h[s[Len(s)]]) \in BelowBase
  <1>1. Len(s) \in DOMAIN s /\ s[Len(s)] \in Handles \cup {BaseFd}
    BY DEF GoodStack
  <1> QED
    BY Zenon, <1>1, BelowBaseClosed DEF GoodStack, GoodHost

-----------------------------------------------------------------------------
\* The exits of path_get().
LEMMA FailStep ==
  ASSUME Inv, NEW error, Fail(error) PROVE Inv'
  BY Zenon, BelowBaseClosed, ClosingIsGood DEF Inv, Fail, Return, Result

\* The result is the directory on top of the stack.
LEMMA SucceedStep ==
  ASSUME Inv, NEW s, NEW h, GoodHost(h), GoodStack(s, h), NEW name, NEW slash, NEW start,
         Succeed(s, h, name, slash, start)
  PROVE  Inv'
  <1>1. GoodHost(host')
    BY Zenon, ClosingIsGood DEF Succeed
  <1>2. ret'.dir \in BelowBase
    BY Zenon, TopIsGood DEF Succeed, Result
  <1>3. pc' \notin {"walk", "readlink"} /\ tree' \in Trees
    BY Zenon DEF Succeed, Inv
  <1> QED
    BY Zenon, <1>1, <1>2, <1>3 DEF Inv

\* The walk goes on with the stack it is given.
LEMMA ProcessedStep ==
  ASSUME Inv, NEW s, NEW h, GoodHost(h), GoodStack(s, h), Processed(s, h)
  PROVE  Inv'
  <1>1. CASE Succeed(s, h, ".", FALSE, {})
    BY Zenon, <1>1, SucceedStep
  <1>2. CASE fds' = s /\ host' = h /\ UNCHANGED <<tree, ret>>
    BY Zenon, <1>2 DEF Inv
  <1> QED
    BY Zenon, <1>1, <1>2 DEF Processed

\* The components of a pathname.
LEMMA DotStep ==
  ASSUME Inv, Dot \/ DotDot \/ EmptyOrAbsolute PROVE Inv'
  <1>1. CASE EmptyOrAbsolute
    BY Zenon, <1>1, FailStep DEF EmptyOrAbsolute
  <1>2. CASE Dot
    BY Zenon, <1>2, ProcessedStep DEF Dot, Component, Inv
  <1>3. CASE DotDot
    <2>1. CASE Fail("ENOTCAPABLE")
      BY Zenon, <2>1, FailStep
    <2>2. CASE curfd > 1 /\ Processed(SubSeq(fds, 1, curfd - 1), WithClosed(host, {fds[curfd]}))
      <3> DEFINE s == SubSeq(fds, 1, curfd - 1)
                 h == WithClosed(host, {fds[curfd]})
      <3>1. GoodStack(fds, host) /\ GoodHost(host)
        BY Zenon, <1>3 DEF Inv, DotDot, Component
      <3>2. /\ s \in Seq(Handles \cup {BaseFd}) /\ DOMAIN s = 1 .. curfd - 1 /\ s # <<>>
            /\ \A i \in DOMAIN s : s[i] = fds[i] /\ i \in DOMAIN fds
        <4>1. /\ fds \in Seq(Handles \cup {BaseFd}) /\ Len(fds) > 1 /\ Len(fds) \in Nat
              /\ DOMAIN fds = 1 .. Len(fds)
          BY <2>2, <3>1 DEF GoodStack, curfd
        <4>2. SubSeq(fds, 1, Len(fds) - 1) \in Seq(Handles \cup {BaseFd})
          BY <4>1
        <4>3. Len(s) = Len(fds) - 1 /\ \A i \in 1 .. Len(fds) - 1 : s[i] = fds[i]
          BY <4>1 DEF curfd
        <4>4. s \in Seq(Handles \cup {BaseFd})
          BY Zenon, <4>2 DEF curfd
        <4> HIDE DEF s
        <4>5. DOMAIN s = 1 .. Len(fds) - 1 /\ s # <<>>
          BY <4>1, <4>3, <4>4
        <4> QED
          BY <4>1, <4>3, <4>4, <4>5 DEF curfd
      <3>3. curfd \in DOMAIN fds /\ curfd \notin DOMAIN s
        BY <2>2, <3>1, <3>2 DEF GoodStack, curfd
      <3>4. \A i \in DOMAIN s : s[i] \in Handles \cup {BaseFd} /\ s[i] # fds[curfd]
        BY <3>1, <3>2, <3>3 DEF GoodStack
      <3>5. GoodHost(h) /\ \A n \in Handles : n # fds[curfd] => h[n] = host[n]
        BY Zenon, <3>1, ClosingIsGood
      <3> HIDE DEF s, h
      <3>6. \A i \in DOMAIN s : s[i] = BaseFd \/ h[s[i]] # Closed
        BY <3>1, <3>2, <3>4, <3>5 DEF GoodStack
      <3>7. \A i, j \in DOMAIN s : s[i] = s[j] => i = j
        BY Zenon, <3>1, <3>2 DEF GoodStack
      <3>8. GoodStack(s, h)
        BY Zenon, <3>2, <3>6, <3>7 DEF GoodStack
      <3> QED
        BY Zenon, <2>2, <3>5, <3>8, ProcessedStep DEF s, h
    <2> QED
      BY Zenon, <1>3, <2>1, <2>2 DEF DotDot
  <1> QED
    BY Zenon, <1>1, <1>2, <1>3

\* openat() opens only directories in the directory it is given: the flag
\* O_NOFOLLOW keeps it from following a link that another process put there.
LEMMA OpenatStays ==
  ASSUME tree \in Trees, NEW d \in BelowBase, NEW name \in Names, openat(d, name).errno = "0"
  PROVE  openat(d, name).dir \in BelowBase
  <1>1. d \in Dirs
    BY Zenon, BelowBaseClosed
  <1>2. tree[d][name].type \in {"none", "reg", "dir", "lnk"}
    BY <1>1, TreesAssumption
  <1>3. tree[d][name].type = "dir"
    BY Zenon, <1>2 DEF openat
  <1>4. openat(d, name).dir = tree[d][name].dir
    BY Zenon, <1>3 DEF openat
  <1> QED
    BY Zenon, <1>3, <1>4, BelowBaseClosed

\* A directory that is opened is below the one it is in, and gets a descriptor
\* that no entry of the stack has.
LEMMA DescendStep ==
  ASSUME Inv, Descend PROVE Inv'
  <1> DEFINE d == DirOf(fds[curfd])
             newdir == Min(Handles \ OpenHandles)
             res == openat(d, file)
             s == Append(fds, newdir)
             h == [host EXCEPT ![newdir] = res.dir]
  <1>1. GoodStack(fds, host) /\ GoodHost(host) /\ tree \in Trees /\ file \in Names
    BY Zenon DEF Inv, Descend, Component
  <1>2. d \in BelowBase
    BY Zenon, <1>1, TopIsGood DEF DirOf, curfd
  <1>3. CASE \E error : Fail(error)
    BY Zenon, <1>3, FailStep
  <1>4. CASE GoReadlink
    BY Zenon, <1>1, <1>4 DEF Inv, GoReadlink, walk
  <1>5. CASE OpenHandles # Handles /\ res.errno = "0" /\ Processed(s, h)
    <2>1. res.dir \in BelowBase
      BY Zenon, <1>1, <1>2, <1>5, OpenatStays
    <2>2. newdir \in Handles /\ host[newdir] = Closed
      <3>1. Handles \ OpenHandles \in SUBSET Handles /\ Handles \ OpenHandles # {}
        BY Zenon, <1>5 DEF OpenHandles
      <3>2. newdir \in Handles \ OpenHandles
        BY Zenon, <3>1, LowestHandle
      <3> QED
        BY Zenon, <3>2 DEF OpenHandles
    <2>3. res.dir # Closed /\ res.dir \in Dirs
      BY Zenon, <2>1, BelowBaseClosed, TreesAssumption
    <2> HIDE DEF newdir, res
    <2>4. GoodHost(h)
      BY Zenon, <1>1, <2>1, <2>2, <2>3 DEF GoodHost
    <2>5. \A n \in Handles : h[n] = IF n = newdir THEN res.dir ELSE host[n]
      BY Zenon, <1>1, <2>2 DEF GoodHost
    <2>6. BaseFd \notin Handles
      BY LimitsAssumption DEF BaseFd, Handles
    <2>7. \A i \in DOMAIN fds : fds[i] \in Handles \cup {BaseFd} /\ fds[i] # newdir
      BY <1>1, <2>2, <2>6 DEF GoodStack
    <2>8. /\ s \in Seq(Handles \cup {BaseFd}) /\ s # <<>>
          /\ Len(fds) \in Nat /\ DOMAIN fds = 1 .. Len(fds) /\ DOMAIN s = 1 .. Len(fds) + 1
          /\ \A i \in DOMAIN fds : s[i] = fds[i]
          /\ s[Len(fds) + 1] = newdir
      BY <1>1, <2>2 DEF GoodStack
    <2> HIDE DEF s, h
    <2>9. \A i \in DOMAIN s : s[i] = BaseFd \/ h[s[i]] # Closed
      <3> TAKE i \in DOMAIN s
      <3>1. CASE i \in DOMAIN fds
        BY Zenon, <1>1, <2>5, <2>7, <2>8, <3>1 DEF GoodStack
      <3>2. CASE i = Len(fds) + 1
        BY Zenon, <2>2, <2>3, <2>5, <2>8, <3>2
      <3> QED
        BY <2>8, <3>1, <3>2
    <2>10. \A i, j \in DOMAIN s : s[i] = s[j] => i = j
      <3>1. \A i, j \in DOMAIN fds : s[i] = s[j] => i = j
        BY Zenon, <1>1, <2>8 DEF GoodStack
      <3>2. \A i \in DOMAIN fds : s[i] # s[Len(fds) + 1]
        BY Zenon, <2>7, <2>8
      <3>3. \A i \in DOMAIN s : i \in DOMAIN fds \/ i = Len(fds) + 1
        BY <2>8
      <3> QED
        BY Zenon, <3>1, <3>2, <3>3
    <2>11. GoodStack(s, h)
      BY Zenon, <2>8, <2>9, <2>10 DEF GoodStack
    <2> QED
      BY Zenon, <1>5, <2>4, <2>11, ProcessedStep
  <1> QED
    BY Zenon, <1>3, <1>4, <1>5 DEF Descend

\* The last component and the targets of links.
LEMMA FinalStep ==
  ASSUME Inv, Final \/ Readlink PROVE Inv'
  <1>1. GoodStack(fds, host) /\ GoodHost(host)
    BY Zenon DEF Inv, Final, Readlink, Component
  <1>2. CASE \E error : Fail(error)
    BY Zenon, <1>2, FailStep
  <1>3. CASE GoReadlink
    BY Zenon, <1>1, <1>3 DEF Inv, GoReadlink, walk
  <1>4. CASE \E name, slash, start : Succeed(fds, host, name, slash, start)
    BY Zenon, <1>1, <1>4, SucceedStep
  <1>5. CASE UNCHANGED <<tree, fds, host, ret>>
    BY Zenon, <1>1, <1>5 DEF Inv
  <1>6. ASSUME NEW target, push_symlink(target) PROVE Inv'
    BY Zenon, <1>2, <1>5, <1>6 DEF push_symlink
  <1>7. CASE Final
    BY Zenon, <1>3, <1>4, <1>7 DEF Final
  <1>8. CASE Readlink
    BY Zenon, <1>2, <1>4, <1>6, <1>8 DEF Readlink
  <1> QED
    BY Zenon, <1>7, <1>8

\* The start and the end of system calls, and other processes.
LEMMA CallStep ==
  ASSUME Inv, Start \/ path_get \/ path_put PROVE Inv'
  <1>1. ASSUME NEW lookups, NEW buffers, EnterWith(lookups, buffers) PROVE Inv'
    BY Zenon, <1>1, BelowBaseClosed DEF EnterWith, Inv, NoResult
  <1>2. CASE Start
    BY Zenon, <1>1, <1>2 DEF Start, Enter, sys_file_create, sys_file_link, sys_file_open,
       sys_file_readlink, sys_file_rename, sys_file_stat_get, sys_file_stat_put,
       sys_file_symlink, sys_file_unlink
  <1>3. CASE path_get
    <2>1. CASE fds' = <<BaseFd>> /\ UNCHANGED <<tree, host, ret>>
      BY <2>1 DEF Inv, GoodStack
    <2>2. CASE \E error : host' = WithClosed(host, LeasedFds) /\ ret' = Result(error, Base, ".", FALSE)
                          /\ pc' = "idle" /\ UNCHANGED tree
      BY <2>2, ClosingIsGood, BelowBaseClosed DEF Inv, Result
    <2> QED
      BY Zenon, <1>3, <2>1, <2>2 DEF path_get, Return
  <1>4. CASE path_put
    BY Zenon, <1>4, ClosingIsGood DEF path_put, Return, Inv
  <1> QED
    BY Zenon, <1>2, <1>3, <1>4

\* Other processes replace the file system by another one.
LEMMA OtherStep ==
  ASSUME Inv, ChangeTree \/ UNCHANGED vars PROVE Inv'
  <1>1. CASE ChangeTree
    BY Zenon, <1>1, TreesAssumption DEF ChangeTree, Inv, walk
  <1>2. CASE UNCHANGED vars
    BY Zenon, <1>2 DEF vars, walk, Inv
  <1> QED
    BY Zenon, <1>1, <1>2

-----------------------------------------------------------------------------
\* The invariant holds throughout.
LEMMA WalkInvariant == Spec => []Inv
  <1>1. Init => Inv
    BY BelowBaseClosed DEF Init, Inv, GoodHost, NoResult
  <1>2. Inv /\ [Next]_vars => Inv'
    BY Zenon, DotStep, DescendStep, FinalStep, CallStep, OtherStep DEF Next, Continue, Aborted
  <1> QED
    BY <1>1, <1>2, PTL DEF Spec

\* The walk of path_get(), its result and the lease that it hands out stay
\* below the directory of the program, for every file system, every pathname,
\* every size of the two stacks, and every change that other processes make.
THEOREM WalkStaysBelowBase == Spec => []StaysBelowBase
  <1>1. Inv => StaysBelowBase
    BY Zenon DEF Inv, GoodHost, StaysBelowBase, OpenHandles
  <1> QED
    BY <1>1, WalkInvariant, PTL

-----------------------------------------------------------------------------
(***************************************************************************)
(* Everything that is opened, allocated or referenced is given up once.    *)
(***************************************************************************)
Walking == {"walk", "readlink", "aborted"}
Buffers == Nat \X Nat
Lookups == [path : Path, follow : BOOLEAN, needs_final_component : BOOLEAN]
PathStates == [start : Buffers, left : Path]
Leases == [fd : Handles \cup {BaseFd}, path_start : SUBSET Buffers]

\* The locals of path_get() and of its caller, by the place in the call.
Locals ==
  /\ pc \in Walking \cup {"idle", "begin", "use"}
  /\ todo \in Seq(Lookups) /\ expansions \in Nat
  /\ fds \in Seq(Handles \cup {BaseFd}) /\ Len(fds) <= MaxFds
  /\ paths \in Seq(PathStates) /\ Len(paths) <= MaxPaths
  /\ leases \in Seq(Leases)
  /\ pc \in Walking => fds # <<>> /\ paths # <<>>
  /\ pc \notin Walking => fds = <<>> /\ paths = <<>>
  /\ pc \in {"begin", "walk", "readlink"} => todo # <<>>
  /\ pc = "readlink" => left.names # <<>> /\ file \in Names
  /\ pc = "idle" => leases = <<>> /\ heap = {}
  /\ refs = Len(leases) + (IF pc \in Walking THEN 1 ELSE 0)

\* The open descriptors are those of a stack and of the leases, each once.
HandlesExact(s, ls, h) ==
  /\ s # <<>> => s[1] = BaseFd
  /\ \A i \in 2 .. Len(s) : s[i] \in Handles
  /\ \A i, j \in 2 .. Len(s) : s[i] = s[j] => i = j
  /\ \A i \in 2 .. Len(s), j \in DOMAIN ls : s[i] # ls[j].fd
  /\ \A i, j \in DOMAIN ls : ls[i].fd = ls[j].fd /\ ls[i].fd # BaseFd => i = j
  /\ \A n \in Handles : h[n] # Closed <=> \/ \E i \in 2 .. Len(s) : s[i] = n
                                          \/ \E j \in DOMAIN ls : ls[j].fd = n

\* The buffers are those of the paths, of the leases and of file_symlink(), and
\* the names of buffers tell those of earlier look-ups and of later links apart.
BuffersExact(ps, ls, e, b) ==
  /\ \A i \in DOMAIN ps : ps[i].start[1] = Len(ls) /\ ps[i].start[2] <= e
  /\ \A i, j \in DOMAIN ps : ps[i].start = ps[j].start => i = j
  /\ \A j \in DOMAIN ls : \A x \in ls[j].path_start : x[1] < Len(ls)
  /\ b \subseteq Buffers \cup {SymlinkTarget}
  /\ \A x \in b \cap Buffers : \/ \E i \in DOMAIN ps : ps[i].start = x
                               \/ \E j \in DOMAIN ls : x \in ls[j].path_start
  /\ \A i \in DOMAIN ps : ps[i].start \in b
  /\ \A j \in DOMAIN ls : ls[j].path_start \subseteq b

Exact ==
  /\ Locals
  /\ HandlesExact(fds, leases, host)
  /\ BuffersExact(paths, leases, expansions, heap)

\* The target of file_symlink() is none of the copies that path_get() makes.
LEMMA TargetApart == SymlinkTarget \notin Buffers
  BY DEF SymlinkTarget, Buffers

\* Buffers are named after the look-up and the link.
LEMMA BufferTypes ==
  ASSUME leases \in Seq(Leases), NEW k \in Nat
  PROVE  /\ Buffer(k) \in Buffers /\ Buffer(k)[1] = Len(leases) /\ Buffer(k)[2] = k
         /\ Len(leases) \in Nat
  <1>1. Len(leases) \in Nat
    OBVIOUS
  <1> QED
    BY Zenon, <1>1 DEF Buffer, Buffers

\* What the names that the model gives to the resources of a call amount to.
LEMMA ExactSets ==
  ASSUME Exact
  PROVE  /\ \A n \in Handles : n \notin Opened \cup LeasedFds => host[n] = Closed
         /\ \A n \in Handles : host[n] # Closed /\ n \notin LeasedFds
                               => \E i \in 2 .. Len(fds) : fds[i] = n
         /\ heap \subseteq Starts \cup LeasedBuffers \cup {SymlinkTarget}
  <1>1. \A n \in Handles : n # BaseFd
    BY LimitsAssumption DEF Handles, BaseFd
  <1>2. \A n \in Handles : (\E j \in DOMAIN leases : leases[j].fd = n) => n \in LeasedFds
    BY Zenon, <1>1 DEF LeasedFds
  <1>3. \A i \in 2 .. Len(fds) : fds[i] \in Opened
    BY Zenon DEF Opened, curfd
  <1>4. \A n \in Handles : n \notin Opened \cup LeasedFds => host[n] = Closed
    BY <1>2, <1>3 DEF Exact, HandlesExact
  <1>5. \A n \in Handles : host[n] # Closed /\ n \notin LeasedFds => \E i \in 2 .. Len(fds) : fds[i] = n
    BY Zenon, <1>2 DEF Exact, HandlesExact
  <1>6. heap \subseteq Starts \cup LeasedBuffers \cup {SymlinkTarget}
    BY Zenon DEF Exact, BuffersExact, Starts, LeasedBuffers
  <1> QED
    BY Zenon, <1>4, <1>5, <1>6

\* A call that returns has given everything up.
LEMMA ReturnExact ==
  ASSUME Exact, \A n \in Handles : host'[n] = Closed, heap' = {}, refs' = 0,
         pc' = "idle", todo' = <<>>, leases' = <<>>, fds' = <<>>, paths' = <<>>, expansions' \in Nat
  PROVE  Exact'
  <1>1. /\ todo' \in Seq(Lookups) /\ fds' \in Seq(Handles \cup {BaseFd}) /\ paths' \in Seq(PathStates)
        /\ leases' \in Seq(Leases) /\ Len(fds') = 0 /\ Len(paths') = 0 /\ Len(leases') = 0
        /\ DOMAIN paths' = {} /\ DOMAIN leases' = {}
    OBVIOUS
  <1>2. Locals'
    BY <1>1, LimitsAssumption DEF Locals, Walking
  <1>3. HandlesExact(fds, leases, host)'
    BY <1>1 DEF HandlesExact
  <1>4. BuffersExact(paths, leases, expansions, heap)'
    BY Zenon, <1>1 DEF BuffersExact
  <1> QED
    BY Zenon, <1>2, <1>3, <1>4 DEF Exact

\* The label "fail" closes the stack and frees the paths, its caller does so
\* for the leases.
LEMMA FailExact ==
  ASSUME Exact, pc \in {"walk", "readlink"}, NEW error, Fail(error) PROVE Exact'
  <1>1. \A n \in Handles : host'[n] = Closed
    BY Zenon, ExactSets DEF Fail, WithClosed
  <1>2. heap' = {}
    BY Zenon, ExactSets DEF Fail, CallersBuffers
  <1>3. refs' = 0
    <2>1. Len(leases) \in Nat
      BY DEF Exact, Locals
    <2> QED
      BY <2>1 DEF Fail, Exact, Locals, Walking
  <1> QED
    BY Zenon, <1>1, <1>2, <1>3, ReturnExact DEF Fail, Return, EndWalk

\* The label "success": the last directory and the buffer pass to the lease.
LEMMA SucceedExact ==
  ASSUME Exact, pc \in {"walk", "readlink"}, NEW s \in Seq(Handles \cup {BaseFd}), s # <<>>,
         NEW h \in [Handles -> Dirs \cup {Closed}], HandlesExact(s, leases, h),
         NEW name, NEW slash, NEW start, start \subseteq Starts,
         Succeed(s, h, name, slash, start)
  PROVE  Exact'
  <1> DEFINE fd == s[Len(s)]
             lease == [fd |-> fd, path_start |-> start]
             k == Len(leases)
  <1>1. /\ Len(s) \in Nat \ {0} /\ fd \in Handles \cup {BaseFd} /\ DOMAIN s = 1 .. Len(s)
        /\ (Len(s) = 1 => fd = BaseFd)
    BY DEF HandlesExact
  <1>2. leases \in Seq(Leases) /\ k \in Nat /\ DOMAIN leases = 1 .. k
    BY DEF Exact, Locals
  <1>3. /\ \A i \in DOMAIN paths : paths[i].start \in Buffers /\ paths[i].start[1] = k
        /\ \A x \in start : x \in Buffers /\ x[1] = k /\ x \in heap
        /\ \A x \in start : \E i \in DOMAIN paths : paths[i].start = x
    <2>1. \A i \in DOMAIN paths : paths[i] \in PathStates
      BY DEF Exact, Locals
    <2>2. \A i \in DOMAIN paths : paths[i].start \in Buffers
      BY Zenon, <2>1 DEF PathStates
    <2>3. \A i \in DOMAIN paths : paths[i].start[1] = k /\ paths[i].start \in heap
      BY Zenon DEF Exact, BuffersExact
    <2>4. \A x \in start : \E i \in DOMAIN paths : paths[i].start = x
      BY Zenon DEF Starts
    <2> QED
      BY Zenon, <2>2, <2>3, <2>4
  <1>4. lease \in Leases
    BY Zenon, <1>1, <1>3 DEF Leases
  <1>5. leases' = Append(leases, lease) /\ fds' = <<>> /\ paths' = <<>> /\ expansions' = 0
    BY Zenon DEF Succeed, EndWalk
  <1> HIDE DEF lease
  <1>6. /\ leases' \in Seq(Leases) /\ Len(leases') = k + 1 /\ DOMAIN leases' = 1 .. k + 1
        /\ leases'[k + 1] = lease
        /\ \A j \in 1 .. k : leases'[j] = leases[j]
    BY <1>2, <1>4, <1>5
  <1>7. lease.fd = fd /\ lease.path_start = start
    BY Zenon DEF lease
  <1>8. Locals'
    <2>1. todo \in Seq(Lookups) /\ todo # <<>> /\ refs = k + 1
      BY Zenon DEF Exact, Locals, Walking
    <2>2. todo' \in Seq(Lookups) /\ (pc' = "use" \/ (pc' = "begin" /\ todo' # <<>>)) /\ refs' = refs
      BY <2>1 DEF Succeed
    <2>3. fds' \in Seq(Handles \cup {BaseFd}) /\ paths' \in Seq(PathStates) /\ Len(fds') = 0 /\ Len(paths') = 0
      BY <1>5
    <2> QED
      BY <1>2, <1>5, <1>6, <2>1, <2>2, <2>3, LimitsAssumption DEF Locals, Walking
  <1>9. HandlesExact(fds, leases, host)'
    <2>1. \A n \in Handles : host'[n] = IF \E i \in 2 .. Len(s) - 1 : s[i] = n THEN Closed ELSE h[n]
      <3>1. host' = WithClosed(h, {s[i] : i \in 2 .. Len(s) - 1})
        BY Zenon DEF Succeed
      <3> QED
        BY Zenon, <3>1 DEF WithClosed
    <2>2. BaseFd \notin Handles
      BY LimitsAssumption DEF BaseFd, Handles
    <2>3. fd # BaseFd => \A j \in 1 .. k : leases[j].fd # fd
      BY <1>1, <1>2 DEF HandlesExact
    <2>4. \A i, j \in DOMAIN leases' : leases'[i].fd = leases'[j].fd /\ leases'[i].fd # BaseFd => i = j
      <3>1. \A i, j \in 1 .. k : leases'[i].fd = leases'[j].fd /\ leases'[i].fd # BaseFd => i = j
        BY <1>2, <1>6 DEF HandlesExact
      <3>2. \A i \in 1 .. k : leases'[i].fd = leases'[k + 1].fd => leases'[i].fd = BaseFd
        BY Zenon, <1>2, <1>6, <1>7, <2>3
      <3>3. \A i \in DOMAIN leases' : i \in 1 .. k \/ i = k + 1
        BY <1>2, <1>6
      <3> QED
        BY Zenon, <3>1, <3>2, <3>3
    <2>5. ASSUME NEW n \in Handles
          PROVE  host'[n] # Closed <=> \E j \in DOMAIN leases' : leases'[j].fd = n
      <3>1. h[n] # Closed <=> \/ \E i \in 2 .. Len(s) : s[i] = n
                              \/ \E j \in 1 .. k : leases[j].fd = n
        BY Zenon, <1>2 DEF HandlesExact
      <3>2. (\E j \in DOMAIN leases' : leases'[j].fd = n)
              <=> \/ fd = n
                  \/ \E j \in 1 .. k : leases[j].fd = n
        <4>1. leases'[k + 1].fd = fd /\ \A j \in 1 .. k : leases'[j].fd = leases[j].fd
          BY Zenon, <1>6, <1>7
        <4>2. \A j : j \in DOMAIN leases' <=> j \in 1 .. k \/ j = k + 1
          BY <1>2, <1>6
        <4> HIDE DEF k, fd
        <4> QED
          BY Zenon, <4>1, <4>2
      <3>3. (\E i \in 2 .. Len(s) : s[i] = n) <=> \/ \E i \in 2 .. Len(s) - 1 : s[i] = n
                                                  \/ fd = n
        BY <1>1, <2>2
      <3>4. (\E i \in 2 .. Len(s) - 1 : s[i] = n) => fd # n /\ ~\E j \in 1 .. k : leases[j].fd = n
        BY <1>1, <1>2 DEF HandlesExact
      <3> QED
        BY Zenon, <2>1, <3>1, <3>2, <3>3, <3>4
    <2> QED
      BY <1>5, <2>4, <2>5 DEF HandlesExact
  <1>10. BuffersExact(paths, leases, expansions, heap)'
    <2>1. heap' = heap \ (Starts \ start)
      BY Zenon DEF Succeed
    <2>2. DOMAIN paths' = {}
      BY <1>5
    <2>3. \A j \in DOMAIN leases : \A x \in leases[j].path_start : x[1] < k /\ x \in heap /\ x \notin Starts
      BY <1>2, <1>3 DEF Exact, BuffersExact, Starts
    <2>4. \A j \in DOMAIN leases' : \A x \in leases'[j].path_start : x[1] < k + 1 /\ x \in heap'
      <3>1. \A j \in 1 .. k : \A x \in leases'[j].path_start : x[1] < k + 1 /\ x \in heap'
        <4>1. \A j \in 1 .. k : \A x \in leases[j].path_start : x[1] \in Nat
          <5>1. \A j \in 1 .. k : leases[j] \in Leases
            BY <1>2
          <5>2. \A j \in 1 .. k : \A x \in leases[j].path_start : x \in Buffers
            BY Zenon, <5>1 DEF Leases
          <5> QED
            BY Zenon, <5>2 DEF Buffers
        <4> QED
          BY <1>2, <1>6, <2>1, <2>3, <4>1
      <3>2. \A x \in leases'[k + 1].path_start : x[1] < k + 1 /\ x \in heap'
        BY <1>2, <1>3, <1>6, <1>7, <2>1
      <3>3. \A i \in DOMAIN leases' : i \in 1 .. k \/ i = k + 1
        BY <1>2, <1>6
      <3> QED
        BY Zenon, <3>1, <3>2, <3>3
    <2>5. \A x \in heap' \cap Buffers : \E j \in DOMAIN leases' : x \in leases'[j].path_start
      <3> TAKE x \in heap' \cap Buffers
      <3>1. CASE x \in Starts
        BY <1>2, <1>6, <1>7, <2>1, <3>1
      <3>2. CASE x \notin Starts
        <4>1. \E j \in 1 .. k : x \in leases[j].path_start
          BY Zenon, <1>2, <2>1, <3>2 DEF Exact, BuffersExact, Starts
        <4> QED
          BY <1>2, <1>6, <4>1
      <3> QED
        BY Zenon, <3>1, <3>2
    <2>6. heap' \subseteq Buffers \cup {SymlinkTarget}
      BY Zenon, <2>1 DEF Exact, BuffersExact
    <2> QED
      BY Zenon, <1>6, <2>2, <2>4, <2>5, <2>6 DEF BuffersExact
  <1> QED
    BY Zenon, <1>8, <1>9, <1>10 DEF Exact

\* The path on top of the stack, and the stack without its first component.
LEMMA TopPath ==
  ASSUME Exact, pc \in {"walk", "readlink"}, left.names # <<>>
  PROVE  LET ps == [paths EXCEPT ![curpath].left.names = rest]
         IN  /\ curpath \in DOMAIN paths /\ Len(paths) \in Nat \ {0} /\ DOMAIN paths = 1 .. Len(paths)
             /\ \A i \in DOMAIN paths : paths[i] \in PathStates /\ paths[i].start \in Buffers
             /\ ps \in Seq(PathStates) /\ Len(ps) = Len(paths) /\ DOMAIN ps = DOMAIN paths
             /\ \A i \in DOMAIN paths : ps[i].start = paths[i].start
  <1> DEFINE ps == [paths EXCEPT ![curpath].left.names = rest]
  <1>1. /\ paths \in Seq(PathStates) /\ curpath \in DOMAIN paths /\ Len(paths) \in Nat \ {0}
        /\ DOMAIN paths = 1 .. Len(paths) /\ \A i \in DOMAIN paths : paths[i] \in PathStates
    BY DEF Exact, Locals, Walking, curpath
  <1>2. \A p \in PathStates : p.start \in Buffers /\ p.left \in Path
    BY Zenon DEF PathStates
  <1>3. left \in Path
    BY Zenon, <1>1, <1>2 DEF left
  <1>4. rest \in Seq(Names \cup {".", ".."})
    BY <1>3 DEF rest, Path
  <1>5. [paths[curpath] EXCEPT !.left.names = rest] \in PathStates
    BY Zenon, <1>1, <1>3, <1>4 DEF PathStates, Path, left
  <1>6. [paths[curpath] EXCEPT !.left.names = rest].start = paths[curpath].start
    BY Zenon, <1>1 DEF PathStates
  <1>7. ps = [paths EXCEPT ![curpath] = [paths[curpath] EXCEPT !.left.names = rest]]
    BY Zenon, <1>1
  <1>8. ps \in Seq(PathStates) /\ Len(ps) = Len(paths) /\ DOMAIN ps = DOMAIN paths
    BY <1>1, <1>5, <1>7
  <1>9. \A i \in DOMAIN paths : ps[i].start = paths[i].start
    BY Zenon, <1>1, <1>6, <1>7
  <1> HIDE DEF ps
  <1> QED
    BY Zenon, <1>1, <1>2, <1>8, <1>9 DEF ps

\* Paths that are processed further keep their buffers.
LEMMA SameBuffers ==
  ASSUME Exact, UNCHANGED <<leases, expansions, heap>>, DOMAIN paths' = DOMAIN paths,
         \A i \in DOMAIN paths : paths'[i].start = paths[i].start
  PROVE  BuffersExact(paths, leases, expansions, heap)'
  BY DEF Exact, BuffersExact

\* The walk goes on with the stack that it is given; a link that is finished
\* gives its buffer up.
LEMMA ProcessedExact ==
  ASSUME Exact, pc = "walk", left.names # <<>>, NEW s \in Seq(Handles \cup {BaseFd}), s # <<>>,
         NEW h \in [Handles -> Dirs \cup {Closed}], HandlesExact(s, leases, h), Len(s) <= MaxFds,
         Processed(s, h)
  PROVE  Exact'
  <1>1. CASE Succeed(s, h, ".", FALSE, {})
    <2> DEFINE none == {}
    <2>1. none \subseteq Starts /\ pc \in {"walk", "readlink"}
      BY Zenon
    <2>2. Succeed(s, h, ".", FALSE, none)
      BY Zenon, <1>1
    <2> HIDE DEF none
    <2> QED
      BY Zenon, <2>1, <2>2, SucceedExact
  <1>2. CASE /\ curpath > 1
             /\ paths' = SubSeq(paths, 1, curpath - 1)
             /\ heap' = heap \ {paths[curpath].start}
             /\ pc' \in {"walk", "aborted"}
             /\ fds' = s /\ host' = h
             /\ UNCHANGED <<todo, expansions, leases, refs>>
    <2> DEFINE n == Len(paths)
    <2>1. /\ n \in Nat \ {0} /\ n > 1 /\ DOMAIN paths = 1 .. n /\ n <= MaxPaths
          /\ \A i \in 1 .. n : paths[i] \in PathStates /\ paths[i].start \in Buffers
      BY Zenon, <1>2, TopPath DEF curpath, Exact, Locals
    <2>2. /\ paths' \in Seq(PathStates) /\ Len(paths') = n - 1
          /\ \A i \in 1 .. n - 1 : paths'[i] = paths[i]
      <3>1. paths \in Seq(PathStates) /\ paths' = SubSeq(paths, 1, n - 1)
        BY Zenon, <1>2 DEF curpath, Exact, Locals
      <3> QED
        BY <2>1, <3>1
    <2>3. DOMAIN paths' = 1 .. n - 1 /\ paths' # <<>>
      BY <2>1, <2>2
    <2>4. Locals'
      <3>1. /\ pc' \in {"walk", "aborted"} /\ fds' = s
            /\ todo' = todo /\ expansions' = expansions /\ leases' = leases /\ refs' = refs
        BY Zenon, <1>2
      <3>2. /\ todo \in Seq(Lookups) /\ todo # <<>> /\ expansions \in Nat
            /\ leases \in Seq(Leases) /\ refs = Len(leases) + 1
        BY Zenon DEF Exact, Locals, Walking
      <3>3. Len(paths') <= MaxPaths
        BY <2>1, <2>2, LimitsAssumption
      <3> HIDE DEF n
      <3> QED
        BY Zenon, <2>2, <2>3, <3>1, <3>2, <3>3 DEF Locals, Walking
    <2>5. HandlesExact(fds, leases, host)'
      BY <1>2 DEF HandlesExact
    <2>6. BuffersExact(paths, leases, expansions, heap)'
      <3>1. heap' = heap \ {paths[n].start} /\ leases' = leases /\ expansions' = expansions
        BY Zenon, <1>2 DEF curpath
      <3>0. /\ \A i \in 1 .. n : paths[i].start[1] = Len(leases) /\ paths[i].start[2] <= expansions
            /\ \A i \in 1 .. n : paths[i].start \in heap
            /\ \A i, j \in 1 .. n : paths[i].start = paths[j].start => i = j
            /\ \A j \in DOMAIN leases : \A x \in leases[j].path_start : x[1] < Len(leases)
            /\ \A j \in DOMAIN leases : leases[j].path_start \subseteq heap
            /\ \A x \in heap \cap Buffers : \/ \E i \in 1 .. n : paths[i].start = x
                                            \/ \E j \in DOMAIN leases : x \in leases[j].path_start
            /\ heap \subseteq Buffers \cup {SymlinkTarget}
        BY Zenon, <2>1 DEF Exact, BuffersExact
      <3> HIDE DEF n
      <3>2. \A i \in 1 .. n - 1 : /\ paths'[i].start[1] = Len(leases') /\ paths'[i].start[2] <= expansions'
                                  /\ paths'[i].start \in heap' /\ paths'[i].start # paths[n].start
        <4> TAKE i \in 1 .. n - 1
        <4>1. i \in 1 .. n /\ n \in 1 .. n /\ i # n
          BY <2>1
        <4>2. paths'[i] = paths[i]
          BY Zenon, <2>2
        <4>3. paths[i].start # paths[n].start
          BY Zenon, <3>0, <4>1
        <4> QED
          BY Zenon, <3>0, <3>1, <4>1, <4>2, <4>3
      <3>3. \A i, j \in 1 .. n - 1 : paths'[i].start = paths'[j].start => i = j
        <4>1. \A i \in 1 .. n - 1 : i \in 1 .. n
          BY <2>1
        <4> QED
          BY Zenon, <2>2, <3>0, <4>1
      <3>4. \A j \in DOMAIN leases' : \A x \in leases'[j].path_start : x[1] < Len(leases') /\ x \in heap'
        <4>1. paths[n].start[1] = Len(leases) /\ Len(leases) \in Nat
          BY <2>1, <3>0 DEF Exact, Locals
        <4>2. \A j \in DOMAIN leases : \A x \in leases[j].path_start : x[1] < Len(leases) /\ x \in heap
          BY Zenon, <3>0
        <4> QED
          BY <3>1, <4>1, <4>2
      <3>5. \A x \in heap' \cap Buffers : \/ \E i \in 1 .. n - 1 : paths'[i].start = x
                                          \/ \E j \in DOMAIN leases' : x \in leases'[j].path_start
        <4>1. \A x \in heap \cap Buffers : \/ \E i \in 1 .. n : paths[i].start = x
                                           \/ \E j \in DOMAIN leases : x \in leases[j].path_start
          BY Zenon, <3>0
        <4>2. \A i \in 1 .. n : i \in 1 .. n - 1 \/ i = n
          BY <2>1
        <4> QED
          BY <2>2, <3>1, <4>1, <4>2
      <3>6. heap' \subseteq Buffers \cup {SymlinkTarget}
        BY Zenon, <3>0, <3>1
      <3> QED
        BY Zenon, <2>3, <3>2, <3>3, <3>4, <3>5, <3>6 DEF BuffersExact
    <2> QED
      BY Zenon, <2>4, <2>5, <2>6 DEF Exact
  <1>3. CASE /\ paths' = [paths EXCEPT ![curpath].left.names = rest]
             /\ fds' = s /\ host' = h
             /\ UNCHANGED <<pc, todo, expansions, heap, leases, refs>>
    <2>1. /\ paths' \in Seq(PathStates) /\ Len(paths') = Len(paths) /\ DOMAIN paths' = DOMAIN paths
          /\ Len(paths) \in Nat \ {0} /\ \A i \in DOMAIN paths : paths'[i].start = paths[i].start
      BY Zenon, <1>3, TopPath
    <2>2. paths' # <<>>
      BY Zenon, <2>1
    <2>3. Locals'
      BY Zenon, <1>3, <2>1, <2>2 DEF Exact, Locals, Walking
    <2>4. HandlesExact(fds, leases, host)'
      BY <1>3 DEF HandlesExact
    <2>5. BuffersExact(paths, leases, expansions, heap)'
      BY Zenon, <1>3, <2>1, SameBuffers
    <2> QED
      BY Zenon, <2>3, <2>4, <2>5 DEF Exact
  <1> QED
    BY Zenon, <1>1, <1>2, <1>3 DEF Processed

\* ".." closes the directory on top of the stack, and only that one.
LEMMA DotDotExact ==
  ASSUME Inv, Exact, DotDot PROVE Exact'
  <1>1. pc = "walk" /\ left.names # <<>> /\ pc \in {"walk", "readlink"}
    BY Zenon DEF DotDot, Component
  <1>2. CASE Fail("ENOTCAPABLE")
    BY Zenon, <1>1, <1>2, FailExact
  <1>3. CASE curfd > 1 /\ Processed(SubSeq(fds, 1, curfd - 1), WithClosed(host, {fds[curfd]}))
    <2> DEFINE n == Len(fds)
               s == SubSeq(fds, 1, n - 1)
               h == WithClosed(host, {fds[n]})
    <2>1. /\ fds \in Seq(Handles \cup {BaseFd}) /\ n \in Nat /\ n > 1 /\ n <= MaxFds
          /\ HandlesExact(fds, leases, host)
      BY <1>3 DEF Exact, Locals, curfd
    <2>2. /\ s \in Seq(Handles \cup {BaseFd}) /\ Len(s) = n - 1
          /\ \A i \in 1 .. n - 1 : s[i] = fds[i]
      BY <2>1
    <2>3. h \in [Handles -> Dirs \cup {Closed}] /\ \A m \in Handles : h[m] = IF m = fds[n] THEN Closed ELSE host[m]
      BY Zenon DEF WithClosed, Inv, GoodHost
    <2>4. Processed(s, h)
      BY Zenon, <1>3 DEF curfd
    <2> HIDE DEF n, s, h
    <2>5. s # <<>>
      BY <2>1, <2>2
    <2>6. HandlesExact(s, leases, h)
      <3>1. s[1] = BaseFd
        <4>1. fds # <<>>
          BY <2>1 DEF n
        <4> QED
          BY <2>1, <2>2, <4>1 DEF HandlesExact
      <3>2. \A i \in 2 .. n : /\ fds[i] \in Handles
                              /\ \A j \in 2 .. n : fds[i] = fds[j] => i = j
                              /\ \A j \in DOMAIN leases : fds[i] # leases[j].fd
        BY Zenon, <2>1 DEF HandlesExact, n
      <3>3. \A i \in 2 .. Len(s) : s[i] = fds[i] /\ i \in 2 .. n /\ fds[i] # fds[n]
        BY <2>1, <2>2, <3>2
      <3>4. \A m \in Handles : h[m] # Closed <=> \/ \E i \in 2 .. Len(s) : s[i] = m
                                                 \/ \E j \in DOMAIN leases : leases[j].fd = m
        <4> TAKE m \in Handles
        <4>1. host[m] # Closed <=> \/ \E i \in 2 .. n : fds[i] = m
                                   \/ \E j \in DOMAIN leases : leases[j].fd = m
          BY Zenon, <2>1 DEF HandlesExact, n
        <4>2. (\E i \in 2 .. Len(s) : s[i] = m) <=> (\E i \in 2 .. n : fds[i] = m) /\ fds[n] # m
          BY <2>1, <2>2, <3>2, <3>3
        <4>3. m = fds[n] => ~\E j \in DOMAIN leases : leases[j].fd = m
          BY <2>1, <3>2
        <4> QED
          BY Zenon, <2>3, <4>1, <4>2, <4>3
      <3>5. \A i, j \in DOMAIN leases : leases[i].fd = leases[j].fd /\ leases[i].fd # BaseFd => i = j
        BY Zenon, <2>1 DEF HandlesExact
      <3> QED
        BY <3>1, <3>2, <3>3, <3>4, <3>5 DEF HandlesExact
    <2>7. Len(s) <= MaxFds
      BY <2>1, <2>2, LimitsAssumption
    <2> QED
      BY Zenon, <1>1, <2>2, <2>3, <2>4, <2>5, <2>6, <2>7, ProcessedExact
  <1> QED
    BY Zenon, <1>2, <1>3 DEF DotDot

\* A call that only moves on to the next host call.
LEMMA GoReadlinkExact ==
  ASSUME Exact, pc = "walk", left.names # <<>>, file \in Names, GoReadlink PROVE Exact'
  <1>1. Locals'
    BY Zenon DEF Exact, Locals, Walking, GoReadlink, walk, left, file, curpath
  <1> QED
    BY Zenon, <1>1 DEF Exact, GoReadlink, walk, HandlesExact, BuffersExact

\* A directory that is opened gets a descriptor that nothing else has.
LEMMA DescendExact ==
  ASSUME Inv, Exact, Descend PROVE Exact'
  <1> DEFINE d == DirOf(fds[curfd])
             newdir == Min(Handles \ OpenHandles)
             res == openat(d, file)
             s == Append(fds, newdir)
             h == [host EXCEPT ![newdir] = res.dir]
  <1>1. pc = "walk" /\ left.names # <<>> /\ file \in Names /\ pc \in {"walk", "readlink"}
    BY Zenon DEF Descend, Component
  <1>2. CASE \E error : Fail(error)
    BY Zenon, <1>1, <1>2, FailExact
  <1>3. CASE GoReadlink
    BY Zenon, <1>1, <1>3, GoReadlinkExact
  <1>4. CASE OpenHandles # Handles /\ res.errno = "0" /\ curfd < MaxFds /\ Processed(s, h)
    <2>1. d \in BelowBase
      BY Zenon, <1>1, TopIsGood DEF DirOf, curfd, Inv
    <2>2. res.dir \in BelowBase /\ res.dir # Closed /\ res.dir \in Dirs
      BY Zenon, <1>1, <1>4, <2>1, OpenatStays, BelowBaseClosed, TreesAssumption DEF Inv
    <2>3. newdir \in Handles /\ host[newdir] = Closed
      <3>1. Handles \ OpenHandles \in SUBSET Handles /\ Handles \ OpenHandles # {}
        BY Zenon, <1>4 DEF OpenHandles
      <3>2. newdir \in Handles \ OpenHandles
        BY Zenon, <3>1, LowestHandle
      <3> QED
        BY Zenon, <3>2 DEF OpenHandles
    <2> DEFINE n == Len(fds)
    <2>4. /\ fds \in Seq(Handles \cup {BaseFd}) /\ n \in Nat \ {0} /\ n < MaxFds
          /\ HandlesExact(fds, leases, host) /\ host \in [Handles -> Dirs \cup {Closed}]
      BY <1>1, <1>4 DEF Exact, Locals, curfd, Inv, GoodHost, Walking
    <2> HIDE DEF newdir, res
    <2>5. /\ s \in Seq(Handles \cup {BaseFd}) /\ Len(s) = n + 1 /\ s[n + 1] = newdir
          /\ \A i \in 1 .. n : s[i] = fds[i]
      BY <2>3, <2>4
    <2>6. h \in [Handles -> Dirs \cup {Closed}] /\ \A m \in Handles : h[m] = IF m = newdir THEN res.dir ELSE host[m]
      BY Zenon, <2>2, <2>3, <2>4
    <2>7. Processed(s, h)
      BY Zenon, <1>4
    <2> HIDE DEF n, s, h
    <2>8. s # <<>> /\ Len(s) <= MaxFds
      BY <2>4, <2>5, LimitsAssumption
    <2>9. HandlesExact(s, leases, h)
      <3>1. s[1] = BaseFd
        <4>1. fds # <<>>
          BY <2>4 DEF n
        <4> QED
          BY <2>4, <2>5, <4>1 DEF HandlesExact
      <3>2. /\ \A i \in 2 .. n : /\ fds[i] \in Handles
                                 /\ \A j \in 2 .. n : fds[i] = fds[j] => i = j
                                 /\ \A j \in DOMAIN leases : fds[i] # leases[j].fd
            /\ \A m \in Handles : host[m] # Closed <=> \/ \E i \in 2 .. n : fds[i] = m
                                                       \/ \E j \in DOMAIN leases : leases[j].fd = m
            /\ \A i, j \in DOMAIN leases : leases[i].fd = leases[j].fd /\ leases[i].fd # BaseFd => i = j
        BY Zenon, <2>4 DEF HandlesExact, n
      <3>3. /\ \A i \in 2 .. n : s[i] = fds[i] /\ s[i] # newdir
            /\ \A j \in DOMAIN leases : leases[j].fd # newdir
        BY <2>3, <2>4, <2>5, <3>2
      <3>4. \A i \in 2 .. Len(s) : i \in 2 .. n \/ i = n + 1
        BY <2>4, <2>5
      <3>5. n + 1 \in 2 .. Len(s) /\ \A i \in 2 .. n : i \in 2 .. Len(s)
        BY <2>4, <2>5
      <3>6. \A m \in Handles : h[m] # Closed <=> \/ \E i \in 2 .. Len(s) : s[i] = m
                                                 \/ \E j \in DOMAIN leases : leases[j].fd = m
        <4> TAKE m \in Handles
        <4>1. (\E i \in 2 .. Len(s) : s[i] = m) <=> (\E i \in 2 .. n : fds[i] = m) \/ m = newdir
          BY Zenon, <2>5, <3>3, <3>4, <3>5
        <4> QED
          BY Zenon, <2>2, <2>6, <3>2, <4>1
      <3>7. \A i \in 2 .. Len(s) : s[i] \in Handles /\ \A j \in DOMAIN leases : s[i] # leases[j].fd
        BY <2>3, <2>5, <3>2, <3>3, <3>4
      <3>8. \A i, j \in 2 .. Len(s) : s[i] = s[j] => i = j
        BY <2>5, <3>2, <3>3, <3>4
      <3> QED
        BY Zenon, <3>1, <3>2, <3>6, <3>7, <3>8 DEF HandlesExact
    <2> QED
      BY Zenon, <1>1, <2>5, <2>6, <2>7, <2>8, <2>9, ProcessedExact
  <1> QED
    BY Zenon, <1>2, <1>3, <1>4 DEF Descend

\* A link gets a buffer that is new, and takes the place of a path that is
\* finished or goes on top of the stack.
LEMMA PushSymlinkExact ==
  ASSUME Exact, pc = "readlink", NEW target \in Path, push_symlink(target) PROVE Exact'
  <1> DEFINE new == [start |-> Buffer(expansions + 1), left |-> Target(target)]
             n == Len(paths)
  <1>1. left.names # <<>> /\ pc \in {"walk", "readlink"}
    BY Zenon DEF Exact, Locals
  <1>2. CASE \E error : Fail(error)
    BY Zenon, <1>1, <1>2, FailExact
  <1>3. expansions \in Nat /\ Len(leases) \in Nat /\ leases \in Seq(Leases)
    BY DEF Exact, Locals
  <1>4. new.start = Buffer(expansions + 1) /\ new.left = Target(target)
    BY Zenon
  <1>5. /\ new.start \in Buffers /\ new.start[1] = Len(leases) /\ new.start[2] = expansions + 1
    BY <1>3, <1>4, BufferTypes
  <1>6. new \in PathStates
    <2>1. left.slash \in BOOLEAN
      <3>1. paths[curpath] \in PathStates
        BY Zenon, <1>1, TopPath
      <3> QED
        BY Zenon, <3>1 DEF PathStates, Path, left
    <2>2. Target(target) \in Path
      BY Zenon, <2>1 DEF Target, Path, ends_with_slashes
    <2> QED
      BY Zenon, <1>4, <1>5, <2>2 DEF PathStates
  <1>7. /\ n \in Nat \ {0} /\ DOMAIN paths = 1 .. n /\ n <= MaxPaths /\ paths \in Seq(PathStates)
        /\ \A i \in 1 .. n : paths[i].start \in Buffers
    BY Zenon, <1>1, TopPath DEF curpath, Exact, Locals
  <1>8. /\ \A i \in 1 .. n : paths[i].start[1] = Len(leases) /\ paths[i].start[2] <= expansions
        /\ \A i \in 1 .. n : paths[i].start \in heap
        /\ \A i, j \in 1 .. n : paths[i].start = paths[j].start => i = j
        /\ \A j \in DOMAIN leases : \A x \in leases[j].path_start : x[1] < Len(leases) /\ x \in heap
        /\ \A x \in heap \cap Buffers : \/ \E i \in 1 .. n : paths[i].start = x
                                        \/ \E j \in DOMAIN leases : x \in leases[j].path_start
        /\ heap \subseteq Buffers \cup {SymlinkTarget}
    BY Zenon, <1>7 DEF Exact, BuffersExact
  <1>9. \A i \in 1 .. n : paths[i].start # new.start /\ paths[i].start[2] \in Nat
    BY <1>3, <1>5, <1>7, <1>8 DEF Buffers
  <1> HIDE DEF new
  <1>10. ASSUME expansions' = expansions + 1, pc' = "walk", UNCHANGED <<todo, fds, host, leases, refs>>,
                paths' \in Seq(PathStates), Len(paths') \in 1 .. MaxPaths
         PROVE  Locals' /\ HandlesExact(fds, leases, host)' /\ DOMAIN paths' = 1 .. Len(paths')
    <2>1. paths' # <<>> /\ Len(paths') <= MaxPaths /\ DOMAIN paths' = 1 .. Len(paths')
      BY <1>10
    <2>2. Locals'
      BY <1>3, <1>10, <2>1 DEF Exact, Locals, Walking
    <2> QED
      BY <1>10, <2>1, <2>2 DEF Exact, HandlesExact
  <1>11. CASE /\ expansions' = expansions + 1 /\ pc' = "walk" /\ UNCHANGED <<todo, fds, host, leases, refs>>
              /\ paths' = [paths EXCEPT ![curpath] = new]
              /\ heap' = (heap \ {paths[curpath].start}) \cup {new.start}
    <2>1. /\ paths' \in Seq(PathStates) /\ Len(paths') = n
          /\ \A i \in 1 .. n : paths'[i] = IF i = n THEN new ELSE paths[i]
      BY <1>6, <1>7, <1>11 DEF curpath
    <2>2. heap' = (heap \ {paths[n].start}) \cup {new.start} /\ leases' = leases
      BY Zenon, <1>11 DEF curpath
    <2> HIDE DEF n
    <2>3. Locals' /\ HandlesExact(fds, leases, host)' /\ DOMAIN paths' = 1 .. n
      BY <1>7, <1>10, <1>11, <2>1, LimitsAssumption
    <2>4. \A i \in 1 .. n : /\ paths'[i].start[1] = Len(leases) /\ paths'[i].start[2] <= expansions + 1
                            /\ paths'[i].start \in heap'
      BY <1>3, <1>5, <1>7, <1>8, <1>9, <2>1, <2>2
    <2>5. \A i, j \in 1 .. n : paths'[i].start = paths'[j].start => i = j
      BY <1>8, <1>9, <2>1
    <2>6. \A j \in DOMAIN leases : \A x \in leases[j].path_start : x \in heap'
      <3>1. paths[n].start[1] = Len(leases)
        BY <1>7, <1>8
      <3> QED
        BY <1>3, <1>8, <2>2, <3>1
    <2>7. \A x \in heap' \cap Buffers : \/ \E i \in 1 .. n : paths'[i].start = x
                                        \/ \E j \in DOMAIN leases : x \in leases[j].path_start
      <3> TAKE x \in heap' \cap Buffers
      <3>1. CASE x = new.start
        BY <1>7, <2>1, <3>1
      <3>2. CASE x # new.start
        BY Zenon, <1>8, <2>1, <2>2, <3>2
      <3> QED
        BY Zenon, <3>1, <3>2
    <2>8. heap' \subseteq Buffers \cup {SymlinkTarget}
      BY Zenon, <1>5, <1>8, <2>2
    <2>9. BuffersExact(paths, leases, expansions, heap)'
      BY <1>8, <1>11, <2>2, <2>3, <2>4, <2>5, <2>6, <2>7, <2>8 DEF BuffersExact
    <2> QED
      BY Zenon, <2>3, <2>9 DEF Exact
  <1>12. CASE /\ expansions' = expansions + 1 /\ pc' = "walk" /\ UNCHANGED <<todo, fds, host, leases, refs>>
              /\ curpath < MaxPaths
              /\ paths' = Append([paths EXCEPT ![curpath].left.names = rest], new)
              /\ heap' = heap \cup {new.start}
    <2> DEFINE ps == [paths EXCEPT ![curpath].left.names = rest]
    <2>1. /\ ps \in Seq(PathStates) /\ Len(ps) = n
          /\ \A i \in 1 .. n : ps[i].start = paths[i].start
      BY Zenon, <1>1, <1>7, TopPath
    <2>2. paths' = Append(ps, new)
      BY Zenon, <1>12
    <2> HIDE DEF ps
    <2>3. /\ paths' \in Seq(PathStates) /\ Len(paths') = n + 1 /\ paths'[n + 1] = new
          /\ \A i \in 1 .. n : paths'[i] = ps[i]
      BY <1>6, <1>7, <2>1, <2>2
    <2>4. heap' = heap \cup {new.start} /\ leases' = leases /\ n < MaxPaths
      BY Zenon, <1>12 DEF curpath
    <2> HIDE DEF n
    <2>5. Locals' /\ HandlesExact(fds, leases, host)' /\ DOMAIN paths' = 1 .. n + 1
      BY <1>7, <1>10, <1>12, <2>3, <2>4, LimitsAssumption
    <2>6. \A i \in 1 .. n + 1 : i \in 1 .. n \/ i = n + 1
      BY <1>7
    <2>7. \A i \in 1 .. n + 1 : /\ paths'[i].start[1] = Len(leases) /\ paths'[i].start[2] <= expansions + 1
                                /\ paths'[i].start \in heap'
      <3>1. \A i \in 1 .. n : /\ paths'[i].start[1] = Len(leases) /\ paths'[i].start[2] <= expansions + 1
                              /\ paths'[i].start \in heap'
        BY <1>3, <1>8, <1>9, <2>1, <2>3, <2>4
      <3>2. /\ paths'[n + 1].start[1] = Len(leases) /\ paths'[n + 1].start[2] <= expansions + 1
            /\ paths'[n + 1].start \in heap'
        BY <1>3, <1>5, <2>3, <2>4
      <3> QED
        BY Zenon, <2>6, <3>1, <3>2
    <2>8. \A i, j \in 1 .. n + 1 : paths'[i].start = paths'[j].start => i = j
      BY <1>8, <1>9, <2>1, <2>3, <2>6
    <2>9. \A x \in heap' \cap Buffers : \/ \E i \in 1 .. n + 1 : paths'[i].start = x
                                        \/ \E j \in DOMAIN leases : x \in leases[j].path_start
      <3> TAKE x \in heap' \cap Buffers
      <3>1. CASE x = new.start
        BY <1>7, <2>3, <3>1
      <3>2. CASE x # new.start
        <4>1. \/ \E i \in 1 .. n : paths[i].start = x
              \/ \E j \in DOMAIN leases : x \in leases[j].path_start
          BY Zenon, <1>8, <2>4, <3>2
        <4>2. \A i \in 1 .. n : i \in 1 .. n + 1
          BY <1>7
        <4> QED
          BY Zenon, <2>1, <2>3, <4>1, <4>2
      <3> QED
        BY Zenon, <3>1, <3>2
    <2>10. heap' \subseteq Buffers \cup {SymlinkTarget}
      BY Zenon, <1>5, <1>8, <2>4
    <2>11. BuffersExact(paths, leases, expansions, heap)'
      BY Zenon, <1>8, <1>12, <2>4, <2>5, <2>7, <2>8, <2>9, <2>10 DEF BuffersExact
    <2> QED
      BY Zenon, <2>5, <2>11 DEF Exact
  <1> QED
    BY Zenon, <1>2, <1>11, <1>12 DEF push_symlink, new

\* A component that is ".", a pathname that is empty or absolute, the last
\* component, and what follows readlinkat().
LEMMA WalkExact ==
  ASSUME Inv, Exact, EmptyOrAbsolute \/ Dot \/ Final \/ Readlink PROVE Exact'
  <1>1. /\ pc \in {"walk", "readlink"} => /\ fds \in Seq(Handles \cup {BaseFd}) /\ fds # <<>>
                                          /\ Len(fds) <= MaxFds
        /\ HandlesExact(fds, leases, host) /\ host \in [Handles -> Dirs \cup {Closed}]
    BY Zenon DEF Exact, Locals, Walking, Inv, GoodHost
  <1>2. ASSUME pc \in {"walk", "readlink"}, NEW error, Fail(error) PROVE Exact'
    BY Zenon, <1>2, FailExact
  <1>3. ASSUME pc \in {"walk", "readlink"}, NEW name, NEW slash, Succeed(fds, host, name, slash, Starts)
        PROVE  Exact'
    <2> DEFINE start == Starts
    <2>1. start \subseteq Starts /\ Succeed(fds, host, name, slash, start)
      BY Zenon, <1>3
    <2> HIDE DEF start
    <2> QED
      BY Zenon, <1>1, <1>3, <2>1, SucceedExact
  <1>4. CASE EmptyOrAbsolute
    BY Zenon, <1>2, <1>4 DEF EmptyOrAbsolute
  <1>5. CASE Dot
    <2>1. pc = "walk" /\ left.names # <<>> /\ Processed(fds, host) /\ pc \in {"walk", "readlink"}
      BY Zenon, <1>5 DEF Dot, Component
    <2> QED
      BY Zenon, <1>1, <2>1, ProcessedExact
  <1>6. CASE Final
    <2>1. pc = "walk" /\ left.names # <<>> /\ file \in Names /\ pc \in {"walk", "readlink"}
      BY Zenon, <1>6 DEF Final, Component
    <2>2. GoReadlink \/ Succeed(fds, host, file, FALSE, Starts)
      BY Zenon, <1>6 DEF Final
    <2> QED
      BY Zenon, <1>3, <2>1, <2>2, GoReadlinkExact
  <1>7. CASE Readlink
    <2>1. pc = "readlink" /\ pc \in {"walk", "readlink"} /\ left.names # <<>> /\ file \in Names
      BY Zenon, <1>7 DEF Readlink, Exact, Locals
    <2>2. DirOf(fds[curfd]) \in Dirs
      BY Zenon, <2>1, TopIsGood, BelowBaseClosed DEF DirOf, curfd, Inv
    <2>3. tree[DirOf(fds[curfd])][file].target \in Path
      BY <2>1, <2>2, TreesAssumption DEF Inv
    <2>4. \/ push_symlink(tree[DirOf(fds[curfd])][file].target)
          \/ \E error : Fail(error)
          \/ Succeed(fds, host, file, ends_with_slashes, Starts)
      BY Zenon, <1>7 DEF Readlink
    <2>5. CASE push_symlink(tree[DirOf(fds[curfd])][file].target)
      BY Zenon, <2>1, <2>3, <2>5, PushSymlinkExact
    <2> QED
      BY Zenon, <1>2, <1>3, <2>1, <2>4, <2>5
  <1> QED
    BY Zenon, <1>4, <1>5, <1>6, <1>7

\* A system call starts, with a copy of a target for file_symlink().
LEMMA EnterExact ==
  ASSUME Exact, pc = "idle", NEW lookups \in Seq(Lookups), lookups # <<>>,
         NEW buffers \in SUBSET {SymlinkTarget}, EnterWith(lookups, buffers)
  PROVE  Exact'
  <1>1. /\ leases = <<>> /\ heap = {} /\ fds = <<>> /\ paths = <<>>
        /\ UNCHANGED <<fds, paths, expansions, host, leases, refs>>
        /\ pc' = "begin" /\ todo' = lookups /\ heap' = buffers
    BY Zenon DEF Exact, Locals, EnterWith, Walking
  <1>2. Locals'
    BY Zenon, <1>1 DEF Exact, Locals, Walking
  <1>3. HandlesExact(fds, leases, host)'
    BY <1>1 DEF Exact, HandlesExact
  <1>4. BuffersExact(paths, leases, expansions, heap)'
    BY <1>1, TargetApart DEF BuffersExact
  <1> QED
    BY Zenon, <1>2, <1>3, <1>4 DEF Exact

\* The system calls resolve one or two pathnames.
LEMMA StartExact ==
  ASSUME Exact, Start PROVE Exact'
  <1>1. \A p \in Paths \cup Targets, follow, final \in BOOLEAN : Want(p, follow, final) \in Lookups
    BY Zenon, TreesAssumption DEF Want, Lookups
  <1>2. \A x \in Lookups : <<x>> \in Seq(Lookups) /\ <<x>> # <<>>
    OBVIOUS
  <1>3. \A x, y \in Lookups : <<x, y>> \in Seq(Lookups) /\ <<x, y>> # <<>>
    OBVIOUS
  <1>4. {} \in SUBSET {SymlinkTarget} /\ {SymlinkTarget} \in SUBSET {SymlinkTarget}
    BY Zenon
  <1>5. ASSUME NEW p \in Paths, NEW follow \in BOOLEAN, NEW final \in BOOLEAN, NEW buffers \in SUBSET {SymlinkTarget},
               pc = "idle", EnterWith(<<Want(p, follow, final)>>, buffers)
        PROVE  Exact'
    BY Zenon, <1>1, <1>2, <1>5, EnterExact
  <1>6. ASSUME NEW p \in Paths, NEW q \in Targets, NEW follow \in BOOLEAN, NEW final \in BOOLEAN,
               pc = "idle", EnterWith(<<Want(p, follow, final), Want(q, FALSE, TRUE)>>, {})
        PROVE  Exact'
    BY Zenon, <1>1, <1>3, <1>4, <1>6, EnterExact
  <1>7. CASE sys_file_create \/ sys_file_unlink
    BY Zenon, <1>4, <1>5, <1>7 DEF sys_file_create, sys_file_unlink, Enter
  <1>8. CASE sys_file_open \/ sys_file_readlink
    BY Zenon, <1>4, <1>5, <1>8 DEF sys_file_open, sys_file_readlink, Enter
  <1>9. CASE sys_file_stat_get \/ sys_file_stat_put
    BY Zenon, <1>4, <1>5, <1>9 DEF sys_file_stat_get, sys_file_stat_put, Enter
  <1>10. CASE sys_file_symlink
    BY Zenon, <1>4, <1>5, <1>10 DEF sys_file_symlink
  <1>11. CASE sys_file_link
    BY Zenon, <1>6, <1>11 DEF sys_file_link, Enter
  <1>12. CASE sys_file_rename
    BY Zenon, <1>6, <1>12 DEF sys_file_rename, Enter
  <1> QED
    BY Zenon, <1>7, <1>8, <1>9, <1>10, <1>11, <1>12 DEF Start

\* path_get() starts its walk, or fails and ends the leases; path_put() ends
\* them in any case.
LEMMA LeaseExact ==
  ASSUME Exact, path_get \/ path_put PROVE Exact'
  <1>1. Len(leases) \in Nat /\ leases \in Seq(Leases) /\ expansions \in Nat
    BY DEF Exact, Locals
  <1>2. ASSUME pc \in {"begin", "use"}, host' = WithClosed(host, LeasedFds), heap' = heap \ CallersBuffers,
               refs' = refs - Len(leases), Return, UNCHANGED <<fds, paths, expansions>>
        PROVE  Exact'
    <2>1. fds = <<>> /\ paths = <<>> /\ refs = Len(leases)
      BY <1>1, <1>2 DEF Exact, Locals, Walking
    <2>2. Opened = {} /\ Starts = {}
      BY <2>1 DEF Opened, Starts, curfd
    <2>3. \A n \in Handles : host'[n] = Closed
      BY Zenon, <1>2, <2>2, ExactSets DEF WithClosed
    <2>4. heap' = {}
      BY Zenon, <1>2, <2>2, ExactSets DEF CallersBuffers
    <2>5. refs' = 0
      BY <1>1, <1>2, <2>1
    <2> QED
      BY Zenon, <1>1, <1>2, <2>1, <2>3, <2>4, <2>5, ReturnExact DEF Return
  <1>3. CASE /\ pc = "begin" /\ fds' = <<BaseFd>> /\ paths' = <<[start |-> Buffer(0), left |-> Lookup.path]>>
             /\ heap' = heap \cup {Buffer(0)} /\ refs' = refs + 1 /\ pc' = "walk"
             /\ UNCHANGED <<todo, host, leases, expansions>>
    <2> DEFINE new == [start |-> Buffer(0), left |-> Lookup.path]
    <2>1. fds = <<>> /\ paths = <<>> /\ refs = Len(leases) /\ todo # <<>> /\ todo \in Seq(Lookups)
      BY <1>1, <1>3 DEF Exact, Locals, Walking
    <2>2. Lookup.path \in Path
      <3>1. Lookup \in Lookups
        BY <2>1 DEF Lookup
      <3> QED
        BY Zenon, <3>1 DEF Lookups
    <2>3. Buffer(0) \in Buffers /\ Buffer(0)[1] = Len(leases) /\ Buffer(0)[2] = 0
      BY Zenon, <1>1, BufferTypes
    <2>4. new \in PathStates /\ new.start = Buffer(0)
      BY Zenon, <2>2, <2>3 DEF PathStates
    <2>5. paths' = <<new>>
      BY Zenon, <1>3
    <2> HIDE DEF new
    <2>6. paths' \in Seq(PathStates) /\ Len(paths') = 1 /\ DOMAIN paths' = {1} /\ paths'[1] = new /\ paths' # <<>>
      BY <2>4, <2>5
    <2>7. fds' \in Seq(Handles \cup {BaseFd}) /\ Len(fds') = 1 /\ fds'[1] = BaseFd /\ fds' # <<>>
      BY <1>3
    <2>8. Locals'
      BY <1>1, <1>3, <2>1, <2>6, <2>7, LimitsAssumption DEF Exact, Locals, Walking
    <2>9. HandlesExact(fds, leases, host)'
      <3>1. Len(fds) = 0
        BY Zenon, <2>1
      <3>2. HandlesExact(fds, leases, host)
        BY Zenon DEF Exact
      <3> QED
        BY <1>3, <2>7, <3>1, <3>2 DEF HandlesExact
    <2>10. BuffersExact(paths, leases, expansions, heap)'
      <3>1. DOMAIN paths = {}
        BY <2>1
      <3>2. BuffersExact(paths, leases, expansions, heap)
        BY Zenon DEF Exact
      <3>3. heap' = heap \cup {Buffer(0)} /\ leases' = leases /\ expansions' = expansions
        BY Zenon, <1>3
      <3>4. \A i \in DOMAIN paths' : /\ paths'[i].start = Buffer(0) /\ paths'[i].start[1] = Len(leases')
                                     /\ paths'[i].start[2] <= expansions' /\ paths'[i].start \in heap'
        BY <1>1, <2>3, <2>4, <2>6, <3>3
      <3>5. \A i, j \in DOMAIN paths' : i = j
        BY Zenon, <2>6
      <3>6. heap' \subseteq Buffers \cup {SymlinkTarget}
        BY Zenon, <2>3, <3>2, <3>3 DEF BuffersExact
      <3>7. \A x \in heap' \cap Buffers : \/ \E i \in DOMAIN paths' : paths'[i].start = x
                                          \/ \E j \in DOMAIN leases' : x \in leases'[j].path_start
        <4>1. \A x \in heap \cap Buffers : \E j \in DOMAIN leases : x \in leases[j].path_start
          BY Zenon, <3>1, <3>2 DEF BuffersExact
        <4>2. \E i \in DOMAIN paths' : paths'[i].start = Buffer(0)
          BY Zenon, <2>4, <2>6
        <4> QED
          BY Zenon, <3>3, <4>1, <4>2
      <3>8. \A j \in DOMAIN leases' : /\ \A x \in leases'[j].path_start : x[1] < Len(leases')
                                      /\ leases'[j].path_start \subseteq heap'
        BY Zenon, <3>2, <3>3 DEF BuffersExact
      <3> QED
        BY Zenon, <3>4, <3>5, <3>6, <3>7, <3>8 DEF BuffersExact
    <2> QED
      BY Zenon, <2>8, <2>9, <2>10 DEF Exact
  <1> QED
    BY Zenon, <1>2, <1>3 DEF path_get, path_put

\* Other processes do not touch the resources of a call.
LEMMA OtherExact ==
  ASSUME Exact, ChangeTree \/ UNCHANGED vars PROVE Exact'
  <1>1. UNCHANGED <<pc, walk, host>>
    BY Zenon DEF ChangeTree, vars
  <1>2. Locals'
    BY Zenon, <1>1 DEF Exact, Locals, walk, left, file, curpath
  <1> QED
    BY Zenon, <1>1, <1>2 DEF Exact, walk, HandlesExact, BuffersExact

\* A set of different elements has as many as there are places for them.
LEMMA CountPlaces ==
  ASSUME NEW I, IsFiniteSet(I), NEW f, DOMAIN f = I, f = [i \in I |-> f[i]],
         \A i, j \in I : f[i] = f[j] => i = j
  PROVE  LET T == {f[i] : i \in I} IN IsFiniteSet(T) /\ Cardinality(T) = Cardinality(I)
  <1> DEFINE T == {f[i] : i \in I}
  <1>1. f \in [I -> T]
    OBVIOUS
  <1>2. \A x \in T : \E i \in I : f[i] = x
    BY Zenon
  <1> HIDE DEF T
  <1>3. f \in Surjection(I, T)
    BY Zenon, <1>1, <1>2 DEF Surjection
  <1>4. f \in Injection(I, T)
    BY Zenon, <1>1 DEF Injection, IsInjective
  <1>5. IsFiniteSet(T) /\ Cardinality(T) = Cardinality(I)
    BY Zenon, <1>3, <1>4, FS_Surjection
  <1> QED
    BY Zenon, <1>5 DEF T

\* The invariant says what the property says.
LEMMA ExactResources ==
  ASSUME Exact PROVE ResourcesExact
  <1> DEFINE I == 2 .. Len(fds)
             J == {j \in DOMAIN leases : leases[j].fd # BaseFd}
             f == [i \in I |-> fds[i]]
             g == [j \in J |-> leases[j].fd]
             p == [i \in DOMAIN paths |-> paths[i].start]
             F == {f[i] : i \in I}
             G == {g[j] : j \in J}
             P == {p[i] : i \in DOMAIN paths}
  <1>1. /\ Len(fds) \in Nat /\ Len(leases) \in Nat /\ Len(paths) \in Nat
        /\ DOMAIN leases = 1 .. Len(leases) /\ DOMAIN paths = 1 .. Len(paths)
    BY DEF Exact, Locals
  <1>2. IsFiniteSet(I) /\ IsFiniteSet(J) /\ IsFiniteSet(DOMAIN paths)
    <2>1. IsFiniteSet(1 .. Len(leases)) /\ IsFiniteSet(1 .. Len(paths)) /\ IsFiniteSet(I)
      BY <1>1, FS_Interval
    <2> QED
      BY Zenon, <1>1, <2>1, FS_Subset
  <1>3. IsFiniteSet(F) /\ Cardinality(F) = Cardinality(I)
    <2>1. \A i, j \in I : f[i] = f[j] => i = j
      BY Zenon DEF Exact, HandlesExact
    <2>2. DOMAIN f = I /\ f = [i \in I |-> f[i]]
      BY Zenon
    <2> HIDE DEF f, I
    <2> QED
      BY <1>2, <2>1, <2>2, CountPlaces
  <1>4. IsFiniteSet(G) /\ Cardinality(G) = Cardinality(J)
    <2>1. \A i, j \in J : g[i] = g[j] => i = j
      BY Zenon DEF Exact, HandlesExact
    <2>2. DOMAIN g = J /\ g = [i \in J |-> g[i]]
      BY Zenon
    <2> HIDE DEF g, J
    <2> QED
      BY <1>2, <2>1, <2>2, CountPlaces
  <1>5. Cardinality(P) = Len(paths)
    <2>1. \A i, j \in DOMAIN paths : p[i] = p[j] => i = j
      BY Zenon DEF Exact, BuffersExact
    <2>2. DOMAIN p = DOMAIN paths /\ p = [i \in DOMAIN paths |-> p[i]]
      BY Zenon
    <2>3. Cardinality(DOMAIN paths) = Len(paths)
      <3> DEFINE n == Len(paths)
      <3>1. 1 \in Int /\ n \in Int /\ n \in Nat
        BY <1>1
      <3> HIDE DEF n
      <3>2. Cardinality(1 .. n) = IF 1 > n THEN 0 ELSE n - 1 + 1
        BY Zenon, <3>1, FS_Interval
      <3>3. Cardinality(1 .. n) = n
        BY <3>1, <3>2
      <3> QED
        BY Zenon, <1>1, <3>3 DEF n
    <2> HIDE DEF p
    <2> QED
      BY <1>2, <2>1, <2>2, <2>3, CountPlaces
  <1>6. F = Opened /\ G = LeasedFds /\ P = Starts
    <2>1. F = Opened
      BY Zenon DEF Opened, curfd
    <2>2. G = LeasedFds
      BY Zenon DEF LeasedFds
    <2>3. P = Starts
      BY Zenon DEF Starts
    <2> QED
      BY Zenon, <2>1, <2>2, <2>3
  <1>7. Opened \cap LeasedFds = {} /\ Opened \subseteq Handles /\ LeasedFds \subseteq Handles
    <2>1. \A j \in DOMAIN leases : leases[j] \in Leases
      BY DEF Exact, Locals
    <2>2. \A j \in DOMAIN leases : leases[j].fd \in Handles \cup {BaseFd}
      BY Zenon, <2>1 DEF Leases
    <2>3. \A i \in 2 .. Len(fds) : fds[i] \in Handles /\ \A j \in DOMAIN leases : fds[i] # leases[j].fd
      BY Zenon DEF Exact, HandlesExact
    <2> QED
      BY Zenon, <2>2, <2>3 DEF Opened, LeasedFds, curfd
  <1>8. OpenHandles = Opened \cup LeasedFds
    <2>1. \A n \in Handles : host[n] # Closed => n \in Opened \cup LeasedFds
      BY Zenon, ExactSets
    <2>2. \A n \in Opened \cup LeasedFds : n \in Handles /\ host[n] # Closed
      <3>1. \A n \in Opened : \E i \in 2 .. Len(fds) : fds[i] = n
        BY Zenon DEF Opened, curfd
      <3>2. \A n \in LeasedFds : \E j \in DOMAIN leases : leases[j].fd = n
        BY Zenon DEF LeasedFds
      <3> QED
        BY Zenon, <1>7, <3>1, <3>2 DEF Exact, HandlesExact
    <2> QED
      BY Zenon, <2>1, <2>2 DEF OpenHandles
  <1> HIDE DEF F, G, P
  <1>9. Cardinality(OpenHandles) = Cardinality(I) + Cardinality(J)
    <2>1. /\ Cardinality(F \cup G) = Cardinality(F) + Cardinality(G) - Cardinality(F \cap G)
          /\ Cardinality(F) \in Nat /\ Cardinality(G) \in Nat
      BY Zenon, <1>3, <1>4, FS_Union, FS_CardinalityType
    <2>2. Cardinality(F \cap G) = 0
      BY Zenon, <1>6, <1>7, FS_EmptySet
    <2> HIDE DEF I, J
    <2> QED
      BY <1>3, <1>4, <1>6, <1>8, <2>1, <2>2
  <1>10. heap \ {SymlinkTarget} = Starts \cup LeasedBuffers
    <2>1. heap \subseteq Starts \cup LeasedBuffers \cup {SymlinkTarget}
      BY Zenon, ExactSets
    <2>2. Starts \subseteq heap /\ LeasedBuffers \subseteq heap
      BY DEF Starts, LeasedBuffers, Exact, BuffersExact
    <2>3. Starts \subseteq Buffers
      <3>1. \A i \in DOMAIN paths : paths[i] \in PathStates
        BY DEF Exact, Locals
      <3> QED
        BY Zenon, <3>1 DEF PathStates, Starts
    <2>4. LeasedBuffers \subseteq Buffers
      <3>1. \A j \in DOMAIN leases : leases[j] \in Leases
        BY DEF Exact, Locals
      <3> QED
        BY Zenon, <3>1 DEF Leases, LeasedBuffers
    <2> QED
      BY Zenon, <2>1, <2>2, <2>3, <2>4, TargetApart
  <1>11. Starts \cap LeasedBuffers = {}
    <2>1. \A x \in Starts : x[1] = Len(leases)
      BY Zenon DEF Starts, Exact, BuffersExact
    <2>2. \A x \in LeasedBuffers : x[1] < Len(leases)
      BY Zenon DEF LeasedBuffers, Exact, BuffersExact
    <2> QED
      BY <1>1, <2>1, <2>2
  <1>12. /\ refs = Len(leases) + (IF pc \in {"walk", "readlink", "aborted"} THEN 1 ELSE 0)
         /\ pc = "idle" => heap = {}
         /\ Len(fds) <= MaxFds /\ Len(paths) <= MaxPaths
    BY Zenon DEF Exact, Locals, Walking
  <1> QED
    BY Zenon, <1>5, <1>6, <1>8, <1>9, <1>10, <1>11, <1>12 DEF ResourcesExact, curfd, curpath

\* path_get(), path_put() and their callers give every descriptor, reference and
\* buffer up exactly once on every path through every system call, for all file
\* systems, pathnames and limits.
THEOREM ResourcesBalance == Spec => []ResourcesExact
  <1>1. Init => Exact
    <2> SUFFICES ASSUME Init PROVE Exact
      BY Zenon
    <2>1. Locals
      BY LimitsAssumption DEF Init, Locals, Walking
    <2>2. HandlesExact(fds, leases, host)
      BY DEF Init, HandlesExact
    <2>3. BuffersExact(paths, leases, expansions, heap)
      BY DEF Init, BuffersExact
    <2> QED
      BY Zenon, <2>1, <2>2, <2>3 DEF Exact
  <1>2. Inv /\ Exact /\ [Next]_vars => Exact'
    BY Zenon, DotDotExact, DescendExact, WalkExact, StartExact, LeaseExact, OtherExact
       DEF Next, Continue, Aborted
  <1>3. Exact => ResourcesExact
    BY Zenon, ExactResources
  <1> QED
    BY <1>1, <1>2, <1>3, WalkInvariant, PTL DEF Spec
=============================================================================
