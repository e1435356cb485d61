------------------------------ MODULE FdTable ------------------------------
(***************************************************************************)
(* The file descriptor table of libemulator/posix.c: entries with rights   *)
(* that point to reference-counted objects, each of which owns a file      *)
(* descriptor number of the host.                                          *)
(*                                                                         *)
(* An action is a stretch of a system call between two points at which     *)
(* other threads can tell how far it got: a critical section under the     *)
(* lock of the table, a call to the host that opens or closes a number or  *)
(* may block, a change of a reference count.  A call that fails before it  *)
(* changes anything is a stuttering step.  What the system calls read and  *)
(* write, and how pathnames resolve, is left out.                          *)
(***************************************************************************)
EXTENDS Integers, Sequences, FiniteSets, FiniteSetsExt

CONSTANTS
  Threads,        \* threads of the emulated program
  Objects,        \* addresses at which fd_objects can be allocated
  NULL,           \* no object, no owner
  MaxSize,        \* bound on the size of the table
  MaxHostFd,      \* bound on host file descriptor numbers
  Programs,       \* what programs are given and do, and the limits they have
  PassedFiles,    \* files that peers pass over sockets
  MaxPassed       \* bound on the number of descriptors in one call

Fds == 0 .. MaxSize - 1
HostFds == 0 .. MaxHostFd
Modes == {"O_RDONLY", "O_WRONLY", "O_RDWR"}
Kinds == {"blk", "chr", "tty", "dir", "reg", "dgram", "stream", "fifo", "shm", "other"}
Files == [kind : Kinds, mode : Modes]

ASSUME BoundsAssumption ==
  MaxSize \in Nat /\ MaxHostFd \in Nat /\ MaxPassed \in Nat
ASSUME IdentityAssumption ==
  /\ NULL \notin Objects /\ NULL \notin Threads
  /\ Objects \cap Threads = {}
  /\ IsFiniteSet(Objects) /\ IsFiniteSet(Threads)
ASSUME FilesAssumption == PassedFiles \subseteq Files

-----------------------------------------------------------------------------
(***************************************************************************)
(* Rights (rights.h).                                                      *)
(***************************************************************************)
RIGHTS_REGULAR_FILE_BASE ==
  {"FD_DATASYNC", "FD_READ", "FD_SEEK", "FD_STAT_PUT_FLAGS", "FD_SYNC",
   "FD_TELL", "FD_WRITE", "FILE_ADVISE", "FILE_ALLOCATE", "FILE_STAT_FGET",
   "FILE_STAT_FPUT_SIZE", "FILE_STAT_FPUT_TIMES", "MEM_MAP", "MEM_MAP_EXEC",
   "POLL_FD_READWRITE", "PROC_EXEC"}
RIGHTS_DIRECTORY_BASE ==
  {"FD_STAT_PUT_FLAGS", "FD_SYNC", "FILE_ADVISE", "FILE_CREATE_DIRECTORY",
   "FILE_CREATE_FILE", "FILE_LINK_SOURCE", "FILE_LINK_TARGET", "FILE_OPEN",
   "FILE_READDIR", "FILE_READLINK", "FILE_RENAME_SOURCE",
   "FILE_RENAME_TARGET", "FILE_STAT_FGET", "FILE_STAT_FPUT_TIMES",
   "FILE_STAT_GET", "FILE_STAT_PUT_TIMES", "FILE_SYMLINK", "FILE_UNLINK",
   "POLL_FD_READWRITE"}
RIGHTS_DIRECTORY_INHERITING == RIGHTS_DIRECTORY_BASE \cup RIGHTS_REGULAR_FILE_BASE
RIGHTS_SHARED_MEMORY_BASE ==
  {"FD_READ", "FD_WRITE", "FILE_STAT_FGET", "FILE_STAT_FPUT_SIZE", "MEM_MAP",
   "MEM_MAP_EXEC"}
RIGHTS_SOCKET_BASE ==
  {"FD_READ", "FD_STAT_PUT_FLAGS", "FD_WRITE", "FILE_STAT_FGET",
   "POLL_FD_READWRITE", "SOCK_SHUTDOWN"}
RIGHTS_TTY_BASE ==
  {"FD_READ", "FD_STAT_PUT_FLAGS", "FD_WRITE", "FILE_STAT_FGET", "POLL_FD_READWRITE"}
RIGHTS_ALL ==
  RIGHTS_DIRECTORY_INHERITING \cup RIGHTS_SOCKET_BASE \cup {"POLL_PROC_TERMINATE"}

NoRights == [base |-> {}, inheriting |-> {}]
RightsPairs == [base : SUBSET RIGHTS_ALL, inheriting : SUBSET RIGHTS_ALL]

\* A program: the files that the host has open when it starts, as numbers 0,
\* 1, ..., and which of these numbers are passed to it, perhaps several times;
\* the system calls that it makes with the rights and the flags that it asks
\* for, the kinds of files in directories, the memory that it has for the
\* table and for objects, the limit on its host descriptors, whether malloc()
\* and realloc() may fail before that, and whether realloc() may move the table.
IsProgram(p) ==
  /\ p.files \in Seq(Files) /\ Len(p.files) <= p.nofile
  /\ p.args \in Seq(0 .. Len(p.files) - 1)
  /\ p.requests \subseteq RightsPairs /\ p.kinds \subseteq Kinds
  /\ p.size \in 0 .. MaxSize /\ p.nobjects \in 0 .. Cardinality(Objects)
  /\ p.nofile \in 0 .. MaxHostFd + 1
  /\ p.mallocMayFail \in BOOLEAN /\ p.reallocMoves \in BOOLEAN
ASSUME ProgramsAssumption == \A p \in Programs : IsProgram(p)

\* The rights that a kind of file can have.
KindRights(kind) ==
  CASE kind \in {"blk", "chr"} -> [base |-> RIGHTS_ALL, inheriting |-> RIGHTS_ALL]
    [] kind = "tty" -> [base |-> RIGHTS_TTY_BASE, inheriting |-> {}]
    [] kind = "dir" -> [base |-> RIGHTS_DIRECTORY_BASE,
                        inheriting |-> RIGHTS_DIRECTORY_INHERITING]
    [] kind = "reg" -> [base |-> RIGHTS_REGULAR_FILE_BASE, inheriting |-> {}]
    [] kind \in {"dgram", "stream", "fifo"} -> [base |-> RIGHTS_SOCKET_BASE,
                                                inheriting |-> RIGHTS_ALL]
    [] kind = "shm" -> [base |-> RIGHTS_SHARED_MEMORY_BASE, inheriting |-> {}]
    [] kind = "other" -> NoRights

\* Mutant: the access mode of the descriptor does not matter.
fd_determine_type_rightsMutant(file) == KindRights(file.kind)

\* fd_determine_type_rights() of a file whose kind is supported; fstat() fails
\* on a number that is closed.
fd_determine_type_rights(file) ==
  LET max == KindRights(file.kind)
  IN  [max EXCEPT !.base = @ \ CASE file.mode = "O_RDONLY" -> {"FD_WRITE"}
                                 [] file.mode = "O_WRONLY" -> {"FD_READ"}
                                 [] file.mode = "O_RDWR" -> {}]
Supported(file) == file.kind \notin {"other", "none"}

-----------------------------------------------------------------------------
VARIABLES
  curfds,   \* the table: its size, its number of used entries, its entries
  obj,      \* fd_objects: reference count and number; no references if free
  host,     \* the host's descriptors: the file, and who has to close it
  th,       \* threads: where they are in a system call, and its locals
  program,  \* the program that runs
  nargs,    \* number of its arguments that are registered
  crashed   \* has the process died on a bad pointer?

vars == <<curfds, obj, host, th, program, nargs, crashed>>

Entry(o, r) == [object |-> o, base |-> r.base, inheriting |-> r.inheriting]
Unused == Entry(NULL, NoRights)
Free == [refs |-> 0, number |-> -1]
Closed == [owner |-> NULL, kind |-> "none", mode |-> "none"]
Open(owner, file) == [owner |-> owner, kind |-> file.kind, mode |-> file.mode]

Idle == [pc |-> "idle", call |-> "none", next |-> "idle", held |-> <<>>,
         nums |-> <<>>, rights |-> NoRights, mode |-> "O_RDONLY"]

-----------------------------------------------------------------------------
(***************************************************************************)
(* Operations on the table ft.                                             *)
(***************************************************************************)
fd_table_get_entry(ft, fd, base, inheriting) ==
  CASE fd >= ft.size -> "EBADF"
    [] fd < ft.size /\ ft.entries[fd].object = NULL -> "EBADF"
    [] fd < ft.size /\ ft.entries[fd].object # NULL ->
         IF base \subseteq ft.entries[fd].base /\ inheriting \subseteq ft.entries[fd].inheriting
         THEN "0" ELSE "ENOTCAPABLE"

\* Mutant: the table may become full.
fd_table_growMutant(ft, min, incr) ==
  LET size == IF ft.size = 0 THEN 1 ELSE ft.size
      fits(n) == n > min /\ n >= ft.used + incr
  IN  Min({n \in {size * 2^k : k \in 0 .. 2 * (min + ft.used + incr)} : fits(n)})

\* The size after fd_table_grow(): doubled until it fits.
fd_table_grow(ft, min, incr) ==
  LET size == IF ft.size = 0 THEN 1 ELSE ft.size
      fits(n) == n > min /\ n >= (ft.used + incr) * 2
  IN  Min({n \in {size * 2^k : k \in 0 .. 2 * (min + ft.used + incr)} : fits(n)})

\* realloc() is called for a table that grows: can it fail, can it succeed?
GrowFails(ft, size) == size > ft.size /\ (program.mallocMayFail \/ size > program.size)
GrowSucceeds(size) == size <= program.size

fd_table_attach(ft, fd, fo, rights) ==
  [ft EXCEPT !.entries[fd] = Entry(fo, rights), !.used = @ + 1]

fd_table_detach(ft, fd) ==
  [ft EXCEPT !.entries[fd] = Unused, !.used = @ - 1]

\* The slots that fd_table_unused() may pick.
fd_table_unused(ft) ==
  {fd \in 0 .. ft.size - 1 : ft.entries[fd].object = NULL}

\* refcount_acquire() by each element of a sequence of objects.
Occurrences(os, o) == Cardinality({i \in DOMAIN os : os[i] = o})
Acquire(os) == [o \in Objects |-> [obj[o] EXCEPT !.refs = @ + Occurrences(os, o)]]

\* Mutant: the object is closed while one reference is left.
fd_object_releaseMutant(o) ==
  /\ obj' = [obj EXCEPT ![o] = IF obj[o].refs <= 2 THEN Free ELSE [@ EXCEPT !.refs = @ - 1]]
  /\ host' = IF obj[o].refs <= 2
             THEN [host EXCEPT ![obj[o].number] = Closed] ELSE host

\* fd_object_release(): the last reference closes the number.
fd_object_release(o) ==
  IF obj[o].refs = 1
  THEN /\ obj' = [obj EXCEPT ![o] = Free]
       /\ host' = [host EXCEPT ![obj[o].number] = Closed]
  ELSE /\ obj' = [obj EXCEPT ![o].refs = @ - 1]
       /\ UNCHANGED host

\* Objects that malloc() may return to fd_object_new(), and whether it may
\* return NULL for the n-th object of a call.
MallocSucceeds(n) ==
  Cardinality({o \in Objects : obj[o].refs > 0}) + n <= program.nobjects
MallocFails(n) == program.mallocMayFail \/ ~MallocSucceeds(n)
FreeObjects == {o \in Objects : obj[o].refs = 0 /\ MallocSucceeds(1)}

\* The numbers that the host hands out next: the lowest ones.
ClosedFds == {n \in 0 .. program.nofile - 1 : host[n] = Closed}
Lowest(k) == {n \in ClosedFds : Cardinality({m \in ClosedFds : m < n}) < k}

-----------------------------------------------------------------------------
(***************************************************************************)
(* System calls that look up descriptors, call the host and return.        *)
(***************************************************************************)
Enter(t, call) ==
  /\ ~crashed /\ nargs = Len(program.args)
  /\ th[t].pc = "idle" /\ call \in program.calls

\* A thread goes to place pc of a call, holding references to os.
Hold(t, call, pc, os) ==
  th' = [th EXCEPT ![t] = [@ EXCEPT !.pc = pc, !.call = call, !.held = os]]

fd_object_get(t, call, pc, fd, base, inheriting) ==
  LET fo == curfds.entries[fd].object
  IN  /\ fd_table_get_entry(curfds, fd, base, inheriting) = "0"
      /\ obj' = Acquire(<<fo>>)
      /\ Hold(t, call, pc, <<fo>>)

\* One descriptor is looked up and used.
Use(t, call, fd, base) ==
  /\ Enter(t, call)
  /\ fd_object_get(t, call, "call", fd, base, {})
  /\ UNCHANGED <<curfds, host, nargs, crashed>>

sys_fd_datasync(t, fd) == Use(t, "use", fd, {"FD_DATASYNC"})
sys_fd_pread(t, fd) == Use(t, "use", fd, {"FD_READ", "FD_SEEK"})
sys_fd_pwrite(t, fd) == Use(t, "use", fd, {"FD_WRITE", "FD_SEEK"})
sys_fd_read(t, fd) == Use(t, "use", fd, {"FD_READ"})
sys_fd_seek(t, fd) ==
  \E tell \in BOOLEAN : Use(t, "use", fd, IF tell THEN {"FD_TELL"} ELSE {"FD_SEEK", "FD_TELL"})
sys_fd_sync(t, fd) == Use(t, "use", fd, {"FD_SYNC"})
sys_fd_write(t, fd) == Use(t, "use", fd, {"FD_WRITE"})
sys_file_advise(t, fd) == Use(t, "use", fd, {"FILE_ADVISE"})
sys_file_allocate(t, fd) == Use(t, "use", fd, {"FILE_ALLOCATE"})
sys_file_stat_fget(t, fd) == Use(t, "use", fd, {"FILE_STAT_FGET"})
sys_file_stat_fput(t, fd) ==
  \E right \in {"FILE_STAT_FPUT_SIZE", "FILE_STAT_FPUT_TIMES"} : Use(t, "use", fd, {right})
sys_mem_map(t, fd) == Use(t, "use", fd, {})
sys_sock_shutdown(t, fd) == Use(t, "use", fd, {"SOCK_SHUTDOWN"})

\* Pathnames relative to one directory.
sys_file_create(t, fd) == Use(t, "use", fd, {"FILE_CREATE_DIRECTORY"})
sys_file_readdir(t, fd) == Use(t, "use", fd, {"FILE_READDIR"})
sys_file_readlink(t, fd) == Use(t, "use", fd, {"FILE_READLINK"})
sys_file_stat_get(t, fd) == Use(t, "use", fd, {"FILE_STAT_GET"})
sys_file_stat_put(t, fd) == Use(t, "use", fd, {"FILE_STAT_PUT_TIMES"})
sys_file_symlink(t, fd) == Use(t, "use", fd, {"FILE_SYMLINK"})
sys_file_unlink(t, fd) == Use(t, "use", fd, {"FILE_UNLINK"})

\* Pathnames relative to two directories: the second is looked up while the
\* first is held.
UseFirst(t, call, fd, base) ==
  /\ Enter(t, call)
  /\ fd_object_get(t, call, "second", fd, base, {})
  /\ UNCHANGED <<curfds, host, nargs, crashed>>
sys_file_link(t, fd1) == UseFirst(t, "file_link", fd1, {"FILE_LINK_SOURCE"})
sys_file_rename(t, oldfd) == UseFirst(t, "file_rename", oldfd, {"FILE_RENAME_SOURCE"})

\* The descriptors that a program tries (larger ones are never in the table),
\* and the entries of a sequence of them.
Descriptors == 0 .. program.size - 1
ObjectsOf(fds) == [i \in DOMAIN fds |-> curfds.entries[fds[i]].object]
Lists == UNION {[1 .. k -> Descriptors] : k \in 0 .. MaxPassed}

\* sys_sock_send(): all descriptors to pass are looked up under one lock, and
\* those before the first bad one are released if one is bad.
sys_sock_send(t, fds) ==
  LET good == {k \in 0 .. Len(fds) : \A i \in 1 .. k :
                 fd_table_get_entry(curfds, fds[i], {}, {}) = "0"}
      nfos == Max(good)
      fos == SubSeq(ObjectsOf(fds), 1, nfos)
  IN  /\ Enter(t, "sock_send")
      /\ nfos > 0 \/ fds = <<>>
      /\ obj' = Acquire(fos)
      /\ Hold(t, "sock_send", IF nfos = Len(fds) THEN "second" ELSE "release", fos)
      /\ UNCHANGED <<curfds, host, nargs, crashed>>

\* sys_poll() on descriptors: fds are those whose look-up succeeds, since the
\* others are reported and left out.
sys_poll(t, fds) ==
  /\ Enter(t, "poll")
  /\ fds # <<>>
  /\ \A i \in DOMAIN fds :
       fd_table_get_entry(curfds, fds[i], {"POLL_FD_READWRITE"}, {}) = "0"
  /\ obj' = Acquire(ObjectsOf(fds))
  /\ Hold(t, "poll", "call", ObjectsOf(fds))
  /\ UNCHANGED <<curfds, host, nargs, crashed>>

\* The second look-up of file_link(), file_rename() and sock_send(): its
\* failure releases what is held.
SecondRights(call) ==
  CASE call = "file_link" -> {"FILE_LINK_TARGET"}
    [] call = "file_rename" -> {"FILE_RENAME_TARGET"}
    [] call = "sock_send" -> {"FD_WRITE"}
LookUpSecond(t, fd) ==
  LET fo == curfds.entries[fd].object
      error == fd_table_get_entry(curfds, fd, SecondRights(th[t].call), {})
      held == th[t].held
  IN  /\ ~crashed /\ th[t].pc = "second"
      /\ \/ /\ error = "0"
            /\ obj' = Acquire(<<fo>>)
            /\ Hold(t, th[t].call, "call",
                    IF th[t].call = "sock_send" THEN <<fo>> \o held ELSE Append(held, fo))
         \/ /\ error # "0"
            /\ th' = [th EXCEPT ![t] = IF held = <<>> THEN Idle ELSE [@ EXCEPT !.pc = "release"]]
            /\ UNCHANGED obj
      /\ UNCHANGED <<curfds, host, nargs, crashed>>

\* The host call that a thread is in returns without a new number.
HostReturns(t) ==
  /\ ~crashed /\ th[t].pc = "call"
  /\ th' = [th EXCEPT ![t].pc = "release"]
  /\ UNCHANGED <<curfds, obj, host, nargs, crashed>>

\* A thread drops its references one by one.
Release(t) ==
  LET rest == Tail(th[t].held)
  IN  /\ ~crashed /\ th[t].pc = "release"
      /\ fd_object_release(Head(th[t].held))
      /\ th' = [th EXCEPT ![t] =
                  CASE rest # <<>> -> [@ EXCEPT !.held = rest]
                    [] rest = <<>> /\ th[t].next # "idle" ->
                         [@ EXCEPT !.held = rest, !.pc = th[t].next, !.next = "idle"]
                    [] rest = <<>> /\ th[t].next = "idle" -> Idle]
      /\ UNCHANGED <<curfds, nargs, crashed>>

-----------------------------------------------------------------------------
(***************************************************************************)
(* System calls that change the table.                                     *)
(***************************************************************************)
\* The numbers passed to the program become its descriptors 0, 1, ...  Each
\* argument gets an object of its own, also if its number was passed before.
fd_table_insert_existing ==
  LET size == fd_table_grow(curfds, nargs, 1)
      out == program.args[nargs + 1]
  IN  /\ nargs < Len(program.args) /\ Supported(host[out])
      /\ GrowSucceeds(size)
      /\ \E o \in FreeObjects :
           /\ obj' = [obj EXCEPT ![o] = [refs |-> 1, number |-> out]]
           /\ host' = [host EXCEPT ![out].owner = o]
           /\ curfds' = fd_table_attach([curfds EXCEPT !.size = size], nargs, o,
                                        fd_determine_type_rights(host[out]))
      /\ nargs' = nargs + 1
      /\ UNCHANGED <<th, crashed>>

sys_fd_close(t, fd) ==
  /\ Enter(t, "fd_close")
  /\ fd_table_get_entry(curfds, fd, {}, {}) = "0"
  /\ curfds' = fd_table_detach(curfds, fd)
  /\ Hold(t, "fd_close", "release", <<curfds.entries[fd].object>>)
  /\ UNCHANGED <<obj, host, nargs, crashed>>

\* Mutant: the copy is not counted.
sys_fd_dupMutant(t, from) ==
  LET size == fd_table_grow(curfds, 0, 1)
      ft == [curfds EXCEPT !.size = size]
  IN  /\ Enter(t, "fd_dup")
      /\ fd_table_get_entry(curfds, from, {}, {}) = "0"
      /\ GrowSucceeds(size)
      /\ \E fd \in fd_table_unused(ft) :
           curfds' = fd_table_attach(ft, fd, ft.entries[from].object, ft.entries[from])
      /\ UNCHANGED <<obj, host, th, nargs, crashed>>

\* What fe, the pointer to an entry, reads once the table has grown to a size:
\* the entry, but if realloc() moved the table, whatever the memory that it
\* freed holds by then: any object or, as NULL, what is not an object, with
\* any rights, of which the extreme ones are enough.
Dangling(fe, size) ==
  {fe} \cup (IF size > curfds.size /\ program.reallocMoves
             THEN [object : Objects \cup {NULL}, base : {{}, RIGHTS_ALL}, inheriting : {{}, RIGHTS_ALL}]
             ELSE {})

\* sys_fd_dup(): fe is looked up before the table grows and read after it.
sys_fd_dup(t, from) ==
  LET size == fd_table_grow(curfds, 0, 1)
      ft == [curfds EXCEPT !.size = size]
  IN  /\ Enter(t, "fd_dup")
      /\ fd_table_get_entry(curfds, from, {}, {}) = "0"
      /\ GrowSucceeds(size)
      /\ \E fe \in Dangling(curfds.entries[from], size) :
           \/ /\ fe.object = NULL
              /\ crashed' = TRUE
              /\ UNCHANGED <<curfds, obj>>
           \/ /\ fe.object # NULL
              /\ \E fd \in fd_table_unused(ft) : curfds' = fd_table_attach(ft, fd, fe.object, fe)
              /\ obj' = Acquire(<<fe.object>>)
              /\ UNCHANGED crashed
      /\ UNCHANGED <<host, th, nargs>>

\* Mutant: the object that is replaced is not released.
sys_fd_replaceMutant(t, from, to) ==
  LET fe_from == curfds.entries[from]
  IN  /\ Enter(t, "fd_replace") /\ from # to
      /\ fd_table_get_entry(curfds, from, {}, {}) = "0"
      /\ fd_table_get_entry(curfds, to, {}, {}) = "0"
      /\ curfds' = fd_table_attach(fd_table_detach(curfds, to), to, fe_from.object, fe_from)
      /\ obj' = Acquire(<<fe_from.object>>)
      /\ UNCHANGED <<host, th, nargs, crashed>>

\* sys_fd_replace(): "to" is detached before the object of "from" is read.
sys_fd_replace(t, from, to) ==
  LET fe_from == curfds.entries[from]
      fo == curfds.entries[to].object
  IN  /\ Enter(t, "fd_replace")
      /\ fd_table_get_entry(curfds, from, {}, {}) = "0"
      /\ fd_table_get_entry(curfds, to, {}, {}) = "0"
      /\ \/ /\ from = to /\ "self_replace" \in program.calls
            /\ crashed' = TRUE
            /\ UNCHANGED <<curfds, obj, th>>
         \/ /\ from # to
            /\ curfds' = fd_table_attach(fd_table_detach(curfds, to), to, fe_from.object, fe_from)
            /\ obj' = Acquire(<<fe_from.object>>)
            /\ Hold(t, "fd_replace", "release", <<fo>>)
            /\ UNCHANGED crashed
      /\ UNCHANGED <<host, nargs>>

\* sys_fd_stat_put(): the flags of the host's descriptor, or the rights.
sys_fd_stat_put(t, fd, rights) ==
  \/ Use(t, "use", fd, {"FD_STAT_PUT_FLAGS"})
  \/ /\ Enter(t, "fd_stat_put")
     /\ fd_table_get_entry(curfds, fd, rights.base, rights.inheriting) = "0"
     /\ curfds' = [curfds EXCEPT !.entries[fd] = Entry(@.object, rights)]
     /\ UNCHANGED <<obj, host, th, nargs, crashed>>

-----------------------------------------------------------------------------
(***************************************************************************)
(* System calls that obtain new numbers from the host and insert them.     *)
(***************************************************************************)
\* Thread t obtains the numbers of S, lowest first, as files.
SortedFds(S) == CHOOSE ns \in [1 .. Cardinality(S) -> S] :
                  \A i, j \in DOMAIN ns : i < j => ns[i] < ns[j]
Obtain(t, S, files) ==
  host' = [n \in HostFds |->
             IF n \in S THEN Open(t, files[CHOOSE i \in DOMAIN files : SortedFds(S)[i] = n])
                        ELSE host[n]]

Create(t, call, files, rights) ==
  LET S == Lowest(Len(files))
  IN  /\ Enter(t, call)
      /\ Cardinality(S) = Len(files)
      /\ Obtain(t, S, files)
      /\ th' = [th EXCEPT ![t] = [@ EXCEPT !.pc = "insert", !.call = call,
                                           !.nums = SortedFds(S), !.rights = rights]]
      /\ UNCHANGED <<curfds, obj, nargs, crashed>>

sys_fd_create1(t) ==
  Create(t, "fd_create1", <<[kind |-> "shm", mode |-> "O_RDWR"]>>,
         [base |-> RIGHTS_SHARED_MEMORY_BASE, inheriting |-> {}])
fd_create_socketpair(t, kind) ==
  Create(t, "fd_create2", <<[kind |-> kind, mode |-> "O_RDWR"], [kind |-> kind, mode |-> "O_RDWR"]>>,
         [base |-> RIGHTS_SOCKET_BASE, inheriting |-> RIGHTS_ALL])
sys_fd_create2(t) == \E kind \in {"dgram", "stream"} : fd_create_socketpair(t, kind)

\* How sys_file_open() opens a file for the rights that are asked for, and
\* what it needs on the directory.
OpenMode(base) ==
  LET read == base \cap {"FD_READ", "FILE_READDIR", "MEM_MAP_EXEC"} # {}
      write == base \cap {"FD_DATASYNC", "FD_WRITE", "FILE_ALLOCATE", "FILE_STAT_FPUT_SIZE"} # {}
  IN  IF write THEN IF read THEN "O_RDWR" ELSE "O_WRONLY" ELSE "O_RDONLY"
needed_base(oflags) ==
  {"FILE_OPEN"} \cup (IF "CREAT" \in oflags THEN {"FILE_CREATE_FILE"} ELSE {})

\* Mutant: the inheriting rights are not asked for.
needed_inheritingMutant(rights, oflags, fs_flags) == rights.base
needed_inheriting(rights, oflags, fs_flags) ==
  UNION {rights.base, rights.inheriting,
         IF "TRUNC" \in oflags THEN {"FILE_STAT_FPUT_SIZE"} ELSE {},
         IF "DSYNC" \in fs_flags THEN {"FD_DATASYNC"} ELSE {},
         IF fs_flags \cap {"RSYNC", "SYNC"} # {} THEN {"FD_SYNC"} ELSE {},
         IF OpenMode(rights.base) # "O_RDONLY" /\ "APPEND" \notin fs_flags /\ "TRUNC" \notin oflags
         THEN {"FD_SEEK"} ELSE {}}

\* sys_file_open() up to openat(), which path_get() prepares.
sys_file_open(t, dirfd, rights, oflags, fs_flags) ==
  LET fo == curfds.entries[dirfd].object
  IN  /\ Enter(t, "file_open")
      /\ fd_table_get_entry(curfds, dirfd, needed_base(oflags),
                            needed_inheriting(rights, oflags, fs_flags)) = "0"
      /\ obj' = Acquire(<<fo>>)
      /\ th' = [th EXCEPT ![t] = [@ EXCEPT !.pc = "call", !.call = "file_open", !.held = <<fo>>,
                                           !.rights = rights, !.mode = OpenMode(rights.base)]]
      /\ UNCHANGED <<curfds, host, nargs, crashed>>

sys_sock_recv(t, sock) == Use(t, "sock_recv", sock, {"FD_READ"})

\* openat() or recvmsg() returns new numbers.
HostReturnsFiles(t) ==
  LET opened == {<<[kind |-> k, mode |-> th[t].mode]>> : k \in
                   {k \in program.kinds : k = "dir" => th[t].mode = "O_RDONLY"}}
      passed == UNION {[1 .. k -> PassedFiles] : k \in 1 .. MaxPassed}
  IN  /\ ~crashed /\ th[t].pc = "call" /\ th[t].call \in {"file_open", "sock_recv"}
      /\ \E files \in (IF th[t].call = "file_open" THEN opened ELSE passed) :
           LET S == Lowest(Len(files))
           IN  /\ Cardinality(S) = Len(files)
               /\ Obtain(t, S, files)
               /\ th' = [th EXCEPT ![t] = [@ EXCEPT !.pc = "release", !.next = "insert",
                                                    !.nums = SortedFds(S)]]
      /\ UNCHANGED <<curfds, obj, nargs, crashed>>

\* The thread is done with the first number it obtained.
Done(t, nums) ==
  IF nums = <<>> THEN Idle
  ELSE [th[t] EXCEPT !.pc = "insert", !.next = "idle", !.held = <<>>, !.nums = nums]

\* A file that was opened or received must be supported.
MayInsert(t, file) == th[t].call \in {"file_open", "sock_recv"} => Supported(file)

\* The rights of the descriptor that a call inserts for a file.
InstalledRights(t, file) ==
  LET max == fd_determine_type_rights(file)
  IN  CASE th[t].call = "file_open" -> [base |-> th[t].rights.base \cap max.base,
                                        inheriting |-> th[t].rights.inheriting \cap max.inheriting]
        [] th[t].call = "sock_recv" -> max
        [] th[t].call \in {"fd_create1", "fd_create2"} -> th[t].rights

\* Mutant: the number is not closed when there is no memory for its object.
fd_table_insert_fdMutant(t) ==
  LET nfd == Head(th[t].nums)
      rights == InstalledRights(t, host[nfd])
  IN  /\ ~crashed /\ th[t].pc = "insert" /\ th[t].call # "fd_create2"
      /\ \/ /\ ~MayInsert(t, host[nfd]) \/ MallocFails(1)
            /\ th' = [th EXCEPT ![t] = Done(t, Tail(th[t].nums))]
            /\ UNCHANGED <<host, obj>>
         \/ \E o \in FreeObjects :
              /\ obj' = [obj EXCEPT ![o] = [refs |-> 1, number |-> nfd]]
              /\ host' = [host EXCEPT ![nfd].owner = o]
              /\ th' = [th EXCEPT ![t] = [@ EXCEPT !.pc = "attach", !.held = <<o>>, !.rights = rights]]
      /\ UNCHANGED <<curfds, nargs, crashed>>

\* fd_table_insert_fd(), and before it fd_determine_type_rights() for a file
\* that was opened or received.  A received number that cannot be inserted
\* is closed by sys_sock_recv() as well.
fd_table_insert_fd(t) ==
  LET nfd == Head(th[t].nums)
      rights == InstalledRights(t, host[nfd])
  IN  /\ ~crashed /\ th[t].pc = "insert" /\ th[t].call # "fd_create2"
      /\ \/ /\ ~MayInsert(t, host[nfd])
            /\ th' = [th EXCEPT ![t].pc = "close"]
            /\ UNCHANGED <<host, obj>>
         \/ /\ MayInsert(t, host[nfd]) /\ MallocFails(1)
            /\ host' = [host EXCEPT ![nfd] = Closed]
            /\ th' = [th EXCEPT ![t] = IF th[t].call = "sock_recv"
                                       THEN [@ EXCEPT !.pc = "close"]
                                       ELSE Done(t, Tail(th[t].nums))]
            /\ UNCHANGED obj
         \/ /\ MayInsert(t, host[nfd])
            /\ \E o \in FreeObjects :
                 /\ obj' = [obj EXCEPT ![o] = [refs |-> 1, number |-> nfd]]
                 /\ host' = [host EXCEPT ![nfd].owner = o]
                 /\ th' = [th EXCEPT ![t] = [@ EXCEPT !.pc = "attach", !.held = <<o>>, !.rights = rights]]
      /\ UNCHANGED <<curfds, nargs, crashed>>

\* fd_table_insert(): the object gets a slot, or is released.
fd_table_insert(t) ==
  LET size == fd_table_grow(curfds, 0, 1)
      ft == [curfds EXCEPT !.size = size]
      fo == Head(th[t].held)
  IN  /\ ~crashed /\ th[t].pc = "attach" /\ th[t].call # "fd_create2"
      /\ \/ /\ GrowFails(curfds, size)
            /\ th' = [th EXCEPT ![t] = IF th[t].call = "sock_recv"
                                       THEN [@ EXCEPT !.pc = "release", !.next = "close"]
                                       ELSE [@ EXCEPT !.pc = "release", !.nums = <<>>]]
            /\ UNCHANGED curfds
         \/ /\ GrowSucceeds(size)
            /\ \E fd \in fd_table_unused(ft) : curfds' = fd_table_attach(ft, fd, fo, th[t].rights)
            /\ th' = [th EXCEPT ![t] = Done(t, Tail(th[t].nums))]
      /\ UNCHANGED <<obj, host, nargs, crashed>>

\* fd_table_insert_fdpair(): the two objects are allocated ...
NewPair(t) ==
  LET in == th[t].nums
  IN  /\ ~crashed /\ th[t].pc = "insert" /\ th[t].call = "fd_create2"
      /\ \/ /\ MallocFails(1)
            /\ host' = [host EXCEPT ![in[1]] = Closed]
            /\ th' = [th EXCEPT ![t] = [@ EXCEPT !.pc = "close", !.nums = <<in[2]>>]]
            /\ UNCHANGED obj
         \/ \E fo1 \in FreeObjects :
              /\ MallocFails(2)
              /\ obj' = [obj EXCEPT ![fo1] = [refs |-> 1, number |-> in[1]]]
              /\ host' = [host EXCEPT ![in[1]].owner = fo1]
              /\ th' = [th EXCEPT ![t] = [@ EXCEPT !.pc = "release", !.next = "close",
                                                   !.held = <<fo1>>, !.nums = <<in[2]>>]]
         \/ \E fo1, fo2 \in FreeObjects :
              /\ MallocSucceeds(2)
              /\ fo1 # fo2
              /\ obj' = [obj EXCEPT ![fo1] = [refs |-> 1, number |-> in[1]],
                                    ![fo2] = [refs |-> 1, number |-> in[2]]]
              /\ host' = [host EXCEPT ![in[1]].owner = fo1, ![in[2]].owner = fo2]
              /\ th' = [th EXCEPT ![t] = [@ EXCEPT !.pc = "attach", !.held = <<fo1, fo2>>]]
      /\ UNCHANGED <<curfds, nargs, crashed>>

\* ... and inserted together, or released.
fd_table_insert_fdpair(t) ==
  LET size == fd_table_grow(curfds, 0, 2)
      ft == [curfds EXCEPT !.size = size]
      fo1 == th[t].held[1]
      fo2 == th[t].held[2]
  IN  /\ ~crashed /\ th[t].pc = "attach" /\ th[t].call = "fd_create2"
      /\ \/ /\ GrowFails(curfds, size)
            /\ th' = [th EXCEPT ![t] = [@ EXCEPT !.pc = "release", !.nums = <<>>]]
            /\ UNCHANGED curfds
         \/ /\ GrowSucceeds(size)
            /\ \E out1, out2 \in fd_table_unused(ft) :
                 /\ out1 # out2
                 /\ curfds' = fd_table_attach(fd_table_attach(ft, out1, fo1, th[t].rights),
                                              out2, fo2, th[t].rights)
            /\ th' = [th EXCEPT ![t] = Idle]
      /\ UNCHANGED <<obj, host, nargs, crashed>>

\* close() of a number that did not make it into the table, whoever has it.
CloseNumber(t) ==
  /\ ~crashed /\ th[t].pc = "close"
  /\ host' = [host EXCEPT ![Head(th[t].nums)] = Closed]
  /\ th' = [th EXCEPT ![t] = Done(t, Tail(th[t].nums))]
  /\ UNCHANGED <<curfds, obj, nargs, crashed>>

-----------------------------------------------------------------------------
Init ==
  /\ program \in Programs
  /\ curfds = [size |-> 0, used |-> 0, entries |-> [fd \in Fds |-> Unused]]
  /\ obj = [o \in Objects |-> Free]
  /\ host = [n \in HostFds |-> IF n < Len(program.files) THEN Open(NULL, program.files[n + 1]) ELSE Closed]
  /\ th = [t \in Threads |-> Idle]
  /\ nargs = 0
  /\ crashed = FALSE

\* The steps that a system call takes once it has started.
Continue(t) ==
  \/ \E fd \in Descriptors : LookUpSecond(t, fd)
  \/ HostReturns(t)
  \/ HostReturnsFiles(t)
  \/ Release(t)
  \/ fd_table_insert_fd(t)
  \/ fd_table_insert(t)
  \/ NewPair(t)
  \/ fd_table_insert_fdpair(t)
  \/ CloseNumber(t)

Start(t) ==
  \/ \E fd \in Descriptors :
       \/ sys_fd_datasync(t, fd)
       \/ sys_fd_pread(t, fd)
       \/ sys_fd_pwrite(t, fd)
       \/ sys_fd_read(t, fd)
       \/ sys_fd_seek(t, fd)
       \/ sys_fd_sync(t, fd)
       \/ sys_fd_write(t, fd)
       \/ sys_file_advise(t, fd)
       \/ sys_file_allocate(t, fd)
       \/ sys_file_stat_fget(t, fd)
       \/ sys_file_stat_fput(t, fd)
       \/ sys_mem_map(t, fd)
       \/ sys_sock_shutdown(t, fd)
       \/ sys_file_create(t, fd)
       \/ sys_file_readdir(t, fd)
       \/ sys_file_readlink(t, fd)
       \/ sys_file_stat_get(t, fd)
       \/ sys_file_stat_put(t, fd)
       \/ sys_file_symlink(t, fd)
       \/ sys_file_unlink(t, fd)
       \/ sys_file_link(t, fd)
       \/ sys_file_rename(t, fd)
       \/ sys_sock_recv(t, fd)
       \/ sys_fd_close(t, fd)
       \/ sys_fd_dup(t, fd)
       \/ \E to \in Descriptors : sys_fd_replace(t, fd, to)
       \/ \E rights \in program.requests : sys_fd_stat_put(t, fd, rights)
       \/ \E rights \in program.requests, oflags \in program.oflags, fs_flags \in program.fdflags :
            sys_file_open(t, fd, rights, oflags, fs_flags)
  \/ \E fds \in Lists : sys_sock_send(t, fds) \/ sys_poll(t, fds)
  \/ sys_fd_create1(t)
  \/ sys_fd_create2(t)

Next ==
  /\ fd_table_insert_existing \/ \E t \in Threads : Start(t) \/ Continue(t)
  /\ UNCHANGED program

Spec == Init /\ [][Next]_vars

\* Every call that has started goes on: the host's calls return.
FairSpec == Spec /\ \A t \in Threads : WF_vars(Continue(t) /\ UNCHANGED program)

-----------------------------------------------------------------------------
InTable(o) == \E fd \in Fds : curfds.entries[fd].object = o

\* The asserts of fd_table_attach(), fd_table_detach() and fd_table_unused():
\* "used" counts the used entries and at least half of the table is free, so
\* that the random search for a free slot ends.
HalfFree ==
  /\ curfds.used = Cardinality({fd \in Fds : curfds.entries[fd].object # NULL})
  /\ curfds.size >= 2 * curfds.used
  /\ \A fd \in Fds : fd >= curfds.size => curfds.entries[fd] = Unused

\* A reference count is the number of table entries and of system calls in
\* progress that point to the object, whatever other threads close, replace
\* or insert meanwhile.
RefcountsExact ==
  \A o \in Objects :
    obj[o].refs = Cardinality({fd \in Fds : curfds.entries[fd].object = o})
                + Cardinality({p \in Threads \X (1 .. MaxPassed + 2) :
                                 p[2] \in DOMAIN th[p[1]].held /\ th[p[1]].held[p[2]] = o})

\* Several objects close a number that the program was passed several times,
\* the first of them while the others may still be in use.
PassedTwice(n) ==
  \E i, j \in DOMAIN program.args : i # j /\ program.args[i] = n /\ program.args[j] = n

\* The comment in sys_poll(): referencing a file descriptor object ensures
\* that its descriptor is valid.  An object that an entry of the table or a
\* call in progress points to is allocated, and its number is open and its
\* own, unless the program was passed that number twice.
Referenced(o) ==
  InTable(o) \/ \E t \in Threads : \E i \in DOMAIN th[t].held : th[t].held[i] = o
ReferencedDescriptorValid ==
  \A o \in Objects : Referenced(o) =>
    /\ obj[o].refs > 0 /\ obj[o].number \in HostFds
    /\ PassedTwice(obj[o].number) \/ host[obj[o].number].owner = o

\* No error path leaks: a number that the emulator has to close is owned by
\* an object, or by a thread that is still going to insert or close it.
NothingLeaks ==
  \A n \in HostFds : host[n].owner # NULL =>
    \/ \E o \in Objects : host[n].owner = o /\ obj[o].number = n
    \/ \E t \in Threads : /\ host[n].owner = t
                          /\ \E i \in DOMAIN th[t].nums : th[t].nums[i] = n

\* Rights to read and write are backed by the mode in which the host opened
\* the file, unless its number was passed twice.
RightsMatchMode ==
  \A fd \in Fds :
    LET fe == curfds.entries[fd]
        number == obj[fe.object].number
    IN  (fe.object # NULL /\ ~PassedTwice(number)) =>
          /\ "FD_READ" \in fe.base => host[number].mode # "O_WRONLY"
          /\ "FD_WRITE" \in fe.base => host[number].mode # "O_RDONLY"

\* The rights that the program has anywhere, or has asked file_open() for
\* successfully.
AllRights ==
  UNION ({curfds.entries[fd].base \cup curfds.entries[fd].inheriting : fd \in Fds}
         \cup {th[t].rights.base \cup th[t].rights.inheriting : t \in Threads})
\* Every descriptor for an object that the table refers to, after fd_dup(),
\* fd_replace(), fd_stat_put() or the end of a racing call, has the rights of
\* an earlier descriptor or fewer.
RightsDerive ==
  \A fd \in Fds :
    LET fe == curfds'.entries[fd]
    IN  (fe.object # NULL /\ InTable(fe.object)) =>
          \E old \in Fds :
            /\ curfds.entries[old].object = fe.object
            /\ fe.base \subseteq curfds.entries[old].base
            /\ fe.inheriting \subseteq curfds.entries[old].inheriting
\* The rights of the program shrink while it obtains no descriptors from
\* sockets or fd_create().
RightsShrink ==
  ( /\ nargs = Len(program.args)
    /\ program.calls \cap {"fd_create1", "fd_create2", "sock_recv"} = {} )
  => AllRights' \subseteq AllRights
\* Nobody gains rights: descriptors derive from earlier ones, and without new
\* sources of descriptors the rights of the whole program shrink.
AuthorityNeverGrows == [][RightsDerive /\ RightsShrink]_vars

\* An object that has left the table is closed, or a new one reaches the
\* table, as soon as the calls that use it are over.
DroppedObjectsClosed ==
  \A o \in Objects :
    (obj[o].refs > 0 /\ ~InTable(o)) ~> (obj[o].refs = 0 \/ InTable(o) \/ crashed)
=============================================================================
