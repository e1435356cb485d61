------------------------------ MODULE PathGet ------------------------------
(***************************************************************************)
(* Pathname resolution of libemulator/posix.c: path_get() walks over the   *)
(* components of a pathname with a stack of directory descriptors and a    *)
(* stack of partly processed pathnames, one per nested symbolic link, and  *)
(* hands its caller a lease on the last directory, which path_put() ends.  *)
(*                                                                         *)
(* A thread makes the system calls that resolve one or two pathnames.  An  *)
(* action is a stretch of the walk up to the next call that looks at the   *)
(* file system, which other processes may change in between.  A pathname   *)
(* is a sequence of names; repeated slashes are one slash.                 *)
(***************************************************************************)
EXTENDS Integers, Sequences, FiniteSets, FiniteSetsExt

CONSTANTS
  Dirs,           \* directories of the host
  Base,           \* the directory of the descriptor that the program passes
  Outside,        \* the directory above Base
  Names,          \* names of files
  Trees,          \* what directories may contain: sets of file systems
  Paths,          \* pathnames that the program passes
  Targets,        \* pathnames that it passes as second ones
  MaxFds,         \* size of the stack of directories (128 in the code)
  MaxPaths,       \* size of the stack of pathnames (32 in the code)
  MaxExpansions,  \* limit on symbolic links (128 in the code)
  MaxHandles,     \* bound on the descriptors that the host gives out
  Changing        \* the file systems among which other processes switch

Path == [abs : BOOLEAN, names : Seq(Names \cup {".", ".."}), slash : BOOLEAN]
NoPath == [abs |-> FALSE, names |-> <<>>, slash |-> FALSE]

Absent == [type |-> "none", dir |-> Base, target |-> NoPath]
Regular == [type |-> "reg", dir |-> Base, target |-> NoPath]
Directory(d) == [type |-> "dir", dir |-> d, target |-> NoPath]
Link(p) == [type |-> "lnk", dir |-> Base, target |-> p]

Closed == "closed"

ASSUME TreesAssumption ==
  /\ Closed \notin Dirs /\ Base \in Dirs /\ Outside \in Dirs \ {Base}
  /\ Trees \subseteq [Dirs -> [Names -> [type : {"none", "reg", "dir", "lnk"},
                                         dir : Dirs, target : Path]]]
  /\ Paths \subseteq Path /\ Targets \subseteq Path
  /\ Changing \subseteq Trees
ASSUME LimitsAssumption ==
  /\ MaxFds \in Nat \ {0} /\ MaxPaths \in Nat \ {0}
  /\ MaxExpansions \in Nat \ {0} /\ MaxHandles \in Nat

VARIABLES
  tree,        \* the file system
  pc,          \* where the thread is
  todo,        \* the look-ups of the call that remain, the current one first
  fds,         \* stack of directory descriptors; the first is the program's
  paths,       \* stack of pathnames: allocated buffer and what is left of it
  expansions,  \* number of symbolic links expanded
  host,        \* the directories that descriptors refer to
  heap,        \* allocated buffers
  leases,      \* the results of path_get() that the call holds
  refs,        \* references to the program's directory descriptor object
  ret,         \* the result of the last look-up
  changed,     \* has the file system changed since the call started?
  badfree      \* has free() been called for something not allocated?

walk == <<todo, fds, paths, expansions, heap, leases, refs, ret, badfree>>
vars == <<tree, pc, walk, host, changed>>

Handles == 1 .. MaxHandles
BaseFd == 0
DirOf(fd) == IF fd = BaseFd THEN Base ELSE host[fd]
OpenHandles == {h \in Handles : host[h] # Closed}

\* The current look-up, its directory and pathname, the first component of
\* the pathname and what follows it.
Lookup == Head(todo)
curfd == Len(fds)
curpath == Len(paths)
left == paths[curpath].left
file == Head(left.names)
rest == Tail(left.names)
ends_with_slashes == rest # <<>> \/ left.slash

\* Buffers are named after the look-up and the number of the symbolic link.
Buffer(n) == <<Len(leases), n>>
SymlinkTarget == <<"target">>

-----------------------------------------------------------------------------
(***************************************************************************)
(* The host: openat() without following links, readlinkat(), close().      *)
(***************************************************************************)
\* Mutant: O_NOFOLLOW is missing.
openatMutant(d, name) ==
  LET e == tree[d][name]
  IN  CASE e.type = "dir" -> [errno |-> "0", dir |-> e.dir]
        [] e.type = "lnk" -> [errno |-> "0", dir |-> IF e.target.abs THEN Outside ELSE d]
        [] e.type = "reg" -> [errno |-> "ENOTDIR", dir |-> d]
        [] e.type = "none" -> [errno |-> "ENOENT", dir |-> d]

openat(d, name) ==
  LET e == tree[d][name]
  IN  CASE e.type = "dir" -> [errno |-> "0", dir |-> e.dir]
        [] e.type = "lnk" -> [errno |-> "ELOOP", dir |-> d]
        [] e.type = "reg" -> [errno |-> "ENOTDIR", dir |-> d]
        [] e.type = "none" -> [errno |-> "ENOENT", dir |-> d]

\* The outcomes of readlinkat_dup(): its buffer may not be available.
readlinkat_dup(d, name) ==
  LET e == tree[d][name]
  IN  {"ENOMEM"} \cup (CASE e.type = "lnk" -> {"0"}
                          [] e.type = "none" -> {"ENOENT"}
                          [] OTHER -> {"EINVAL"})

WithClosed(h, S) == [n \in Handles |-> IF n \in S THEN Closed ELSE h[n]]

-----------------------------------------------------------------------------
(***************************************************************************)
(* The ends of path_get() and of a lease.                                  *)
(***************************************************************************)
Result(error, dir, name, slash) ==
  [of |-> <<Lookup>>, error |-> error, dir |-> dir, name |-> name, slash |-> slash]
NoResult == [of |-> <<>>, error |-> "0", dir |-> Base, name |-> ".", slash |-> FALSE]

\* The descriptors and the buffers of the leases, which path_put() gives up.
LeasedFds == {leases[i].fd : i \in DOMAIN leases} \ {BaseFd}
LeasedBuffers == UNION {leases[i].path_start : i \in DOMAIN leases}
CallersBuffers == LeasedBuffers \cup {SymlinkTarget}
Opened == {fds[i] : i \in 2 .. curfd}
Starts == {paths[i].start : i \in DOMAIN paths}

Return == pc' = "idle" /\ todo' = <<>> /\ leases' = <<>>
EndWalk == fds' = <<>> /\ paths' = <<>> /\ expansions' = 0

\* Mutant: the caller forgets its first lease and its target.
FailMutant(error) ==
  /\ host' = WithClosed(host, Opened)
  /\ heap' = heap \ Starts
  /\ refs' = refs - 1
  /\ ret' = Result(error, Base, ".", FALSE)
  /\ Return /\ EndWalk
  /\ UNCHANGED <<tree, changed, badfree>>

\* The label "fail", and what its caller does: one that resolves two pathnames
\* ends its first lease with path_put(), file_symlink() frees its target.
Fail(error) ==
  /\ host' = WithClosed(host, Opened \cup LeasedFds)
  /\ heap' = heap \ (Starts \cup CallersBuffers)
  /\ refs' = refs - 1 - Len(leases)
  /\ ret' = Result(error, Base, ".", FALSE)
  /\ Return /\ EndWalk
  /\ UNCHANGED <<tree, changed, badfree>>

\* The label "success": all directories but the last are closed.  The caller
\* goes on to its second pathname, or to the host.
Succeed(stack, h, name, slash, path_start) ==
  LET fd == stack[Len(stack)]
  IN  /\ host' = WithClosed(h, {stack[i] : i \in 2 .. Len(stack) - 1})
      /\ ret' = Result("0", IF fd = BaseFd THEN Base ELSE h[fd], name, slash)
      /\ leases' = Append(leases, [fd |-> fd, path_start |-> path_start])
      /\ heap' = heap \ (Starts \ path_start)
      /\ todo' = Tail(todo)
      /\ pc' = IF todo' = <<>> THEN "use" ELSE "begin"
      /\ EndWalk
      /\ UNCHANGED <<tree, refs, changed, badfree>>

\* A component has been processed.  After the last one the directory itself
\* is the result; after the last one of a symbolic link, whose buffer is
\* given to free() by its end and not its start, the path before it goes on.
Processed(stack, h) ==
  \/ /\ rest = <<>> /\ curpath = 1
     /\ Succeed(stack, h, ".", FALSE, {})
  \/ /\ rest = <<>> /\ curpath > 1
     /\ paths' = SubSeq(paths, 1, curpath - 1)
     /\ heap' = heap \ {paths[curpath].start}
     /\ badfree' = TRUE
     /\ pc' \in {"walk", "aborted"}
     /\ fds' = stack /\ host' = h
     /\ UNCHANGED <<tree, todo, expansions, leases, refs, ret, changed>>
  \/ /\ rest # <<>>
     /\ paths' = [paths EXCEPT ![curpath].left.names = rest]
     /\ fds' = stack /\ host' = h
     /\ UNCHANGED <<tree, pc, todo, expansions, heap, leases, refs, ret, changed, badfree>>

-----------------------------------------------------------------------------
(***************************************************************************)
(* The loop of path_get().                                                 *)
(***************************************************************************)
EmptyOrAbsolute ==
  /\ pc = "walk" /\ (left.abs \/ left.names = <<>>)
  /\ Fail(IF left.abs THEN "ENOTCAPABLE" ELSE "ENOENT")

Component == pc = "walk" /\ ~left.abs /\ left.names # <<>>

Dot == Component /\ file = "." /\ Processed(fds, host)

DotDot ==
  /\ Component /\ file = ".."
  /\ \/ curfd = 1 /\ Fail("ENOTCAPABLE")
     \/ curfd > 1 /\ Processed(SubSeq(fds, 1, curfd - 1), WithClosed(host, {fds[curfd]}))

\* A component that must be a directory: others follow it, or it ends with a
\* slash and the caller does not need its name.
MustBeDirectory ==
  curpath > 1 \/ rest # <<>> \/ (ends_with_slashes /\ ~Lookup.needs_final_component)

\* Expansion of a link begins with a second call to the host.
GoReadlink == pc' = "readlink" /\ UNCHANGED <<tree, walk, host, changed>>

Descend ==
  LET res == openat(DirOf(fds[curfd]), file)
      newdir == Min(Handles \ OpenHandles)
  IN  /\ Component /\ file \in Names /\ MustBeDirectory
      /\ \/ OpenHandles = Handles /\ Fail("EMFILE")
         \/ /\ OpenHandles # Handles
            /\ \/ /\ res.errno = "0" /\ curfd = MaxFds
                  /\ Fail("ENAMETOOLONG")
               \/ /\ res.errno = "0" /\ curfd < MaxFds
                  /\ Processed(Append(fds, newdir), [host EXCEPT ![newdir] = res.dir])
               \/ res.errno = "ELOOP" /\ GoReadlink
               \/ res.errno \notin {"0", "ELOOP"} /\ Fail(res.errno)

\* The last component, whose name the caller wants.
Final ==
  /\ Component /\ file \in Names /\ ~MustBeDirectory
  /\ \/ (ends_with_slashes \/ Lookup.follow) /\ GoReadlink
     \/ /\ ~ends_with_slashes /\ ~Lookup.follow
        /\ Succeed(fds, host, file, FALSE, Starts)

\* Mutant: a trailing slash is not passed on to the target of the link.
TargetMutant(target) == target

\* The target of a link, with the slash that followed the link.
Target(target) == [target EXCEPT !.slash = @ \/ ends_with_slashes]

\* Mutant: a link at the end of a path does not count, others are refused.
push_symlinkLoopMutant(target) ==
  LET new == [start |-> Buffer(expansions + 1), left |-> Target(target)]
  IN  \/ rest # <<>> /\ Fail("ELOOP")
      \/ /\ rest = <<>>
         /\ paths' = [paths EXCEPT ![curpath] = new]
         /\ heap' = (heap \ {paths[curpath].start}) \cup {new.start}
         /\ pc' = "walk"
         /\ UNCHANGED <<tree, todo, fds, host, expansions, leases, refs, ret, changed, badfree>>

\* The label "push_symlink": the target, in a buffer of its own, replaces a
\* path that has been processed, or goes before what is left of it.
push_symlink(target) ==
  LET new == [start |-> Buffer(expansions + 1), left |-> Target(target)]
  IN  \/ expansions + 1 = MaxExpansions /\ Fail("ELOOP")
      \/ expansions + 1 < MaxExpansions /\ rest # <<>> /\ curpath = MaxPaths /\ Fail("ELOOP")
      \/ /\ expansions + 1 < MaxExpansions
         /\ expansions' = expansions + 1 /\ pc' = "walk"
         /\ \/ /\ rest = <<>>
               /\ paths' = [paths EXCEPT ![curpath] = new]
               /\ heap' = (heap \ {paths[curpath].start}) \cup {new.start}
            \/ /\ rest # <<>> /\ curpath < MaxPaths
               /\ paths' = Append([paths EXCEPT ![curpath].left.names = rest], new)
               /\ heap' = heap \cup {new.start}
         /\ UNCHANGED <<tree, todo, fds, host, leases, refs, ret, changed, badfree>>

\* What follows readlinkat_dup(), for a directory that was a link when
\* openat() failed and for the last component.
Readlink ==
  /\ pc = "readlink"
  /\ \E error \in readlinkat_dup(DirOf(fds[curfd]), file) :
       \/ error = "0" /\ push_symlink(tree[DirOf(fds[curfd])][file].target)
       \/ error # "0" /\ MustBeDirectory /\ Fail(error)
       \/ error = "ENOMEM" /\ ~MustBeDirectory /\ Fail(error)
       \/ /\ error \in {"EINVAL", "ENOENT"} /\ ~MustBeDirectory
          /\ Succeed(fds, host, file, ends_with_slashes, Starts)

-----------------------------------------------------------------------------
(***************************************************************************)
(* The system calls.                                                       *)
(***************************************************************************)
Want(p, follow, needs_final_component) ==
  [path |-> p, follow |-> follow, needs_final_component |-> needs_final_component]

EnterWith(lookups, buffers) ==
  /\ pc' = "begin" /\ todo' = lookups
  /\ ret' = NoResult /\ changed' = FALSE
  /\ heap' = heap \cup buffers
  /\ UNCHANGED <<tree, fds, paths, expansions, host, leases, refs, badfree>>
Enter(lookups) == EnterWith(lookups, {})

sys_file_create ==
  pc = "idle" /\ \E p \in Paths : Enter(<<Want(p, FALSE, TRUE)>>)
sys_file_link ==
  /\ pc = "idle"
  /\ \E p1 \in Paths, p2 \in Targets, follow \in BOOLEAN :
       Enter(<<Want(p1, follow, FALSE), Want(p2, FALSE, TRUE)>>)
sys_file_open ==
  pc = "idle" /\ \E p \in Paths, follow, creat \in BOOLEAN : Enter(<<Want(p, follow, creat)>>)
sys_file_readlink ==
  pc = "idle" /\ \E p \in Paths : Enter(<<Want(p, FALSE, FALSE)>>)
sys_file_rename ==
  /\ pc = "idle"
  /\ \E p1 \in Paths, p2 \in Targets : Enter(<<Want(p1, FALSE, TRUE), Want(p2, FALSE, TRUE)>>)
sys_file_stat_get ==
  pc = "idle" /\ \E p \in Paths, follow \in BOOLEAN : Enter(<<Want(p, follow, FALSE)>>)
sys_file_stat_put ==
  pc = "idle" /\ \E p \in Paths, follow \in BOOLEAN : Enter(<<Want(p, follow, FALSE)>>)
sys_file_symlink ==
  pc = "idle" /\ \E p \in Paths : EnterWith(<<Want(p, FALSE, TRUE)>>, {SymlinkTarget})
sys_file_unlink ==
  pc = "idle" /\ \E p \in Paths : Enter(<<Want(p, FALSE, TRUE)>>)

\* The start of path_get(): the pathname is copied and the directory is
\* referenced, or that fails and the lease on an earlier pathname ends.
path_get ==
  /\ pc = "begin"
  /\ \/ /\ fds' = <<BaseFd>> /\ paths' = <<[start |-> Buffer(0), left |-> Lookup.path]>>
        /\ heap' = heap \cup {Buffer(0)}
        /\ refs' = refs + 1
        /\ pc' = "walk"
        /\ UNCHANGED <<todo, host, leases, ret>>
     \/ /\ host' = WithClosed(host, LeasedFds)
        /\ heap' = heap \ CallersBuffers
        /\ refs' = refs - Len(leases)
        /\ \E error \in {"ENOMEM", "EBADF"} : ret' = Result(error, Base, ".", FALSE)
        /\ Return
        /\ UNCHANGED <<fds, paths>>
  /\ UNCHANGED <<tree, expansions, changed, badfree>>

\* The call that the caller makes to the host has returned, and path_put()
\* ends the leases.
path_put ==
  /\ pc = "use"
  /\ host' = WithClosed(host, LeasedFds)
  /\ heap' = heap \ CallersBuffers
  /\ refs' = refs - Len(leases)
  /\ Return
  /\ UNCHANGED <<tree, fds, paths, expansions, ret, changed, badfree>>

\* Another process changes the file system.
ChangeTree ==
  /\ tree \in Changing /\ pc # "idle"
  /\ tree' \in Changing \ {tree}
  /\ changed' = TRUE
  /\ UNCHANGED <<pc, walk, host>>

Init ==
  /\ tree \in Trees /\ pc = "idle" /\ todo = <<>>
  /\ fds = <<>> /\ paths = <<>> /\ expansions = 0
  /\ host = [h \in Handles |-> Closed] /\ heap = {} /\ leases = <<>> /\ refs = 0
  /\ ret = NoResult
  /\ changed = FALSE /\ badfree = FALSE

Start ==
  \/ sys_file_create \/ sys_file_link \/ sys_file_open \/ sys_file_readlink
  \/ sys_file_rename \/ sys_file_stat_get \/ sys_file_stat_put
  \/ sys_file_symlink \/ sys_file_unlink

Continue ==
  \/ path_get \/ EmptyOrAbsolute \/ Dot \/ DotDot \/ Descend \/ Final \/ Readlink
  \/ path_put

\* free() has ended the process.
Aborted == pc = "aborted" /\ UNCHANGED vars

Next == Start \/ Continue \/ ChangeTree \/ Aborted

Spec == Init /\ [][Next]_vars

\* A thread in a system call goes on; programs need not make any.
FairSpec == Spec /\ WF_vars(Continue)

-----------------------------------------------------------------------------
(***************************************************************************)
(* Properties.                                                             *)
(***************************************************************************)
\* Directories that are below Base in one of the file systems: those in every
\* set that has Base and the directories in its members.
BelowBase ==
  {d \in Dirs : \A S \in SUBSET Dirs :
     ( /\ Base \in S
       /\ \A t \in Trees, e \in S, n \in Names : t[e][n].type = "dir" => t[e][n].dir \in S )
     => d \in S}

\* path_get() "normalizes the pathname to ensure the target path is placed
\* underneath the directory": every directory that the walk opens, and the one
\* in which the caller is told to look for a name, is below the directory of
\* the program, whatever the links are and whatever other processes do to them
\* between openat() and readlinkat().
StaysBelowBase ==
  /\ \A h \in OpenHandles : host[h] \in BelowBase
  /\ ret.dir \in BelowBase

\* path_get(), path_put() and their callers close and free everything exactly
\* once on every path, also when the second of two look-ups fails.  The open
\* descriptors and the references to the program's directory are those of the
\* walk in progress and of the leases.  The buffers are those of the paths that
\* are being processed, of the leases, and during file_symlink() its target,
\* and no two share one.  And the two stacks stay within their arrays.
ResourcesExact ==
  /\ OpenHandles = Opened \cup LeasedFds
  /\ Cardinality(OpenHandles)
       = Cardinality(2 .. curfd)
         + Cardinality({i \in DOMAIN leases : leases[i].fd # BaseFd})
  /\ refs = Len(leases) + (IF pc \in {"walk", "readlink", "aborted"} THEN 1 ELSE 0)
  /\ heap \ {SymlinkTarget} = Starts \cup LeasedBuffers
  /\ pc = "idle" => heap = {}
  /\ Cardinality(Starts) = curpath
  /\ Starts \cap LeasedBuffers = {}
  /\ curfd <= MaxFds /\ curpath <= MaxPaths

\* Every system call that starts to resolve a pathname returns, also when
\* links form a loop and other processes never stop changing them, unless
\* free() ended the process.
CallsReturn == (pc = "begin") ~> (pc \in {"idle", "aborted"})

\* "Finished expanding symlink. Continue processing along the original path."
\* (posix.c:1364): the buffer of the symbolic link is freed and the walk
\* continues.
FreesAreValid == ~badfree
=============================================================================
