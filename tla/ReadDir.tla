------------------------------ MODULE ReadDir ------------------------------
(***************************************************************************)
(* file_readdir() of libemulator/posix.c.  Threads enumerate a directory   *)
(* through one file descriptor object.  The object has one host handle,    *)
(* whose position is cached in directory.offset, and a lock; each thread   *)
(* has a cookie of its own, so calls seek back and forth.  Meanwhile the   *)
(* descriptor may be closed.                                               *)
(*                                                                         *)
(* A cookie is the number of entries before it.  The directory does not    *)
(* change.  An entry takes Header bytes and those of its name.             *)
(***************************************************************************)
EXTENDS Integers, Sequences, FiniteSets

CONSTANTS
  Threads,
  Nobody,          \* no thread
  NameLen,         \* the length of the name of each entry of the directory
  Header,          \* size of cloudabi_dirent_t
  FirstBuffer,     \* size of the buffer that the program starts with
  FirstPositions,  \* positions that the directory may have when it is obtained
  HostMayFail,     \* may fdopendir() and readdir() fail?
  MayClose         \* may the descriptor be closed?

ASSUME ReadDirAssumption ==
  /\ IsFiniteSet(Threads) /\ Nobody \notin Threads
  /\ NameLen \in Seq(Nat \ {0}) /\ Header \in Nat \ {0} /\ FirstBuffer \in Nat \ {0}
  /\ FirstPositions \subseteq 0 .. Len(NameLen)
  /\ HostMayFail \in BOOLEAN /\ MayClose \in BOOLEAN

VARIABLES
  handle,    \* directory.handle: "null", "open" or "closed"
  offset,    \* directory.offset
  position,  \* the position of the host's open directory
  lock,      \* directory.lock: its holder
  refs,      \* references to the object
  intable,   \* is the object in the table?
  th,        \* per thread: the call and the enumeration of the program
  failed     \* threads that the host has failed

object == <<handle, offset, position>>
vars == <<object, lock, refs, intable, th, failed>>

N == Len(NameLen)
START == 0

\* th[t].got: the entries copied out, with the number of bytes of each.
Idle == [pc |-> "idle", error |-> "0", got |-> <<>>, used |-> 0,
         cookie |-> START, nbyte |-> FirstBuffer, seen |-> <<>>]

Set(t, changes) == th' = [th EXCEPT ![t] = changes]

-----------------------------------------------------------------------------
\* fd_object_get().
file_readdir(t) ==
  /\ th[t].pc = "idle"
  /\ \/ /\ intable
        /\ refs' = refs + 1
        /\ Set(t, [th[t] EXCEPT !.pc = "lock", !.error = "0", !.got = <<>>, !.used = 0])
        /\ UNCHANGED failed
     \/ /\ ~intable
        /\ Set(t, [th[t] EXCEPT !.pc = "stopped", !.error = "EBADF"])
        /\ failed' = failed \cup {t}
        /\ UNCHANGED refs
  /\ UNCHANGED <<object, lock, intable>>

\* Opens the handle for the first call and seeks to the requested cookie.
Seek(t) ==
  LET current == IF handle = "null" THEN START ELSE offset
  IN  /\ handle' = "open"
      /\ offset' = th[t].cookie
      /\ position' = IF current # th[t].cookie THEN th[t].cookie ELSE position

\* Mutant: the lock does not exclude other threads.
LockMutant(t) == TRUE

\* mutex_lock() returns.
Lockable(t) == lock = Nobody

\* From mutex_lock() to the loop, or to the return when there is no handle.
OpenHandle(t) ==
  /\ th[t].pc = "lock" /\ Lockable(t)
  /\ \/ /\ Seek(t)
        /\ lock' = t /\ Set(t, [th[t] EXCEPT !.pc = "read"])
        /\ UNCHANGED failed
     \/ /\ HostMayFail /\ handle = "null"
        /\ Set(t, [th[t] EXCEPT !.pc = "release", !.error = "ENOMEM"])
        /\ failed' = failed \cup {t}
        /\ UNCHANGED <<object, lock>>
  /\ UNCHANGED <<refs, intable>>

\* The cookie in the metadata of an entry: telldir() after readdir().
d_next(e) == e

\* file_readdir_put(), for the metadata and for the name: what does not fit
\* is cut off.
file_readdir_put(c, e) ==
  LET size == Header + NameLen[e]
      avail == c.nbyte - c.used
      put == IF size > avail THEN avail ELSE size
  IN  [c EXCEPT !.got = IF put = 0 THEN @
                        ELSE Append(@, [entry |-> e, whole |-> put = size, next |-> d_next(e)]),
                !.used = @ + put]

\* Mutant: at the end of the directory the handle is rewound and the loop
\* goes on.
ReadEntryMutant(t) ==
  /\ th[t].pc = "read"
  /\ position' = (position + 1) % (N + 1) /\ offset' = position'
  /\ IF position < N THEN Set(t, file_readdir_put(th[t], position')) ELSE UNCHANGED th
  /\ UNCHANGED <<handle, lock, failed, refs, intable>>

\* An iteration of the loop; it goes on when the buffer is full, and ends at
\* the end of the directory or with an error of the host.
ReadEntry(t) ==
  /\ th[t].pc = "read"
  /\ \/ /\ position < N
        /\ position' = position + 1 /\ offset' = position'
        /\ Set(t, file_readdir_put(th[t], position'))
        /\ UNCHANGED <<handle, lock, failed>>
     \/ /\ position = N
        /\ lock' = Nobody
        /\ Set(t, [th[t] EXCEPT !.pc = "release"])
        /\ UNCHANGED <<object, failed>>
     \/ /\ HostMayFail
        /\ lock' = Nobody
        /\ Set(t, [th[t] EXCEPT !.pc = "release", !.error = IF th[t].used > 0 THEN "0" ELSE "EIO"])
        /\ failed' = failed \cup {t}
        /\ UNCHANGED object
  /\ UNCHANGED <<refs, intable>>

\* Mutant: the handle is closed with the entry in the table.
DropMutant ==
  /\ refs' = refs - 1
  /\ handle' = IF refs' <= 1 /\ handle = "open" THEN "closed" ELSE handle
  /\ UNCHANGED <<offset, position>>

\* fd_object_release(): the last reference closes the handle.
Drop ==
  /\ refs' = refs - 1
  /\ handle' = IF refs' = 0 /\ handle = "open" THEN "closed" ELSE handle
  /\ UNCHANGED <<offset, position>>

Release(t) ==
  /\ th[t].pc = "release"
  /\ Drop
  /\ Set(t, [th[t] EXCEPT !.pc = "returned"])
  /\ UNCHANGED <<lock, intable, failed>>

\* fd_close() of the descriptor by some thread.
fd_close ==
  /\ MayClose /\ intable
  /\ intable' = FALSE
  /\ Drop
  /\ UNCHANGED <<lock, th, failed>>

\* The entries that are whole, up to the first that is not.
Whole(got) ==
  SubSeq(got, 1, Cardinality({i \in DOMAIN got : \A j \in 1 .. i : got[j].whole}))

\* readdir() of the program's C library: takes the whole entries, asks for
\* more with the cookie of the last one while the buffer was filled, and with
\* a larger buffer when not even one entry fits.
UserReaddir(t) ==
  LET c == th[t]
      whole == Whole(c.got)
      more == c.used = c.nbyte
  IN  /\ c.pc = "returned"
      /\ Set(t, IF c.error # "0" THEN [c EXCEPT !.pc = "stopped", !.got = <<>>, !.used = 0]
                ELSE [c EXCEPT !.pc = IF more THEN "idle" ELSE "done",
                               !.got = <<>>, !.used = 0,
                               !.seen = @ \o [i \in DOMAIN whole |-> whole[i].entry],
                               !.cookie = IF whole = <<>> THEN @ ELSE whole[Len(whole)].next,
                               !.nbyte = IF more /\ whole = <<>> THEN 2 * @ ELSE @])
      /\ UNCHANGED <<object, lock, refs, intable, failed>>

Init ==
  /\ handle = "null" /\ offset = START /\ position \in FirstPositions
  /\ lock = Nobody /\ refs = 1 /\ intable = TRUE
  /\ th = [t \in Threads |-> Idle]
  /\ failed = {}

Step(t) ==
  file_readdir(t) \/ OpenHandle(t) \/ ReadEntry(t) \/ Release(t) \/ UserReaddir(t)

Finished(t) == th[t].pc \in {"done", "stopped"}

\* Programs enumerate once.
AllFinished == (\A t \in Threads : Finished(t)) /\ UNCHANGED vars

Next == (\E t \in Threads : Step(t)) \/ fd_close \/ AllFinished

Spec == Init /\ [][Next]_vars

\* Every thread goes on with its enumeration; nobody has to close anything.
FairSpec == Spec /\ \A t \in Threads : WF_vars(Step(t))

-----------------------------------------------------------------------------
(***************************************************************************)
(* Properties.                                                             *)
(***************************************************************************)
\* "Seek to the right position if the requested offset does not match the
\* current offset" (posix.c:1639): however the calls of threads interleave on
\* the shared handle and its cached offset, each enumeration sees the entries
\* in order, without gaps or repetitions, and all of them unless the host
\* failed it.
EnumerationsExact ==
  \A t \in Threads :
    /\ th[t].seen = [i \in 1 .. Len(th[t].seen) |-> i]
    /\ (th[t].pc = "done" /\ t \notin failed) => Len(th[t].seen) = N

\* While a thread is in a call the handle and the lock exist: fd_close() by
\* another thread leaves them to the last reference.
HandleOpenWhileUsed ==
  /\ \A t \in Threads : th[t].pc \in {"lock", "read"} => handle # "closed"
  /\ \A t \in Threads : th[t].pc = "read" => handle = "open"
  /\ (refs = 0) => (handle # "open" /\ lock = Nobody)

\* Every enumeration ends, also with buffers into which no entry fits at
\* first, with failures of the host on any call, and with other threads that
\* move the handle all the time.
EnumerationsEnd == \A t \in Threads : <>Finished(t)
=============================================================================
