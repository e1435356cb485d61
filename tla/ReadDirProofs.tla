--------------------------- MODULE ReadDirProofs ---------------------------
(***************************************************************************)
(* The handle of a directory outlives the calls that use it, and those who *)
(* share it see every entry once: for any threads, directory and buffers.  *)
(***************************************************************************)
EXTENDS ReadDir, FiniteSetTheorems, TLAPS

\* The threads that hold a reference to the object.
Users == {t \in Threads : th[t].pc \in {"lock", "read", "release"}}
TableRefs == IF intable THEN 1 ELSE 0

\* What the threads have in common with their records; their buffers do not
\* matter here.
Shape ==
  /\ th = [t \in Threads |-> th[t]]
  /\ \A t \in Threads : "pc" \in DOMAIN th[t]
  /\ intable \in BOOLEAN

Inv ==
  /\ Shape
  /\ refs = Cardinality(Users) + TableRefs
  /\ \A t \in Threads : th[t].pc = "read" <=> lock = t
  /\ \A t \in Threads : th[t].pc = "read" => handle = "open"
  /\ lock \in Threads \cup {Nobody}
  /\ handle = "closed" => refs = 0
  /\ refs = 0 => handle # "open"

-----------------------------------------------------------------------------
\* The place of one thread changes.
Moves(t, l) ==
  /\ Shape'
  /\ th'[t].pc = l
  /\ \A u \in Threads \ {t} : th'[u] = th[u]

\* A new record for a thread moves the thread.
LEMMA SetMoves ==
  ASSUME Shape, NEW t \in Threads, NEW r, "pc" \in DOMAIN r, Set(t, r), intable' \in BOOLEAN
  PROVE  Moves(t, r.pc)
  BY Zenon DEF Shape, Set, Moves

\* The number of threads that use the object.
LEMMA UsersFinite == IsFiniteSet(Users) /\ Cardinality(Users) \in Nat
                     /\ (Cardinality(Users) = 0 <=> Users = {})
  <1>1. Users \subseteq Threads
    BY Zenon DEF Users
  <1>2. IsFiniteSet(Users)
    BY Zenon, <1>1, ReadDirAssumption, FS_Subset
  <1> QED
    BY Zenon, <1>2, FS_CardinalityType, FS_EmptySet

\* A thread that enters a call is one user more ...
LEMMA UsersGrow ==
  ASSUME NEW t \in Threads, NEW l \in {"lock", "read", "release"}, Moves(t, l), t \notin Users
  PROVE  Cardinality(Users') = Cardinality(Users) + 1
  <1>1. Users' = Users \cup {t}
    BY Zenon DEF Moves, Users
  <1> QED
    BY Zenon, <1>1, UsersFinite, FS_AddElement

\* ... one that leaves it one less ...
LEMMA UsersShrink ==
  ASSUME NEW t \in Threads, NEW l, l \notin {"lock", "read", "release"}, Moves(t, l), t \in Users
  PROVE  Cardinality(Users') = Cardinality(Users) - 1
  <1>1. Users' = Users \ {t}
    BY Zenon DEF Moves, Users
  <1> QED
    BY Zenon, <1>1, UsersFinite, FS_RemoveElement

\* ... and one that goes on in it is counted already.
LEMMA UsersStay ==
  ASSUME NEW t \in Threads, NEW l, Moves(t, l), t \in Users <=> l \in {"lock", "read", "release"}
  PROVE  Users' = Users
  BY Zenon DEF Moves, Users

-----------------------------------------------------------------------------
\* A call takes its reference while the object is in the table.
LEMMA CallStep ==
  ASSUME Inv, NEW t \in Threads, file_readdir(t) PROVE Inv'
  <1> USE DEF Inv
  <1>0. t \notin Users /\ th[t].pc = "idle" /\ lock # t
    BY Zenon DEF file_readdir, Users
  <1>1. CASE intable
    <2>1. refs' = refs + 1 /\ UNCHANGED <<object, lock, intable>>
      BY Zenon, <1>1 DEF file_readdir
    <2>2. Moves(t, "lock")
      <3> DEFINE r == [th[t] EXCEPT !.pc = "lock", !.error = "0", !.got = <<>>, !.used = 0]
      <3>1. "pc" \in DOMAIN r /\ r.pc = "lock"
        BY Zenon DEF Shape
      <3>2. Set(t, r)
        BY Zenon, <1>1 DEF file_readdir
      <3> HIDE DEF r
      <3> QED
        BY Zenon, <2>1, <3>1, <3>2, SetMoves DEF Shape
    <2>3. Cardinality(Users') = Cardinality(Users) + 1
      BY Zenon, <1>0, <2>2, UsersGrow
    <2>4. refs' = Cardinality(Users') + TableRefs'
      BY <2>1, <2>3, UsersFinite DEF TableRefs
    <2>5. refs \in Nat /\ refs # 0
      BY <1>1, UsersFinite DEF TableRefs
    <2> QED
      BY <1>0, <2>1, <2>2, <2>4, <2>5, ReadDirAssumption DEF Moves, object
  <1>2. CASE ~intable
    <2>1. UNCHANGED <<object, lock, intable, refs>>
      BY Zenon, <1>2 DEF file_readdir
    <2>2. Moves(t, "stopped")
      <3> DEFINE r == [th[t] EXCEPT !.pc = "stopped", !.error = "EBADF"]
      <3>1. "pc" \in DOMAIN r /\ r.pc = "stopped"
        BY Zenon DEF Shape
      <3>2. Set(t, r)
        BY Zenon, <1>2 DEF file_readdir
      <3> HIDE DEF r
      <3> QED
        BY Zenon, <2>1, <3>1, <3>2, SetMoves DEF Shape
    <2>3. Users' = Users
      BY Zenon, <1>0, <2>2, UsersStay
    <2> QED
      BY Zenon, <1>0, <2>1, <2>2, <2>3, ReadDirAssumption DEF Moves, object, TableRefs
  <1> QED
    BY Zenon, <1>1, <1>2

\* The lock is taken, and the handle is open while it is held.
LEMMA OpenStep ==
  ASSUME Inv, NEW t \in Threads, OpenHandle(t) PROVE Inv'
  <1> USE DEF Inv
  <1>0. t \in Users /\ th[t].pc = "lock" /\ lock = Nobody /\ UNCHANGED <<refs, intable>>
    BY Zenon DEF OpenHandle, Lockable, Users
  <1>1. refs \in Nat /\ refs # 0
    BY <1>0, UsersFinite DEF TableRefs
  <1>2. CASE Seek(t) /\ lock' = t /\ Set(t, [th[t] EXCEPT !.pc = "read"])
    <2>1. handle' = "open" /\ lock' = t /\ intable' = intable
      BY Zenon, <1>0, <1>2 DEF Seek
    <2>2. Moves(t, "read")
      <3> DEFINE r == [th[t] EXCEPT !.pc = "read"]
      <3>1. "pc" \in DOMAIN r /\ r.pc = "read"
        BY Zenon DEF Shape
      <3>2. Set(t, r)
        BY Zenon, <1>2 DEF Set
      <3> HIDE DEF r
      <3> QED
        BY <2>1, <3>1, <3>2, SetMoves DEF Shape
    <2>3. Users' = Users
      BY Zenon, <1>0, <2>2, UsersStay
    <2> QED
      BY <1>0, <1>1, <2>1, <2>2, <2>3, ReadDirAssumption DEF Moves, TableRefs
  <1>3. CASE /\ Set(t, [th[t] EXCEPT !.pc = "release", !.error = "ENOMEM"])
             /\ UNCHANGED <<object, lock>>
    <2>1. UNCHANGED <<object, lock, intable>>
      BY Zenon, <1>0, <1>3
    <2>2. Moves(t, "release")
      <3> DEFINE r == [th[t] EXCEPT !.pc = "release", !.error = "ENOMEM"]
      <3>1. "pc" \in DOMAIN r /\ r.pc = "release"
        BY Zenon DEF Shape
      <3>2. Set(t, r)
        BY Zenon, <1>3 DEF Set
      <3> HIDE DEF r
      <3> QED
        BY Zenon, <2>1, <3>1, <3>2, SetMoves DEF Shape
    <2>3. Users' = Users
      BY Zenon, <1>0, <2>2, UsersStay
    <2> QED
      BY <1>0, <1>1, <2>1, <2>2, <2>3, ReadDirAssumption DEF Moves, TableRefs, object
  <1> QED
    BY Zenon, <1>2, <1>3 DEF OpenHandle

\* The loop keeps the lock and the handle.
LEMMA ReadStep ==
  ASSUME Inv, NEW t \in Threads, ReadEntry(t) PROVE Inv'
  <1> USE DEF Inv
  <1>0. t \in Users /\ th[t].pc = "read" /\ lock = t /\ UNCHANGED <<refs, intable, handle>>
    BY Zenon DEF ReadEntry, Users, object
  <1>1. CASE /\ Set(t, file_readdir_put(th[t], position'))
             /\ UNCHANGED lock
    <2>1. intable' = intable
      BY Zenon, <1>0
    <2>2. Moves(t, "read")
      <3> DEFINE r == file_readdir_put(th[t], position')
      <3>1. "pc" \in DOMAIN r /\ r.pc = "read"
        BY Zenon, <1>0 DEF Shape, file_readdir_put
      <3>2. Set(t, r)
        BY Zenon, <1>1 DEF Set
      <3> HIDE DEF r
      <3> QED
        BY Zenon, <2>1, <3>1, <3>2, SetMoves DEF Shape
    <2>3. Users' = Users
      BY Zenon, <1>0, <2>2, UsersStay
    <2> QED
      BY Zenon, <1>0, <1>1, <2>2, <2>3, ReadDirAssumption DEF Moves, TableRefs
  <1>2. ASSUME lock' = Nobody,
               NEW e, Set(t, [th[t] EXCEPT !.pc = "release", !.error = e])
               \/ Set(t, [th[t] EXCEPT !.pc = "release"])
        PROVE  Inv'
    <2>1. intable' = intable
      BY Zenon, <1>0
    <2>2. Moves(t, "release")
      <3> DEFINE r1 == [th[t] EXCEPT !.pc = "release", !.error = e]
                 r2 == [th[t] EXCEPT !.pc = "release"]
      <3>1. "pc" \in DOMAIN r1 /\ r1.pc = "release" /\ "pc" \in DOMAIN r2 /\ r2.pc = "release"
        BY Zenon DEF Shape
      <3>2. Set(t, r1) \/ Set(t, r2)
        BY Zenon, <1>2
      <3> HIDE DEF r1, r2
      <3> QED
        BY Zenon, <2>1, <3>1, <3>2, SetMoves DEF Shape
    <2>3. Users' = Users
      BY Zenon, <1>0, <2>2, UsersStay
    <2> QED
      BY Zenon, <1>0, <1>2, <2>2, <2>3, ReadDirAssumption DEF Moves, TableRefs
  <1> QED
    BY Zenon, <1>1, <1>2 DEF ReadEntry

\* The last reference closes the handle: nobody reads then.
LEMMA ReleaseStep ==
  ASSUME Inv, NEW t \in Threads, Release(t) PROVE Inv'
  <1> USE DEF Inv
  <1>0. t \in Users /\ th[t].pc = "release" /\ UNCHANGED <<lock, intable>>
    BY Zenon DEF Release, Users
  <1>1. Moves(t, "returned")
    <2>1. intable' = intable
      BY Zenon, <1>0
    <2>2. Moves(t, "returned")
      <3> DEFINE r == [th[t] EXCEPT !.pc = "returned"]
      <3>1. "pc" \in DOMAIN r /\ r.pc = "returned"
        BY Zenon DEF Shape
      <3>2. Set(t, r)
        BY Zenon DEF Release
      <3> HIDE DEF r
      <3> QED
        BY Zenon, <2>1, <3>1, <3>2, SetMoves DEF Shape
    <2> QED
      BY Zenon, <2>2
  <1>2. Cardinality(Users') = Cardinality(Users) - 1
    BY Zenon, <1>0, <1>1, UsersShrink
  <1>3. refs' = refs - 1 /\ refs \in Nat /\ refs' \in Nat
    BY <1>0, UsersFinite DEF Release, Drop, TableRefs
  <1>4. refs' = Cardinality(Users') + TableRefs'
    BY <1>0, <1>2, <1>3, UsersFinite DEF TableRefs
  <1>5. handle' = IF refs' = 0 /\ handle = "open" THEN "closed" ELSE handle
    BY Zenon DEF Release, Drop
  <1>6. ASSUME NEW u \in Threads, th'[u].pc = "read" PROVE refs' # 0
    <2>1. u \in Users'
      BY Zenon, <1>6 DEF Users
    <2>2. IsFiniteSet(Users') /\ Cardinality(Users') \in Nat /\ Cardinality(Users') # 0
      <3>1. Users' \subseteq Threads
        BY Zenon DEF Users
      <3>2. IsFiniteSet(Users')
        BY Zenon, <3>1, ReadDirAssumption, FS_Subset
      <3> QED
        BY Zenon, <2>1, <3>2, FS_CardinalityType, FS_EmptySet
    <2> QED
      BY <1>4, <2>2 DEF TableRefs
  <1> QED
    BY <1>0, <1>1, <1>3, <1>4, <1>5, <1>6, ReadDirAssumption DEF Moves

\* fd_close() drops the reference of the table only.
LEMMA CloseStep ==
  ASSUME Inv, fd_close PROVE Inv'
  <1> USE DEF Inv
  <1>0. intable /\ ~intable' /\ UNCHANGED <<lock, th>> /\ refs' = refs - 1
    BY Zenon DEF fd_close, Drop
  <1>1. Users' = Users /\ refs' = Cardinality(Users)
    BY <1>0, UsersFinite DEF Users, TableRefs
  <1>2. handle' = IF refs' = 0 /\ handle = "open" THEN "closed" ELSE handle
    BY Zenon DEF fd_close, Drop
  <1>3. \A t \in Threads : th[t].pc = "read" => refs' # 0
    BY Zenon, <1>1, UsersFinite DEF Users
  <1>4. handle # "closed" /\ Shape' /\ intable' = FALSE
    <2>1. refs # 0
      BY <1>0, UsersFinite DEF TableRefs
    <2>2. Shape' /\ intable' = FALSE
      BY Zenon, <1>0 DEF Shape, fd_close
    <2> QED
      BY Zenon, <2>1, <2>2
  <1>5. refs' = Cardinality(Users') + TableRefs'
    BY <1>1, <1>4, UsersFinite DEF TableRefs
  <1> QED
    BY Zenon, <1>0, <1>2, <1>3, <1>4, <1>5

\* The program's C library takes the entries.
LEMMA UserStep ==
  ASSUME Inv, NEW t \in Threads, UserReaddir(t) PROVE Inv'
  <1> USE DEF Inv
  <1>0. t \notin Users /\ th[t].pc = "returned" /\ UNCHANGED <<object, lock, refs, intable>>
    BY Zenon DEF UserReaddir, Users
  <1>1. PICK r : Set(t, r) /\ "pc" \in DOMAIN r /\ r.pc \in {"stopped", "idle", "done"}
    <2> DEFINE whole == Whole(th[t].got)
               more == th[t].used = th[t].nbyte
               r1 == [th[t] EXCEPT !.pc = "stopped", !.got = <<>>, !.used = 0]
               r2 == [th[t] EXCEPT
                        !.pc = IF more THEN "idle" ELSE "done",
                        !.got = <<>>, !.used = 0,
                        !.seen = @ \o [i \in DOMAIN whole |-> whole[i].entry],
                        !.cookie = IF whole = <<>> THEN @ ELSE whole[Len(whole)].next,
                        !.nbyte = IF more /\ whole = <<>> THEN 2 * @ ELSE @]
    <2>1. Set(t, IF th[t].error # "0" THEN r1 ELSE r2)
      BY Zenon DEF UserReaddir
    <2> HIDE DEF whole, more
    <2>2. "pc" \in DOMAIN r1 /\ r1.pc = "stopped"
      BY Zenon DEF Shape
    <2>3. "pc" \in DOMAIN r2 /\ r2.pc \in {"idle", "done"}
      BY Zenon DEF Shape
    <2> HIDE DEF r1, r2
    <2> QED
      BY Zenon, <2>1, <2>2, <2>3
  <1>2. Moves(t, r.pc)
    BY Zenon, <1>0, <1>1, SetMoves DEF Shape
  <1>3. Users' = Users
    BY Zenon, <1>0, <1>1, <1>2, UsersStay
  <1> QED
    BY Zenon, <1>0, <1>1, <1>2, <1>3, ReadDirAssumption DEF Moves, TableRefs, object

-----------------------------------------------------------------------------
\* The invariant is inductive.
LEMMA NextInv ==
  ASSUME Inv, [Next]_vars PROVE Inv'
  <1>1. CASE UNCHANGED vars
    BY Zenon, <1>1 DEF Inv, Shape, Users, TableRefs, vars, object
  <1>2. ASSUME NEW t \in Threads, Step(t) PROVE Inv'
    BY Zenon, <1>2, CallStep, OpenStep, ReadStep, ReleaseStep, UserStep DEF Step
  <1> QED
    BY Zenon, <1>1, <1>2, CloseStep DEF Next, AllFinished

\* It holds throughout.
LEMMA HandleInvariant == Spec => []Inv
  <1>1. Init => Inv
    <2> SUFFICES ASSUME Init PROVE Inv
      BY Zenon
    <2>1. Users = {}
      BY Zenon DEF Init, Idle, Users
    <2>2. Shape
      BY Zenon DEF Init, Idle, Shape
    <2>3. refs = Cardinality(Users) + TableRefs
      BY <2>1, UsersFinite DEF Init, TableRefs
    <2> QED
      BY Zenon, <2>1, <2>2, <2>3, ReadDirAssumption DEF Init, Idle, Inv
  <1> QED
    BY <1>1, NextInv, PTL DEF Spec

\* The handle of a directory and its lock exist as long as a call of any
\* thread uses them, whenever the descriptor is closed, and the handle is
\* closed with the last reference.
THEOREM HandleCorrect == Spec => []HandleOpenWhileUsed
  <1>1. Inv => HandleOpenWhileUsed
    <2> SUFFICES ASSUME Inv PROVE HandleOpenWhileUsed
      BY Zenon
    <2>1. \A t \in Threads : th[t].pc \in {"lock", "read"} => refs # 0
      BY UsersFinite DEF Inv, Users, TableRefs
    <2> QED
      BY Zenon, <2>1 DEF Inv, HandleOpenWhileUsed
  <1> QED
    BY <1>1, HandleInvariant, PTL

-----------------------------------------------------------------------------
(***************************************************************************)
(* Enumerations.                                                           *)
(***************************************************************************)
Entries == [entry : 1 .. N, whole : BOOLEAN, next : 1 .. N]
Calls == [pc : {"idle", "lock", "read", "release", "returned", "done", "stopped"},
          error : {"0", "ENOMEM", "EIO", "EBADF"}, got : Seq(Entries), used : Nat,
          cookie : 0 .. N, nbyte : Nat \ {0}, seen : Seq(1 .. N)]

\* What an enumeration has seen and what is in its buffer, for a handle at
\* position p.  The buffer has the entries after the cookie, and only when it is
\* full it may lack entries that have been read, or have one that is not whole.
CallExact(c, isfailed, p) ==
  /\ c.cookie = Len(c.seen) /\ \A i \in 1 .. Len(c.seen) : c.seen[i] = i
  /\ c.used <= c.nbyte
  /\ \A i \in 1 .. Len(c.got) : /\ c.got[i].entry = c.cookie + i /\ c.got[i].next = c.cookie + i
                                /\ (i < Len(c.got) \/ c.used < c.nbyte) => c.got[i].whole
  /\ c.pc = "lock" => c.got = <<>> /\ c.used = 0
  /\ c.pc = "read" => p >= c.cookie + Len(c.got)
  /\ c.pc = "read" /\ c.used < c.nbyte => p = c.cookie + Len(c.got)
  /\ c.pc \in {"release", "returned"} /\ c.used < c.nbyte /\ ~isfailed => c.cookie + Len(c.got) = N
  /\ c.pc = "done" /\ ~isfailed => c.cookie = N

\* The cached offset is the position of the handle.
Enumerating ==
  /\ th \in [Threads -> Calls]
  /\ position \in 0 .. N
  /\ IF handle = "null" THEN position = START ELSE offset = position
  /\ \A t \in Threads : CallExact(th[t], t \in failed, position)

\* Lengths are numbers, and so are the sizes of entries.
LEMMA Sizes ==
  /\ N \in Nat /\ \A e \in 1 .. N : Header + NameLen[e] \in Nat \ {0}
  /\ \A c \in Calls : /\ Len(c.seen) \in Nat /\ Len(c.got) \in Nat /\ c.used \in Nat
                      /\ c.nbyte \in Nat \ {0} /\ c.cookie \in 0 .. N
                      /\ c.got \in Seq(Entries) /\ c.seen \in Seq(1 .. N)
  BY ReadDirAssumption DEF N, Calls

\* A step of one thread leaves the enumerations of the others alone.
LEMMA OneCall ==
  ASSUME Enumerating, NEW t \in Threads, NEW c \in Calls, Set(t, c),
         CallExact(c, t \in failed', position'),
         position' \in 0 .. N, IF handle' = "null" THEN position' = START ELSE offset' = position',
         \A u \in Threads \ {t} : u \in failed' <=> u \in failed,
         position' = position \/ \A u \in Threads \ {t} : th[u].pc # "read"
  PROVE  Enumerating'
  <1>1. th' \in [Threads -> Calls] /\ th'[t] = c /\ \A u \in Threads \ {t} : th'[u] = th[u]
    BY Zenon DEF Enumerating, Set
  <1>2. ASSUME NEW u \in Threads \ {t} PROVE CallExact(th'[u], u \in failed', position')
    <2>1. CallExact(th[u], u \in failed, position)
      BY Zenon DEF Enumerating
    <2>2. th'[u] = th[u] /\ (u \in failed' <=> u \in failed)
      BY Zenon, <1>1
    <2>3. position' = position \/ th[u].pc # "read"
      BY Zenon
    <2> QED
      BY Zenon, <2>1, <2>2, <2>3 DEF CallExact
  <1>3. \A u \in Threads : CallExact(th'[u], u \in failed', position')
    BY Zenon, <1>1, <1>2
  <1> QED
    BY Zenon, <1>1, <1>3 DEF Enumerating

\* A step that changes no buffer: what it takes to keep an enumeration exact.
LEMMA SameBuffer ==
  ASSUME NEW c \in Calls, NEW b \in Calls, NEW f, NEW g, NEW p, NEW q,
         CallExact(b, f, p), c.cookie = b.cookie, c.seen = b.seen, c.nbyte = b.nbyte,
         c.got = b.got, c.used = b.used,
         c.pc \in {"release", "returned"} =>
           g \/ (c.used < c.nbyte => c.cookie + Len(c.got) = N),
         c.pc \notin {"lock", "read", "done"}
  PROVE  CallExact(c, g, q)
  BY Zenon DEF CallExact

\* A call starts with an empty buffer, or not at all.
LEMMA CallEnumerating ==
  ASSUME Inv, Enumerating, NEW t \in Threads, file_readdir(t) PROVE Enumerating'
  <1>1. th[t] \in Calls /\ CallExact(th[t], t \in failed, position) /\ UNCHANGED <<handle, offset, position>>
    BY Zenon DEF Enumerating, file_readdir, object
  <1>2. /\ position' \in 0 .. N /\ IF handle' = "null" THEN position' = START ELSE offset' = position'
        /\ position' = position
    BY Zenon, <1>1 DEF Enumerating
  <1>3. CASE intable
    <2> DEFINE c == [th[t] EXCEPT !.pc = "lock", !.error = "0", !.got = <<>>, !.used = 0]
    <2>1. Set(t, c) /\ failed' = failed
      BY Zenon, <1>3 DEF file_readdir
    <2>2. c \in Calls
      <3>1. th[t] \in Calls /\ <<>> \in Seq(Entries)
        BY <1>1
      <3> QED
        BY Zenon, <3>1 DEF Calls
    <2>3. /\ c.pc = "lock" /\ c.got = <<>> /\ c.used = 0 /\ c.cookie = th[t].cookie
          /\ c.seen = th[t].seen /\ c.nbyte = th[t].nbyte
      BY Zenon, <1>1 DEF Calls
    <2> HIDE DEF c
    <2>4. CallExact(c, t \in failed', position')
      <3>1. Len(c.got) = 0 /\ c.nbyte \in Nat
        BY Zenon, <2>2, <2>3, Sizes
      <3> QED
        BY <1>1, <2>3, <3>1 DEF CallExact
    <2> QED
      BY Zenon, <1>2, <2>1, <2>2, <2>4, OneCall
  <1>4. CASE ~intable
    <2> DEFINE c == [th[t] EXCEPT !.pc = "stopped", !.error = "EBADF"]
    <2>1. Set(t, c) /\ failed' = failed \cup {t}
      BY Zenon, <1>4 DEF file_readdir
    <2>2. c \in Calls
      BY Zenon, <1>1 DEF Calls
    <2>3. /\ c.pc = "stopped" /\ c.got = th[t].got /\ c.used = th[t].used /\ c.cookie = th[t].cookie
          /\ c.seen = th[t].seen /\ c.nbyte = th[t].nbyte
      BY Zenon, <1>1 DEF Calls
    <2> HIDE DEF c
    <2>4. CallExact(c, t \in failed', position')
      BY Zenon, <1>1, <2>2, <2>3, SameBuffer
    <2>5. \A u \in Threads \ {t} : u \in failed' <=> u \in failed
      BY Zenon, <2>1
    <2> QED
      BY Zenon, <1>2, <2>1, <2>2, <2>4, <2>5, OneCall
  <1> QED
    BY Zenon, <1>3, <1>4

\* The handle is moved to the cookie of the call, whatever other calls have done
\* to it.
LEMMA OpenEnumerating ==
  ASSUME Inv, Enumerating, NEW t \in Threads, OpenHandle(t) PROVE Enumerating'
  <1>1. th[t] \in Calls /\ CallExact(th[t], t \in failed, position) /\ th[t].pc = "lock"
    BY Zenon DEF Enumerating, OpenHandle
  <1>2. th[t].got = <<>> /\ th[t].used = 0 /\ Len(th[t].got) = 0
    BY Zenon, <1>1 DEF CallExact
  <1>3. CASE Seek(t) /\ Set(t, [th[t] EXCEPT !.pc = "read"]) /\ UNCHANGED failed
    <2> DEFINE c == [th[t] EXCEPT !.pc = "read"]
    <2>1. c \in Calls
      BY Zenon, <1>1 DEF Calls
    <2>2. /\ c.pc = "read" /\ c.got = th[t].got /\ c.used = 0 /\ c.cookie = th[t].cookie
          /\ c.seen = th[t].seen /\ c.nbyte = th[t].nbyte
      BY Zenon, <1>1, <1>2 DEF Calls
    <2>3. Set(t, c) /\ failed' = failed
      BY Zenon, <1>3
    <2> HIDE DEF c
    <2>4. position' = th[t].cookie /\ offset' = th[t].cookie /\ handle' = "open" /\ th[t].cookie \in 0 .. N
      BY Zenon, <1>1, <1>3, Sizes DEF Seek, Enumerating
    <2>5. CallExact(c, t \in failed', position')
      BY <1>1, <1>2, <2>1, <2>2, <2>4, Sizes DEF CallExact
    <2>6. \A u \in Threads \ {t} : th[u].pc # "read"
      BY Zenon, ReadDirAssumption DEF Inv, OpenHandle, Lockable
    <2> QED
      BY Zenon, <2>1, <2>3, <2>4, <2>5, <2>6, OneCall
  <1>4. CASE /\ Set(t, [th[t] EXCEPT !.pc = "release", !.error = "ENOMEM"])
             /\ failed' = failed \cup {t} /\ UNCHANGED object
    <2> DEFINE c == [th[t] EXCEPT !.pc = "release", !.error = "ENOMEM"]
    <2>1. c \in Calls
      BY Zenon, <1>1 DEF Calls
    <2>2. /\ c.pc = "release" /\ c.got = th[t].got /\ c.used = th[t].used /\ c.cookie = th[t].cookie
          /\ c.seen = th[t].seen /\ c.nbyte = th[t].nbyte
      BY Zenon, <1>1 DEF Calls
    <2>3. Set(t, c) /\ t \in failed' /\ \A u \in Threads \ {t} : u \in failed' <=> u \in failed
      BY Zenon, <1>4
    <2> HIDE DEF c
    <2>4. CallExact(c, t \in failed', position')
      BY Zenon, <1>1, <2>1, <2>2, <2>3, SameBuffer
    <2>5. /\ position' \in 0 .. N /\ IF handle' = "null" THEN position' = START ELSE offset' = position'
          /\ position' = position
      BY Zenon, <1>4 DEF Enumerating, object
    <2> QED
      BY Zenon, <2>1, <2>3, <2>4, <2>5, OneCall
  <1> QED
    BY Zenon, <1>3, <1>4 DEF OpenHandle

\* An entry is put into the buffer as far as it fits.
LEMMA PutExact ==
  ASSUME NEW b \in Calls, b.pc = "read", NEW f, NEW p \in 0 .. N - 1, CallExact(b, f, p)
  PROVE  /\ file_readdir_put(b, p + 1) \in Calls
         /\ CallExact(file_readdir_put(b, p + 1), f, p + 1)
  <1> DEFINE e == p + 1
             size == Header + NameLen[e]
             avail == b.nbyte - b.used
             put == IF size > avail THEN avail ELSE size
             new == [entry |-> e, whole |-> put = size, next |-> e]
             got == IF put = 0 THEN b.got ELSE Append(b.got, new)
             c == file_readdir_put(b, e)
             n == Len(b.got)
  <1>0. /\ b.cookie = Len(b.seen) /\ \A i \in 1 .. Len(b.seen) : b.seen[i] = i
        /\ \A i \in 1 .. n : /\ b.got[i].entry = b.cookie + i /\ b.got[i].next = b.cookie + i
                             /\ (i < n \/ b.used < b.nbyte) => b.got[i].whole
        /\ p >= b.cookie + n /\ (b.used < b.nbyte => p = b.cookie + n)
    BY Zenon DEF CallExact
  <1>1. /\ e \in 1 .. N /\ p \in Nat /\ size \in Nat \ {0} /\ b.used \in Nat /\ b.nbyte \in Nat \ {0} /\ b.used <= b.nbyte
        /\ n \in Nat /\ b.got \in Seq(Entries) /\ b.cookie \in Nat
    BY Sizes DEF CallExact
  <1>2. /\ put \in Nat /\ b.used + put <= b.nbyte
        /\ (put = 0 <=> b.used = b.nbyte) /\ (put # size => b.used + put = b.nbyte)
    <2> HIDE DEF size
    <2> QED
      BY <1>1
  <1>3. new \in Entries /\ new.entry = e /\ new.next = e /\ (new.whole <=> put = size)
    BY Zenon, <1>1 DEF Entries
  <1>4. c = [b EXCEPT !.got = got, !.used = b.used + put]
    BY Zenon DEF file_readdir_put, d_next
  <1> HIDE DEF size, put, new, c
  <1>5. got \in Seq(Entries)
    BY <1>1, <1>3
  <1>6. /\ put = 0 => got = b.got /\ Len(got) = n
        /\ put # 0 => /\ Len(got) = n + 1 /\ got[n + 1] = new
                      /\ \A i \in 1 .. n : got[i] = b.got[i]
    BY <1>1, <1>3
  <1> HIDE DEF got, e, n
  <1>7. /\ c \in Calls /\ c.pc = "read" /\ c.got = got /\ c.used = b.used + put /\ c.cookie = b.cookie
        /\ c.seen = b.seen /\ c.nbyte = b.nbyte
    <2>1. b \in Calls /\ b.used + put \in Nat
      BY <1>1, <1>2
    <2> QED
      BY Zenon, <1>4, <1>5, <2>1 DEF Calls
  <1>8. CallExact(c, f, e)
    <2>1. CASE put = 0
      <3>1. Len(c.got) = n /\ c.got = b.got /\ c.used = b.used /\ ~(c.used < c.nbyte) /\ e = p + 1
        BY <1>1, <1>2, <1>6, <1>7, <2>1 DEF e
      <3>2. e \in Int /\ e >= c.cookie + n
        BY <1>0, <1>1, <1>7, <3>1
      <3>3. \A i \in 1 .. Len(c.got) : /\ c.got[i].entry = c.cookie + i /\ c.got[i].next = c.cookie + i
                                       /\ (i < Len(c.got) \/ c.used < c.nbyte) => c.got[i].whole
        BY Zenon, <1>0, <1>7, <3>1
      <3>4. c.cookie = Len(c.seen) /\ (\A i \in 1 .. Len(c.seen) : c.seen[i] = i) /\ c.used <= c.nbyte
        BY Zenon, <1>0, <1>1, <1>7, <3>1
      <3> QED
        BY Zenon, <1>7, <3>1, <3>2, <3>3, <3>4 DEF CallExact
    <2>2. CASE put # 0
      <3>1. /\ b.used < b.nbyte /\ p = b.cookie + n /\ e = b.cookie + (n + 1)
            /\ \A i \in 1 .. n : b.got[i].whole /\ b.got[i].entry = b.cookie + i /\ b.got[i].next = b.cookie + i
        <4>1. b.used < b.nbyte
          BY <1>1, <1>2, <2>2
        <4>2. p = b.cookie + n
          BY Zenon, <1>0, <4>1
        <4>3. e = b.cookie + (n + 1)
          BY <1>1, <4>2 DEF e
        <4> QED
          BY Zenon, <1>0, <4>1, <4>2, <4>3
      <3>2. Len(c.got) = n + 1 /\ \A i \in 1 .. n + 1 : i \in 1 .. n \/ i = n + 1
        BY <1>1, <1>6, <1>7, <2>2
      <3>3. \A i \in 1 .. n : c.got[i] = b.got[i]
        BY Zenon, <1>6, <1>7, <2>2
      <3>4. c.got[n + 1] = new /\ (c.used < c.nbyte => new.whole)
        <4>1. c.used < c.nbyte => put = size
          BY <1>1, <1>2, <1>7
        <4>2. c.got[n + 1] = new
          BY Zenon, <1>6, <1>7, <2>2
        <4>3. put = size => new.whole
          BY Zenon, <1>3
        <4> QED
          BY Zenon, <4>1, <4>2, <4>3
      <3>5. \A i \in 1 .. n + 1 : /\ c.got[i].entry = c.cookie + i /\ c.got[i].next = c.cookie + i
                                  /\ (i < n + 1 \/ c.used < c.nbyte) => c.got[i].whole
        <4>1. \A i \in 1 .. n : /\ c.got[i].entry = c.cookie + i /\ c.got[i].next = c.cookie + i
                                /\ c.got[i].whole
          BY Zenon, <1>7, <3>1, <3>3
        <4>2. c.got[n + 1].entry = c.cookie + (n + 1) /\ c.got[n + 1].next = c.cookie + (n + 1)
          BY Zenon, <1>3, <1>7, <3>1, <3>4
        <4> QED
          BY <1>1, <3>2, <3>4, <4>1, <4>2
      <3>6. e = c.cookie + Len(c.got) /\ e \in Int
        BY <1>1, <1>7, <3>1, <3>2
      <3>7. c.cookie = Len(c.seen) /\ (\A i \in 1 .. Len(c.seen) : c.seen[i] = i) /\ c.used <= c.nbyte
        BY Zenon, <1>0, <1>2, <1>7
      <3> QED
        BY <1>7, <3>2, <3>5, <3>6, <3>7 DEF CallExact
    <2> QED
      BY Zenon, <2>1, <2>2
  <1> QED
    BY Zenon, <1>7, <1>8 DEF e, c

\* An iteration of the loop, and its end at the end of the directory.
LEMMA ReadEnumerating ==
  ASSUME Inv, Enumerating, NEW t \in Threads, ReadEntry(t) PROVE Enumerating'
  <1>1. /\ th[t] \in Calls /\ CallExact(th[t], t \in failed, position) /\ th[t].pc = "read"
        /\ position \in 0 .. N /\ N \in Nat /\ handle = "open" /\ offset = position
    BY Zenon, Sizes DEF Enumerating, ReadEntry, Inv
  <1>2. \A u \in Threads \ {t} : th[u].pc # "read"
    BY Zenon, <1>1 DEF Inv
  <1>3. CASE /\ position < N /\ position' = position + 1 /\ offset' = position'
             /\ Set(t, file_readdir_put(th[t], position')) /\ UNCHANGED <<handle, failed>>
    <2> DEFINE c == file_readdir_put(th[t], position + 1)
    <2>1. position \in 0 .. N - 1 /\ position' \in 0 .. N
      BY <1>1, <1>3
    <2>2. c \in Calls /\ CallExact(c, t \in failed, position + 1)
      BY Zenon, <1>1, <2>1, PutExact
    <2>3. Set(t, c) /\ CallExact(c, t \in failed', position')
      BY Zenon, <1>3, <2>2
    <2> HIDE DEF c
    <2> QED
      BY Zenon, <1>1, <1>2, <1>3, <2>1, <2>2, <2>3, OneCall
  <1>4. ASSUME NEW error \in {"0", "EIO"}, Set(t, [th[t] EXCEPT !.pc = "release", !.error = error]),
               UNCHANGED object, position = N \/ t \in failed',
               \A u \in Threads \ {t} : u \in failed' <=> u \in failed, t \in failed => t \in failed'
        PROVE  Enumerating'
    <2> DEFINE c == [th[t] EXCEPT !.pc = "release", !.error = error]
    <2>1. c \in Calls
      BY Zenon, <1>1, <1>4 DEF Calls
    <2>2. /\ c.pc = "release" /\ c.got = th[t].got /\ c.used = th[t].used /\ c.cookie = th[t].cookie
          /\ c.seen = th[t].seen /\ c.nbyte = th[t].nbyte
      BY Zenon, <1>1 DEF Calls
    <2>3. Set(t, c)
      BY Zenon, <1>4
    <2> HIDE DEF c
    <2>4. t \in failed' \/ (c.used < c.nbyte => c.cookie + Len(c.got) = N)
      BY Zenon, <1>1, <1>4, <2>2 DEF CallExact
    <2>5. CallExact(c, t \in failed', position')
      BY Zenon, <1>1, <2>1, <2>2, <2>4, SameBuffer
    <2>6. /\ position' \in 0 .. N /\ IF handle' = "null" THEN position' = START ELSE offset' = position'
          /\ position' = position
      BY Zenon, <1>1, <1>4 DEF object
    <2> QED
      BY Zenon, <1>4, <2>1, <2>3, <2>5, <2>6, OneCall
  <1>5. CASE position = N /\ Set(t, [th[t] EXCEPT !.pc = "release"]) /\ UNCHANGED <<object, failed>>
    <2>1. [th[t] EXCEPT !.pc = "release"] \in Calls
      BY Zenon, <1>1 DEF Calls
    <2> DEFINE c == [th[t] EXCEPT !.pc = "release"]
    <2>2. /\ c.pc = "release" /\ c.got = th[t].got /\ c.used = th[t].used /\ c.cookie = th[t].cookie
          /\ c.seen = th[t].seen /\ c.nbyte = th[t].nbyte
      BY Zenon, <1>1 DEF Calls
    <2>3. Set(t, c) /\ c \in Calls /\ failed' = failed
      BY Zenon, <1>5, <2>1
    <2> HIDE DEF c
    <2>4. c.used < c.nbyte => c.cookie + Len(c.got) = N
      BY Zenon, <1>1, <1>5, <2>2 DEF CallExact
    <2>5. CallExact(c, t \in failed', position')
      BY Zenon, <1>1, <2>2, <2>3, <2>4, SameBuffer
    <2>6. /\ position' \in 0 .. N /\ IF handle' = "null" THEN position' = START ELSE offset' = position'
          /\ position' = position
      BY Zenon, <1>1, <1>5 DEF object
    <2> QED
      BY Zenon, <2>3, <2>5, <2>6, OneCall
  <1>6. CASE /\ Set(t, [th[t] EXCEPT !.pc = "release", !.error = IF th[t].used > 0 THEN "0" ELSE "EIO"])
             /\ failed' = failed \cup {t} /\ UNCHANGED object
    BY Zenon, <1>4, <1>6
  <1> QED
    BY Zenon, <1>3, <1>5, <1>6 DEF ReadEntry

\* The ends of calls and of the descriptor leave the enumerations alone.
LEMMA DropEnumerating ==
  ASSUME Inv, Enumerating, fd_close \/ \E t \in Threads : Release(t) PROVE Enumerating'
  <1>1. ASSUME Drop PROVE /\ position' = position /\ offset' = offset
                          /\ IF handle' = "null" THEN position' = START ELSE offset' = position'
    BY Zenon, <1>1 DEF Drop, Enumerating
  <1>2. CASE fd_close
    BY Zenon, <1>1, <1>2 DEF Enumerating, fd_close
  <1>3. ASSUME NEW t \in Threads, Release(t) PROVE Enumerating'
    <2> DEFINE c == [th[t] EXCEPT !.pc = "returned"]
    <2>0. th[t] \in Calls /\ CallExact(th[t], t \in failed, position) /\ th[t].pc = "release"
      BY Zenon, <1>3 DEF Enumerating, Release
    <2>1. c \in Calls
      BY Zenon, <2>0 DEF Calls
    <2>2. /\ c.pc = "returned" /\ c.got = th[t].got /\ c.used = th[t].used /\ c.cookie = th[t].cookie
          /\ c.seen = th[t].seen /\ c.nbyte = th[t].nbyte
      BY Zenon, <2>0 DEF Calls
    <2>3. Set(t, c) /\ failed' = failed /\ Drop
      BY Zenon, <1>3 DEF Release
    <2> HIDE DEF c
    <2>4. t \in failed' \/ (c.used < c.nbyte => c.cookie + Len(c.got) = N)
      BY Zenon, <2>0, <2>2, <2>3 DEF CallExact
    <2>5. CallExact(c, t \in failed', position')
      BY Zenon, <2>0, <2>1, <2>2, <2>4, SameBuffer
    <2>6. /\ position' \in 0 .. N /\ IF handle' = "null" THEN position' = START ELSE offset' = position'
          /\ position' = position
      BY Zenon, <1>1, <2>3 DEF Enumerating
    <2> QED
      BY Zenon, <2>1, <2>3, <2>5, <2>6, OneCall
  <1> QED
    BY Zenon, <1>2, <1>3

\* The numbers up to n.
LEMMA CountTo ==
  ASSUME NEW n \in Nat PROVE Cardinality(1 .. n) = n
  <1>1. 1 \in Int /\ n \in Int
    OBVIOUS
  <1>2. Cardinality(1 .. n) = IF 1 > n THEN 0 ELSE n - 1 + 1
    BY Zenon, <1>1, FS_Interval
  <1> QED
    BY <1>2

\* The entries that are whole, when only the last may be cut off.
LEMMA WholePrefix ==
  ASSUME NEW got \in Seq(Entries), \A i \in 1 .. Len(got) : i < Len(got) => got[i].whole
  PROVE  LET k == Len(Whole(got))
         IN  /\ k \in 0 .. Len(got) /\ \A i \in 1 .. k : Whole(got)[i] = got[i]
             /\ Whole(got) \in Seq(Entries)
             /\ (\A i \in 1 .. Len(got) : got[i].whole) => k = Len(got)
  <1> DEFINE n == Len(got)
             S == {i \in DOMAIN got : \A j \in 1 .. i : got[j].whole}
  <1>1. n \in Nat /\ DOMAIN got = 1 .. n
    OBVIOUS
  <1>2. CASE \A i \in 1 .. n : got[i].whole
    <2>1. S = 1 .. n
      BY <1>1, <1>2
    <2>2. Cardinality(S) = n
      BY Zenon, <1>1, <2>1, CountTo
    <2> HIDE DEF S
    <2>3. Whole(got) = SubSeq(got, 1, n)
      BY Zenon, <2>2 DEF Whole, S
    <2> QED
      BY <1>1, <2>3
  <1>3. CASE ~\A i \in 1 .. n : got[i].whole
    <2>1. n # 0 /\ ~got[n].whole
      BY <1>1, <1>3
    <2>2. S = 1 .. n - 1
      <3>1. \A i \in 1 .. n - 1 : got[i].whole /\ i \in 1 .. n
        BY <1>1
      <3>2. \A i \in 1 .. n - 1 : \A j \in 1 .. i : j \in 1 .. n - 1
        BY <1>1
      <3>3. \A i \in S : i # n
        BY Zenon, <1>1, <2>1
      <3> QED
        BY <1>1, <3>1, <3>2, <3>3
    <2>3. Cardinality(S) = n - 1
      <3>1. n - 1 \in Nat
        BY <1>1, <2>1
      <3> HIDE DEF n, S
      <3> QED
        BY Zenon, <2>2, <3>1, CountTo
    <2> HIDE DEF S
    <2>4. Whole(got) = SubSeq(got, 1, n - 1)
      BY Zenon, <2>3 DEF Whole, S
    <2>5. /\ Whole(got) \in Seq(Entries) /\ Len(Whole(got)) = n - 1
          /\ \A i \in 1 .. n - 1 : Whole(got)[i] = got[i]
      BY <1>1, <2>1, <2>4
    <2> HIDE DEF n
    <2>6. n - 1 \in 0 .. n
      BY <1>1, <2>1
    <2> QED
      BY Zenon, <1>3, <2>5, <2>6 DEF n
  <1> QED
    BY Zenon, <1>2, <1>3

\* The C library takes what is whole and asks for what follows it.
LEMMA UserEnumerating ==
  ASSUME Inv, Enumerating, NEW t \in Threads, UserReaddir(t) PROVE Enumerating'
  <1> DEFINE b == th[t]
             whole == Whole(b.got)
             k == Len(whole)
             more == b.used = b.nbyte
             add == [i \in DOMAIN whole |-> whole[i].entry]
             cookie == IF whole = <<>> THEN b.cookie ELSE whole[k].next
             nbyte == IF more /\ whole = <<>> THEN 2 * b.nbyte ELSE b.nbyte
             r1 == [b EXCEPT !.pc = "stopped", !.got = <<>>, !.used = 0]
             r2 == [b EXCEPT !.pc = IF more THEN "idle" ELSE "done", !.got = <<>>, !.used = 0,
                             !.seen = b.seen \o add, !.cookie = cookie, !.nbyte = nbyte]
  <1>1. b \in Calls /\ CallExact(b, t \in failed, position) /\ b.pc = "returned" /\ <<>> \in Seq(Entries)
    BY DEF Enumerating, UserReaddir
  <1>2. /\ Set(t, IF b.error # "0" THEN r1 ELSE r2) /\ failed' = failed
        /\ UNCHANGED object
    BY Zenon DEF UserReaddir
  <1>3. /\ position' \in 0 .. N /\ IF handle' = "null" THEN position' = START ELSE offset' = position'
        /\ position' = position
    BY Zenon, <1>2 DEF object, Enumerating
  <1>4. /\ Len(b.seen) \in Nat /\ Len(b.got) \in Nat /\ b.used \in Nat /\ b.nbyte \in Nat \ {0} /\ b.cookie \in 0 .. N
        /\ b.got \in Seq(Entries) /\ b.seen \in Seq(1 .. N) /\ b.used <= b.nbyte /\ N \in Nat
    BY Zenon, <1>1, Sizes DEF CallExact
  <1> HIDE DEF b
  <1>5. /\ b.cookie = Len(b.seen) /\ \A i \in 1 .. Len(b.seen) : b.seen[i] = i
        /\ \A i \in 1 .. Len(b.got) : /\ b.got[i].entry = b.cookie + i /\ b.got[i].next = b.cookie + i
                                      /\ (i < Len(b.got) \/ b.used < b.nbyte) => b.got[i].whole
        /\ b.used < b.nbyte /\ t \notin failed => b.cookie + Len(b.got) = N
    BY Zenon, <1>1 DEF CallExact
  <1>6. CASE b.error # "0"
    <2>1. Set(t, r1)
      BY Zenon, <1>2, <1>6
    <2>2. r1 \in Calls
      BY Zenon, <1>1 DEF Calls
    <2>3. /\ r1.pc = "stopped" /\ r1.got = <<>> /\ r1.used = 0 /\ r1.cookie = b.cookie
          /\ r1.seen = b.seen /\ r1.nbyte = b.nbyte
      BY Zenon, <1>1 DEF Calls
    <2> HIDE DEF r1
    <2>4. CallExact(r1, t \in failed', position')
      <3>1. Len(r1.got) = 0
        BY Zenon, <2>3
      <3> QED
        BY <1>4, <1>5, <2>3, <3>1 DEF CallExact
    <2> QED
      BY Zenon, <1>2, <1>3, <2>1, <2>2, <2>4, OneCall
  <1>7. CASE b.error = "0"
    <2>1. Set(t, r2)
      BY Zenon, <1>2, <1>7
    <2>2. /\ k \in 0 .. Len(b.got) /\ (\A i \in 1 .. k : whole[i] = b.got[i]) /\ whole \in Seq(Entries)
          /\ b.used < b.nbyte => k = Len(b.got)
      <3>1. \A i \in 1 .. Len(b.got) : i < Len(b.got) => b.got[i].whole
        BY Zenon, <1>5
      <3>2. b.used < b.nbyte => \A i \in 1 .. Len(b.got) : b.got[i].whole
        BY Zenon, <1>5
      <3> QED
        BY Zenon, <1>4, <3>1, <3>2, WholePrefix
    <2> HIDE DEF whole
    <2>3. DOMAIN whole = 1 .. k /\ k \in Nat /\ (whole = <<>> <=> k = 0)
      BY <1>4, <2>2
    <2>4. \A i \in 1 .. k : whole[i].entry = b.cookie + i /\ whole[i].next = b.cookie + i /\ whole[i].entry \in 1 .. N
      <3>1. \A i \in 1 .. k : i \in 1 .. Len(b.got)
        BY <1>4, <2>2
      <3>2. \A i \in 1 .. k : whole[i] \in Entries
        BY <2>2, <2>3
      <3>3. \A x \in Entries : x.entry \in 1 .. N
        BY Zenon DEF Entries
      <3> QED
        BY Zenon, <1>5, <2>2, <3>1, <3>2, <3>3
    <2>5. cookie = b.cookie + k /\ cookie \in 0 .. N
      <3>1. CASE k = 0
        BY <1>4, <2>3, <3>1
      <3>2. CASE k # 0
        <4>1. k \in 1 .. k /\ cookie = whole[k].next
          BY <2>3, <3>2
        <4> QED
          BY <1>4, <2>4, <4>1
      <3> QED
        BY Zenon, <3>1, <3>2
    <2>6. add \in Seq(1 .. N) /\ Len(add) = k /\ \A i \in 1 .. k : add[i] = b.cookie + i
      <3>1. add = [i \in 1 .. k |-> whole[i].entry]
        BY Zenon, <2>3
      <3> QED
        BY <2>3, <2>4, <3>1
    <2>7. nbyte \in Nat \ {0} /\ b.nbyte \in Nat \ {0}
      BY <1>4
    <2> HIDE DEF add, cookie, nbyte
    <2> DEFINE seen == b.seen \o add
    <2>8. /\ seen \in Seq(1 .. N) /\ Len(seen) = b.cookie + k
          /\ \A i \in 1 .. Len(b.seen) : seen[i] = b.seen[i]
          /\ \A i \in Len(b.seen) + 1 .. Len(b.seen) + k : seen[i] = add[i - Len(b.seen)]
      <3>1. /\ seen \in Seq(1 .. N) /\ Len(seen) = Len(b.seen) + Len(add)
            /\ \A i \in 1 .. Len(b.seen) + Len(add) :
                 seen[i] = IF i <= Len(b.seen) THEN b.seen[i] ELSE add[i - Len(b.seen)]
        <4>1. b.seen \in Seq(1 .. N) /\ add \in Seq(1 .. N)
          BY Zenon, <1>4, <2>6
        <4> QED
          BY <4>1
      <3> HIDE DEF seen
      <3>2. Len(b.seen) \in Nat /\ k \in Nat /\ Len(add) = k /\ b.cookie = Len(b.seen)
        BY Zenon, <1>4, <1>5, <2>3, <2>6
      <3>3. seen \in Seq(1 .. N) /\ Len(seen) = b.cookie + k
        BY Zenon, <3>1, <3>2
      <3> DEFINE l == Len(b.seen)
      <3>4. \A i \in 1 .. l + k : seen[i] = IF i <= l THEN b.seen[i] ELSE add[i - l]
        BY Zenon, <3>1, <3>2
      <3>5. l \in Nat /\ k \in Nat
        BY Zenon, <3>2
      <3> HIDE DEF l, k
      <3>6. (\A i \in 1 .. l : seen[i] = b.seen[i]) /\ (\A i \in l + 1 .. l + k : seen[i] = add[i - l])
        BY <3>4, <3>5
      <3> QED
        BY Zenon, <3>3, <3>6 DEF l, k
    <2> HIDE DEF seen
    <2>9. \A i \in 1 .. Len(seen) : seen[i] = i
      <3> TAKE i \in 1 .. Len(seen)
      <3>1. CASE i \in 1 .. Len(b.seen)
        BY Zenon, <1>5, <2>8, <3>1
      <3>2. CASE i \notin 1 .. Len(b.seen)
        <4>0. Len(seen) = Len(b.seen) + k /\ Len(b.seen) \in Nat /\ k \in Nat
          BY Zenon, <1>4, <1>5, <2>3, <2>8
        <4>1. i \in Len(b.seen) + 1 .. Len(b.seen) + k /\ i - Len(b.seen) \in 1 .. k
          BY <3>2, <4>0
        <4>2. seen[i] = add[i - Len(b.seen)] /\ add[i - Len(b.seen)] = b.cookie + (i - Len(b.seen))
          BY Zenon, <2>6, <2>8, <4>1
        <4> QED
          BY <1>4, <1>5, <4>1, <4>2
      <3> QED
        BY Zenon, <3>1, <3>2
    <2>10. r2 = [b EXCEPT !.pc = IF more THEN "idle" ELSE "done", !.got = <<>>, !.used = 0,
                          !.seen = seen, !.cookie = cookie, !.nbyte = nbyte]
      BY Zenon DEF seen
    <2> HIDE DEF r2
    <2>11. r2 \in Calls
      BY Zenon, <1>1, <2>5, <2>7, <2>8, <2>10 DEF Calls
    <2>12. /\ r2.pc \in {"idle", "done"} /\ (r2.pc = "done" => ~more)
           /\ r2.got = <<>> /\ r2.used = 0 /\ r2.cookie = cookie /\ r2.seen = seen /\ r2.nbyte = nbyte
      BY Zenon, <1>1, <2>10 DEF Calls
    <2>13. r2.pc = "done" /\ t \notin failed' => cookie = N
      <3>1. r2.pc = "done" => b.used < b.nbyte
        BY <1>4, <2>12
      <3> QED
        BY Zenon, <1>2, <1>4, <1>5, <2>2, <2>5, <3>1
    <2>14. CallExact(r2, t \in failed', position')
      <3>1. Len(r2.got) = 0
        BY Zenon, <2>12
      <3> QED
        BY <2>5, <2>7, <2>8, <2>9, <2>12, <2>13, <3>1 DEF CallExact
    <2> QED
      BY Zenon, <1>2, <1>3, <2>1, <2>11, <2>14, OneCall
  <1> QED
    BY Zenon, <1>6, <1>7

\* Every enumeration sees the entries of the directory in order, each once, and
\* all of them unless the host failed it: for any number of threads that share
\* the handle of the directory, any directory and any buffers, if the handle is
\* at the start when the first call opens it.
THEOREM EnumerationsCorrect ==
  ASSUME FirstPositions \subseteq {START} PROVE Spec => []EnumerationsExact
  <1>1. Init => Enumerating
    <2> SUFFICES ASSUME Init PROVE Enumerating
      BY Zenon
    <2>1. /\ Idle \in Calls /\ Idle.cookie = 0 /\ Idle.seen = <<>> /\ Idle.got = <<>> /\ Idle.used = 0
          /\ Idle.pc = "idle" /\ Idle.nbyte \in Nat
      <3>1. <<>> \in Seq(Entries) /\ <<>> \in Seq(1 .. N) /\ 0 \in 0 .. N
        BY Sizes
      <3> QED
        BY Zenon, <3>1, ReadDirAssumption DEF Idle, Calls, START
    <2>2. CallExact(Idle, FALSE, position)
      <3>1. Len(Idle.seen) = 0 /\ Len(Idle.got) = 0
        BY Zenon, <2>1
      <3> QED
        BY <2>1, <3>1 DEF CallExact
    <2>3. position = START /\ position \in 0 .. N /\ handle = "null" /\ failed = {}
      BY Zenon, ReadDirAssumption DEF Init, N
    <2>4. th = [t \in Threads |-> Idle]
      BY Zenon DEF Init
    <2>5. \A t \in Threads : th[t] = Idle /\ (t \in failed <=> FALSE)
      BY Zenon, <2>3, <2>4
    <2>6. \A t \in Threads : CallExact(th[t], t \in failed, position)
      BY Zenon, <2>2, <2>5 DEF CallExact
    <2> QED
      BY Zenon, <2>1, <2>3, <2>4, <2>6 DEF Enumerating
  <1>2. Inv /\ Enumerating /\ [Next]_vars => Enumerating'
    <2> SUFFICES ASSUME Inv, Enumerating, [Next]_vars PROVE Enumerating'
      BY Zenon
    <2>1. CASE UNCHANGED vars
      BY Zenon, <2>1 DEF Enumerating, CallExact, vars, object
    <2>2. ASSUME NEW t \in Threads, Step(t) PROVE Enumerating'
      BY Zenon, <2>2, CallEnumerating, OpenEnumerating, ReadEnumerating, DropEnumerating, UserEnumerating DEF Step
    <2> QED
      BY Zenon, <2>1, <2>2, DropEnumerating DEF Next, AllFinished
  <1>3. Enumerating => EnumerationsExact
    <2> SUFFICES ASSUME Enumerating, NEW t \in Threads
                 PROVE  /\ th[t].seen = [i \in 1 .. Len(th[t].seen) |-> i]
                        /\ (th[t].pc = "done" /\ t \notin failed) => Len(th[t].seen) = N
      BY Zenon DEF EnumerationsExact
    <2>1. th[t] \in Calls /\ CallExact(th[t], t \in failed, position)
      BY Zenon DEF Enumerating
    <2>2. th[t].seen \in Seq(1 .. N)
      BY Zenon, <2>1, Sizes
    <2>3. \A i \in 1 .. Len(th[t].seen) : th[t].seen[i] = i
      BY Zenon, <2>1 DEF CallExact
    <2>4. th[t].seen = [i \in 1 .. Len(th[t].seen) |-> th[t].seen[i]]
      BY <2>2
    <2> QED
      BY Zenon, <2>1, <2>3, <2>4 DEF CallExact
  <1> QED
    BY <1>1, <1>2, <1>3, HandleInvariant, PTL DEF Spec
=============================================================================
