------------------------------ MODULE Monitor ------------------------------
(***************************************************************************)
(* What the futexes of libemulator/futex.c promise to the program, without *)
(* words, objects, wait counts or kernel-managed bits: read-write locks    *)
(* with condition variables.  A lock has holders and two waiting lines, a  *)
(* condition variable has one line.  Releasing a lock hands it over in the *)
(* same step, to the writer that waited longest or to all readers; a       *)
(* signalled thread gets the lock or queues for it, and never leaves the   *)
(* monitor without it.                                                     *)
(***************************************************************************)
EXTENDS Naturals, Sequences

CONSTANTS
  Threads,   \* threads of the program
  Locks,     \* read-write locks
  Condvars   \* condition variables

VARIABLES
  writer,    \* for each lock, the set of threads (at most one) that hold it for writing
  readers,   \* for each lock, the threads that hold it for reading
  writing,   \* for each lock, the line of threads that want to write
  reading,   \* for each lock, the line of threads that want to read
  waiting    \* for each condition variable, the line of threads that wait

mvars == <<writer, readers, writing, reading, waiting>>

\* A thread in a waiting line.
In(q, t) == \E i \in DOMAIN q : q[i] = t
\* The line without thread t.
Without(q, t) ==
  LET place == CHOOSE i \in DOMAIN q : q[i] = t
  IN  SubSeq(q, 1, place - 1) \o SubSeq(q, place + 1, Len(q))
\* The threads of a line.
Members(q) == {q[i] : i \in DOMAIN q}

IsFree(l) == writer[l] = {} /\ readers[l] = {}

Init ==
  /\ writer = [l \in Locks |-> {}]
  /\ readers = [l \in Locks |-> {}]
  /\ writing = [l \in Locks |-> <<>>]
  /\ reading = [l \in Locks |-> <<>>]
  /\ waiting = [c \in Condvars |-> <<>>]

\* A lock that nobody holds has no waiters, so that a thread that takes it
\* overtakes none.
TakeWrite(t, l) ==
  /\ IsFree(l) /\ writing[l] = <<>> /\ reading[l] = <<>>
  /\ writer' = [writer EXCEPT ![l] = {t}]
  /\ UNCHANGED <<readers, writing, reading, waiting>>

\* A reader joins other readers only while no thread waits for the lock.
TakeRead(t, l) ==
  /\ writer[l] = {} /\ writing[l] = <<>> /\ reading[l] = <<>>
  /\ readers' = [readers EXCEPT ![l] = @ \cup {t}]
  /\ UNCHANGED <<writer, writing, reading, waiting>>

QueueWrite(t, l) ==
  /\ ~IsFree(l) /\ t \notin writer[l] \cup readers[l]
  /\ writing' = [writing EXCEPT ![l] = Append(@, t)]
  /\ UNCHANGED <<writer, readers, reading, waiting>>

QueueRead(t, l) ==
  /\ ~IsFree(l) /\ t \notin writer[l] \cup readers[l]
  /\ reading' = [reading EXCEPT ![l] = Append(@, t)]
  /\ UNCHANGED <<writer, readers, writing, waiting>>

\* A thread tires of queueing.
Abandon(t, l) ==
  /\ \/ In(writing[l], t) /\ writing' = [writing EXCEPT ![l] = Without(@, t)] /\ UNCHANGED reading
     \/ In(reading[l], t) /\ reading' = [reading EXCEPT ![l] = Without(@, t)] /\ UNCHANGED writing
  /\ UNCHANGED <<writer, readers, waiting>>

\* The writer of l leaves: the first writer in line follows, else all readers.
HandOver(l) ==
  \/ /\ writing[l] # <<>>
     /\ writer' = [writer EXCEPT ![l] = {Head(writing[l])}]
     /\ writing' = [writing EXCEPT ![l] = Tail(@)]
     /\ UNCHANGED <<readers, reading>>
  \/ /\ writing[l] = <<>>
     /\ writer' = [writer EXCEPT ![l] = {}]
     /\ readers' = [readers EXCEPT ![l] = Members(reading[l])]
     /\ reading' = [reading EXCEPT ![l] = <<>>]
     /\ UNCHANGED writing

Unlock(t, l) == writer[l] = {t} /\ HandOver(l) /\ UNCHANGED waiting

\* A reader leaves.  The last reader of a lock that threads wait for first
\* becomes its writer.
Unread(t, l) ==
  /\ t \in readers[l]
  /\ readers' = [readers EXCEPT ![l] = @ \ {t}]
  /\ \/ /\ readers[l] = {t} /\ writing[l] \o reading[l] # <<>>
        /\ writer' = [writer EXCEPT ![l] = {t}]
     \/ /\ readers[l] = {t} => writing[l] \o reading[l] = <<>>
        /\ UNCHANGED writer
  /\ UNCHANGED <<writing, reading, waiting>>

Wait(t, l, c) ==
  /\ writer[l] = {t} /\ HandOver(l)
  /\ waiting' = [waiting EXCEPT ![c] = Append(@, t)]

\* A wait that fails at once has still given the lock away, and queues again.
Yield(t, l) ==
  /\ writer[l] = {t}
  /\ writing[l] # <<>>
  /\ writer' = [writer EXCEPT ![l] = {Head(writing[l])}]
  /\ writing' = [writing EXCEPT ![l] = Append(Tail(@), t)]
  /\ UNCHANGED <<readers, reading, waiting>>
YieldToReaders(t, l) ==
  /\ writer[l] = {t} /\ writing[l] = <<>> /\ reading[l] # <<>>
  /\ writer' = [writer EXCEPT ![l] = {}]
  /\ readers' = [readers EXCEPT ![l] = Members(reading[l])]
  /\ reading' = [reading EXCEPT ![l] = <<>>]
  /\ writing' = [writing EXCEPT ![l] = <<t>>]
  /\ UNCHANGED waiting

\* The threads q come out of the line of a condition variable, for lock l.
Enter(q, l) ==
  \/ /\ IsFree(l)
     /\ writer' = [writer EXCEPT ![l] = {Head(q)}]
     /\ writing' = [writing EXCEPT ![l] = @ \o Tail(q)]
  \/ /\ ~IsFree(l)
     /\ writing' = [writing EXCEPT ![l] = @ \o q]
     /\ UNCHANGED writer

\* The n threads that have waited longest are signalled.
Signal(c, l, n) ==
  /\ n \in 1..Len(waiting[c])
  /\ Enter(SubSeq(waiting[c], 1, n), l)
  /\ waiting' = [waiting EXCEPT ![c] = SubSeq(@, n + 1, Len(@))]
  /\ UNCHANGED <<readers, reading>>

\* The wait of thread t times out.
Timeout(t, c, l) ==
  /\ In(waiting[c], t)
  /\ Enter(<<t>>, l)
  /\ waiting' = [waiting EXCEPT ![c] = Without(@, t)]
  /\ UNCHANGED <<readers, reading>>

Next ==
  \E l \in Locks :
    \/ \E t \in Threads :
         \/ TakeWrite(t, l) \/ TakeRead(t, l)
         \/ QueueWrite(t, l) \/ QueueRead(t, l) \/ Abandon(t, l)
         \/ Unlock(t, l) \/ Unread(t, l)
         \/ Yield(t, l) \/ YieldToReaders(t, l)
         \/ \E c \in Condvars : Wait(t, l, c) \/ Timeout(t, c, l)
    \/ \E c \in Condvars : \E n \in 1..Len(waiting[c]) : Signal(c, l, n)

MSpec == Init /\ [][Next]_mvars
=============================================================================
