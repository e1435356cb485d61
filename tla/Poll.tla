-------------------------------- MODULE Poll --------------------------------
(***************************************************************************)
(* sys_poll() of libemulator/posix.c, for calls without futexes (those are *)
(* futex_op_poll() of module Futex): a sleep on a clock, or a list of      *)
(* subscriptions for descriptors with at most one relative timeout, which  *)
(* is handed to the host's poll().  Other threads may close descriptors    *)
(* while the call is under way.                                            *)
(*                                                                         *)
(* A subscription is [type, fd, clock, timeout, abstime]; the index of a   *)
(* subscription stands for its user data.                                  *)
(***************************************************************************)
EXTENDS Deadline, Sequences, FiniteSets, SequencesExt

CONSTANTS
  Fds,           \* descriptors of the program
  Pollable,      \* those with CLOUDABI_RIGHT_POLL_FD_READWRITE
  NoObject,      \* no object
  NanosPerMsec,  \* nanoseconds in a millisecond
  IntMax,        \* INT_MAX
  Answers        \* sets of flags that the host's poll() may report

VARIABLES
  call,     \* the subscriptions of a call of sys_poll(), or the timed waits that
            \* the program may begin instead, and the host
  poll,     \* where sys_poll() is
  table,    \* descriptor -> object (named by its first descriptor) or NoObject
  refcount, \* object -> number of references; it is open while there are some
  fos,      \* the objects that the call references
  revents,  \* what the host's poll() says of each entry
  out,      \* events: [sub, type, error, hangup]
  heap,     \* arrays that the call has allocated
  perror    \* what sys_poll() returns

callVars == <<call, poll, table, refcount, fos, revents, out, heap, perror>>
pollVars == <<deadlineVars, callVars>>

CONFIG_HAS_CLOCK_NANOSLEEP == call.build \notin {"macos", "freebsd"}

Subs == 1..Len(call.subs)
IsFd(i) == call.subs[i].type \in {"FD_READ", "FD_WRITE"}
IsRelativeClock(i) == call.subs[i].type = "CLOCK" /\ ~call.subs[i].abstime
Event(i, error, hangup) ==
  [sub |-> i, type |-> call.subs[i].type, error |-> error, hangup |-> hangup]

\* c is the call that the program makes.
PollInit(c) ==
  /\ call = c
  /\ poll = "idle"
  /\ table = [f \in Fds |-> f]
  /\ refcount = [f \in Fds |-> 1]
  /\ fos = <<>> /\ revents = <<>> /\ out = <<>>
  /\ heap = 0
  /\ perror = "0"

\* sys_poll() returns error, with the events in out.
PollReturns(error) ==
  /\ poll' = "returned"
  /\ perror' = error

-----------------------------------------------------------------------------
\* A sleep: one subscription, for a clock.  The host sleeps (and may be
\* interrupted), the clock is refused, or the wait is left to cond_timedwait().
Sleeps == Len(call.subs) = 1 /\ call.subs[1].type = "CLOCK"
SleepClock == call.subs[1].clock
SleepEnds(error) ==
  /\ out' = <<Event(1, error, FALSE)>>
  /\ PollReturns("0")
  /\ UNCHANGED deadlineVars
SleepByCondition ==
  ~CONFIG_HAS_CLOCK_NANOSLEEP /\ SleepClock = "REALTIME" /\ call.subs[1].abstime

Sleep ==
  /\ poll = "idle" /\ Sleeps
  /\ \/ /\ CONFIG_HAS_CLOCK_NANOSLEEP /\ SleepClock # "UNKNOWN"
        /\ \E error \in {"0", "EINTR"} : SleepEnds(error)
     \/ CONFIG_HAS_CLOCK_NANOSLEEP /\ SleepClock = "UNKNOWN" /\ SleepEnds("ENOTSUP")
     \/ /\ ~CONFIG_HAS_CLOCK_NANOSLEEP /\ SleepClock = "MONOTONIC"
        /\ SleepEnds(IF call.subs[1].abstime THEN "ENOSYS" ELSE "0")
     \/ ~CONFIG_HAS_CLOCK_NANOSLEEP /\ SleepClock = "REALTIME" /\ ~call.subs[1].abstime /\ SleepEnds("0")
     \/ ~CONFIG_HAS_CLOCK_NANOSLEEP /\ SleepClock \notin {"MONOTONIC", "REALTIME"} /\ SleepEnds("ENOTSUP")
     \/ /\ SleepByCondition
        /\ poll' = "sleeping"
        /\ UNCHANGED <<deadlineVars, out, perror>>
  /\ UNCHANGED <<call, table, refcount, fos, revents, heap>>

\* A timed wait: the sleep on a condition variable of its own, or a wait of
\* futex_queue_sleep().
Waits == IF poll = "sleeping"
         THEN {[build |-> call.build, clock |-> "REALTIME",
                timeout |-> call.subs[1].timeout, abstime |-> TRUE]}
         ELSE call.waits
TimedWait == (\E r \in Waits : cond_timedwait(r)) /\ UNCHANGED callVars

WakeUp ==
  /\ poll = "sleeping" /\ wait = "ETIMEDOUT"
  /\ SleepEnds("0")
  /\ UNCHANGED <<call, table, refcount, fos, revents, heap>>

-----------------------------------------------------------------------------
\* Either malloc() fails, or both arrays are there.
Allocate ==
  /\ poll = "idle" /\ ~Sleeps /\ call.subs # <<>>
  /\ \/ PollReturns("ENOMEM") /\ UNCHANGED heap
     \/ poll' = "allocated" /\ heap' = 2 /\ UNCHANGED perror
  /\ UNCHANGED <<deadlineVars, call, table, refcount, fos, revents, out>>

\* fd_object_get_locked()
fd_object_get_locked(i) ==
  CASE table[call.subs[i].fd] = NoObject -> "EBADF"
    [] table[call.subs[i].fd] # NoObject /\ call.subs[i].fd \notin Pollable -> "ENOTCAPABLE"
    [] OTHER -> "0"

\* The subscription that serves as the timeout: the first relative clock.
IsTimeout(i) == IsRelativeClock(i) /\ \A j \in 1..(i - 1) : ~IsRelativeClock(j)
Timeouts == {i \in Subs : IsTimeout(i)}

Refusal(i) == IF IsFd(i) THEN fd_object_get_locked(i)
              ELSE IF IsTimeout(i) THEN "0" ELSE "ENOSYS"

\* The references that the call takes on object f.
References(objects, f) == Cardinality({i \in DOMAIN objects : objects[i] = f})

\* The subscriptions are converted, under the read lock of the table.
Convert ==
  LET objects == [i \in Subs |-> IF IsFd(i) /\ fd_object_get_locked(i) = "0"
                                 THEN table[call.subs[i].fd] ELSE NoObject]
      refused == SelectSeq([i \in Subs |-> i], LAMBDA i : Refusal(i) # "0")
  IN  /\ poll = "allocated"
      /\ fos' = objects
      /\ refcount' = [f \in Fds |-> refcount[f] + References(objects, f)]
      /\ out' = [n \in 1..Len(refused) |-> Event(refused[n], Refusal(refused[n]), FALSE)]
      /\ poll' = "polling"
      /\ UNCHANGED <<deadlineVars, call, table, revents, heap, perror>>

\* Mutant: the timeout counts although there are events already.
TimeoutMutant ==
  IF Timeouts # {}
  THEN LET t == call.subs[CHOOSE i \in Timeouts : TRUE].timeout \div NanosPerMsec
       IN  IF t > IntMax THEN -1 ELSE t
  ELSE -1

\* The timeout of the host's poll(), in milliseconds.
Timeout ==
  IF out # <<>> THEN 0
  ELSE IF Timeouts # {}
  THEN LET t == call.subs[CHOOSE i \in Timeouts : TRUE].timeout \div NanosPerMsec
       IN  IF t > IntMax THEN -1 ELSE t
  ELSE -1

\* The host's poll(): it fails, reports entries, or reports none after the
\* timeout.  An entry whose descriptor is closed is not valid.
Polled == {i \in Subs : fos[i] # NoObject}
HostPoll ==
  /\ poll = "polling"
  /\ \/ poll' = "failed" /\ UNCHANGED revents
     \/ \E r \in [Polled -> Answers] :
          LET answer == [i \in Polled |-> IF refcount[fos[i]] = 0 THEN {"NVAL"} ELSE r[i]]
          IN  /\ (\A i \in Polled : answer[i] = {}) => Timeout # -1
              /\ revents' = answer
              /\ poll' = "polled"
  /\ UNCHANGED <<deadlineVars, call, table, refcount, fos, out, heap, perror>>

\* Mutant: the clock event is reported next to others.
ReportMutant ==
  LET first == SelectSeq([i \in Subs |-> i], LAMBDA i : i \in Polled /\ revents[i] # {})
  IN  out \o [n \in 1..Len(first) |-> Event(first[n], "0", FALSE)]
          \o [n \in 1..Cardinality(Timeouts) |-> Event(CHOOSE i \in Timeouts : TRUE, "0", FALSE)]

\* The events that follow from a poll() that did not fail.
Report ==
  LET answered == SelectSeq([i \in Subs |-> i], LAMBDA i : i \in Polled /\ revents[i] # {})
      EventOf(i) == CASE "NVAL" \in revents[i] -> IF call.build = "macos" THEN Event(i, "0", TRUE)
                                                  ELSE Event(i, "EBADF", FALSE)
                      [] "NVAL" \notin revents[i] /\ "ERR" \in revents[i] -> Event(i, "EIO", FALSE)
                      [] OTHER -> Event(i, "0", "HUP" \in revents[i])
  IN  IF answered = <<>> /\ out = <<>> /\ Timeouts # {}
      THEN <<Event(CHOOSE i \in Timeouts : TRUE, "0", FALSE)>>
      ELSE out \o [n \in 1..Len(answered) |-> EventOf(answered[n])]

\* Mutant: the objects keep their references.
ReleaseMutant == UNCHANGED refcount

\* fd_object_release() of every object.
ReleaseAll == refcount' = [f \in Fds |-> refcount[f] - References(fos, f)]

Finish ==
  /\ poll \in {"polled", "failed"}
  /\ \/ poll = "failed" /\ PollReturns("EINTR") /\ UNCHANGED out
     \/ poll = "polled" /\ PollReturns("0") /\ out' = Report
  /\ ReleaseAll
  /\ heap' = 0
  /\ UNCHANGED <<deadlineVars, call, table, fos, revents>>

\* sys_fd_close() by another thread.
CloseFd(f) ==
  /\ poll \notin {"idle", "returned"} /\ table[f] # NoObject
  /\ table' = [table EXCEPT ![f] = NoObject]
  /\ refcount' = [refcount EXCEPT ![table[f]] = @ - 1]
  /\ UNCHANGED <<deadlineVars, call, poll, fos, revents, out, heap, perror>>

PollNext ==
  \/ Allocate \/ Convert \/ HostPoll \/ Finish
  \/ Sleep \/ WakeUp
  \/ TimedWait
  \/ (poll = "sleeping" \/ call.waits # {}) /\ DeadlineNext /\ UNCHANGED callVars
  \/ \E f \in Fds : CloseFd(f)

-----------------------------------------------------------------------------
\* A call that succeeds reports something, and reports a subscription once.
\* If it polled descriptors and reports the clock, nothing else happened in
\* the time that the first relative clock allows.
PollReports ==
  poll = "returned" =>
    /\ perror = "0" => out # <<>>
    /\ \A m, n \in DOMAIN out : out[m].sub = out[n].sub => m = n
    /\ \A n \in DOMAIN out :
         (fos # <<>> /\ out[n].type = "CLOCK" /\ out[n].error = "0") =>
           /\ Len(out) = 1 /\ IsTimeout(out[n].sub)
           /\ \A i \in Polled : revents[i] = {}

\* "Increase the reference count on the file descriptors to ensure they remain
\* valid across the call to poll()" (posix.c:2190): from the conversion to the
\* return an object has a reference for every subscription that names it, next
\* to those of the table, although other threads close descriptors; and on
\* every path sys_poll() gives back all references and both arrays.
PollReferencesExact ==
  /\ \A f \in Fds :
       refcount[f] = Cardinality({g \in Fds : table[g] = f})
                   + (IF poll \in {"polling", "polled", "failed"}
                      THEN Cardinality({i \in Subs : IsFd(i) /\ fos[i] = f}) ELSE 0)
  /\ poll = "returned" => heap = 0

\* A poll() whose list has an event already, or a timeout that the host can
\* represent, does not block for ever.
TimeoutEndsPoll ==
  (poll = "polling" /\ (out # <<>> \/ \E i \in Timeouts :
      call.subs[i].timeout \div NanosPerMsec <= IntMax)) ~> poll = "returned"
=============================================================================
