------------------------------ MODULE Deadline ------------------------------
(***************************************************************************)
(* cond_timedwait() of libemulator/locking.h: a wait with a timeout, which *)
(* is relative or a point in time of the clock that the condition variable *)
(* was made for.  What the host can do differs:                            *)
(*   "linux", "freebsd"  the clock of a condition variable can be chosen;  *)
(*   "cloudabi"          that, and relative waits;                         *)
(*   "macos"             relative waits, and condition variables of the    *)
(*                       realtime clock only.                              *)
(* The missing ones are converted into each other with the help of the     *)
(* clocks, which run on between the steps.  time_t has 64 bits, which no   *)
(* timeout fills.                                                          *)
(***************************************************************************)
EXTENDS Integers

CONSTANTS
  NanosPerSec,   \* nanoseconds in a second
  RealOffset,    \* the realtime clock minus the monotonic clock
  MaxStart,      \* bound: the last time at which a call begins
  MaxTime        \* bound: the last time of the monotonic clock

ASSUME DeadlineAssumption ==
  /\ NanosPerSec \in Nat \ {0} /\ {RealOffset, MaxStart, MaxTime} \subseteq Nat

VARIABLES
  now,      \* the monotonic clock, in nanoseconds
  request,  \* the call: [build, clock, timeout, abstime]
  wait,     \* where cond_timedwait() is
  ts,       \* its struct timespec
  called    \* the monotonic time of the call

deadlineVars == <<now, request, wait, ts, called>>

CONFIG_HAS_PTHREAD_CONDATTR_SETCLOCK(build) == build # "macos"
CONFIG_HAS_PTHREAD_COND_TIMEDWAIT_RELATIVE_NP(build) == build \in {"cloudabi", "macos"}

\* clock_gettime()
Time(clock) == IF clock = "REALTIME" THEN now + RealOffset ELSE now

Timespec(t) == [sec |-> t \div NanosPerSec, nsec |-> t % NanosPerSec]
Nanos(t) == t.sec * NanosPerSec + t.nsec
Valid(t) == t.nsec \in 0..(NanosPerSec - 1)

\* Subtraction with borrow.
Subtract(t, u) ==
  IF t.nsec - u.nsec < 0
  THEN [sec |-> t.sec - u.sec - 1, nsec |-> t.nsec - u.nsec + NanosPerSec]
  ELSE [sec |-> t.sec - u.sec, nsec |-> t.nsec - u.nsec]

\* Mutant: the carry comes one nanosecond late.
AddLateMutant(t, u) ==
  IF t.nsec + u.nsec > NanosPerSec
  THEN [sec |-> t.sec + u.sec + 1, nsec |-> t.nsec + u.nsec - NanosPerSec]
  ELSE [sec |-> t.sec + u.sec, nsec |-> t.nsec + u.nsec]

\* Addition with carry.
Add(t, u) ==
  IF t.nsec + u.nsec >= NanosPerSec
  THEN [sec |-> t.sec + u.sec + 1, nsec |-> t.nsec + u.nsec - NanosPerSec]
  ELSE [sec |-> t.sec + u.sec, nsec |-> t.nsec + u.nsec]

\* The clock that pthread_cond_timedwait() compares with.
CondClock(r) ==
  IF CONFIG_HAS_PTHREAD_CONDATTR_SETCLOCK(r.build) THEN r.clock ELSE "REALTIME"

-----------------------------------------------------------------------------
DeadlineInit ==
  /\ request = [build |-> "linux", clock |-> "REALTIME", timeout |-> 0, abstime |-> TRUE]
  /\ now = 0
  /\ wait = "idle"
  /\ ts = Timespec(0)
  /\ called = 0

\* The call, up to the first look at a clock or to the wait.
cond_timedwait(r) ==
  /\ wait = "idle"
  /\ request' = r
  /\ ts' = Timespec(r.timeout)
  /\ called' = now
  /\ \/ r.abstime /\ r.clock # CondClock(r) /\ wait' = "subtract"
     \/ r.abstime /\ r.clock = CondClock(r) /\ wait' = "until"
     \/ /\ ~r.abstime /\ CONFIG_HAS_PTHREAD_COND_TIMEDWAIT_RELATIVE_NP(r.build)
        /\ wait' = "for"
     \/ /\ ~r.abstime /\ ~CONFIG_HAS_PTHREAD_COND_TIMEDWAIT_RELATIVE_NP(r.build)
        /\ wait' = "add"
  /\ UNCHANGED now

\* An absolute time becomes relative, ...
SubtractMonotonic ==
  /\ wait = "subtract"
  /\ ts' = Subtract(ts, Timespec(Time(request.clock)))
  /\ wait' = "add"
  /\ UNCHANGED <<now, request, called>>

\* ... and a relative one absolute.
AddNow ==
  /\ wait = "add"
  /\ ts' = Add(ts, Timespec(Time(CondClock(request))))
  /\ wait' = "until"
  /\ UNCHANGED <<now, request, called>>

\* pthread_cond_timedwait_relative_np() begins to wait.
StartRelative ==
  /\ wait = "for"
  /\ wait' = "for until"
  /\ ts' = Timespec(Nanos(ts) + now)
  /\ UNCHANGED <<now, request, called>>

\* The wait ends when its time has come; pthread_cond_timedwait() refuses a
\* timespec that is not normalised.
Expire ==
  /\ wait \in {"until", "for until"}
  /\ ~Valid(ts) \/ Nanos(ts) <= IF wait = "until" THEN Time(CondClock(request)) ELSE now
  /\ wait' = IF Valid(ts) THEN "ETIMEDOUT" ELSE "EINVAL"
  /\ UNCHANGED <<now, request, ts, called>>

\* Time passes, also between two steps of a call.
Tick ==
  /\ wait \notin {"ETIMEDOUT", "EINVAL"}
  /\ now < IF wait = "idle" THEN MaxStart ELSE MaxTime
  /\ now' = now + 1
  /\ UNCHANGED <<request, wait, ts, called>>

DeadlineNext == SubtractMonotonic \/ AddNow \/ StartRelative \/ Expire \/ Tick

-----------------------------------------------------------------------------
\* The point in time, of the clock of the call, that the caller asked for.
Asked == IF request.abstime THEN request.timeout
         ELSE request.timeout + called + (IF request.clock = "REALTIME" THEN RealOffset ELSE 0)

\* The timespec that the host is given is normalised, as the assertion on its
\* answer demands, and names the time that was asked for, plus at most the
\* time that the conversion took: no wait is too short, whatever conversions
\* it took and however long they took.
DeadlineExact ==
  wait = "until" =>
    LET skew == Time(request.clock) - Time(CondClock(request))
    IN  Valid(ts) /\ Nanos(ts) + skew \in Asked..(Asked + (now - called))
=============================================================================
