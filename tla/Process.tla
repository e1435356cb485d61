------------------------------- MODULE Process -------------------------------
(***************************************************************************)
(* One emulated process, from the command line of cloudabi-run to what the *)
(* program does: the launch (Launch), emulate() (Loader), and then either  *)
(* the creation, exit and joining of threads (ThreadLife), a call of       *)
(* sys_poll() (Poll) or a timed wait on a futex, which both may end up in  *)
(* cond_timedwait() (Deadline).                                            *)
(***************************************************************************)
EXTENDS Launch, Poll, ThreadLife

CONSTANT
  Scenarios   \* [document, image, call]: the YAML document, the executable, and
              \* what the program does: [subs, build, waits, threads]

vars == <<launchVars, pollVars, threadVars>>

Init ==
  /\ \E s \in Scenarios : LaunchInit(s.document) /\ LoaderInit(s.image) /\ PollInit(s.call)
  /\ DeadlineInit
  /\ ThreadInit

\* The launch goes on, ...
Launching == Proceed /\ UNCHANGED <<pollVars, threadVars>>

\* ... and emulate() enters the program, whose first thread is its own.
Enter == StartProgram /\ StartMain /\ UNCHANGED pollVars

\* The program runs under emulation: it makes its call, or has threads.
Running == stage = "running" /\ emulated
Calling == Running /\ UNCHANGED <<launchVars, threadVars>>
Threading == Running /\ call.threads /\ UNCHANGED <<launchVars, pollVars>>

Next ==
  \/ (Prepare \/ HostFails) /\ UNCHANGED <<pollVars, threadVars>>
  \/ Launching
  \/ Enter
  \/ Calling /\ PollNext
  \/ Threading /\ ThreadNext

\* A launch that has its document is a single thread that waits for nobody,
\* but the host need not fail; nor does a call of sys_poll() wait unless the
\* host's poll() blocks.  Threads in the emulator go on, and the program joins
\* a thread that it can join again and again.
Fairness ==
  /\ WF_vars(Launching \/ Enter)
  /\ WF_vars(Calling /\ Convert)
  /\ WF_vars(Calling /\ Timeout # -1 /\ HostPoll)
  /\ WF_vars(Calling /\ Finish)
  /\ \A t \in Threads : WF_vars(Threading /\ EmulatorStep(t))
  /\ \A n \in Threads \ {Main} : SF_vars(Threading /\ UserJoin(Main, n))
Spec == Init /\ [][Next]_vars /\ Fairness
=============================================================================
