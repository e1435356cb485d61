--------------------------- MODULE MCFutexHistory ---------------------------
(* The instances of MCFutex with a history variable. *)
EXTENDS MCFutex

\* History: has a thread signalled without holding the lock, or has a wait on
\* a condition variable timed out?
VARIABLE undisciplined

Undisciplined ==
  \E t \in Threads :
    \/ sig[t] = NoCondvar /\ sig'[t] # NoCondvar /\ pc[t] # "wrheld"
    \/ \E c \in Condvars : InQueue(condvar[c].waiters, t) /\ pc'[t] # "cvwait"

HistoryInit == Init /\ undisciplined = FALSE
HistoryNext == Next /\ undisciplined' = (undisciplined \/ Undisciplined)
HistoryVars == <<vars, undisciplined>>
HistorySpec == HistoryInit /\ [][HistoryNext]_HistoryVars /\ Fairness

\* futex_op_condvar_signal() finds a waiter in the queue of every condition
\* variable that has an object, and does not dereference NULL, as long as the
\* program signals with the lock held and no wait times out.
DisciplinedSignalsFindAWaiter == crashed => undisciplined
=============================================================================
