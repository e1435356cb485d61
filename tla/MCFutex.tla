------------------------------ MODULE MCFutex ------------------------------
(* Small instances of Futex for TLC. *)
EXTENDS Futex

CONSTANTS l1, l2, c1

OneLock == {l1}
TwoLocks == {l1, l2}
OneCondvar == {c1}
=============================================================================
