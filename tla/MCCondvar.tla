------------------------------ MODULE MCCondvar ------------------------------
(* Two waiters and two notifiers: every notify_one has a wait to match,  *)
(* and a notifier can run between a waiter's push and its down.          *)
EXTENDS Condvar, TLC

CONSTANTS w1, w2, n1, n2

MCWaiters == {w1, w2}
MCNotifiers == {n1, n2}
=============================================================================
