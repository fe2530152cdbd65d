---------------------------- MODULE MCThreadPool ----------------------------
(* ThreadPool for TLC: two workers, a client thread and more coroutines than  *)
(* the queue holds.                                                           *)
EXTENDS ThreadPool, TLC
=============================================================================
