---------------------------- MODULE MCAsyncEvent ----------------------------
(* AsyncEvent for TLC: coroutines that await more than once, two threads that *)
(* call Set and a Reset between them.                                         *)
EXTENDS AsyncEvent, TLC
=============================================================================
