------------------------------- MODULE Event --------------------------------
(***************************************************************************)
(* What coro::AsyncEvent promises to the code that uses it (the DAG        *)
(* executors and coro::Future): a flag, the coroutines suspended on it and *)
(* the coroutines that a Set has taken and not resumed yet.                *)
(*                                                                         *)
(* A coroutine suspends only while the flag is down; raising the flag takes*)
(* every suspended coroutine at once; each taken coroutine is resumed      *)
(* once.  The lock-free implementation is module AsyncEvent.               *)
(***************************************************************************)
CONSTANT Waiter        \* the coroutines that co_await the event

VARIABLES isSet,       \* IsSet()
          waiting,     \* coroutines suspended on the event
          released     \* coroutines taken by a Set and not resumed yet

vars == <<isSet, waiting, released>>

Init ==
    /\ isSet = FALSE
    /\ waiting = {}
    /\ released = {}

Suspend(w) ==
    /\ ~isSet
    /\ w \notin waiting \cup released
    /\ waiting' = waiting \cup {w}
    /\ UNCHANGED <<isSet, released>>

Set ==
    /\ ~isSet
    /\ isSet' = TRUE
    /\ released' = released \cup waiting
    /\ waiting' = {}

Resume(w) ==
    /\ w \in released
    /\ released' = released \ {w}
    /\ UNCHANGED <<isSet, waiting>>

Reset ==
    /\ isSet
    /\ isSet' = FALSE
    /\ UNCHANGED <<waiting, released>>

Next ==
    \/ \E w \in Waiter : Suspend(w) \/ Resume(w)
    \/ Set
    \/ Reset

\* The safety part, and the promise that a coroutine taken by a Set is resumed.
SafeSpec == Init /\ [][Next]_vars
Spec == SafeSpec /\ \A w \in Waiter : WF_vars(Resume(w))
=============================================================================
