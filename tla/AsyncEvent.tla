----------------------------- MODULE AsyncEvent -----------------------------
(***************************************************************************)
(* coro::AsyncEvent at the grain of its atomic operations.                 *)
(*                                                                         *)
(* The atomic pointer state_ is nullptr (unset, nobody waits), the event   *)
(* itself (set) or the head of an intrusive list of Awaiters, each of      *)
(* which lives in the frame of the coroutine that awaits.  A coroutine is  *)
(* identified with the Awaiter it pushes.  Set() resumes the waiters INLINE*)
(* on its own thread: the walk of the list goes on only when the resumed   *)
(* coroutine has suspended again or has finished.                          *)
(***************************************************************************)
EXTENDS Naturals, Sequences

CONSTANTS Waiter,      \* coroutines that co_await the event
          Setter,      \* threads that call Set()
          Null,        \* nullptr
          This,        \* the event's own address: "set"
          MaxAwaits,   \* bound: co_awaits of one coroutine
          MaxSets,     \* bound: Set() calls of one thread
          MaxResets    \* bound: effective Reset() calls

ASSUME PointersDiffer ==
    /\ Null # This
    /\ Null \notin Waiter \cup Setter
    /\ This \notin Waiter \cup Setter

ASSUME BoundsAreNat ==
    /\ MaxAwaits \in Nat
    /\ MaxSets \in Nat
    /\ MaxResets \in Nat

VARIABLES state,       \* state_
          next,        \* Awaiter::next
          pc,          \* where each coroutine is
          old,         \* await_suspend's local `old`
          host,        \* the Set() call that runs the coroutine inline, or Null
          spc,         \* where each setter is in Set()
          cur,         \* Set()'s local `waiter`
          saved,       \* Set()'s local `next`
          list,        \* history: the coroutines of the published list, head first
          walk,        \* history: the coroutines a Set() has still to resume
          awaits, sets, resets   \* the bounded counters

wvars == <<next, pc, old, awaits>>
svars == <<spc, cur, saved, walk, sets>>
vars == <<state, wvars, host, svars, list, resets>>

Pointer == Waiter \cup {Null, This}

TypeOK ==
    /\ state \in Pointer
    /\ next \in [Waiter -> Pointer]
    /\ pc \in [Waiter -> {"run", "suspend", "link", "cas", "suspended", "finished"}]
    /\ old \in [Waiter -> Pointer]
    /\ host \in [Waiter -> Setter \cup {Null}]
    /\ spc \in [Setter -> {"idle", "walk", "resume", "inline", "advance"}]
    /\ cur \in [Setter -> Waiter \cup {Null}]
    /\ saved \in [Setter -> Waiter \cup {Null}]
    /\ list \in Seq(Waiter)
    /\ walk \in [Setter -> Seq(Waiter)]
    /\ awaits \in [Waiter -> 0..MaxAwaits]
    /\ sets \in [Setter -> 0..MaxSets]
    /\ resets \in 0..MaxResets

Init ==
    /\ state = Null
    /\ next = [w \in Waiter |-> Null]
    /\ pc = [w \in Waiter |-> "run"]
    /\ old = [w \in Waiter |-> Null]
    /\ host = [w \in Waiter |-> Null]
    /\ spc = [s \in Setter |-> "idle"]
    /\ cur = [s \in Setter |-> Null]
    /\ saved = [s \in Setter |-> Null]
    /\ list = <<>>
    /\ walk = [s \in Setter |-> <<>>]
    /\ awaits = [w \in Waiter |-> 0]
    /\ sets = [s \in Setter |-> 0]
    /\ resets = 0

-----------------------------------------------------------------------------
(***************************************************************************)
(* The awaiting coroutine.                                                 *)
(***************************************************************************)

\* The frame that called resume() gets the control back.
ReturnToHost(w) ==
    /\ host' = [host EXCEPT ![w] = Null]
    /\ spc' = [s \in Setter |-> IF s = host[w] THEN "advance" ELSE spc[s]]

\* await_ready: a coroutine that finds the event set goes on without suspending.
AwaitReady(w) ==
    /\ pc[w] = "run"
    /\ awaits[w] < MaxAwaits
    /\ awaits' = [awaits EXCEPT ![w] = @ + 1]
    /\ pc' = [pc EXCEPT ![w] = IF state = This THEN "run" ELSE "suspend"]
    /\ UNCHANGED <<state, next, old, host, svars, list, resets>>

\* await_suspend: the first load of state_.
LoadState(w) ==
    /\ pc[w] = "suspend"
    /\ old' = [old EXCEPT ![w] = state]
    /\ pc' = [pc EXCEPT ![w] = "link"]
    /\ UNCHANGED <<state, next, awaits, host, svars, list, resets>>

\* Mutant: the test for an event that became set while suspending is dropped.
LinkAlways(w) ==
    /\ pc[w] = "link"
    /\ next' = [next EXCEPT ![w] = old[w]]
    /\ pc' = [pc EXCEPT ![w] = "cas"]
    /\ UNCHANGED <<state, old, awaits, host, svars, list, resets>>

\* await_suspend: the loop body.  If the event became set, resume immediately.
Link(w) ==
    /\ pc[w] = "link"
    /\ \/ /\ old[w] = This
          /\ pc' = [pc EXCEPT ![w] = "run"]
          /\ UNCHANGED next
       \/ /\ old[w] # This
          /\ next' = [next EXCEPT ![w] = old[w]]
          /\ pc' = [pc EXCEPT ![w] = "cas"]
    /\ UNCHANGED <<state, old, awaits, host, svars, list, resets>>

\* Mutant: a plain store instead of the compare-exchange.
PublishBlindly(w) ==
    /\ pc[w] = "cas"
    /\ state' = w
    /\ list' = IF state = old[w] THEN <<w>> \o list ELSE <<w>>
    /\ pc' = [pc EXCEPT ![w] = "suspended"]
    /\ ReturnToHost(w)
    /\ UNCHANGED <<next, old, awaits, cur, saved, walk, sets, resets>>

\* compare_exchange_weak succeeds: the coroutine is published and suspended,
\* and from here on any Set() may resume it.
Publish(w) ==
    /\ pc[w] = "cas"
    /\ state = old[w]
    /\ state' = w
    /\ list' = <<w>> \o list
    /\ pc' = [pc EXCEPT ![w] = "suspended"]
    /\ ReturnToHost(w)
    /\ UNCHANGED <<next, old, awaits, cur, saved, walk, sets, resets>>

\* compare_exchange_weak fails, spuriously or not: `old` is read again.
CasFails(w) ==
    /\ pc[w] = "cas"
    /\ old' = [old EXCEPT ![w] = state]
    /\ pc' = [pc EXCEPT ![w] = "link"]
    /\ UNCHANGED <<state, next, awaits, host, svars, list, resets>>

\* The coroutine runs to its end; its frame, with the Awaiter, is destroyed.
Finish(w) ==
    /\ pc[w] = "run"
    /\ pc' = [pc EXCEPT ![w] = "finished"]
    /\ ReturnToHost(w)
    /\ UNCHANGED <<state, next, old, awaits, cur, saved, walk, sets, list, resets>>

-----------------------------------------------------------------------------
(***************************************************************************)
(* Set and Reset.                                                          *)
(***************************************************************************)

\* Set: the exchange.  A second Set finds the event set and returns.
Exchange(s) ==
    /\ spc[s] = "idle"
    /\ sets[s] < MaxSets
    /\ sets' = [sets EXCEPT ![s] = @ + 1]
    /\ state' = This
    /\ \/ /\ state = This
          /\ UNCHANGED <<spc, cur, walk, list>>
       \/ /\ state # This
          /\ spc' = [spc EXCEPT ![s] = "walk"]
          /\ cur' = [cur EXCEPT ![s] = state]
          /\ walk' = [walk EXCEPT ![s] = list]
          /\ list' = <<>>
    /\ UNCHANGED <<wvars, host, saved, resets>>

\* Set: the loop test, and `next` saved before resume().
SaveNext(s) ==
    /\ spc[s] = "walk"
    /\ \/ /\ cur[s] = Null
          /\ spc' = [spc EXCEPT ![s] = "idle"]
          /\ UNCHANGED saved
       \/ /\ cur[s] # Null
          /\ spc' = [spc EXCEPT ![s] = "resume"]
          /\ saved' = [saved EXCEPT ![s] = next[cur[s]]]
    /\ UNCHANGED <<state, wvars, host, cur, walk, sets, list, resets>>

\* Set: waiter->handle.resume() runs the coroutine on this thread.
Resume(s) ==
    /\ spc[s] = "resume"
    /\ spc' = [spc EXCEPT ![s] = "inline"]
    /\ pc' = [pc EXCEPT ![cur[s]] = "run"]
    /\ host' = [host EXCEPT ![cur[s]] = s]
    /\ walk' = [walk EXCEPT ![s] = Tail(@)]
    /\ UNCHANGED <<state, next, old, awaits, cur, saved, sets, list, resets>>

\* Mutant: `next` is read after resume().
AdvanceLate(s) ==
    /\ spc[s] = "advance"
    /\ cur' = [cur EXCEPT ![s] = next[cur[s]]]
    /\ spc' = [spc EXCEPT ![s] = "walk"]
    /\ UNCHANGED <<state, wvars, host, saved, walk, sets, list, resets>>

\* Set: `waiter = next` once the resumed coroutine has returned.
Advance(s) ==
    /\ spc[s] = "advance"
    /\ cur' = [cur EXCEPT ![s] = saved[s]]
    /\ spc' = [spc EXCEPT ![s] = "walk"]
    /\ UNCHANGED <<state, wvars, host, saved, walk, sets, list, resets>>

\* Reset: compare_exchange from "set" to nullptr; no effect in any other state.
Reset ==
    /\ state = This
    /\ resets < MaxResets
    /\ resets' = resets + 1
    /\ state' = Null
    /\ UNCHANGED <<wvars, host, svars, list>>

-----------------------------------------------------------------------------
WaiterStep(w) ==
    AwaitReady(w) \/ LoadState(w) \/ Link(w) \/ Publish(w) \/ CasFails(w) \/ Finish(w)

SetterStep(s) == SaveNext(s) \/ Resume(s) \/ Advance(s)

\* All bounds are used up or every coroutine is gone: nothing is left to do.
Quiet ==
    /\ \A w \in Waiter : pc[w] \in {"suspended", "finished"}
    /\ \A s \in Setter : spc[s] = "idle" /\ sets[s] = MaxSets
    /\ UNCHANGED vars

Next ==
    \/ \E w \in Waiter : WaiterStep(w)
    \/ \E s \in Setter : Exchange(s) \/ SetterStep(s)
    \/ Reset
    \/ Quiet

Spec == Init /\ [][Next]_vars

\* A running coroutine and a running Set() are not stopped for ever by their
\* thread; compare_exchange_weak does not fail for ever.  Nobody owes a Set or
\* a Reset.
Fairness ==
    /\ \A w \in Waiter : WF_vars(WaiterStep(w)) /\ SF_vars(Publish(w))
    /\ \A s \in Setter : WF_vars(SetterStep(s))

FairSpec == Spec /\ Fairness

-----------------------------------------------------------------------------
(***************************************************************************)
(* Properties.                                                             *)
(***************************************************************************)
Elems(seq) == {seq[i] : i \in DOMAIN seq}

\* `first` and the next pointers spell out exactly the sequence seq.
Spells(first, seq) ==
    /\ first = IF seq = <<>> THEN Null ELSE seq[1]
    /\ \A i \in DOMAIN seq :
          next[seq[i]] = IF i = Len(seq) THEN Null ELSE seq[i + 1]

\* The state is well typed, and the pointers and the waiters agree: the list
\* hanging off state_ holds exactly the coroutines that suspended since the last
\* Set(), none is left hanging off a set event, and whatever other coroutines and
\* Sets do, the rest of a Set()'s own list stays the one it took.  (Set saves
\* `next` before resume() because a resumed coroutine reuses or destroys its
\* Awaiter.)
ListsAgree ==
    /\ TypeOK
    /\ state = This => list = <<>>
    /\ state # This => Spells(state, list)
    /\ \A s \in Setter :
          /\ spc[s] = "idle" => walk[s] = <<>>
          /\ spc[s] \in {"walk", "resume"} => Spells(cur[s], walk[s])
          /\ spc[s] = "resume" => walk[s] # <<>> /\ saved[s] = next[cur[s]]
          /\ spc[s] \in {"inline", "advance"} => Spells(saved[s], walk[s])

\* No lost and no double wake-up: a coroutine that await_suspend suspended is in
\* exactly one place of exactly one list (the published one or the one a Set()
\* is walking), and only suspended coroutines are in those lists.
SuspendedOnce ==
    /\ \A w \in Waiter :
          pc[w] = "suspended" <=>
             w \in Elems(list) \cup UNION {Elems(walk[s]) : s \in Setter}
    /\ \A s \in Setter : Elems(list) \cap Elems(walk[s]) = {}
    /\ \A s, t \in Setter : s # t => Elems(walk[s]) \cap Elems(walk[t]) = {}
    /\ \A i, j \in DOMAIN list : list[i] = list[j] => i = j
    /\ \A s \in Setter : \A i, j \in DOMAIN walk[s] :
          walk[s][i] = walk[s][j] => i = j

\* The lock-free event is the atomic event its users rely on: suspending, the
\* taking of all waiters by Set, each resumption and Reset happen at one point,
\* and every coroutine that a Set() takes is resumed in the end.
Atomic == INSTANCE Event WITH
              isSet <- (state = This),
              waiting <- Elems(list),
              released <- UNION {Elems(walk[s]) : s \in Setter}
ImplementsEvent == Atomic!Spec
=============================================================================
