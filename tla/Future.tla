------------------------------- MODULE Future -------------------------------
(***************************************************************************)
(* coro::Future: shared completion states, the producers that resolve      *)
(* them, one continuation coroutine per combinator and input, and threads  *)
(* that block in Get().  Resolving publishes the result under the mutex,   *)
(* then sets the done event, which resumes the continuations inline, and   *)
(* only then notifies the blocked threads.  done has the semantics of      *)
(* module Event.  The void variants have the same control, without slots   *)
(* and without first_error: their AnyOf fails with the last error.         *)
(***************************************************************************)
EXTENDS Naturals, Sequences, FiniteSets

CONSTANTS Source,    \* futures resolved by a producer, a thread, Just or Error
          Derived,   \* futures built by a combinator
          Shapes,    \* the networks of futures a client may build
          MaxInputs, \* bound on the inputs of a combinator
          Getter,    \* threads that block in Get
          Timed,     \* the getters that call Get(timeout)
          Client,    \* the thread that builds the derived futures
          Pool,      \* a pool worker or a dedicated thread
          None

AFuture == Source \cup Derived
Continuation == Derived \X (1..MaxInputs)
Actor == Source \cup Continuation

ASSUME FuturesDiffer ==
    /\ MaxInputs \in Nat
    /\ Source \cap (Derived \cup Continuation) = {}
    /\ None \notin [ok : BOOLEAN, by : AFuture]

\* A network: the inputs of a combinator are futures, the continuations are
\* started once each, one per awaited input; what ThenAsync's function returns
\* is its second input.
ASSUME ShapesAreNetworks ==
    \A s \in Shapes :
        /\ s.inputs \in [Derived -> Seq(AFuture)]
        /\ \A f \in Derived : Len(s.inputs[f]) <= MaxInputs
        /\ \A f \in Derived : s.kind[f] = "ThenAsync" => Len(s.inputs[f]) = 2
        /\ s.gets \in [Getter -> AFuture]
        /\ s.plan \in Seq(Continuation)
        /\ \A i, j \in DOMAIN s.plan : s.plan[i] = s.plan[j] => i = j
        /\ \A i \in DOMAIN s.plan : s.plan[i][2] <= Len(s.inputs[s.plan[i][1]])

VARIABLES
    shape,      \* the network: the combinator and the inputs of every derived
                \* future, the order of its continuations, what getters wait for
    result,     \* FutureState: None or the value / error, once resolved
    done,       \* FutureState::done is set
    waiters,    \* continuations suspended on done
    pc, arg,    \* where each actor is; what it is about to resolve with
    walk,       \* continuations an actor's Set() has yet to resume
    host,       \* who resumed the actor: Client, Pool or an actor inside Set()
    built,      \* how many continuations exist
    slots,      \* AllOf: *result
    remaining,  \* AllOf: *remaining
    winner, failed, firstError, \* AnyOf
    get         \* where each getter is

vars == <<shape, result, done, waiters, pc, arg, walk, host, built, slots,
          remaining, winner, failed, firstError, get>>

Inputs(f) == shape.inputs[f]
InputsOf(f) == {Inputs(f)[i] : i \in DOMAIN Inputs(f)}
KindOf(f) == shape.kind[f]
GetsFrom(g) == shape.gets[g]
Planned(c) == \E i \in DOMAIN shape.plan : shape.plan[i] = c

\* The future an actor resolves, and the input a continuation awaits.
Target(a) == IF a \in Source THEN a ELSE a[1]
Input(c) == Inputs(c[1])[c[2]]
Count(f) == Len(Inputs(f))

\* A result is a value or an error, and the future whose code made it.
Value(f) == [ok |-> TRUE, by |-> f]
Error(f) == [ok |-> FALSE, by |-> f]
Result == [ok : BOOLEAN, by : AFuture]

\* Type invariant; an actor that is about to resolve has a result to resolve
\* with, so no future is ever resolved with neither a value nor an error.
TypeOK ==
    /\ result \in [AFuture -> Result \cup {None}]
    /\ done \in [AFuture -> BOOLEAN]
    /\ waiters \in [AFuture -> SUBSET Continuation]
    /\ pc \in [Actor -> {"new", "await", "suspended", "react", "await2", "suspended2",
                         "react2", "assign", "count", "resolve", "set", "walk", "done"}]
    /\ arg \in [Actor -> Result \cup {None}]
    /\ \A a \in Actor : pc[a] = "resolve" => arg[a] \in Result
    /\ walk \in [Actor -> SUBSET Continuation]
    /\ host \in [Actor -> Actor \cup {Client, Pool, None}]
    /\ shape \in Shapes /\ built \in 0..Len(shape.plan)
    /\ \A f \in Derived : slots[f] \in [1..Count(f) -> Result \cup {None}]
    /\ \A f \in Derived : remaining[f] \in 0..Count(f) /\ failed[f] \in 0..Count(f)
    /\ winner \in [Derived -> BOOLEAN]
    /\ firstError \in [Derived -> Result \cup {None}]
    /\ get \in [Getter -> {"check", "asleep", "returned", "timedout"}]

Init ==
    /\ shape \in Shapes
    /\ result = [f \in AFuture |-> None]
    /\ done = [f \in AFuture |-> FALSE]
    /\ waiters = [f \in AFuture |-> {}]
    /\ pc = [a \in Actor |-> "new"]
    /\ arg = [a \in Actor |-> None]
    /\ walk = [a \in Actor |-> {}]
    /\ host = [a \in Actor |-> None]
    /\ built = 0
    /\ slots = [f \in Derived |-> [i \in 1..Count(f) |-> None]]
    /\ remaining = [f \in Derived |-> Count(f)]
    /\ winner = [f \in Derived |-> FALSE]
    /\ failed = [f \in Derived |-> 0]
    /\ firstError = [f \in Derived |-> None]
    /\ get = [g \in Getter |-> "check"]

-----------------------------------------------------------------------------
aggregates == <<slots, remaining, winner, failed, firstError>>
states == <<shape, result, done>>

\* resume() is a call: an actor inside Set() waits for the one it resumed.
Free(x) == \A a \in Actor : host[a] # x
At(a, where) == pc[a] = where /\ host[a] # None /\ Free(a)

Goto(a, where) == pc' = [pc EXCEPT ![a] = where] /\ UNCHANGED host

Leave(a, where) ==
    /\ pc' = [pc EXCEPT ![a] = where]
    /\ host' = [host EXCEPT ![a] = None]

ResolveWith(a, r) == arg' = [arg EXCEPT ![a] = r] /\ Goto(a, "resolve")

-----------------------------------------------------------------------------
(***************************************************************************)
(* Producers and the construction of derived futures.                      *)
(***************************************************************************)

\* RunProducer, FromThread, Just and Error: the work ends with a value or throws.
Produce(s) ==
    /\ pc[s] = "new"
    /\ \E r \in {Value(s), Error(s)} : arg' = [arg EXCEPT ![s] = r]
    /\ pc' = [pc EXCEPT ![s] = "resolve"]
    /\ host' = [host EXCEPT ![s] = Pool]
    /\ UNCHANGED <<states, waiters, walk, built, aggregates, get>>

\* A combinator starts its next continuation, inline on the client's thread.
Attach ==
    /\ built < Len(shape.plan)
    /\ Free(Client)
    /\ built' = built + 1
    /\ pc' = [pc EXCEPT ![shape.plan[built + 1]] = "await"]
    /\ host' = [host EXCEPT ![shape.plan[built + 1]] = Client]
    /\ UNCHANGED <<states, waiters, arg, walk, aggregates, get>>

-----------------------------------------------------------------------------
(***************************************************************************)
(* The continuations.                                                      *)
(***************************************************************************)

\* co_await f->done, from `where` on to `next`, or suspended at `parked`.
AwaitDone(c, f, where, next, parked) ==
    /\ At(c, where)
    /\ \/ done[f] /\ Goto(c, next) /\ UNCHANGED waiters
       \/ /\ ~done[f]
          /\ waiters' = [waiters EXCEPT ![f] = @ \cup {c}]
          /\ Leave(c, parked)
    /\ UNCHANGED <<states, arg, walk, built, aggregates, get>>

Await(c) == AwaitDone(c, Input(c), "await", "react", "suspended")

\* The function passed to the combinator returns or throws.
Applied(c) == {Value(c[1]), Error(c[1])}

RunThen(c) ==
    /\ KindOf(c[1]) = "Then"
    /\ At(c, "react")
    /\ LET r == result[Input(c)] IN
       \E x \in (IF r.ok THEN Applied(c) ELSE {r}) : ResolveWith(c, x)
    /\ UNCHANGED <<states, waiters, walk, built, aggregates, get>>

\* fn may throw before there is a future to await.
RunThenAsync(c) ==
    /\ KindOf(c[1]) = "ThenAsync"
    /\ At(c, "react")
    /\ LET r == result[Input(c)] IN
       \/ ~r.ok /\ ResolveWith(c, r)
       \/ r.ok /\ ResolveWith(c, Error(c[1]))
       \/ r.ok /\ Goto(c, "await2") /\ UNCHANGED arg
    /\ UNCHANGED <<states, waiters, walk, built, aggregates, get>>

AwaitNext(c) ==
    KindOf(c[1]) = "ThenAsync" /\ AwaitDone(c, Inputs(c[1])[2], "await2", "react2", "suspended2")

\* await_resume() of the returned future: its value, or its error rethrown.
FinishThenAsync(c) ==
    /\ At(c, "react2")
    /\ ResolveWith(c, result[Inputs(c[1])[2]])
    /\ UNCHANGED <<states, waiters, walk, built, aggregates, get>>

RunOnError(c) ==
    /\ KindOf(c[1]) = "OnError"
    /\ At(c, "react")
    /\ LET r == result[Input(c)] IN
       \E x \in (IF r.ok THEN {r} ELSE Applied(c)) : ResolveWith(c, x)
    /\ UNCHANGED <<states, waiters, walk, built, aggregates, get>>

RunWhenComplete(c) ==
    /\ KindOf(c[1]) = "WhenComplete"
    /\ At(c, "react")
    /\ \E x \in {result[Input(c)], Error(c[1])} : ResolveWith(c, x)
    /\ UNCHANGED <<states, waiters, walk, built, aggregates, get>>

-----------------------------------------------------------------------------
(***************************************************************************)
(* AllOf and AnyOf.                                                        *)
(***************************************************************************)

\* Mutant: a failed input is counted down like a successful one.
RunAllOfCountsErrors(c) ==
    /\ KindOf(c[1]) = "AllOf"
    /\ At(c, "react")
    /\ LET f == c[1] IN
       /\ slots' = [slots EXCEPT ![f][c[2]] = result[Input(c)]]
       /\ remaining' = [remaining EXCEPT ![f] = @ - 1]
       /\ \/ remaining[f] = 1 /\ ResolveWith(c, Value(f))
          \/ remaining[f] # 1 /\ Leave(c, "done") /\ UNCHANGED arg
    /\ UNCHANGED <<states, waiters, walk, built, winner, failed, firstError, get>>

\* A value fills its slot and counts down; the last one resolves.
RunAllOf(c) ==
    /\ KindOf(c[1]) = "AllOf"
    /\ At(c, "react")
    /\ LET f == c[1]
           r == result[Input(c)] IN
       \/ ~r.ok /\ ResolveWith(c, r) /\ UNCHANGED <<slots, remaining>>
       \/ /\ r.ok
          /\ slots' = [slots EXCEPT ![f][c[2]] = r]
          /\ remaining' = [remaining EXCEPT ![f] = @ - 1]
          /\ \/ remaining[f] = 1 /\ ResolveWith(c, Value(f))
             \/ remaining[f] # 1 /\ Leave(c, "done") /\ UNCHANGED arg
    /\ UNCHANGED <<states, waiters, walk, built, winner, failed, firstError, get>>

\* Mutant: an error is counted and never noted.
RunAnyOfNotesNothing(c) ==
    /\ KindOf(c[1]) = "AnyOf"
    /\ At(c, "react")
    /\ LET f == c[1]
           r == result[Input(c)] IN
       \/ ~r.ok /\ Goto(c, "count") /\ UNCHANGED <<arg, winner>>
       \/ /\ r.ok /\ ~winner[f]
          /\ winner' = [winner EXCEPT ![f] = TRUE]
          /\ ResolveWith(c, r)
       \/ r.ok /\ winner[f] /\ Leave(c, "done") /\ UNCHANGED <<arg, winner>>
    /\ UNCHANGED <<states, waiters, walk, built, slots, remaining, failed, firstError, get>>

\* A value wins if its compare_exchange on `winner` does; an error is noted
\* unless there is a winner.
RunAnyOf(c) ==
    /\ KindOf(c[1]) = "AnyOf"
    /\ At(c, "react")
    /\ LET f == c[1]
           r == result[Input(c)] IN
       \/ /\ ~r.ok
          /\ Goto(c, IF winner[f] THEN "count" ELSE "assign")
          /\ UNCHANGED <<arg, winner>>
       \/ /\ r.ok /\ ~winner[f]
          /\ winner' = [winner EXCEPT ![f] = TRUE]
          /\ ResolveWith(c, r)
       \/ r.ok /\ winner[f] /\ Leave(c, "done") /\ UNCHANGED <<arg, winner>>
    /\ UNCHANGED <<states, waiters, walk, built, slots, remaining, failed, firstError, get>>

\* *first_error = state->error: not synchronised, so of two assignments that
\* overlap either may be the one that stays.
AssignFirstError(c) ==
    /\ At(c, "assign")
    /\ \E d \in Continuation :
          /\ d[1] = c[1] /\ pc[d] = "assign"
          /\ firstError' = [firstError EXCEPT ![c[1]] = result[Input(d)]]
    /\ Goto(c, "count")
    /\ UNCHANGED <<states, waiters, arg, walk, built, slots, remaining, winner, failed, get>>

\* Mutant: the failure count is off by one.
CountFailedEarly(c) ==
    /\ At(c, "count")
    /\ LET f == c[1] IN
       /\ failed' = [failed EXCEPT ![f] = @ + 1]
       /\ \/ /\ failed[f] + 1 >= Count(f) - 1 /\ ~winner[f]
             /\ ResolveWith(c, firstError[f])
          \/ /\ ~(failed[f] + 1 >= Count(f) - 1 /\ ~winner[f])
             /\ Leave(c, "done") /\ UNCHANGED arg
    /\ UNCHANGED <<states, waiters, walk, built, slots, remaining, winner, firstError, get>>

\* The last failure resolves with the noted error.
CountFailed(c) ==
    /\ At(c, "count")
    /\ LET f == c[1] IN
       /\ failed' = [failed EXCEPT ![f] = @ + 1]
       /\ \/ /\ failed[f] + 1 = Count(f) /\ ~winner[f]
             /\ ResolveWith(c, firstError[f])
          \/ /\ ~(failed[f] + 1 = Count(f) /\ ~winner[f])
             /\ Leave(c, "done") /\ UNCHANGED arg
    /\ UNCHANGED <<states, waiters, walk, built, slots, remaining, winner, firstError, get>>

-----------------------------------------------------------------------------
(***************************************************************************)
(* ResolveValue and ResolveError.                                          *)
(***************************************************************************)

\* Mutant: no test of `resolved`.
PublishAgain(a) ==
    /\ At(a, "resolve")
    /\ result' = [result EXCEPT ![Target(a)] = arg[a]]
    /\ Goto(a, "set")
    /\ UNCHANGED <<shape, done, waiters, arg, walk, built, aggregates, get>>

\* The critical section: the first caller publishes, the others return.
Publish(a) ==
    /\ At(a, "resolve")
    /\ LET f == Target(a) IN
       \/ /\ result[f] = None
          /\ result' = [result EXCEPT ![f] = arg[a]]
          /\ Goto(a, "set")
       \/ result[f] # None /\ Leave(a, "done") /\ UNCHANGED result
    /\ UNCHANGED <<shape, done, waiters, arg, walk, built, aggregates, get>>

\* done.Set(): mark it and detach the waiters ...
SetDone(a) ==
    /\ At(a, "set")
    /\ done' = [done EXCEPT ![Target(a)] = TRUE]
    /\ walk' = [walk EXCEPT ![a] = waiters[Target(a)]]
    /\ waiters' = [waiters EXCEPT ![Target(a)] = {}]
    /\ Goto(a, "walk")
    /\ UNCHANGED <<shape, result, arg, built, aggregates, get>>

\* ... and resume them one after the other.
ResumeWaiter(a, c) ==
    /\ At(a, "walk")
    /\ c \in walk[a]
    /\ walk' = [walk EXCEPT ![a] = @ \ {c}]
    /\ pc' = [pc EXCEPT ![c] = IF @ = "suspended" THEN "react" ELSE "react2"]
    /\ host' = [host EXCEPT ![c] = a]
    /\ UNCHANGED <<states, waiters, arg, built, aggregates, get>>

\* Mutant: notify_one.
NotifyOneGetter(a) ==
    /\ At(a, "walk")
    /\ walk[a] = {}
    /\ LET asleep == {g \in Getter : get[g] = "asleep" /\ GetsFrom(g) = Target(a)} IN
       IF asleep = {} THEN UNCHANGED get
       ELSE \E g \in asleep : get' = [get EXCEPT ![g] = "check"]
    /\ Leave(a, "done")
    /\ UNCHANGED <<states, waiters, arg, walk, built, aggregates>>

\* cv.notify_all(), after the continuations have run.
NotifyAll(a) ==
    /\ At(a, "walk")
    /\ walk[a] = {}
    /\ get' = [g \in Getter |->
                  IF get[g] = "asleep" /\ GetsFrom(g) = Target(a) THEN "check" ELSE get[g]]
    /\ Leave(a, "done")
    /\ UNCHANGED <<states, waiters, arg, walk, built, aggregates>>

-----------------------------------------------------------------------------
(***************************************************************************)
(* Get() and Get(timeout).                                                 *)
(***************************************************************************)

\* The predicate of the wait, under the mutex.
CheckResolved(g) ==
    /\ get[g] = "check"
    /\ get' = [get EXCEPT ![g] = IF result[GetsFrom(g)] = None THEN "asleep" ELSE "returned"]
    /\ UNCHANGED <<states, waiters, pc, arg, walk, host, built, aggregates>>

SpuriousWakeup(g) ==
    /\ get[g] = "asleep"
    /\ get' = [get EXCEPT ![g] = "check"]
    /\ UNCHANGED <<states, waiters, pc, arg, walk, host, built, aggregates>>

\* Mutant: a timeout is a failure even if the result came in meanwhile.
TimeoutFails(g) ==
    /\ g \in Timed
    /\ get[g] = "asleep"
    /\ get' = [get EXCEPT ![g] = "timedout"]
    /\ UNCHANGED <<states, waiters, pc, arg, walk, host, built, aggregates>>

\* wait_for gives up, but looks at the predicate once more.
Timeout(g) ==
    /\ g \in Timed
    /\ get[g] = "asleep"
    /\ get' = [get EXCEPT ![g] = IF result[GetsFrom(g)] = None THEN "timedout" ELSE "returned"]
    /\ UNCHANGED <<states, waiters, pc, arg, walk, host, built, aggregates>>

-----------------------------------------------------------------------------
Step(a) ==
    \/ a \in Source /\ Produce(a)
    \/ Publish(a) \/ SetDone(a) \/ NotifyAll(a)
    \/ \E c \in Continuation : ResumeWaiter(a, c)
    \/ /\ a \in Continuation
       /\ \/ Await(a) \/ RunThen(a) \/ RunThenAsync(a) \/ AwaitNext(a)
          \/ FinishThenAsync(a) \/ RunOnError(a) \/ RunWhenComplete(a)
          \/ RunAllOf(a) \/ RunAnyOf(a) \/ AssignFirstError(a) \/ CountFailed(a)

\* Everything has ended; the continuations that are not part of the network never were.
Quiet ==
    /\ \A a \in Actor : a \in Source \/ Planned(a) => pc[a] = "done"
    /\ \A g \in Getter : get[g] \in {"returned", "timedout"}
    /\ UNCHANGED vars

Next ==
    \/ Attach
    \/ \E a \in Actor : Step(a)
    \/ \E g \in Getter : CheckResolved(g) \/ SpuriousWakeup(g) \/ Timeout(g)
    \/ Quiet

\* Threads are scheduled, producers end, the client builds what it plans to; a
\* timeout is owed to nobody.  The actors take finitely many steps in all, so it
\* is enough that one of those that can move does.
Fairness ==
    /\ WF_vars(Attach \/ \E a \in Actor : Step(a))
    /\ \A g \in Getter : WF_vars(CheckResolved(g))

Spec == Init /\ [][Next]_vars
FairSpec == Spec /\ Fairness

-----------------------------------------------------------------------------
(***************************************************************************)
(* Properties.                                                             *)
(***************************************************************************)

\* A future is resolved once: of several continuations that resolve it (AllOf
\* has one per input) the first wins and no result is ever replaced.
ResolvedOnce ==
    [][\A f \in AFuture : result[f] # None => result'[f] = result[f]]_vars

Failed(f) == result[f] # None /\ ~result[f].ok
Succeeded(f) == result[f] # None /\ result[f].ok

\* AllOf: a value only when every input has one and every slot has been filled
\* with it; an error is that of an input that failed.
AllOfCorrect ==
    \A f \in Derived : KindOf(f) = "AllOf" =>
        /\ Succeeded(f) => \A i \in DOMAIN Inputs(f) :
              Succeeded(Inputs(f)[i]) /\ slots[f][i] = result[Inputs(f)[i]]
        /\ Failed(f) => \E x \in InputsOf(f) : Failed(x) /\ result[x] = result[f]

\* AnyOf: a value is that of the input that won; an error only when every
\* input failed, and it is one of theirs although first_error is shared.
AnyOfCorrect ==
    \A f \in Derived : KindOf(f) = "AnyOf" =>
        /\ Succeeded(f) => \E x \in InputsOf(f) : Succeeded(x) /\ result[x] = result[f]
        /\ Failed(f) => /\ \A x \in InputsOf(f) : Failed(x)
                        /\ \E x \in InputsOf(f) : result[x] = result[f]

\* A blocked Get() is not forgotten although notify_all comes last: it sleeps on
\* a resolved future only while the resolver has yet to notify, and a
\* continuation is suspended on a future only until its done event is set.
NoForgottenWaiter ==
    /\ \A g \in Getter : get[g] = "asleep" /\ result[GetsFrom(g)] # None =>
          \E a \in Actor : Target(a) = GetsFrom(g) /\ pc[a] \in {"set", "walk"}
    /\ \A f \in AFuture : done[f] => waiters[f] = {} /\ result[f] # None

\* Get(timeout) reports a timeout only if the result was not there at that
\* moment, however late the notification is.
TimeoutMeansUnresolved ==
    [][\A g \in Getter : get'[g] = "timedout" /\ get[g] # "timedout" =>
          result[GetsFrom(g)] = None]_vars

\* Every future is resolved and every Get() without a timeout returns.
EverythingResolves ==
    /\ \A f \in AFuture : <>(result[f] # None)
    /\ \A g \in Getter \ Timed : <>(get[g] = "returned")

\* future.h: "First future to complete (success or failure) wins".  The code
\* lets the first success win and an error only when all inputs failed.
FirstCompletionWins ==
    \A f \in Derived : \A x \in Source :
        (/\ KindOf(f) = "AnyOf" /\ x \in InputsOf(f) /\ Failed(x)
         /\ \A y \in InputsOf(f) \ {x} : result[y] = None)
        ~> Failed(f)
=============================================================================
