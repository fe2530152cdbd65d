---------------------------- MODULE FutureProofs -----------------------------
(***************************************************************************)
(* Proofs about Future, for every network of futures and any number of     *)
(* producers and getters: each future is resolved once and with the right   *)
(* result, and no waiter is forgotten.  First the inductive invariant and   *)
(* the steps which do not touch the shared state of AllOf and AnyOf, then   *)
(* those that do.                                                          *)
(***************************************************************************)
EXTENDS Future, FiniteSetTheorems, TLAPS

USE DEF Inputs, KindOf, GetsFrom, Input, Count

-----------------------------------------------------------------------------
(***************************************************************************)
(* The inductive invariant.                                                *)
(***************************************************************************)
\* What is not about the shared state of an aggregate.
TypeCore ==
    /\ result \in [AFuture -> Result \cup {None}]
    /\ done \in [AFuture -> BOOLEAN]
    /\ waiters \in [AFuture -> SUBSET Continuation]
    /\ pc \in [Actor -> {"new", "await", "suspended", "react", "await2", "suspended2",
                         "react2", "assign", "count", "resolve", "set", "walk", "done"}]
    /\ arg \in [Actor -> Result \cup {None}]
    /\ \A a \in Actor : pc[a] = "resolve" => arg[a] \in Result
    /\ walk \in [Actor -> SUBSET Continuation]
    /\ host \in [Actor -> Actor \cup {Client, Pool, None}]
    /\ shape \in Shapes /\ built \in 0..Len(shape.plan)
    /\ get \in [Getter -> {"check", "asleep", "returned", "timedout"}]

TypeAggregates ==
    /\ slots = [f \in Derived |-> slots[f]]
    /\ \A f \in Derived : slots[f] \in [1..Count(f) -> Result \cup {None}]
    /\ remaining = [f \in Derived |-> remaining[f]]
    /\ failed = [f \in Derived |-> failed[f]]
    /\ winner \in [Derived -> BOOLEAN]
    /\ firstError \in [Derived -> Result \cup {None}]

\* Only the continuations that the client has started have taken steps.
Started ==
    \A c \in Continuation : pc[c] # "new" => \E i \in 1..built : shape.plan[i] = c

\* c is suspended, and the future it awaits is f.
Parked(c, f) ==
    \/ pc[c] = "suspended" /\ f = Input(c)
    \/ pc[c] = "suspended2" /\ f = Inputs(c[1])[2]

\* Waiters are parked on what will wake them; one actor completes a future.
Events ==
    /\ \A f \in AFuture : \A c \in waiters[f] : Parked(c, f)
    /\ \A a \in Actor : \A c \in walk[a] : Parked(c, Target(a)) /\ pc[a] = "walk"
    /\ \A a \in Actor : pc[a] \in {"set", "walk"} => result[Target(a)] # None
    /\ \A a \in Actor : pc[a] = "walk" => done[Target(a)]
    /\ \A f \in AFuture : done[f] => waiters[f] = {} /\ result[f] # None
    /\ \A a, b \in Actor : pc[a] \in {"set", "walk"} /\ pc[b] \in {"set", "walk"}
                           /\ Target(a) = Target(b) => a = b

\* A getter sleeps on a resolved future only while its resolver is to notify.
Sleepers ==
    \A g \in Getter : get[g] = "asleep" /\ result[GetsFrom(g)] # None =>
        \E a \in Actor : Target(a) = GetsFrom(g) /\ pc[a] \in {"set", "walk"}

\* A continuation that has been resumed finds the result it awaited.
Ready(c) ==
    /\ pc[c] \notin {"new", "await", "suspended"} => result[Input(c)] # None
    /\ pc[c] \in {"assign", "count"} => KindOf(c[1]) = "AnyOf" /\ ~ result[Input(c)].ok
    /\ pc[c] \in {"await2", "suspended2", "react2"} => KindOf(c[1]) = "ThenAsync"
    /\ pc[c] = "react2" => result[Inputs(c[1])[2]] # None

\* r is a result that f may be resolved with, given the inputs' results.
Due(sh, sl, res, f, r) ==
    /\ f \in Derived /\ sh.kind[f] = "AllOf" =>
          /\ r.ok => \A i \in 1..Len(sh.inputs[f]) : sl[f][i] # None
          /\ ~ r.ok => \E i \in 1..Len(sh.inputs[f]) : res[sh.inputs[f][i]] = r
    /\ f \in Derived /\ sh.kind[f] = "AnyOf" =>
          /\ \E i \in 1..Len(sh.inputs[f]) : res[sh.inputs[f][i]] = r
          /\ ~ r.ok => \A i \in 1..Len(sh.inputs[f]) :
                res[sh.inputs[f][i]] # None /\ ~ res[sh.inputs[f][i]].ok

Justified ==
    /\ \A a \in Actor : pc[a] = "resolve" => Due(shape, slots, result, Target(a), arg[a])
    /\ \A f \in AFuture : result[f] # None => Due(shape, slots, result, f, result[f])

\* The shared state of an aggregate: `remaining` counts the slots to fill and
\* `failed` the continuations that have counted an error.
Early == {"new", "await", "suspended", "react"}
Late == {"resolve", "set", "walk", "done"}
Unfilled(f) == {i \in 1..Count(f) : slots[f][i] = None}
Counted(f) == {i \in 1..Count(f) : pc[<<f, i>>] \in Late /\ ~ result[Inputs(f)[i]].ok}

Aggregate(f) ==
    /\ remaining[f] = Cardinality(Unfilled(f))
    /\ \A i \in 1..Count(f) : slots[f][i] # None =>
          slots[f][i] = result[Inputs(f)[i]] /\ slots[f][i].ok
    /\ \A i \in 1..Count(f) : pc[<<f, i>>] \in Early => slots[f][i] = None
    /\ KindOf(f) # "AnyOf" => failed[f] = 0
    /\ KindOf(f) = "AnyOf" => failed[f] = Cardinality(Counted(f))
    /\ firstError[f] # None => ~ firstError[f].ok
                               /\ \E i \in 1..Count(f) : firstError[f] = result[Inputs(f)[i]]
    /\ ~ winner[f] => \A i \in 1..Count(f) : pc[<<f, i>>] = "count" => firstError[f] # None

IInv ==
    /\ TypeCore
    /\ TypeAggregates
    /\ Started
    /\ Events
    /\ Sleepers
    /\ \A c \in Continuation : Ready(c)
    /\ Justified
    /\ \A f \in Derived : Aggregate(f)

-----------------------------------------------------------------------------
(***************************************************************************)
(* Facts about the network.                                                *)
(***************************************************************************)
\* What ShapesAreNetworks says of the inputs of one derived future.
LEMMA ShapeFacts ==
    ASSUME TypeCore, NEW f \in Derived
    PROVE  /\ Inputs(f) \in Seq(AFuture) /\ Count(f) \in Nat /\ Count(f) <= MaxInputs
           /\ DOMAIN Inputs(f) = 1..Count(f)
           /\ \A i \in 1..Count(f) : Inputs(f)[i] \in AFuture /\ <<f, i>> \in Continuation
           /\ KindOf(f) = "ThenAsync" => Count(f) = 2
<1>1. shape \in Shapes
  BY Zenon DEF TypeCore
<1>2. Inputs(f) \in Seq(AFuture) /\ Count(f) <= MaxInputs /\ (KindOf(f) = "ThenAsync" => Count(f) = 2)
  BY <1>1, ShapesAreNetworks, Zenon
<1>3. Count(f) \in Nat /\ DOMAIN Inputs(f) = 1..Count(f)
  BY <1>2
<1>4. \A i \in 1..Count(f) : Inputs(f)[i] \in AFuture
  BY <1>2, <1>3
<1>5. \A i \in 1..Count(f) : <<f, i>> \in Continuation
  BY <1>2, <1>3, FuturesDiffer DEF Continuation
<1>6. QED
  BY <1>2, <1>3, <1>4, <1>5, Zenon

\* Continuations and sources are different actors.
LEMMA ActorFacts ==
    /\ \A c \in Continuation : /\ c \in Actor /\ c \notin Source /\ c[1] \in Derived
                               /\ c = <<c[1], c[2]>> /\ Target(c) = c[1]
    /\ \A s \in Source : s \in Actor /\ s \notin Continuation /\ s \notin Derived /\ Target(s) = s
    /\ \A a \in Actor : Target(a) \in AFuture
  BY FuturesDiffer DEF Actor, Continuation, Target, AFuture

\* A continuation of the network awaits an input of its future.
LEMMA StartedFacts ==
    ASSUME TypeCore, Started, NEW c \in Continuation, pc[c] # "new"
    PROVE  /\ c[2] \in 1..Count(c[1])
           /\ Input(c) \in AFuture
           /\ KindOf(c[1]) = "ThenAsync" => Inputs(c[1])[2] \in AFuture
<1>1. c[1] \in Derived
  BY ActorFacts, Zenon
<1>2. PICK i \in 1..built : shape.plan[i] = c
  BY Zenon DEF Started
<1>3. shape \in Shapes /\ built \in 0..Len(shape.plan)
  BY Zenon DEF TypeCore
<1>4. shape.plan \in Seq(Continuation)
  BY <1>3, ShapesAreNetworks, Zenon
<1>5. i \in DOMAIN shape.plan
  BY <1>2, <1>3, <1>4
<1>6. c[2] <= Count(c[1])
  BY <1>2, <1>3, <1>5, ShapesAreNetworks, Zenon
<1>7. c[2] \in Nat /\ c[2] >= 1
  BY FuturesDiffer DEF Continuation
<1>8. c[2] \in 1..Count(c[1])
  BY <1>1, <1>6, <1>7, ShapeFacts
<1>9. QED
  BY <1>1, <1>8, ShapeFacts

\* A due result stays due while results and slots are only added.
LEMMA DueKept ==
    ASSUME NEW sh, NEW sl, NEW sm, NEW res, NEW rep, NEW f, NEW r,
           f \in Derived => \A i \in 1..Len(sh.inputs[f]) :
              /\ sl[f][i] # None => sm[f][i] # None
              /\ res[sh.inputs[f][i]] # None => rep[sh.inputs[f][i]] = res[sh.inputs[f][i]],
           r # None, Due(sh, sl, res, f, r)
    PROVE  Due(sh, sm, rep, f, r)
<1>1. CASE f \in Derived /\ sh.kind[f] = "AllOf"
  BY <1>1, Zenon DEF Due
<1>2. CASE f \in Derived /\ sh.kind[f] = "AnyOf"
  BY <1>2, Zenon DEF Due
<1>3. QED
  BY <1>1, <1>2, Zenon DEF Due

\* ... in particular when one more future is resolved.
LEMMA DueGrows ==
    ASSUME NEW sh, NEW sl, NEW res, NEW rep, NEW f, NEW r, r # None,
           f \in Derived => \A i \in 1..Len(sh.inputs[f]) : sh.inputs[f][i] \in AFuture,
           \A x \in AFuture : res[x] # None => rep[x] = res[x],
           Due(sh, sl, res, f, r)
    PROVE  Due(sh, sl, rep, f, r)
  BY DueKept, Zenon

-----------------------------------------------------------------------------
(***************************************************************************)
(* What a step leaves alone.                                               *)
(***************************************************************************)
\* Nothing happens to an aggregate when none of its continuations takes a step
\* that matters, and results are only added.
LEMMA AggregateKept ==
    ASSUME IInv, NEW f \in Derived, shape' = shape,
           slots'[f] = slots[f], remaining'[f] = remaining[f], winner'[f] = winner[f],
           failed'[f] = failed[f], firstError'[f] = firstError[f],
           \A x \in AFuture : result[x] # None => result'[x] = result[x],
           \A i \in 1..Count(f) :
              /\ pc'[<<f, i>>] \in Early => pc[<<f, i>>] \in Early
              /\ pc'[<<f, i>>] = "count" => pc[<<f, i>>] = "count"
              /\ \/ KindOf(f) # "AnyOf"
                 \/ pc'[<<f, i>>] \in Late <=> pc[<<f, i>>] \in Late
                 \/ /\ pc[<<f, i>>] \notin Late
                    /\ result[Inputs(f)[i]] # None /\ result[Inputs(f)[i]].ok
    PROVE  Aggregate(f)'
<1>1. TypeCore /\ Aggregate(f) /\ TypeAggregates
  BY Zenon DEF IInv
<1>2. \A i \in 1..Count(f) : Inputs(f)[i] \in AFuture /\ <<f, i>> \in Continuation
  BY <1>1, ShapeFacts, Zenon
<1>3. \A i \in 1..Count(f) : slots[f][i] # None => result'[Inputs(f)[i]] = result[Inputs(f)[i]]
  <2>1. \A i \in 1..Count(f) : slots[f][i] \in Result \cup {None}
    BY <1>1, Zenon DEF TypeAggregates
  <2>2. QED
    BY <1>1, <1>2, <2>1, ZenonT(30) DEF Aggregate
<1>4. remaining'[f] = Cardinality(Unfilled(f)')
  <2>1. Unfilled(f)' = Unfilled(f)
    BY Zenon DEF Unfilled
  <2>2. QED
    BY <1>1, <2>1, Zenon DEF Aggregate
<1>5. KindOf(f) = "AnyOf" => failed'[f] = Cardinality(Counted(f)')
  <2> SUFFICES ASSUME KindOf(f) = "AnyOf" PROVE failed'[f] = Cardinality(Counted(f)')
    BY Zenon
  <2>1. ASSUME NEW i \in 1..Count(f), pc[<<f, i>>] \in Late
        PROVE  result'[Inputs(f)[i]] = result[Inputs(f)[i]]
    <3>1. Ready(<<f, i>>)
      BY <1>2, Zenon DEF IInv
    <3>2. result[Inputs(f)[i]] # None
      BY <2>1, <3>1, Zenon DEF Ready, Late
    <3>3. QED
      BY <1>2, <3>2, Zenon
  <2>2. Counted(f)' = Counted(f)
    BY <1>2, <2>1, Zenon DEF Counted
  <2>3. QED
    BY <1>1, <2>2, Zenon DEF Aggregate
<1>6. firstError'[f] # None => ~ firstError'[f].ok
          /\ \E i \in 1..Count(f) : firstError'[f] = result'[Inputs(f)[i]]
  BY <1>1, <1>2, ZenonT(30) DEF Aggregate
<1>7. QED
  BY <1>1, <1>3, <1>4, <1>5, <1>6 DEF Aggregate

\* Continuation c has what it takes to be at y.
Fits(c, y) ==
    /\ result[Input(c)] # None
    /\ y \in {"assign", "count"} => KindOf(c[1]) = "AnyOf" /\ ~ result[Input(c)].ok
    /\ y \in {"await2", "react2"} => KindOf(c[1]) = "ThenAsync"
    /\ y = "react2" => result[Inputs(c[1])[2]] # None

\* A step of one actor that neither suspends nor completes a future.
LEMMA LocalStep ==
    ASSUME IInv, NEW a \in Actor, NEW y,
           pc[a] \notin {"suspended", "suspended2", "set", "walk"},
           pc[a] = "new" => a \in Source,
           y \in {"react", "await2", "react2", "assign", "count", "resolve", "done"},
           pc' = [pc EXCEPT ![a] = y],
           arg' \in [Actor -> Result \cup {None}],
           \A b \in Actor : b # a => arg'[b] = arg[b],
           host' \in [Actor -> Actor \cup {Client, Pool, None}],
           UNCHANGED <<shape, result, done, waiters, walk, built, get>>,
           \A f \in Derived : \A i \in 1..Count(f) : slots[f][i] # None => slots'[f][i] # None,
           y = "resolve" => arg'[a] \in Result
                            /\ Due(shape, slots', result, Target(a), arg'[a]),
           a \in Continuation => Fits(a, y)
    PROVE  /\ TypeCore' /\ Started' /\ Events' /\ Sleepers'
           /\ (\A c \in Continuation : Ready(c)') /\ Justified'
<1>1. TypeCore /\ Started /\ Events /\ Sleepers /\ Justified
  BY Zenon DEF IInv
<1>2. pc'[a] = y /\ \A b \in Actor : b # a => pc'[b] = pc[b]
  BY <1>1 DEF TypeCore
<1>3. TypeCore'
  <2>1. pc' \in [Actor -> {"new", "await", "suspended", "react", "await2", "suspended2",
                           "react2", "assign", "count", "resolve", "set", "walk", "done"}]
    BY <1>1, SMTT(30) DEF TypeCore
  <2>2. \A b \in Actor : pc'[b] = "resolve" => arg'[b] \in Result
    BY <1>1, <1>2, SMTT(30) DEF TypeCore
  <2>3. QED
    BY <1>1, <2>1, <2>2, SMTT(30) DEF TypeCore
<1>4. Started'
  BY <1>1, <1>2, ActorFacts, ZenonT(60) DEF Started
<1>5. Events'
  <2>1. \A c \in Continuation : \A f \in AFuture : Parked(c, f) => c # a
    BY SMTT(30) DEF Parked
  <2>2. \A c \in Continuation : \A f \in AFuture : Parked(c, f) => Parked(c, f)'
    BY <1>2, <2>1, ActorFacts, Zenon DEF Parked
  <2>3. \A b \in Actor : pc'[b] \in {"set", "walk"} => pc'[b] = pc[b]
    BY <1>2
  <2>4. \A b \in Actor : pc[b] = "walk" => pc'[b] = "walk"
    BY <1>2, SMTT(30)
  <2>5. (\A f \in AFuture : waiters[f] \in SUBSET Continuation)
        /\ \A b \in Actor : walk[b] \in SUBSET Continuation
    BY <1>1, SMTT(30) DEF TypeCore
  <2>6. (\A f \in AFuture : \A c \in waiters[f] : Parked(c, f)')
        /\ \A b \in Actor : \A c \in walk[b] : Parked(c, Target(b))' /\ pc'[b] = "walk"
    BY <1>1, <2>2, <2>4, <2>5, ActorFacts, Zenon DEF Events
  <2>7. QED
    BY <1>1, <2>3, <2>6, ZenonT(60) DEF Events
<1>6. Sleepers'
  BY <1>1, <1>2 DEF Sleepers
<1>7. ASSUME NEW c \in Continuation PROVE Ready(c)'
  <2>1. Ready(c)
    BY ZenonT(60) DEF IInv
  <2>2. CASE c = a
    BY <1>2, <2>2, ZenonT(60) DEF Ready, Fits
  <2>3. CASE c # a
    BY <1>2, <2>1, <2>3, ActorFacts, ZenonT(60) DEF Ready
  <2>4. QED
    BY <2>2, <2>3, Zenon
<1>8. Justified'
  <2>1. ASSUME NEW b \in Actor, pc'[b] = "resolve"
        PROVE  Due(shape, slots', result, Target(b), arg'[b])
    <3>1. CASE b = a
      BY <1>2, <2>1, <3>1, ZenonT(60)
    <3>2. CASE b # a
      <4>1. pc[b] = "resolve" /\ arg'[b] = arg[b] /\ arg[b] # None
        BY <1>1, <1>2, <2>1, <3>2, FuturesDiffer, ZenonT(60) DEF TypeCore, Result
      <4>2. Due(shape, slots, result, Target(b), arg[b])
        BY <1>1, <4>1, SMTT(30) DEF Justified
      <4>3. QED
        BY <4>1, <4>2, DueKept, ZenonT(60)
    <3>3. QED
      BY <3>1, <3>2, SMTT(30)
  <2>2. ASSUME NEW f \in AFuture, result[f] # None
        PROVE  Due(shape, slots', result, f, result[f])
    <3>1. Due(shape, slots, result, f, result[f])
      BY <1>1, <2>2 DEF Justified
    <3> DEFINE r == result[f]
    <3>2. r # None /\ Due(shape, slots, result, f, r)
      BY <2>2, <3>1, ZenonT(60)
    <3> HIDE DEF r
    <3>3. Due(shape, slots', result, f, r)
      BY <3>2, DueKept, Zenon
    <3>4. QED
      BY <3>3, SMTT(30) DEF r
  <2>3. QED
    BY <2>1, <2>2, SMTT(30) DEF Justified
<1>9. QED
  BY <1>3, <1>4, <1>5, <1>6, <1>7, <1>8, Zenon

\* A local step that is not one of AllOf's or AnyOf's bookkeeping.
LEMMA PlainStep ==
    ASSUME IInv, NEW a \in Actor, NEW y,
           pc[a] \notin {"suspended", "suspended2", "set", "walk"},
           pc[a] = "new" => a \in Source,
           y \in {"react", "await2", "react2", "resolve", "done"},
           y = "react" => pc[a] = "await",
           pc' = [pc EXCEPT ![a] = y],
           arg' \in [Actor -> Result \cup {None}],
           \A b \in Actor : b # a => arg'[b] = arg[b],
           host' \in [Actor -> Actor \cup {Client, Pool, None}],
           UNCHANGED <<shape, result, done, waiters, walk, built, get, aggregates>>,
           y = "resolve" => arg'[a] \in Result /\ Due(shape, slots, result, Target(a), arg'[a]),
           a \in Continuation =>
              /\ result[Input(a)] # None
              /\ KindOf(a[1]) # "AnyOf" \/ (y \in Late <=> pc[a] \in Late)
              /\ y \in {"await2", "react2"} => KindOf(a[1]) = "ThenAsync"
              /\ y = "react2" => result[Inputs(a[1])[2]] # None
    PROVE  IInv'
<1> USE DEF aggregates
<1>1. /\ TypeCore' /\ Started' /\ Events' /\ Sleepers'
      /\ (\A c \in Continuation : Ready(c)') /\ Justified'
  <2>1. a \in Continuation => Fits(a, y)
    BY Zenon DEF Fits
  <2>2. QED
    BY <2>1, LocalStep, Zenon
<1>2. TypeCore /\ pc'[a] = y /\ \A b \in Actor : b # a => pc'[b] = pc[b]
  BY Zenon DEF IInv, TypeCore
<1>3. TypeAggregates'
  BY Zenon DEF IInv, TypeAggregates
<1>4. ASSUME NEW f \in Derived PROVE Aggregate(f)'
  <2>1. \A i \in 1..Count(f) : <<f, i>> \in Continuation /\ <<f, i>> \in Actor
    BY <1>2, ShapeFacts, ActorFacts, SMTT(30)
  <2>2. \A i \in 1..Count(f) : <<f, i>>[1] = f
    BY Zenon
  <2>3. ASSUME NEW i \in 1..Count(f)
        PROVE  /\ pc'[<<f, i>>] \in Early => pc[<<f, i>>] \in Early
               /\ pc'[<<f, i>>] = "count" => pc[<<f, i>>] = "count"
               /\ KindOf(f) # "AnyOf" \/ (pc'[<<f, i>>] \in Late <=> pc[<<f, i>>] \in Late)
    <3>1. CASE <<f, i>> = a
      BY <1>2, <2>1, <2>2, <3>1, SMTT(30) DEF Early
    <3>2. CASE <<f, i>> # a
      BY <1>2, <2>1, <3>2, SMTT(30)
    <3>3. QED
      BY <3>1, <3>2, Zenon
  <2>4. QED
    BY <2>3, AggregateKept, ZenonT(60)
<1>5. QED
  BY <1>1, <1>3, <1>4, SMTT(30) DEF IInv

-----------------------------------------------------------------------------
(***************************************************************************)
(* Producers, getters, and the continuations that resolve at once.         *)
(***************************************************************************)
LEMMA ProduceInv ==
    ASSUME IInv, NEW s \in Source, Produce(s)
    PROVE  IInv'
<1>1. PICK r \in {Value(s), Error(s)} : arg' = [arg EXCEPT ![s] = r]
  BY Zenon DEF Produce
<1>2. s \in Actor /\ s \notin Continuation /\ s \notin Derived /\ Target(s) = s /\ r \in Result
  <2>1. Value(s) \in Result /\ Error(s) \in Result
    BY Zenon DEF Value, Error, Result, AFuture
  <2>2. QED
    BY <2>1, ActorFacts, Zenon
<1>3. arg' \in [Actor -> Result \cup {None}] /\ arg'[s] = r
      /\ \A b \in Actor : b # s => arg'[b] = arg[b]
  BY <1>1, <1>2, Zenon DEF IInv, TypeCore
<1>4. host' \in [Actor -> Actor \cup {Client, Pool, None}]
  BY ZenonT(30) DEF Produce, IInv, TypeCore
<1>5. Due(shape, slots, result, Target(s), arg'[s])
  BY <1>2, Zenon DEF Due
<1>6. UNCHANGED <<shape, result, done, waiters, walk, built, get, aggregates>>
      /\ pc[s] = "new" /\ pc' = [pc EXCEPT ![s] = "resolve"]
  BY Zenon DEF Produce, states
<1>7. QED
  BY <1>2, <1>3, <1>4, <1>5, <1>6, PlainStep, Zenon

\* What leaves the futures and the program counters alone disturbs no event.
LEMMA EventsKept ==
    ASSUME Events, UNCHANGED <<shape, result, done, waiters, pc, walk>>
    PROVE  Events'
<1>1. shape' = shape /\ result' = result /\ done' = done /\ waiters' = waiters /\ pc' = pc /\ walk' = walk
  BY Zenon
<1>2. \A c, f : Parked(c, f)' <=> Parked(c, f)
  BY <1>1, Zenon DEF Parked, Input, Inputs
<1> HIDE DEF Parked
<1>3. /\ \A f \in AFuture : \A c \in waiters'[f] : Parked(c, f)'
      /\ \A a \in Actor : \A c \in walk'[a] : Parked(c, Target(a))' /\ pc'[a] = "walk"
  <2>1. /\ \A f \in AFuture : \A c \in waiters[f] : Parked(c, f)
        /\ \A a \in Actor : \A c \in walk[a] : Parked(c, Target(a)) /\ pc[a] = "walk"
    BY Zenon DEF Events
  <2>2. QED
    BY <1>1, <1>2, <2>1, Zenon
<1>4. /\ \A a \in Actor : pc'[a] \in {"set", "walk"} => result'[Target(a)] # None
      /\ \A a \in Actor : pc'[a] = "walk" => done'[Target(a)]
      /\ \A f \in AFuture : done'[f] => waiters'[f] = {} /\ result'[f] # None
      /\ \A a, b \in Actor : pc'[a] \in {"set", "walk"} /\ pc'[b] \in {"set", "walk"}
                             /\ Target(a) = Target(b) => a = b
  <2>1. /\ \A a \in Actor : pc[a] \in {"set", "walk"} => result[Target(a)] # None
        /\ \A a \in Actor : pc[a] = "walk" => done[Target(a)]
        /\ \A f \in AFuture : done[f] => waiters[f] = {} /\ result[f] # None
        /\ \A a, b \in Actor : pc[a] \in {"set", "walk"} /\ pc[b] \in {"set", "walk"}
                               /\ Target(a) = Target(b) => a = b
    BY Zenon DEF Events
  <2>2. QED
    BY <1>1, <2>1, Zenon
<1>5. QED
  BY <1>3, <1>4, Zenon DEF Events

\* A step of a getter: it only goes to sleep on an unresolved future.
LEMMA GetterStep ==
    ASSUME IInv, NEW g \in Getter, NEW y \in {"check", "asleep", "returned", "timedout"},
           get' = [get EXCEPT ![g] = y], y = "asleep" => result[GetsFrom(g)] = None,
           UNCHANGED <<shape, result, done, waiters, pc, arg, walk, host, built, aggregates>>
    PROVE  IInv'
<1> USE DEF aggregates
<1>1. TypeCore'
  BY Zenon DEF IInv, TypeCore
<1>2. Sleepers'
  BY DEF IInv, TypeCore, Sleepers
<1>3. TypeAggregates' /\ Started' /\ Events'
  <2>1. TypeAggregates' /\ Started'
    BY ZenonT(60) DEF IInv, TypeAggregates, Started
  <2>2. Events'
    BY EventsKept, Zenon DEF IInv
  <2>3. QED
    BY <2>1, <2>2, Zenon
<1>4. (\A c \in Continuation : Ready(c)') /\ Justified'
  BY SMTT(30) DEF IInv, Ready, Justified
<1>5. \A f \in Derived : Aggregate(f)'
  BY AggregateKept, Zenon
<1>6. QED
  BY <1>1, <1>2, <1>3, <1>4, <1>5, Zenon DEF IInv

\* A thread in Get or GetFor starts, sleeps, times out or returns: no future changes.
LEMMA GetterInv ==
    ASSUME IInv, NEW g \in Getter, CheckResolved(g) \/ SpuriousWakeup(g) \/ Timeout(g)
    PROVE  IInv'
<1> USE DEF states
<1>1. CASE CheckResolved(g)
  BY <1>1, GetterStep, Zenon DEF CheckResolved
<1>2. CASE SpuriousWakeup(g)
  BY <1>2, GetterStep, Zenon DEF SpuriousWakeup
<1>3. CASE Timeout(g)
  BY <1>3, GetterStep, Zenon DEF Timeout
<1>4. QED
  BY <1>1, <1>2, <1>3, SMTT(30)

\* What holds of a continuation that may take a step.
LEMMA AtFacts ==
    ASSUME IInv, NEW c \in Continuation, pc[c] # "new"
    PROVE  /\ c \in Actor /\ c[1] \in Derived /\ c = <<c[1], c[2]>> /\ Target(c) = c[1]
           /\ c[2] \in 1..Count(c[1]) /\ Input(c) \in AFuture /\ Ready(c)
           /\ result[Input(c)] \in Result \cup {None}
           /\ KindOf(c[1]) = "ThenAsync" => Inputs(c[1])[2] \in AFuture
<1>1. TypeCore /\ Started /\ Ready(c)
  BY Zenon DEF IInv
<1>2. c[2] \in 1..Count(c[1]) /\ Input(c) \in AFuture
      /\ (KindOf(c[1]) = "ThenAsync" => Inputs(c[1])[2] \in AFuture)
  BY <1>1, StartedFacts, Zenon
<1>3. result[Input(c)] \in Result \cup {None}
  BY <1>1, <1>2, Zenon DEF TypeCore
<1>4. QED
  BY <1>1, <1>2, <1>3, ActorFacts, Zenon

\* A continuation of a combinator with one input resolves its future.
LEMMA SingleResolves ==
    ASSUME IInv, NEW c \in Continuation, pc[c] \in {"react", "react2"},
           KindOf(c[1]) \notin {"AllOf", "AnyOf"}, NEW r \in Result, ResolveWith(c, r),
           UNCHANGED <<states, waiters, walk, built, aggregates, get>>
    PROVE  IInv'
<1>1. c \in Actor /\ c[1] \in Derived /\ Target(c) = c[1] /\ result[Input(c)] # None
  BY AtFacts, Zenon DEF Ready
<1>2. arg' = [arg EXCEPT ![c] = r] /\ pc' = [pc EXCEPT ![c] = "resolve"] /\ host' = host
  BY Zenon DEF ResolveWith, Goto
<1>3. arg' \in [Actor -> Result \cup {None}] /\ arg'[c] = r
      /\ \A b \in Actor : b # c => arg'[b] = arg[b]
  BY <1>1, <1>2, Zenon DEF IInv, TypeCore
<1>4. host' \in [Actor -> Actor \cup {Client, Pool, None}]
  BY <1>2, SMTT(30) DEF IInv, TypeCore
<1>5. Due(shape, slots, result, Target(c), arg'[c])
  BY <1>1, Zenon DEF Due
<1>6. UNCHANGED <<shape, result, done, waiters, walk, built, get, aggregates>>
  BY Zenon DEF states
<1>7. QED
  BY <1>1, <1>2, <1>3, <1>4, <1>5, <1>6, PlainStep, ZenonT(30)

\* The functions passed to a combinator make values or errors.
LEMMA AppliedFacts ==
    ASSUME NEW f \in Derived
    PROVE  Value(f) \in Result /\ Error(f) \in Result
  BY Zenon DEF Value, Error, Result, AFuture

\* The continuation of Then runs the function and resolves its future.
LEMMA RunThenInv ==
    ASSUME IInv, NEW c \in Continuation, RunThen(c) \/ RunOnError(c) \/ RunWhenComplete(c)
    PROVE  IInv'
<1>1. pc[c] = "react" /\ KindOf(c[1]) \in {"Then", "OnError", "WhenComplete"}
      /\ UNCHANGED <<states, waiters, walk, built, aggregates, get>>
  BY ZenonT(30) DEF RunThen, RunOnError, RunWhenComplete, At
<1>2. c[1] \in Derived /\ result[Input(c)] \in Result
  BY <1>1, AtFacts, SMTT(30) DEF Ready
<1>3. \E r \in {result[Input(c)], Value(c[1]), Error(c[1])} : ResolveWith(c, r)
  BY Zenon DEF RunThen, RunOnError, RunWhenComplete, Applied
<1>4. \E r \in Result : ResolveWith(c, r)
  BY <1>2, <1>3, AppliedFacts, Zenon
<1>5. QED
  BY <1>1, <1>4, SingleResolves, SMTT(30)

\* The continuation of ThenAsync passes an error on, or calls the function,
\* which throws or returns a future.
LEMMA RunThenAsyncInv ==
    ASSUME IInv, NEW c \in Continuation, RunThenAsync(c)
    PROVE  IInv'
<1>1. pc[c] = "react" /\ KindOf(c[1]) = "ThenAsync"
      /\ UNCHANGED <<states, waiters, walk, built, aggregates, get>>
  BY ZenonT(60) DEF RunThenAsync, At
<1>2. c \in Actor /\ c[1] \in Derived /\ result[Input(c)] \in Result /\ result[Input(c)] # None
  BY <1>1, AtFacts, SMTT(30) DEF Ready
<1>3. CASE \E r \in {result[Input(c)], Error(c[1])} : ResolveWith(c, r)
  <2>1. \E r \in Result : ResolveWith(c, r)
    BY <1>2, <1>3, AppliedFacts, SMTT(30)
  <2>2. QED
    BY <1>1, <2>1, SingleResolves, ZenonT(60)
<1>4. CASE Goto(c, "await2") /\ UNCHANGED arg
  <2>1. arg' \in [Actor -> Result \cup {None}] /\ host' \in [Actor -> Actor \cup {Client, Pool, None}]
    BY <1>4, Zenon DEF Goto, IInv, TypeCore
  <2>2. pc' = [pc EXCEPT ![c] = "await2"]
        /\ UNCHANGED <<shape, result, done, waiters, walk, built, get, aggregates>>
    BY <1>1, <1>4, Zenon DEF Goto, states
  <2>3. QED
    BY <1>1, <1>2, <1>4, <2>1, <2>2, PlainStep, Zenon
<1>5. QED
  BY <1>3, <1>4, Zenon DEF RunThenAsync

\* The returned future has resolved: ThenAsync resolves with its result.
LEMMA FinishThenAsyncInv ==
    ASSUME IInv, NEW c \in Continuation, FinishThenAsync(c)
    PROVE  IInv'
<1>1. pc[c] = "react2" /\ UNCHANGED <<states, waiters, walk, built, aggregates, get>>
      /\ ResolveWith(c, result[Inputs(c[1])[2]])
  BY SMTT(30) DEF FinishThenAsync, At
<1>2. KindOf(c[1]) = "ThenAsync" /\ result[Inputs(c[1])[2]] # None
      /\ Inputs(c[1])[2] \in AFuture
  BY <1>1, AtFacts, ZenonT(30) DEF Ready
<1>3. result[Inputs(c[1])[2]] \in Result
  BY <1>2 DEF IInv, TypeCore
<1>4. QED
  BY <1>1, <1>2, <1>3, SingleResolves, Zenon

-----------------------------------------------------------------------------
(***************************************************************************)
(* Starting, suspending and completing.                                    *)
(***************************************************************************)
LEMMA AttachInv ==
    ASSUME IInv, Attach
    PROVE  IInv'
<1> USE DEF states, aggregates
<1> DEFINE c == shape.plan[built + 1]
<1>1. TypeCore /\ Started /\ Events /\ Sleepers /\ Justified /\ TypeAggregates
  BY Zenon DEF IInv
<1>2. /\ built < Len(shape.plan) /\ built' = built + 1
      /\ pc' = [pc EXCEPT ![c] = "await"] /\ host' = [host EXCEPT ![c] = Client]
      /\ UNCHANGED <<shape, result, done, waiters, arg, walk, slots, remaining, winner, failed,
                     firstError, get>>
  BY ZenonT(60) DEF Attach
<1>3. shape.plan \in Seq(Continuation) /\ built \in Nat /\ built + 1 \in DOMAIN shape.plan
      /\ (\A i \in 1..built : i \in DOMAIN shape.plan /\ i # built + 1)
      /\ \A i, j \in DOMAIN shape.plan : shape.plan[i] = shape.plan[j] => i = j
  BY <1>1, <1>2, ShapesAreNetworks DEF TypeCore
<1>4. c \in Continuation /\ c \in Actor /\ pc[c] = "new"
  <2>1. c \in Continuation /\ c \in Actor
    BY <1>3, ActorFacts
  <2>2. ~ \E i \in 1..built : shape.plan[i] = c
    BY <1>3, Zenon
  <2>3. QED
    BY <1>1, <2>1, <2>2, Zenon DEF Started
<1> HIDE DEF c
<1>5. pc'[c] = "await" /\ \A b \in Actor : b # c => pc'[b] = pc[b]
  BY <1>1, <1>2, <1>4, Zenon DEF TypeCore
<1>6. TypeCore'
  <2>1. pc' \in [Actor -> {"new", "await", "suspended", "react", "await2", "suspended2",
                           "react2", "assign", "count", "resolve", "set", "walk", "done"}]
        /\ host' \in [Actor -> Actor \cup {Client, Pool, None}]
    BY <1>1, <1>2, Zenon DEF TypeCore
  <2>2. \A b \in Actor : pc'[b] = "resolve" => arg[b] \in Result
    BY <1>1, <1>4, <1>5, Zenon DEF TypeCore
  <2>3. built' \in 0..Len(shape.plan)
    BY <1>2, <1>3
  <2>4. QED
    BY <1>1, <1>2, <2>1, <2>2, <2>3, Zenon DEF TypeCore
<1>7. Started'
  <2>1. \A d \in Continuation : d # c => pc'[d] = pc[d]
    BY <1>5, ActorFacts, Zenon
  <2>2. (\E i \in 1..(built + 1) : shape.plan[i] = c) /\ \A i \in 1..built : i \in 1..(built + 1)
    BY <1>3 DEF c
  <2>3. QED
    BY <1>1, <1>2, <2>1, <2>2, Zenon DEF Started
<1>8. Events'
  <2>1. \A d \in Continuation : \A f \in AFuture : Parked(d, f) => Parked(d, f)'
    BY <1>2, <1>4, <1>5, ActorFacts, Zenon DEF Parked
  <2>2. (\A f \in AFuture : waiters[f] \in SUBSET Continuation)
        /\ \A b \in Actor : walk[b] \in SUBSET Continuation
    BY <1>1, Zenon DEF TypeCore
  <2>3. (\A f \in AFuture : \A d \in waiters[f] : Parked(d, f)')
        /\ \A b \in Actor : \A d \in walk[b] : Parked(d, Target(b))' /\ pc'[b] = "walk"
    BY <1>1, <1>4, <1>5, <2>1, <2>2, ActorFacts, ZenonT(60) DEF Events
  <2>4. \A b \in Actor : pc'[b] \in {"set", "walk"} => pc'[b] = pc[b]
    BY <1>5, SMTT(30)
  <2>5. QED
    BY <1>1, <1>2, <2>3, <2>4, Zenon DEF Events
<1>9. Sleepers'
  BY <1>1, <1>2, <1>4, <1>5, ZenonT(60) DEF Sleepers
<1>10. \A d \in Continuation : Ready(d)'
  BY <1>2, <1>5, ActorFacts, SMTT(30) DEF IInv, Ready
<1>11. Justified'
  BY <1>1, <1>2, <1>5, Zenon DEF Justified
<1>12. TypeAggregates'
  BY <1>1, <1>2, SMTT(30) DEF TypeAggregates
<1>13. ASSUME NEW f \in Derived PROVE Aggregate(f)'
  <2>1. \A i \in 1..Count(f) : <<f, i>> \in Actor
    BY <1>1, ShapeFacts, ActorFacts, Zenon
  <2>2. \A i \in 1..Count(f) :
           /\ pc'[<<f, i>>] \in Early => pc[<<f, i>>] \in Early
           /\ pc'[<<f, i>>] = "count" => pc[<<f, i>>] = "count"
           /\ pc'[<<f, i>>] \in Late <=> pc[<<f, i>>] \in Late
    BY <1>4, <1>5, <2>1, SMTT(30) DEF Early, Late
  <2>3. QED
    BY <1>2, <2>2, AggregateKept, Zenon
<1>14. QED
  BY <1>6, <1>7, <1>8, <1>9, <1>10, <1>11, <1>12, <1>13, Zenon DEF IInv

\* co_await of an event that is set: the continuation goes on.
LEMMA AwaitDoneGoes ==
    ASSUME IInv, NEW c \in Continuation, NEW f \in AFuture, done[f],
           NEW y \in {"react", "react2"},
           y = "react" => pc[c] = "await" /\ f = Input(c),
           y = "react2" => /\ pc[c] = "await2" /\ KindOf(c[1]) = "ThenAsync"
                           /\ f = Inputs(c[1])[2],
           Goto(c, y), UNCHANGED <<states, waiters, arg, walk, built, aggregates, get>>
    PROVE  IInv'
<1>1. c \in Actor /\ Ready(c)
  BY AtFacts, SMTT(30)
<1>2. result[f] # None
  BY Zenon DEF IInv, Events
<1>3. result[Input(c)] # None
  BY <1>1, <1>2, Zenon DEF Ready
<1>4. arg' \in [Actor -> Result \cup {None}] /\ host' \in [Actor -> Actor \cup {Client, Pool, None}]
  BY SMTT(30) DEF Goto, IInv, TypeCore
<1>5. pc' = [pc EXCEPT ![c] = y]
      /\ UNCHANGED <<shape, result, done, waiters, walk, built, get, aggregates>>
  BY DEF Goto, states
<1>6. KindOf(c[1]) # "AnyOf" \/ (y \in Late <=> pc[c] \in Late)
  BY SMTT(30) DEF Late
<1>7. QED
  BY <1>1, <1>2, <1>3, <1>4, <1>5, <1>6, PlainStep, ZenonT(30)

\* co_await of an event that is not set: the continuation is parked on it.
LEMMA AwaitDoneParks ==
    ASSUME IInv, NEW c \in Continuation, NEW f \in AFuture, ~ done[f],
           NEW y \in {"suspended", "suspended2"},
           y = "suspended" => pc[c] = "await" /\ f = Input(c),
           y = "suspended2" => /\ pc[c] = "await2" /\ KindOf(c[1]) = "ThenAsync"
                               /\ f = Inputs(c[1])[2],
           waiters' = [waiters EXCEPT ![f] = @ \cup {c}],
           Leave(c, y), UNCHANGED <<states, arg, walk, built, aggregates, get>>
    PROVE  IInv'
<1> USE DEF states, aggregates
<1>1. TypeCore /\ Started /\ Events /\ Sleepers /\ Justified /\ TypeAggregates
  BY Zenon DEF IInv
<1>2. c \in Actor /\ Ready(c)
  BY AtFacts, Zenon
<1>3. pc' = [pc EXCEPT ![c] = y] /\ host' = [host EXCEPT ![c] = None]
  BY SMTT(30) DEF Leave
<1>4. pc'[c] = y /\ \A b \in Actor : b # c => pc'[b] = pc[b]
  BY <1>1, <1>2, <1>3, Zenon DEF TypeCore
<1>5. waiters'[f] = waiters[f] \cup {c} /\ \A x \in AFuture : x # f => waiters'[x] = waiters[x]
  BY <1>1, Zenon DEF TypeCore
<1>6. TypeCore'
  <2>1. pc' \in [Actor -> {"new", "await", "suspended", "react", "await2", "suspended2",
                           "react2", "assign", "count", "resolve", "set", "walk", "done"}]
        /\ host' \in [Actor -> Actor \cup {Client, Pool, None}]
    BY <1>1, <1>3, ZenonT(30) DEF TypeCore
  <2>2. waiters' \in [AFuture -> SUBSET Continuation]
    BY <1>1, Zenon DEF TypeCore
  <2>3. \A b \in Actor : pc'[b] = "resolve" => arg[b] \in Result
    BY <1>1, <1>4, Zenon DEF TypeCore
  <2>4. QED
    BY <1>1, <2>1, <2>2, <2>3, ZenonT(60) DEF TypeCore
<1>7. Started'
  <2>1. \A d \in Continuation : pc'[d] # "new" => pc[d] # "new"
    BY <1>4, ActorFacts, Zenon
  <2>2. QED
    BY <1>1, <2>1, Zenon DEF Started
<1>8. Events'
  <2>1. \A d \in Continuation : \A x \in AFuture : Parked(d, x) => Parked(d, x)'
    BY <1>4, ActorFacts, Zenon DEF Parked
  <2>2. Parked(c, f)'
    BY <1>4, Zenon DEF Parked
  <2>3. (\A x \in AFuture : waiters[x] \in SUBSET Continuation)
        /\ \A b \in Actor : walk[b] \in SUBSET Continuation
    BY <1>1, Zenon DEF TypeCore
  <2>4. ASSUME NEW x \in AFuture, NEW d \in waiters'[x] PROVE Parked(d, x)'
    <3>1. d \in waiters[x] \/ (d = c /\ x = f)
      BY <1>5, <2>4, ZenonT(30)
    <3>2. CASE d \in waiters[x]
      BY <1>1, <2>1, <2>3, <3>2, ZenonT(60) DEF Events
    <3>3. QED
      BY <2>2, <3>1, <3>2, SMTT(30)
  <2>5. \A b \in Actor : \A d \in walk[b] : Parked(d, Target(b))' /\ pc'[b] = "walk"
    <3> SUFFICES ASSUME NEW b \in Actor, NEW d \in walk[b]
                 PROVE  Parked(d, Target(b))' /\ pc'[b] = "walk"
      BY Zenon
    <3>1. Parked(d, Target(b)) /\ pc[b] = "walk"
      BY <1>1, Zenon DEF Events
    <3>2. Target(b) \in AFuture /\ d \in Continuation /\ b # c
      BY <2>3, <3>1, ActorFacts, Zenon
    <3>3. QED
      BY <1>4, <2>1, <3>1, <3>2, Zenon
  <2>6. \A b \in Actor : pc'[b] \in {"set", "walk"} => pc'[b] = pc[b]
    BY <1>4, SMTT(30)
  <2>7. \A x \in AFuture : done[x] => waiters'[x] = {} /\ result[x] # None
    BY <1>1, <1>5, Zenon DEF Events
  <2>8. QED
    BY <1>1, <2>4, <2>5, <2>6, <2>7, ZenonT(60) DEF Events
<1>9. Sleepers'
  BY <1>1, <1>4, SMTT(30) DEF Sleepers
<1>10. \A d \in Continuation : Ready(d)'
  BY <1>2, <1>4, ActorFacts, ZenonT(30) DEF IInv, Ready
<1>11. Justified'
  BY <1>1, <1>4, Zenon DEF Justified
<1>12. TypeAggregates'
  BY <1>1, SMTT(30) DEF TypeAggregates
<1>13. ASSUME NEW h \in Derived PROVE Aggregate(h)'
  <2>1. \A i \in 1..Count(h) : <<h, i>> \in Actor
    BY <1>1, ShapeFacts, ActorFacts, Zenon
  <2>2. \A i \in 1..Count(h) :
           /\ pc'[<<h, i>>] \in Early => pc[<<h, i>>] \in Early
           /\ pc'[<<h, i>>] = "count" => pc[<<h, i>>] = "count"
           /\ pc'[<<h, i>>] \in Late <=> pc[<<h, i>>] \in Late
    BY <1>4, <2>1, ZenonT(30) DEF Early, Late
  <2>3. QED
    BY <2>2, AggregateKept, Zenon
<1>14. QED
  BY <1>6, <1>7, <1>8, <1>9, <1>10, <1>11, <1>12, <1>13, ZenonT(60) DEF IInv

\* A continuation awaits the done event of its input: it is suspended, or goes on if set.
LEMMA AwaitInv ==
    ASSUME IInv, NEW c \in Continuation, Await(c)
    PROVE  IInv'
<1>1. pc[c] = "await" /\ UNCHANGED <<states, arg, walk, built, aggregates, get>>
  BY Zenon DEF Await, AwaitDone, At
<1>2. Input(c) \in AFuture
  BY <1>1, AtFacts
<1>3. CASE done[Input(c)] /\ Goto(c, "react") /\ UNCHANGED waiters
  BY <1>1, <1>2, <1>3, AwaitDoneGoes, Zenon
<1>4. CASE /\ ~ done[Input(c)] /\ Leave(c, "suspended")
           /\ waiters' = [waiters EXCEPT ![Input(c)] = @ \cup {c}]
  BY <1>1, <1>2, <1>4, AwaitDoneParks, ZenonT(30)
<1>5. QED
  BY <1>3, <1>4, ZenonT(30) DEF Await, AwaitDone

\* The continuation of ThenAsync awaits the future that the function has returned.
LEMMA AwaitNextInv ==
    ASSUME IInv, NEW c \in Continuation, AwaitNext(c)
    PROVE  IInv'
<1> DEFINE f == Inputs(c[1])[2]
<1>1. pc[c] = "await2" /\ KindOf(c[1]) = "ThenAsync"
      /\ UNCHANGED <<states, arg, walk, built, aggregates, get>>
  BY Zenon DEF AwaitNext, AwaitDone, At
<1>2. f \in AFuture
  BY <1>1, AtFacts
<1>3. CASE done[f] /\ Goto(c, "react2") /\ UNCHANGED waiters
  BY <1>1, <1>2, <1>3, AwaitDoneGoes, SMTT(30)
<1>4. CASE /\ ~ done[f] /\ Leave(c, "suspended2")
           /\ waiters' = [waiters EXCEPT ![f] = @ \cup {c}]
  BY <1>1, <1>2, <1>4, AwaitDoneParks, Zenon
<1>5. QED
  BY <1>3, <1>4, ZenonT(30) DEF AwaitNext, AwaitDone

\* A step along the completion of a future: what it leaves of the aggregates.
LEMMA CompletionKeeps ==
    ASSUME IInv, UNCHANGED <<shape, aggregates>>,
           \A x \in AFuture : result[x] # None => result'[x] = result[x],
           \A b \in Actor :
              /\ pc'[b] \in Early => pc[b] \in Early
              /\ pc'[b] = "count" => pc[b] = "count"
              /\ pc'[b] \in Late <=> pc[b] \in Late
    PROVE  TypeAggregates' /\ \A f \in Derived : Aggregate(f)'
<1> USE DEF aggregates
<1>1. TypeAggregates'
  BY Zenon DEF IInv, TypeAggregates
<1>2. ASSUME NEW f \in Derived PROVE Aggregate(f)'
  <2>1. \A i \in 1..Count(f) : <<f, i>> \in Actor
    BY ShapeFacts, ActorFacts, Zenon DEF IInv
  <2>2. QED
    BY <2>1, AggregateKept, Zenon
<1>3. QED
  BY <1>1, <1>2, Zenon

\* ResolveValue or ResolveError of a future that is not resolved yet.
LEMMA PublishFirst ==
    ASSUME IInv, NEW a \in Actor, pc[a] = "resolve", result[Target(a)] = None,
           result' = [result EXCEPT ![Target(a)] = arg[a]], Goto(a, "set"),
           UNCHANGED <<shape, done, waiters, arg, walk, built, aggregates, get>>
    PROVE  IInv'
<1> DEFINE f == Target(a)
           r == arg[a]
<1>1. TypeCore /\ Started /\ Events /\ Sleepers /\ Justified
  BY Zenon DEF IInv
<1>2. pc' = [pc EXCEPT ![a] = "set"] /\ host' = host /\ result' = [result EXCEPT ![f] = r]
      /\ result[f] = None
  BY Zenon DEF Goto
<1>3. f \in AFuture /\ r \in Result /\ r # None
  BY <1>1, ActorFacts, FuturesDiffer, Zenon DEF TypeCore, Result
<1>4. Due(shape, slots, result, f, r)
  BY <1>1, Zenon DEF Justified
<1>5. pc'[a] = "set" /\ \A b \in Actor : b # a => pc'[b] = pc[b]
  BY <1>1, <1>2, Zenon DEF TypeCore
<1>6. result'[f] = r /\ \A x \in AFuture : x # f => result'[x] = result[x]
  BY <1>1, <1>2, <1>3, Zenon DEF TypeCore
<1>7. \A x \in AFuture : result[x] # None => result'[x] = result[x]
  BY <1>2, <1>6, ZenonT(60)
<1>8. \A b \in Actor : pc'[b] \in {"set", "walk"} /\ b # a => Target(b) # f
  BY <1>1, <1>2, <1>5 DEF Events
<1>9. f = Target(a)
  BY Zenon
<1> HIDE DEF f, r
<1>10. TypeCore'
  <2>1. pc' \in [Actor -> {"new", "await", "suspended", "react", "await2", "suspended2",
                           "react2", "assign", "count", "resolve", "set", "walk", "done"}]
    BY <1>1, <1>2, Zenon DEF TypeCore
  <2>2. result' \in [AFuture -> Result \cup {None}]
    BY <1>1, <1>2, <1>3, Zenon DEF TypeCore
  <2>3. \A b \in Actor : pc'[b] = "resolve" => arg[b] \in Result
    BY <1>1, <1>5, Zenon DEF TypeCore
  <2>4. QED
    BY <1>1, <1>2, <2>1, <2>2, <2>3, Zenon DEF TypeCore
<1>11. Started'
  BY <1>1, <1>5, ActorFacts, SMTT(30) DEF Started
<1>12. Events'
  <2>1. \A d \in Continuation : \A x \in AFuture : Parked(d, x) => Parked(d, x)'
    BY <1>5, ActorFacts, Zenon DEF Parked
  <2>2. (\A x \in AFuture : waiters[x] \in SUBSET Continuation)
        /\ \A b \in Actor : walk[b] \in SUBSET Continuation
    BY <1>1, Zenon DEF TypeCore
  <2>3. (\A x \in AFuture : \A d \in waiters[x] : Parked(d, x)')
        /\ \A b \in Actor : \A d \in walk[b] : Parked(d, Target(b))' /\ pc'[b] = "walk"
    BY <1>1, <1>5, <2>1, <2>2, ActorFacts, ZenonT(60) DEF Events
  <2>4. \A b \in Actor : pc'[b] \in {"set", "walk"} => result'[Target(b)] # None
    <3> SUFFICES ASSUME NEW b \in Actor, pc'[b] \in {"set", "walk"}
                 PROVE  result'[Target(b)] # None
      BY Zenon
    <3>1. CASE b = a
      BY <1>3, <1>6, <1>9, <3>1, Zenon
    <3>2. CASE b # a
      <4>1. result[Target(b)] # None /\ Target(b) \in AFuture
        BY <1>1, <1>5, <3>2, ActorFacts, Zenon DEF Events
      <4>2. QED
        BY <1>7, <4>1, Zenon
    <3>3. QED
      BY <3>1, <3>2, Zenon
  <2>5. \A b \in Actor : pc'[b] = "walk" => done[Target(b)]
    BY <1>1, <1>5, SMTT(30) DEF Events
  <2>6. \A x \in AFuture : done[x] => waiters[x] = {} /\ result'[x] # None
    BY <1>1, <1>7, Zenon DEF Events
  <2>7. \A b, d \in Actor : pc'[b] \in {"set", "walk"} /\ pc'[d] \in {"set", "walk"}
                           /\ Target(b) = Target(d) => b = d
    BY <1>1, <1>5, <1>8, <1>9, ZenonT(60) DEF Events
  <2>8. QED
    BY <2>3, <2>4, <2>5, <2>6, <2>7, Zenon DEF Events
<1>13. Sleepers'
  <2>1. \A g \in Getter : GetsFrom(g) \in AFuture
    BY <1>1, ShapesAreNetworks, Zenon DEF TypeCore
  <2>2. \A b \in Actor : pc[b] \in {"set", "walk"} => pc'[b] \in {"set", "walk"}
    BY <1>5, Zenon
  <2>3. QED
    <3> SUFFICES ASSUME NEW g \in Getter, get[g] = "asleep", result'[GetsFrom(g)] # None
                 PROVE  \E b \in Actor : Target(b) = GetsFrom(g) /\ pc'[b] \in {"set", "walk"}
      BY Zenon DEF Sleepers
    <3>1. CASE GetsFrom(g) = f
      BY <1>5, <1>9, <3>1, Zenon
    <3>2. CASE GetsFrom(g) # f
      <4>1. result[GetsFrom(g)] # None
        BY <1>6, <2>1, <3>2, Zenon
      <4>2. QED
        BY <1>1, <2>2, <4>1, Zenon DEF Sleepers
    <3>3. QED
      BY <3>1, <3>2, Zenon
<1>14. ASSUME NEW c \in Continuation PROVE Ready(c)'
  <2>1. Ready(c) /\ c \in Actor
    BY ActorFacts, ZenonT(60) DEF IInv
  <2>2. CASE pc[c] = "new"
    BY <1>5, <2>1, <2>2, SMTT(30) DEF Ready
  <2>3. CASE pc[c] # "new"
    <3>1. Input(c) \in AFuture
          /\ (KindOf(c[1]) = "ThenAsync" => Inputs(c[1])[2] \in AFuture)
      BY <2>3, AtFacts, SMTT(30)
    <3>2. QED
      BY <1>5, <1>7, <2>1, <3>1, ZenonT(30) DEF Ready
  <2>4. QED
    BY <2>2, <2>3, Zenon
<1>15. Justified'
  <2>1. ASSUME NEW h, NEW q, q # None, Due(shape, slots, result, h, q)
        PROVE  Due(shape, slots, result', h, q)
    <3>1. h \in Derived => \A i \in 1..Len(shape.inputs[h]) : shape.inputs[h][i] \in AFuture
      BY <1>1, ShapeFacts, Zenon
    <3>2. QED
      BY <1>7, <2>1, <3>1, DueGrows, Zenon
  <2>2. ASSUME NEW b \in Actor, pc'[b] = "resolve"
        PROVE  Due(shape, slots, result', Target(b), arg[b])
    <3>1. pc[b] = "resolve" /\ arg[b] # None
      BY <1>1, <1>5, <2>2, FuturesDiffer, Zenon DEF TypeCore, Result
    <3>2. QED
      BY <1>1, <2>1, <3>1, ZenonT(30) DEF Justified
  <2>3. ASSUME NEW x \in AFuture, result'[x] # None
        PROVE  Due(shape, slots, result', x, result'[x])
    <3>1. CASE x = f
      BY <1>3, <1>4, <1>6, <2>1, <3>1, Zenon
    <3>2. CASE x # f
      <4>1. result'[x] = result[x] /\ result[x] # None
        BY <1>6, <2>3, <3>2, Zenon
      <4>2. Due(shape, slots, result, x, result[x])
        BY <1>1, <4>1, Zenon DEF Justified
      <4>3. QED
        BY <2>1, <4>1, <4>2, Zenon
    <3>3. QED
      BY <3>1, <3>2, Zenon
  <2>4. shape' = shape /\ slots' = slots /\ arg' = arg
    BY SMTT(30) DEF aggregates
  <2>5. QED
    BY <2>2, <2>3, <2>4, ZenonT(30) DEF Justified
<1>16. TypeAggregates' /\ \A h \in Derived : Aggregate(h)'
  <2>1. \A b \in Actor : /\ pc'[b] \in Early => pc[b] \in Early
                         /\ pc'[b] = "count" => pc[b] = "count"
                         /\ pc'[b] \in Late <=> pc[b] \in Late
    BY <1>5, Zenon DEF Early, Late
  <2>2. QED
    BY <1>7, <2>1, CompletionKeeps, Zenon
<1>17. QED
  BY <1>10, <1>11, <1>12, <1>13, <1>14, <1>15, <1>16, ZenonT(60) DEF IInv

\* Publish under the mutex: the first caller stores its result, a later one leaves.
LEMMA PublishInv ==
    ASSUME IInv, NEW a \in Actor, Publish(a)
    PROVE  IInv'
<1> USE DEF aggregates
<1>1. pc[a] = "resolve" /\ UNCHANGED <<shape, done, waiters, arg, walk, built, aggregates, get>>
  BY ZenonT(60) DEF Publish, At
<1>2. CASE result[Target(a)] = None
  BY <1>1, <1>2, PublishFirst, SMTT(30) DEF Publish
<1>3. CASE result[Target(a)] # None
  <2>1. Leave(a, "done") /\ UNCHANGED result
    BY <1>3 DEF Publish
  <2>2. pc' = [pc EXCEPT ![a] = "done"] /\ host' \in [Actor -> Actor \cup {Client, Pool, None}]
        /\ arg' \in [Actor -> Result \cup {None}]
    BY <1>1, <2>1, SMTT(30) DEF Leave, IInv, TypeCore
  <2>3. a \in Continuation => result[Input(a)] # None
    BY <1>1, AtFacts, Zenon DEF Ready
  <2>4. "done" \in Late <=> pc[a] \in Late
    BY <1>1, Zenon DEF Late
  <2>5. QED
    BY <1>1, <2>1, <2>2, <2>3, <2>4, PlainStep, ZenonT(60)
<1>4. QED
  BY <1>2, <1>3, SMTT(30)

\* done.Set(): the waiters are taken, still parked on the future.
LEMMA SetDoneInv ==
    ASSUME IInv, NEW a \in Actor, SetDone(a)
    PROVE  IInv'
<1> DEFINE f == Target(a)
<1>1. TypeCore /\ Started /\ Events /\ Sleepers /\ Justified
  BY Zenon DEF IInv
<1>2. /\ pc[a] = "set" /\ pc' = [pc EXCEPT ![a] = "walk"] /\ host' = host
      /\ done' = [done EXCEPT ![f] = TRUE] /\ walk' = [walk EXCEPT ![a] = waiters[f]]
      /\ waiters' = [waiters EXCEPT ![f] = {}]
      /\ UNCHANGED <<shape, result, arg, built, aggregates, get>>
  BY Zenon DEF SetDone, At, Goto
<1>3. f \in AFuture /\ f = Target(a)
  BY ActorFacts, Zenon
<1> HIDE DEF f
<1>4. /\ pc'[a] = "walk" /\ walk'[a] = waiters[f]
      /\ \A b \in Actor : b # a => pc'[b] = pc[b] /\ walk'[b] = walk[b]
  BY <1>1, <1>2, Zenon DEF TypeCore
<1>5. /\ done'[f] /\ waiters'[f] = {}
      /\ \A x \in AFuture : x # f => done'[x] = done[x] /\ waiters'[x] = waiters[x]
  <2>1. waiters'[f] = {} /\ \A x \in AFuture : x # f => waiters'[x] = waiters[x]
    BY <1>1, <1>2, <1>3, Zenon DEF TypeCore
  <2>2. done'[f] /\ \A x \in AFuture : x # f => done'[x] = done[x]
    BY <1>1, <1>2, <1>3, ZenonT(60) DEF TypeCore
  <2>3. QED
    BY <2>1, <2>2, Zenon
<1>6. TypeCore'
  <2>1. pc' \in [Actor -> {"new", "await", "suspended", "react", "await2", "suspended2",
                           "react2", "assign", "count", "resolve", "set", "walk", "done"}]
    BY <1>1, <1>2, Zenon DEF TypeCore
  <2>2. done' \in [AFuture -> BOOLEAN]
    BY <1>1, <1>2, Zenon DEF TypeCore
  <2>3. waiters' \in [AFuture -> SUBSET Continuation]
    BY <1>1, <1>2, Zenon DEF TypeCore
  <2>4. walk' \in [Actor -> SUBSET Continuation]
    BY <1>1, <1>2, <1>3, Zenon DEF TypeCore
  <2>5. \A b \in Actor : pc'[b] = "resolve" => arg[b] \in Result
    BY <1>1, <1>4, Zenon DEF TypeCore
  <2>6. QED
    BY <1>1, <1>2, <2>1, <2>2, <2>3, <2>4, <2>5, ZenonT(60) DEF TypeCore
<1>7. Started'
  BY <1>1, <1>2, <1>4, ActorFacts, ZenonT(60) DEF Started
<1>8. Events'
  <2>1. \A d \in Continuation : \A x \in AFuture : Parked(d, x) => Parked(d, x)'
    BY <1>2, <1>4, ActorFacts, Zenon DEF Parked
  <2>2. (\A x \in AFuture : waiters[x] \in SUBSET Continuation)
        /\ \A b \in Actor : walk[b] \in SUBSET Continuation
    BY <1>1, SMTT(30) DEF TypeCore
  <2>3. \A x \in AFuture : \A d \in waiters'[x] : Parked(d, x)'
    <3>1. \A x \in AFuture : \A d \in waiters'[x] : d \in waiters[x]
      BY <1>5, Zenon
    <3>2. QED
      BY <1>1, <2>1, <2>2, <3>1, Zenon DEF Events
  <2>4. ASSUME NEW b \in Actor, NEW d \in walk'[b]
        PROVE  Parked(d, Target(b))' /\ pc'[b] = "walk"
    <3>1. CASE b = a
      <4>1. d \in waiters[f]
        BY <1>4, <2>4, <3>1, ZenonT(60)
      <4>2. Parked(d, f) /\ d \in Continuation
        BY <1>1, <1>3, <2>2, <4>1, ZenonT(60) DEF Events
      <4>3. QED
        BY <1>3, <1>4, <2>1, <3>1, <4>2, ZenonT(60)
    <3>2. CASE b # a
      <4>1. d \in walk[b] /\ pc'[b] = pc[b]
        BY <1>4, <2>4, <3>2, Zenon
      <4>2. Parked(d, Target(b)) /\ pc[b] = "walk" /\ d \in Continuation /\ Target(b) \in AFuture
        BY <1>1, <2>2, <4>1, ActorFacts, Zenon DEF Events
      <4>3. QED
        BY <2>1, <4>1, <4>2, Zenon
    <3>3. QED
      BY <3>1, <3>2, ZenonT(60)
  <2>5. \A b \in Actor : pc'[b] \in {"set", "walk"} <=> pc[b] \in {"set", "walk"}
    BY <1>2, <1>4, Zenon
  <2>6. \A b \in Actor : pc'[b] = "walk" => done'[Target(b)]
    BY <1>1, <1>3, <1>4, <1>5, ActorFacts, ZenonT(60) DEF Events
  <2>7. \A x \in AFuture : done'[x] => waiters'[x] = {} /\ result[x] # None
    <3>1. result[f] # None
      BY <1>1, <1>2, <1>3, ZenonT(30) DEF Events
    <3>2. QED
      BY <1>1, <1>5, <3>1, ZenonT(30) DEF Events
  <2>8. \A b, d \in Actor : pc'[b] \in {"set", "walk"} /\ pc'[d] \in {"set", "walk"}
                           /\ Target(b) = Target(d) => b = d
    BY <1>1, <2>5, SMTT(30) DEF Events
  <2>9. \A b \in Actor : pc'[b] \in {"set", "walk"} => result'[Target(b)] # None
    BY <1>1, <1>2, <2>5, Zenon DEF Events
  <2>10. result' = result
    BY <1>2, SMTT(30)
  <2>11. QED
    BY <2>3, <2>4, <2>6, <2>7, <2>8, <2>9, <2>10, ZenonT(60) DEF Events
<1>9. Sleepers'
  BY <1>1, <1>2, <1>4, ZenonT(30) DEF Sleepers
<1>10. \A d \in Continuation : Ready(d)'
  BY <1>2, <1>4, ActorFacts, ZenonT(60) DEF IInv, Ready
<1>11. Justified'
  BY <1>1, <1>2, <1>4, ZenonT(30) DEF Justified, aggregates
<1>12. TypeAggregates' /\ \A h \in Derived : Aggregate(h)'
  <2>1. \A b \in Actor : /\ pc'[b] \in Early => pc[b] \in Early
                         /\ pc'[b] = "count" => pc[b] = "count"
                         /\ pc'[b] \in Late <=> pc[b] \in Late
    BY <1>2, <1>4, Zenon DEF Early, Late
  <2>2. QED
    BY <1>2, <2>1, CompletionKeeps, Zenon
<1>13. QED
  BY <1>6, <1>7, <1>8, <1>9, <1>10, <1>11, <1>12 DEF IInv

\* Set() resumes one of the continuations it took: it finds the result.
LEMMA ResumeWaiterInv ==
    ASSUME IInv, NEW a \in Actor, NEW c \in Continuation, ResumeWaiter(a, c)
    PROVE  IInv'
<1> DEFINE y == IF pc[c] = "suspended" THEN "react" ELSE "react2"
<1>1. TypeCore /\ Started /\ Events /\ Sleepers /\ Justified
  BY Zenon DEF IInv
<1>2. c \in Actor /\ Target(a) \in AFuture
  BY ActorFacts, ZenonT(60)
<1>3. /\ pc[a] = "walk" /\ c \in walk[a] /\ pc' = [pc EXCEPT ![c] = y]
      /\ host' = [host EXCEPT ![c] = a] /\ walk' = [walk EXCEPT ![a] = walk[a] \ {c}]
      /\ UNCHANGED <<shape, result, done, waiters, arg, built, aggregates, get>>
  BY <1>1, <1>2, SMTT(30) DEF ResumeWaiter, At, states, TypeCore
<1>4. Parked(c, Target(a)) /\ result[Target(a)] # None /\ waiters[Target(a)] = {}
  BY <1>1, <1>2, <1>3, ZenonT(60) DEF Events
<1>5. /\ pc[c] \in {"suspended", "suspended2"} /\ c # a
      /\ y = "react" => pc[c] = "suspended" /\ result[Input(c)] # None
      /\ y = "react2" => pc[c] = "suspended2" /\ result[Inputs(c[1])[2]] # None
      /\ y \in {"react", "react2"}
  BY <1>3, <1>4, Zenon DEF Parked
<1> HIDE DEF y
<1>6. /\ pc'[c] = y /\ (\A b \in Actor : b # c => pc'[b] = pc[b])
      /\ walk'[a] = walk[a] \ {c} /\ (\A b \in Actor : b # a => walk'[b] = walk[b])
  BY <1>1, <1>2, <1>3, ZenonT(60) DEF TypeCore
<1>7. TypeCore'
  <2>1. pc' \in [Actor -> {"new", "await", "suspended", "react", "await2", "suspended2",
                           "react2", "assign", "count", "resolve", "set", "walk", "done"}]
    BY <1>1, <1>3, <1>5, Zenon DEF TypeCore
  <2>2. host' \in [Actor -> Actor \cup {Client, Pool, None}]
    BY <1>1, <1>3, ZenonT(30) DEF TypeCore
  <2>3. walk' \in [Actor -> SUBSET Continuation]
    BY <1>1, <1>3, ZenonT(60) DEF TypeCore
  <2>4. \A b \in Actor : pc'[b] = "resolve" => arg[b] \in Result
    BY <1>1, <1>5, <1>6, ZenonT(60) DEF TypeCore
  <2>5. QED
    BY <1>1, <1>3, <2>1, <2>2, <2>3, <2>4, ZenonT(60) DEF TypeCore
<1>8. Started'
  <2>1. \A d \in Continuation : pc'[d] # "new" => pc[d] # "new"
    BY <1>5, <1>6, ActorFacts, ZenonT(30)
  <2>2. QED
    BY <1>1, <1>3, <2>1, ZenonT(30) DEF Started
<1>9. Events'
  <2>1. \A d \in Continuation : \A x \in AFuture : d # c /\ Parked(d, x) => Parked(d, x)'
    BY <1>3, <1>6, ActorFacts, Zenon DEF Parked
  <2>2. (\A x \in AFuture : waiters[x] \in SUBSET Continuation)
        /\ \A b \in Actor : walk[b] \in SUBSET Continuation
    BY <1>1, ZenonT(60) DEF TypeCore
  <2>3. \A x \in AFuture : Parked(c, x) => x = Target(a)
    BY <1>4, SMTT(30) DEF Parked
  <2>4. \A x \in AFuture : c \notin waiters[x]
    BY <1>1, <1>4, <2>3, ZenonT(60) DEF Events
  <2>5. \A b \in Actor : b # a => c \notin walk[b]
    <3> SUFFICES ASSUME NEW b \in Actor, b # a, c \in walk[b] PROVE FALSE
      BY Zenon
    <3>1. Parked(c, Target(b)) /\ pc[b] = "walk" /\ Target(b) \in AFuture
      BY <1>1, ActorFacts DEF Events
    <3>2. Target(b) = Target(a)
      BY <2>3, <3>1, ZenonT(60)
    <3>3. QED
      BY <1>1, <1>3, <3>1, <3>2, ZenonT(60) DEF Events
  <2>6. \A x \in AFuture : \A d \in waiters[x] : Parked(d, x)'
    BY <1>1, <2>1, <2>2, <2>4, ZenonT(60) DEF Events
  <2>7. ASSUME NEW b \in Actor, NEW d \in walk'[b]
        PROVE  Parked(d, Target(b))' /\ pc'[b] = "walk"
    <3>1. d \in walk[b] /\ d # c
      BY <1>6, <2>5, <2>7, ZenonT(60)
    <3>2. Parked(d, Target(b)) /\ pc[b] = "walk" /\ d \in Continuation /\ Target(b) \in AFuture
      BY <1>1, <2>2, <3>1, ActorFacts, ZenonT(60) DEF Events
    <3>3. b # c
      BY <1>5, <3>2, Zenon
    <3>4. QED
      BY <1>6, <2>1, <3>1, <3>2, <3>3, ZenonT(60)
  <2>8. \A b \in Actor : pc'[b] \in {"set", "walk"} => pc'[b] = pc[b]
    BY <1>5, <1>6, ZenonT(60)
  <2>9. QED
    BY <1>1, <1>3, <2>6, <2>7, <2>8, ZenonT(30) DEF Events
<1>10. Sleepers'
  BY <1>1, <1>3, <1>5, <1>6 DEF Sleepers
<1>11. ASSUME NEW d \in Continuation PROVE Ready(d)'
  <2>1. Ready(d) /\ d \in Actor
    BY ActorFacts, SMTT(30) DEF IInv
  <2>2. CASE d = c
    BY <1>3, <1>5, <1>6, <2>1, <2>2, ZenonT(30) DEF Ready
  <2>3. CASE d # c
    BY <1>3, <1>6, <2>1, <2>3, ZenonT(30) DEF Ready
  <2>4. QED
    BY <2>2, <2>3, Zenon
<1>12. Justified'
  BY <1>1, <1>3, <1>5, <1>6, ZenonT(30) DEF Justified, aggregates
<1>13. TypeAggregates' /\ \A h \in Derived : Aggregate(h)'
  <2>1. \A b \in Actor : /\ pc'[b] \in Early => pc[b] \in Early
                         /\ pc'[b] = "count" => pc[b] = "count"
                         /\ pc'[b] \in Late <=> pc[b] \in Late
    BY <1>5, <1>6, ZenonT(30) DEF Early, Late
  <2>2. QED
    BY <1>3, <2>1, CompletionKeeps, SMTT(30)
<1>14. QED
  BY <1>7, <1>8, <1>9, <1>10, <1>11, <1>12, <1>13, ZenonT(60) DEF IInv

\* The end of a completion: the sleeping getters of the future are woken.
LEMMA NotifyAllInv ==
    ASSUME IInv, NEW a \in Actor, NotifyAll(a)
    PROVE  IInv'
<1>1. TypeCore /\ Started /\ Events /\ Sleepers /\ Justified
  BY Zenon DEF IInv
<1>2. /\ pc[a] = "walk" /\ walk[a] = {}
      /\ pc' = [pc EXCEPT ![a] = "done"] /\ host' = [host EXCEPT ![a] = None]
      /\ get' = [g \in Getter |->
                    IF get[g] = "asleep" /\ GetsFrom(g) = Target(a) THEN "check" ELSE get[g]]
      /\ UNCHANGED <<shape, result, done, waiters, arg, walk, built, aggregates>>
  BY Zenon DEF NotifyAll, At, Leave, states
<1>3. pc'[a] = "done" /\ \A b \in Actor : b # a => pc'[b] = pc[b]
  BY <1>1, <1>2, ZenonT(60) DEF TypeCore
<1>4. TypeCore'
  <2>1. pc' \in [Actor -> {"new", "await", "suspended", "react", "await2", "suspended2",
                           "react2", "assign", "count", "resolve", "set", "walk", "done"}]
        /\ host' \in [Actor -> Actor \cup {Client, Pool, None}]
    BY <1>1, <1>2, Zenon DEF TypeCore
  <2>2. get' \in [Getter -> {"check", "asleep", "returned", "timedout"}]
    BY <1>1, <1>2, Zenon DEF TypeCore
  <2>3. \A b \in Actor : pc'[b] = "resolve" => arg[b] \in Result
    BY <1>1, <1>3, Zenon DEF TypeCore
  <2>4. QED
    BY <1>1, <1>2, <2>1, <2>2, <2>3, ZenonT(60) DEF TypeCore
<1>5. Started'
  BY <1>1, <1>2, <1>3, ActorFacts, ZenonT(60) DEF Started
<1>6. Events'
  <2>1. \A d \in Continuation : \A x \in AFuture : Parked(d, x) => Parked(d, x)'
    BY <1>2, <1>3, ActorFacts, ZenonT(60) DEF Parked
  <2>2. (\A x \in AFuture : waiters[x] \in SUBSET Continuation)
        /\ \A b \in Actor : walk[b] \in SUBSET Continuation
    BY <1>1, Zenon DEF TypeCore
  <2>3. (\A x \in AFuture : \A d \in waiters[x] : Parked(d, x)')
        /\ \A b \in Actor : \A d \in walk[b] : Parked(d, Target(b))' /\ pc'[b] = "walk"
    BY <1>1, <1>2, <1>3, <2>1, <2>2, ActorFacts, ZenonT(60) DEF Events
  <2>4. \A b \in Actor : pc'[b] \in {"set", "walk"} => pc'[b] = pc[b]
    BY <1>3, Zenon
  <2>5. QED
    BY <1>1, <1>2, <2>3, <2>4, ZenonT(30) DEF Events
<1>7. Sleepers'
  <2> SUFFICES ASSUME NEW g \in Getter, get'[g] = "asleep", result[GetsFrom(g)] # None
               PROVE  \E b \in Actor : Target(b) = GetsFrom(g) /\ pc'[b] \in {"set", "walk"}
    BY <1>2, ZenonT(30) DEF Sleepers
  <2>1. get[g] = "asleep" /\ GetsFrom(g) # Target(a)
    BY <1>2, SMTT(30)
  <2>2. PICK b \in Actor : Target(b) = GetsFrom(g) /\ pc[b] \in {"set", "walk"}
    BY <1>1, <2>1, ZenonT(30) DEF Sleepers
  <2>3. b # a
    BY <2>1, <2>2, ZenonT(60)
  <2>4. QED
    BY <1>3, <2>2, <2>3, ZenonT(60)
<1>8. \A d \in Continuation : Ready(d)'
  BY <1>2, <1>3, ActorFacts, ZenonT(60) DEF IInv, Ready
<1>9. Justified'
  BY <1>1, <1>2, <1>3, ZenonT(30) DEF Justified, aggregates
<1>10. TypeAggregates' /\ \A h \in Derived : Aggregate(h)'
  <2>1. \A b \in Actor : /\ pc'[b] \in Early => pc[b] \in Early
                         /\ pc'[b] = "count" => pc[b] = "count"
                         /\ pc'[b] \in Late <=> pc[b] \in Late
    BY <1>2, <1>3, Zenon DEF Early, Late
  <2>2. QED
    BY <1>2, <2>1, CompletionKeeps, ZenonT(30)
<1>11. QED
  BY <1>4, <1>5, <1>6, <1>7, <1>8, <1>9, <1>10, ZenonT(60) DEF IInv

-----------------------------------------------------------------------------
(***************************************************************************)
(* AllOf and AnyOf.                                                        *)
(***************************************************************************)
\* The numbers that `remaining` and `failed` stand for.
LEMMA CountFacts ==
    ASSUME IInv, NEW f \in Derived
    PROVE  /\ IsFiniteSet(1..Count(f)) /\ Cardinality(1..Count(f)) = Count(f)
           /\ IsFiniteSet(Unfilled(f)) /\ Cardinality(Unfilled(f)) \in 0..Count(f)
           /\ IsFiniteSet(Counted(f)) /\ Cardinality(Counted(f)) \in 0..Count(f)
<1>1. Count(f) \in Nat
  BY ShapeFacts, Zenon DEF IInv
<1> DEFINE n == Count(f)
<1>2. IsFiniteSet(1..n) /\ Cardinality(1..n) = n
  <2> HIDE DEF n
  <2>1. n \in Nat
    BY <1>1, Zenon DEF n
  <2>2. IsFiniteSet(1..n) /\ Cardinality(1..n) = IF 1 > n THEN 0 ELSE n - 1 + 1
    BY <2>1, FS_Interval
  <2>3. QED
    BY <2>1, <2>2
<1>3. Unfilled(f) \in SUBSET (1..n) /\ Counted(f) \in SUBSET (1..n)
  BY Zenon DEF Unfilled, Counted
<1> HIDE DEF n
<1>4. IsFiniteSet(Unfilled(f)) /\ Cardinality(Unfilled(f)) \in Nat /\ Cardinality(Unfilled(f)) <= n
  BY <1>2, <1>3, FS_Subset, FS_CardinalityType, ZenonT(30)
<1>5. IsFiniteSet(Counted(f)) /\ Cardinality(Counted(f)) \in Nat /\ Cardinality(Counted(f)) <= n
  BY <1>2, <1>3, FS_Subset, FS_CardinalityType, ZenonT(60)
<1>6. QED
  BY <1>1, <1>2, <1>4, <1>5 DEF n

\* The input of continuation c has a value.
InputOk(c) == result[Input(c)].ok

\* AllOf, an input failed: its error is the result.
LEMMA AllOfErrorInv ==
    ASSUME IInv, NEW c \in Continuation, RunAllOf(c), ~ InputOk(c)
    PROVE  IInv'
<1> DEFINE r == result[Input(c)]
<1>1. /\ KindOf(c[1]) = "AllOf" /\ pc[c] = "react" /\ ResolveWith(c, r)
      /\ UNCHANGED <<shape, result, done, waiters, walk, built, get, aggregates>>
  BY ZenonT(60) DEF RunAllOf, At, states, aggregates, InputOk
<1>2. c \in Actor /\ c[1] \in Derived /\ Target(c) = c[1] /\ r \in Result /\ r # None
      /\ c[2] \in 1..Count(c[1])
  BY <1>1, AtFacts, ZenonT(30) DEF Ready
<1>3. arg' = [arg EXCEPT ![c] = r] /\ pc' = [pc EXCEPT ![c] = "resolve"] /\ host' = host
  BY <1>1, SMTT(30) DEF ResolveWith, Goto
<1>4. arg' \in [Actor -> Result \cup {None}] /\ arg'[c] = r
      /\ \A b \in Actor : b # c => arg'[b] = arg[b]
  BY <1>2, <1>3, ZenonT(30) DEF IInv, TypeCore
<1>5. host' \in [Actor -> Actor \cup {Client, Pool, None}]
  BY <1>3, SMTT(30) DEF IInv, TypeCore
<1>6. Due(shape, slots, result, Target(c), r)
  BY <1>1, <1>2, ZenonT(30) DEF Due, InputOk
<1>7. QED
  BY <1>1, <1>2, <1>3, <1>4, <1>5, <1>6, PlainStep, ZenonT(30)

\* A function with one value overwritten.
LEMMA Overwritten ==
    ASSUME NEW S, NEW T, NEW g \in [S -> T], NEW k \in S, NEW r \in T,
           NEW h, h = [g EXCEPT ![k] = r]
    PROVE  h \in [S -> T] /\ h[k] = r /\ \A i \in S : i # k => h[i] = g[i]
  BY Zenon

\* AllOf, an input succeeded: its slot is filled, and the last one resolves.
LEMMA AllOfValueInv ==
    ASSUME IInv, NEW c \in Continuation, RunAllOf(c), InputOk(c)
    PROVE  IInv'
<1> DEFINE f == c[1]
           k == c[2]
           r == result[Input(c)]
<1>1. /\ KindOf(f) = "AllOf" /\ pc[c] = "react"
      /\ slots' = [slots EXCEPT ![f][k] = r]
      /\ remaining' = [remaining EXCEPT ![f] = @ - 1]
      /\ \/ remaining[f] = 1 /\ ResolveWith(c, Value(f))
         \/ remaining[f] # 1 /\ Leave(c, "done") /\ UNCHANGED arg
      /\ UNCHANGED <<shape, result, done, waiters, walk, built, get, winner, failed, firstError>>
  BY SMTT(30) DEF RunAllOf, At, states, InputOk
<1>2. /\ c \in Actor /\ f \in Derived /\ Target(c) = f /\ c = <<f, k>> /\ k \in 1..Count(f)
      /\ r \in Result /\ r # None /\ r.ok /\ r = result[Inputs(f)[k]] /\ Value(f) \in Result
  <2>1. pc[c] # "new"
    BY <1>1
  <2>2. /\ c \in Actor /\ f \in Derived /\ Target(c) = f /\ c = <<f, k>> /\ k \in 1..Count(f)
        /\ Ready(c) /\ r \in Result \cup {None}
    BY <2>1, AtFacts, ZenonT(60)
  <2>3. r # None
    BY <1>1, <2>2 DEF Ready
  <2>4. QED
    BY <2>2, <2>3, AppliedFacts, Zenon DEF InputOk
<1>3. TypeCore /\ TypeAggregates /\ Aggregate(f)
  BY <1>2, Zenon DEF IInv
<1> HIDE DEF f, k, r
<1>4. /\ slots'[f] = [slots[f] EXCEPT ![k] = r]
      /\ \A h \in Derived : h # f => slots'[h] = slots[h] /\ remaining'[h] = remaining[h]
      /\ remaining'[f] = remaining[f] - 1
  BY <1>1, <1>2, <1>3, ZenonT(30) DEF TypeAggregates
<1>5. slots[f] \in [1..Count(f) -> Result \cup {None}]
  BY <1>2, <1>3, ZenonT(30) DEF TypeAggregates
<1>6. /\ slots'[f] \in [1..Count(f) -> Result \cup {None}]
      /\ slots'[f][k] = r /\ \A i \in 1..Count(f) : i # k => slots'[f][i] = slots[f][i]
  <2>1. r \in Result \cup {None}
    BY <1>2, Zenon
  <2> DEFINE S == 1..Count(f)
             T == Result \cup {None}
             g == slots[f]
             h == slots'[f]
  <2>2. g \in [S -> T] /\ k \in S /\ r \in T /\ h = [g EXCEPT ![k] = r]
    BY <1>2, <1>4, <1>5, <2>1, Zenon
  <2> HIDE DEF S, T, g, h
  <2>3. h \in [S -> T] /\ h[k] = r /\ \A i \in S : i # k => h[i] = g[i]
    BY <2>2, Overwritten, Zenon
  <2>4. QED
    BY <2>3, Zenon DEF S, T, g, h
<1>7. slots[f][k] = None
  <2>1. pc[<<f, k>>] \in Early
    BY <1>1, <1>2, Zenon DEF Early
  <2>2. QED
    BY <1>2, <1>3, <2>1, Zenon DEF Aggregate
<1>8. Unfilled(f)' = Unfilled(f) \ {k} /\ k \in Unfilled(f)
  BY <1>1, <1>2, <1>6, <1>7, ZenonT(60) DEF Unfilled
<1>9. remaining'[f] = Cardinality(Unfilled(f)') /\ (remaining[f] = 1 => Unfilled(f)' = {})
  <2>1. IsFiniteSet(Unfilled(f)) /\ remaining[f] = Cardinality(Unfilled(f))
    BY <1>2, <1>3, CountFacts, ZenonT(30) DEF Aggregate
  <2>2. IsFiniteSet(Unfilled(f) \ {k})
        /\ Cardinality(Unfilled(f) \ {k}) = Cardinality(Unfilled(f)) - 1
    BY <1>8, <2>1, FS_RemoveElement, ZenonT(30)
  <2>3. remaining[f] = 1 => Cardinality(Unfilled(f) \ {k}) = 0
    BY <2>1, <2>2
  <2>4. QED
    BY <1>4, <1>8, <2>1, <2>2, <2>3, FS_EmptySet, ZenonT(60)
<1>10. \A h \in Derived : \A i \in 1..Count(h) : slots[h][i] # None => slots'[h][i] # None
  BY <1>2, <1>4, <1>6, ZenonT(30)
<1> DEFINE y == IF remaining[f] = 1 THEN "resolve" ELSE "done"
<1>11. /\ pc' = [pc EXCEPT ![c] = y] /\ arg' \in [Actor -> Result \cup {None}]
       /\ (\A b \in Actor : b # c => arg'[b] = arg[b])
       /\ host' \in [Actor -> Actor \cup {Client, Pool, None}]
       /\ (y = "resolve" => arg'[c] = Value(f))
       /\ y \in {"resolve", "done"} /\ (y = "resolve" => remaining[f] = 1)
  <2>1. CASE remaining[f] = 1
    <3>1. arg' = [arg EXCEPT ![c] = Value(f)] /\ pc' = [pc EXCEPT ![c] = "resolve"] /\ host' = host
      BY <1>1, <2>1, Zenon DEF ResolveWith, Goto
    <3>2. QED
      BY <1>2, <1>3, <2>1, <3>1, ZenonT(30) DEF TypeCore
  <2>2. CASE remaining[f] # 1
    <3>1. arg' = arg /\ pc' = [pc EXCEPT ![c] = "done"] /\ host' = [host EXCEPT ![c] = None]
      BY <1>1, <2>2, ZenonT(30) DEF Leave
    <3>2. QED
      BY <1>3, <2>2, <3>1, ZenonT(30) DEF TypeCore
  <2>3. QED
    BY <2>1, <2>2, Zenon
<1> HIDE DEF y
<1>12. y = "resolve" => Due(shape, slots', result, Target(c), arg'[c])
  <2> SUFFICES ASSUME y = "resolve" PROVE Due(shape, slots', result, f, Value(f))
    BY <1>2, <1>11, ZenonT(60)
  <2>1. \A i \in 1..Count(f) : slots'[f][i] # None
    BY <1>1, <1>9, <1>11, ZenonT(60) DEF Unfilled
  <2>2. Value(f).ok
    BY SMTT(30) DEF Value
  <2>3. QED
    BY <1>1, <2>1, <2>2, ZenonT(30) DEF Due
<1>13. /\ TypeCore' /\ Started' /\ Events' /\ Sleepers'
       /\ (\A d \in Continuation : Ready(d)') /\ Justified'
  <2>1. result[Input(c)] # None
    BY <1>2, Zenon DEF r
  <2>2. Fits(c, y)
    BY <1>11, <2>1, ZenonT(60) DEF Fits
  <2>3. QED
    BY <1>1, <1>2, <1>10, <1>11, <1>12, <2>2, LocalStep, ZenonT(30)
<1>14. TypeAggregates'
  <2>2. \A h \in Derived : slots'[h] \in [1..Count(h) -> Result \cup {None}]
    BY <1>3, <1>4, <1>6, ZenonT(30) DEF TypeAggregates
  <2>3. slots' = [h \in Derived |-> slots'[h]] /\ remaining' = [h \in Derived |-> remaining'[h]]
    BY <1>1, <1>3, ZenonT(30) DEF TypeAggregates
  <2>4. QED
    BY <1>1, <1>3, <2>2, <2>3, ZenonT(60) DEF TypeAggregates
<1>15. pc'[c] = y /\ \A b \in Actor : b # c => pc'[b] = pc[b]
  BY <1>2, <1>3, <1>11, ZenonT(30) DEF TypeCore
<1>16. ASSUME NEW h \in Derived PROVE Aggregate(h)'
  <2>1. \A i \in 1..Count(h) : <<h, i>> \in Actor
    BY <1>3, ShapeFacts, ActorFacts, ZenonT(60)
  <2>2. CASE h # f
    <3>1. ASSUME NEW i \in 1..Count(h) PROVE pc'[<<h, i>>] = pc[<<h, i>>]
      <4>1. <<h, i>> # c
        <5>1. ASSUME c = <<h, i>> PROVE c[1] = h
          BY <5>1, ZenonT(60)
        <5>2. QED
          BY <2>2, <5>1, Zenon DEF f
      <4>2. QED
        BY <1>15, <2>1, <4>1, Zenon
    <3>2. QED
      BY <1>1, <1>4, <2>2, <3>1, AggregateKept, ZenonT(60)
  <2>3. CASE h = f
    <3>1. \A i \in 1..Count(f) : slots'[f][i] # None =>
             slots'[f][i] = result[Inputs(f)[i]] /\ slots'[f][i].ok
      <4>1. r = result[Inputs(f)[k]] /\ r.ok
        BY <1>2, Zenon
      <4>2. ASSUME NEW i \in 1..Count(f), slots[f][i] # None
            PROVE  slots[f][i] = result[Inputs(f)[i]] /\ slots[f][i].ok
        BY <1>3, <4>2, Zenon DEF Aggregate
      <4>3. QED
        BY <1>6, <4>1, <4>2, ZenonT(60)
    <3>2. \A i \in 1..Count(f) : pc'[<<f, i>>] \in Early => slots'[f][i] = None
      <4>1. \A i \in 1..Count(f) : i # k => <<f, i>> # c
        BY <1>2, SMTT(30)
      <4>2. QED
        <5>1. \A i \in 1..Count(f) : pc[<<f, i>>] \in Early => slots[f][i] = None
          BY <1>3, ZenonT(60) DEF Aggregate
        <5>2. pc'[<<f, k>>] \notin Early
          BY <1>2, <1>11, <1>15 DEF Early
        <5>3. \A i \in 1..Count(f) : i # k => pc'[<<f, i>>] = pc[<<f, i>>]
          BY <1>15, <2>1, <2>3, <4>1, ZenonT(60)
        <5>4. QED
          BY <1>6, <5>1, <5>2, <5>3, ZenonT(60)
    <3>3. \A i \in 1..Count(f) : pc'[<<f, i>>] = "count" => pc[<<f, i>>] = "count"
      BY <1>11, <1>15, <2>1, <2>3, ZenonT(60)
    <3>4. QED
      <4>1. (remaining[f] = Cardinality(Unfilled(f)))'
        BY <1>9, Zenon
      <4>2. (\A i \in 1..Count(f) : slots[f][i] # None =>
                slots[f][i] = result[Inputs(f)[i]] /\ slots[f][i].ok)'
        BY <1>1, <3>1, Zenon
      <4>3. (\A i \in 1..Count(f) : pc[<<f, i>>] \in Early => slots[f][i] = None)'
        BY <1>1, <3>2, Zenon
      <4>4. (KindOf(f) # "AnyOf" /\ failed[f] = 0)'
        BY <1>1, <1>3, Zenon DEF Aggregate
      <4>5. (firstError[f] # None => ~ firstError[f].ok
                /\ \E i \in 1..Count(f) : firstError[f] = result[Inputs(f)[i]])'
        BY <1>1, <1>3, Zenon DEF Aggregate
      <4>6. (~ winner[f] => \A i \in 1..Count(f) : pc[<<f, i>>] = "count" => firstError[f] # None)'
        BY <1>1, <1>3, <3>3, Zenon DEF Aggregate
      <4>7. Aggregate(f)'
        BY <4>1, <4>2, <4>3, <4>4, <4>5, <4>6, Zenon DEF Aggregate
      <4>8. QED
        BY <2>3, <4>7, Zenon
  <2>4. QED
    BY <2>2, <2>3, ZenonT(30)
<1>17. QED
  BY <1>13, <1>14, <1>16, ZenonT(60) DEF IInv

\* A continuation of AllOf runs: with an error, or with a value.
LEMMA RunAllOfInv ==
    ASSUME IInv, NEW c \in Continuation, RunAllOf(c)
    PROVE  IInv'
  BY AllOfErrorInv, AllOfValueInv, Zenon

\* The error noted is one of the inputs', and it is there when it is needed.
Noted(f) ==
    /\ firstError[f] # None => ~ firstError[f].ok
                               /\ \E i \in 1..Count(f) : firstError[f] = result[Inputs(f)[i]]
    /\ ~ winner[f] => \A i \in 1..Count(f) : pc[<<f, i>>] = "count" => firstError[f] # None

\* A step of AnyOf that keeps the shared state of its future in order.
LEMMA AnyOfStep ==
    ASSUME IInv, NEW c \in Continuation, pc[c] \in {"react", "assign", "count"},
           KindOf(c[1]) = "AnyOf", NEW y \in {"assign", "count", "resolve", "done"},
           pc' = [pc EXCEPT ![c] = y], arg' \in [Actor -> Result \cup {None}],
           \A b \in Actor : b # c => arg'[b] = arg[b],
           host' \in [Actor -> Actor \cup {Client, Pool, None}],
           UNCHANGED <<shape, result, done, waiters, walk, built, get, slots, remaining>>,
           winner' \in [Derived -> BOOLEAN], failed' = [h \in Derived |-> failed'[h]],
           firstError' \in [Derived -> Result \cup {None}],
           \A h \in Derived : h # c[1] => winner'[h] = winner[h] /\ failed'[h] = failed[h]
                                          /\ firstError'[h] = firstError[h],
           y = "resolve" => arg'[c] \in Result /\ Due(shape, slots, result, c[1], arg'[c]),
           y \in {"assign", "count"} => ~ InputOk(c),
           failed'[c[1]] = Cardinality(Counted(c[1])'),
           Noted(c[1])'
    PROVE  IInv'
<1>1. /\ c \in Actor /\ c[1] \in Derived /\ Target(c) = c[1] /\ c = <<c[1], c[2]>>
      /\ result[Input(c)] # None
  BY AtFacts, ZenonT(30) DEF Ready
<1>2. /\ TypeCore' /\ Started' /\ Events' /\ Sleepers'
      /\ (\A d \in Continuation : Ready(d)') /\ Justified'
  <2>1. Fits(c, y)
    BY <1>1 DEF Fits, InputOk
  <2>2. QED
    BY <1>1, <2>1, LocalStep, ZenonT(30)
<1>3. TypeAggregates'
  BY ZenonT(60) DEF IInv, TypeAggregates
<1>4. pc'[c] = y /\ \A b \in Actor : b # c => pc'[b] = pc[b]
  BY <1>1, SMTT(30) DEF IInv, TypeCore
<1>5. ASSUME NEW h \in Derived PROVE Aggregate(h)'
  <2>1. \A i \in 1..Count(h) : <<h, i>> \in Actor
    BY ShapeFacts, ActorFacts, ZenonT(60) DEF IInv
  <2>2. CASE h # c[1]
    <3>1. ASSUME NEW i \in 1..Count(h) PROVE pc'[<<h, i>>] = pc[<<h, i>>]
      <4>1. <<h, i>> # c
        <5>1. ASSUME c = <<h, i>> PROVE c[1] = h
          BY <5>1, Zenon
        <5>2. QED
          BY <2>2, <5>1, Zenon
      <4>2. QED
        BY <1>4, <2>1, <4>1, Zenon
    <3>2. QED
      BY <2>2, <3>1, AggregateKept, ZenonT(60)
  <2>3. CASE h = c[1]
    <3>1. Aggregate(h) /\ Unfilled(h)' = Unfilled(h)
      BY ZenonT(60) DEF IInv, Unfilled
    <3>2. \A i \in 1..Count(h) : pc'[<<h, i>>] \in Early => pc[<<h, i>>] \in Early
      BY <1>4, <2>1, SMTT(30) DEF Early
    <3>3. /\ KindOf(h)' = "AnyOf"
          /\ remaining'[h] = Cardinality(Unfilled(h)') /\ failed'[h] = Cardinality(Counted(h)')
      BY <2>3, <3>1, Zenon DEF Aggregate
    <3>4. /\ \A i \in 1..Count(h) : slots[h][i] # None =>
                slots[h][i] = result[Inputs(h)[i]] /\ slots[h][i].ok
          /\ \A i \in 1..Count(h) : pc'[<<h, i>>] \in Early => slots[h][i] = None
      BY <3>1, <3>2, Zenon DEF Aggregate
    <3>5. Noted(h)'
      BY <2>3, ZenonT(60) DEF Noted
    <3>6. QED
      BY <3>3, <3>4, <3>5, ZenonT(60) DEF Aggregate, Noted
  <2>4. QED
    BY <2>2, <2>3, Zenon
<1>6. QED
  BY <1>2, <1>3, <1>5, ZenonT(60) DEF IInv

\* Two sets that differ at most at k, which neither contains, are equal.
LEMMA SameBut ==
    ASSUME NEW S, NEW A, NEW B, NEW k, A \subseteq S, B \subseteq S,
           \A i \in S : i # k => (i \in A <=> i \in B), k \notin A, k \notin B
    PROVE  A = B
<1>1. \A i : i \in A <=> i \in B
  <2> TAKE i
  <2>1. CASE i = k
    BY <2>1
  <2>2. CASE i # k
    BY <2>2
  <2>3. QED
    BY <2>1, <2>2
<1>2. QED
  BY <1>1

\* What holds of AnyOf's shared state before a step of continuation c.
LEMMA AnyOfFacts ==
    ASSUME IInv, NEW c \in Continuation, pc[c] \in {"react", "assign", "count"},
           KindOf(c[1]) = "AnyOf", shape' = shape, result' = result,
           NEW y, pc' = [pc EXCEPT ![c] = y]
    PROVE  /\ c \in Actor /\ c[1] \in Derived /\ c = <<c[1], c[2]>> /\ c[2] \in 1..Count(c[1])
           /\ result[Input(c)] \in Result /\ result[Input(c)] = result[Inputs(c[1])[c[2]]]
           /\ TypeCore /\ TypeAggregates /\ Aggregate(c[1])
           /\ pc'[c] = y /\ \A i \in 1..Count(c[1]) :
                 <<c[1], i>> \in Actor /\ (i # c[2] => pc'[<<c[1], i>>] = pc[<<c[1], i>>])
           /\ c[2] \notin Counted(c[1])
           /\ Counted(c[1])' = IF y \in Late /\ ~ InputOk(c)
                               THEN Counted(c[1]) \cup {c[2]} ELSE Counted(c[1])
<1>1. /\ c \in Actor /\ c[1] \in Derived /\ c = <<c[1], c[2]>> /\ c[2] \in 1..Count(c[1])
      /\ result[Input(c)] \in Result
  BY AtFacts, Zenon DEF Ready
<1>2. TypeCore /\ TypeAggregates /\ Aggregate(c[1])
  BY <1>1, ZenonT(30) DEF IInv
<1>3. \A i \in 1..Count(c[1]) : <<c[1], i>> \in Actor
  BY <1>1, <1>2, ShapeFacts, ActorFacts, ZenonT(60)
<1>4. pc'[c] = y /\ \A b \in Actor : b # c => pc'[b] = pc[b]
  BY <1>1, <1>2, ZenonT(30) DEF TypeCore
<1>5. \A i \in 1..Count(c[1]) : i # c[2] => pc'[<<c[1], i>>] = pc[<<c[1], i>>]
  BY <1>1, <1>3, <1>4, SMTT(30)
<1>6. c[2] \notin Counted(c[1])
  BY <1>1, Zenon DEF Counted, Late
<1>7. Counted(c[1])' = IF y \in Late /\ ~ InputOk(c)
                       THEN Counted(c[1]) \cup {c[2]} ELSE Counted(c[1])
  <2>1. \A i \in 1..Count(c[1]) : i # c[2] => (i \in Counted(c[1])' <=> i \in Counted(c[1]))
    BY <1>5, ZenonT(60) DEF Counted
  <2>2. c[2] \in Counted(c[1])' <=> y \in Late /\ ~ InputOk(c)
    BY <1>1, <1>4, Zenon DEF Counted, InputOk
  <2>3. Counted(c[1]) \subseteq 1..Count(c[1]) /\ Counted(c[1])' \subseteq 1..Count(c[1])
    BY Zenon DEF Counted
  <2>4. CASE y \in Late /\ ~ InputOk(c)
    <3>1. Counted(c[1])' = Counted(c[1]) \cup {c[2]}
      BY <1>1, <2>1, <2>2, <2>3, <2>4, ZenonT(30)
    <3>2. QED
      BY <2>4, <3>1, ZenonT(30)
  <2>5. CASE ~ (y \in Late /\ ~ InputOk(c))
    <3>1. c[2] \notin Counted(c[1])'
      BY <2>2, <2>5, ZenonT(30)
    <3>2. Counted(c[1])' = Counted(c[1])
      <4> DEFINE S == 1..Count(c[1])
                 A == Counted(c[1])'
                 B == Counted(c[1])
                 k == c[2]
      <4>1. /\ A \subseteq S /\ B \subseteq S /\ k \notin A /\ k \notin B
            /\ \A i \in S : i # k => (i \in A <=> i \in B)
        BY <1>6, <2>1, <2>3, <3>1, ZenonT(60)
      <4> HIDE DEF S, A, B, k
      <4>2. A = B
        BY <4>1, SameBut
      <4>3. QED
        BY <4>2 DEF A, B
    <3>3. QED
      BY <2>5, <3>2, ZenonT(30)
  <2>6. QED
    BY <2>4, <2>5, ZenonT(30)
<1>8. QED
  BY <1>1, <1>2, <1>3, <1>4, <1>5, <1>6, <1>7, SMTT(30)

\* AnyOf reacts to its input: the first value wins, an error is to be counted.
LEMMA RunAnyOfInv ==
    ASSUME IInv, NEW c \in Continuation, RunAnyOf(c)
    PROVE  IInv'
<1> DEFINE f == c[1]
           r == result[Input(c)]
<1>1. /\ KindOf(f) = "AnyOf" /\ pc[c] = "react"
      /\ UNCHANGED <<shape, result, done, waiters, walk, built, get, slots, remaining,
                     failed, firstError>>
  BY Zenon DEF RunAnyOf, At, states
<1>2. /\ c \in Actor /\ f \in Derived /\ c[2] \in 1..Count(f) /\ c = <<f, c[2]>>
      /\ TypeCore /\ TypeAggregates /\ Aggregate(f)
      /\ r \in Result /\ r = result[Inputs(f)[c[2]]]
  BY <1>1, AtFacts, ZenonT(30) DEF Ready, IInv
<1>3. \A i \in 1..Count(f) : <<f, i>> \in Actor
  BY <1>2, ShapeFacts, ActorFacts, ZenonT(60)
<1>4. ASSUME NEW y \in {"assign", "count", "resolve", "done"}, pc' = [pc EXCEPT ![c] = y],
             arg' \in [Actor -> Result \cup {None}], \A b \in Actor : b # c => arg'[b] = arg[b],
             host' \in [Actor -> Actor \cup {Client, Pool, None}], winner' \in [Derived -> BOOLEAN],
             \A h \in Derived : h # f => winner'[h] = winner[h],
             winner[f] => winner'[f], y = "count" => winner[f],
             y = "resolve" => arg'[c] = r, y \in Late <=> InputOk(c)
      PROVE  IInv'
  <2>1. Counted(f)' = Counted(f) /\ pc'[c] = y
        /\ \A i \in 1..Count(f) : i # c[2] => pc'[<<f, i>>] = pc[<<f, i>>]
    BY <1>1, <1>4, AnyOfFacts, ZenonT(30)
  <2>2. failed'[f] = Cardinality(Counted(f)') /\ failed' = [h \in Derived |-> failed'[h]]
        /\ firstError' \in [Derived -> Result \cup {None}]
    BY <1>1, <1>2, <2>1, Zenon DEF Aggregate, TypeAggregates
  <2>3. firstError'[f] # None => ~ firstError'[f].ok
           /\ \E i \in 1..Count(f) : firstError'[f] = result[Inputs(f)[i]]
    BY <1>1, <1>2, ZenonT(60) DEF Aggregate
  <2>4. ~ winner'[f] => \A i \in 1..Count(f) : pc'[<<f, i>>] = "count" => firstError'[f] # None
    <3>1. SUFFICES ASSUME ~ winner'[f], NEW i \in 1..Count(f), pc'[<<f, i>>] = "count"
                   PROVE  firstError[f] # None
      BY <1>1, Zenon
    <3>2. ~ winner[f] /\ y # "count"
      BY <1>4, <3>1, Zenon
    <3>3. i # c[2]
      BY <1>2, <2>1, <3>1, <3>2, Zenon
    <3>4. pc[<<f, i>>] = "count"
      BY <2>1, <3>1, <3>3, Zenon
    <3>5. QED
      BY <1>2, <3>2, <3>4, Zenon DEF Aggregate
  <2>5. y = "resolve" => arg'[c] \in Result /\ Due(shape, slots, result, f, arg'[c])
    BY <1>1, <1>2, <1>4, Zenon DEF Due, Late, InputOk
  <2>6. y \in {"assign", "count"} => ~ InputOk(c)
    BY <1>4, Zenon DEF Late
  <2>7. \A h \in Derived : h # f => winner'[h] = winner[h] /\ failed'[h] = failed[h]
                                    /\ firstError'[h] = firstError[h]
    BY <1>1, <1>4, ZenonT(60)
  <2>8. Noted(f)'
    BY <1>1, <2>3, <2>4, Zenon DEF Noted
  <2>9. QED
    BY <1>1, <1>4, <2>2, <2>5, <2>6, <2>7, <2>8, AnyOfStep, ZenonT(30)
<1>5. CASE ~ InputOk(c) /\ Goto(c, IF winner[f] THEN "count" ELSE "assign") /\ UNCHANGED <<arg, winner>>
  <2> DEFINE y == IF winner[f] THEN "count" ELSE "assign"
  <2>1. pc' = [pc EXCEPT ![c] = y] /\ host' = host /\ arg' = arg /\ winner' = winner /\ ~ InputOk(c)
    BY <1>5, ZenonT(30) DEF Goto
  <2>2. y \in {"assign", "count", "resolve", "done"} /\ y \notin Late /\ y # "resolve"
        /\ (y = "count" => winner[f])
    BY SMTT(30) DEF Late
  <2> HIDE DEF y
  <2>3. QED
    BY <1>2, <1>4, <2>1, <2>2, ZenonT(30) DEF TypeCore, TypeAggregates
<1>6. CASE InputOk(c) /\ winner' = [winner EXCEPT ![f] = TRUE] /\ ResolveWith(c, r)
  <2>1. pc' = [pc EXCEPT ![c] = "resolve"] /\ host' = host /\ arg' = [arg EXCEPT ![c] = r] /\ InputOk(c)
    BY <1>6, ZenonT(60) DEF ResolveWith, Goto
  <2>2. arg' \in [Actor -> Result \cup {None}] /\ arg'[c] = r
        /\ \A b \in Actor : b # c => arg'[b] = arg[b]
    BY <1>2, <2>1, ZenonT(60) DEF TypeCore
  <2>3. winner' \in [Derived -> BOOLEAN] /\ winner'[f]
        /\ \A h \in Derived : h # f => winner'[h] = winner[h]
    BY <1>2, <1>6, ZenonT(30) DEF TypeAggregates
  <2>4. "resolve" \in Late
    BY ZenonT(60) DEF Late
  <2>5. QED
    BY <1>2, <1>4, <2>1, <2>2, <2>3, <2>4, ZenonT(30) DEF TypeCore
<1>7. CASE InputOk(c) /\ Leave(c, "done") /\ UNCHANGED <<arg, winner>>
  <2>1. pc' = [pc EXCEPT ![c] = "done"] /\ host' \in [Actor -> Actor \cup {Client, Pool, None}]
        /\ arg' = arg /\ winner' = winner /\ InputOk(c)
    BY <1>2, <1>7, ZenonT(30) DEF Leave, TypeCore
  <2>2. "done" \in Late
    BY SMTT(30) DEF Late
  <2>3. QED
    BY <1>2, <1>4, <2>1, <2>2, ZenonT(60) DEF TypeCore, TypeAggregates
<1>8. QED
  BY <1>5, <1>6, <1>7, Zenon DEF RunAnyOf, InputOk

\* Whichever of the overlapping assignments stays, it is the error of an input.
LEMMA AssignFirstErrorInv ==
    ASSUME IInv, NEW c \in Continuation, AssignFirstError(c)
    PROVE  IInv'
<1> DEFINE f == c[1]
<1>1. /\ pc[c] = "assign" /\ pc' = [pc EXCEPT ![c] = "count"] /\ host' = host
      /\ UNCHANGED <<shape, result, done, waiters, arg, walk, built, get, slots, remaining,
                     winner, failed>>
  BY SMTT(30) DEF AssignFirstError, At, Goto, states
<1>2. PICK d \in Continuation :
         d[1] = f /\ pc[d] = "assign" /\ firstError' = [firstError EXCEPT ![f] = result[Input(d)]]
  BY Zenon DEF AssignFirstError
<1>3. KindOf(f) = "AnyOf" /\ ~ InputOk(c)
  BY <1>1, AtFacts, ZenonT(60) DEF Ready, InputOk
<1>4. /\ d[2] \in 1..Count(f) /\ result[Input(d)] \in Result /\ result[Input(d)] # None
      /\ ~ result[Input(d)].ok /\ result[Input(d)] = result[Inputs(f)[d[2]]]
  BY <1>2, AtFacts, ZenonT(60) DEF Ready, Input
<1>5. /\ f \in Derived /\ TypeCore /\ TypeAggregates /\ Aggregate(f)
      /\ Counted(f)' = Counted(f)
  <2>1. "count" \notin Late
    BY Zenon DEF Late
  <2>2. QED
    BY <1>1, <1>3, <2>1, AnyOfFacts, ZenonT(30)
<1>6. /\ firstError' \in [Derived -> Result \cup {None}] /\ firstError'[f] = result[Input(d)]
      /\ \A h \in Derived : h # f => firstError'[h] = firstError[h]
  BY <1>2, <1>4, <1>5, ZenonT(30) DEF TypeAggregates
<1>7. failed'[f] = Cardinality(Counted(f)') /\ failed' = [h \in Derived |-> failed'[h]]
      /\ winner' \in [Derived -> BOOLEAN]
  BY <1>1, <1>3, <1>5, ZenonT(30) DEF Aggregate, TypeAggregates
<1>8. arg' \in [Actor -> Result \cup {None}] /\ host' \in [Actor -> Actor \cup {Client, Pool, None}]
  BY <1>1, <1>5, ZenonT(60) DEF TypeCore
<1>9. firstError'[f] # None /\ ~ firstError'[f].ok
      /\ \E i \in 1..Count(f) : firstError'[f] = result[Inputs(f)[i]]
  BY <1>4, <1>6, ZenonT(30)
<1>10. Noted(f)'
  BY <1>1, <1>9, Zenon DEF Noted
<1>11. QED
  BY <1>1, <1>3, <1>6, <1>7, <1>8, <1>10, AnyOfStep, ZenonT(30)

\* The continuation that counts the last failure finds an error noted, and
\* every input failed.
LEMMA CountFailedInv ==
    ASSUME IInv, NEW c \in Continuation, CountFailed(c)
    PROVE  IInv'
<1> DEFINE f == c[1]
           k == c[2]
           last == failed[f] + 1 = Count(f) /\ ~ winner[f]
           y == IF last THEN "resolve" ELSE "done"
<1>1. /\ pc[c] = "count" /\ failed' = [failed EXCEPT ![f] = @ + 1]
      /\ UNCHANGED <<shape, result, done, waiters, walk, built, get, slots, remaining,
                     winner, firstError>>
  BY ZenonT(60) DEF CountFailed, At, states
<1>2. KindOf(f) = "AnyOf" /\ ~ InputOk(c)
  BY <1>1, AtFacts, ZenonT(60) DEF Ready, InputOk
<1>3. TypeCore /\ TypeAggregates /\ f \in Derived /\ c \in Actor /\ c = <<f, k>> /\ k \in 1..Count(f)
      /\ Aggregate(f)
  BY <1>1, AtFacts, ZenonT(60) DEF IInv
<1>4. last => firstError[f] \in Result /\ firstError[f] # None /\ ~ firstError[f].ok
              /\ \E i \in 1..Count(f) : firstError[f] = result[Inputs(f)[i]]
  <2>1. ~ winner[f] => firstError[f] # None
    BY <1>1, <1>3, Zenon DEF Aggregate
  <2>2. firstError[f] # None => ~ firstError[f].ok
                             /\ \E i \in 1..Count(f) : firstError[f] = result[Inputs(f)[i]]
    BY <1>3, Zenon DEF Aggregate
  <2>3. firstError[f] \in Result \cup {None}
    BY <1>3, Zenon DEF TypeAggregates
  <2>4. firstError[f] # None => firstError[f] \in Result
    BY <2>3, Zenon
  <2>5. QED
    BY <2>1, <2>2, <2>4, Zenon
<1>5. /\ pc' = [pc EXCEPT ![c] = y] /\ arg' \in [Actor -> Result \cup {None}]
      /\ (\A b \in Actor : b # c => arg'[b] = arg[b])
      /\ host' \in [Actor -> Actor \cup {Client, Pool, None}]
      /\ (last => arg'[c] = firstError[f])
  <2>1. CASE last
    <3>1. arg' = [arg EXCEPT ![c] = firstError[f]] /\ pc' = [pc EXCEPT ![c] = "resolve"] /\ host' = host
      BY <2>1, Zenon DEF CountFailed, ResolveWith, Goto
    <3>2. QED
      BY <1>3, <1>4, <2>1, <3>1, ZenonT(60) DEF TypeCore
  <2>2. CASE ~ last
    <3>1. arg' = arg /\ pc' = [pc EXCEPT ![c] = "done"] /\ host' = [host EXCEPT ![c] = None]
      BY <2>2, Zenon DEF CountFailed, Leave
    <3>2. QED
      BY <1>3, <2>2, <3>1, ZenonT(30) DEF TypeCore
  <2>3. QED
    BY <2>1, <2>2, ZenonT(30)
<1>6. y \in {"assign", "count", "resolve", "done"} /\ y \in Late /\ (y = "resolve" => last)
      /\ y \notin {"assign", "count"}
  BY Zenon DEF Late
<1> HIDE DEF y
<1>7. /\ Counted(f)' = Counted(f) \cup {k} /\ k \notin Counted(f) /\ pc'[c] = y
      /\ \A i \in 1..Count(f) : i # k => pc'[<<f, i>>] = pc[<<f, i>>]
  BY <1>1, <1>2, <1>5, <1>6, AnyOfFacts, ZenonT(30)
<1>8. failed[f] = Cardinality(Counted(f)) /\ failed'[f] = failed[f] + 1
      /\ failed' = [h \in Derived |-> failed'[h]]
      /\ \A h \in Derived : h # f => failed'[h] = failed[h]
  BY <1>1, <1>2, <1>3, ZenonT(30) DEF Aggregate, TypeAggregates
<1>9. IsFiniteSet(Counted(f)') /\ failed'[f] = Cardinality(Counted(f)')
  <2>1. IsFiniteSet(Counted(f))
    BY <1>3, CountFacts, ZenonT(30)
  <2> DEFINE C == Counted(f)
  <2> HIDE DEF C
  <2>2. IsFiniteSet(C) /\ k \notin C
    BY <1>7, <2>1, ZenonT(30) DEF C
  <2>3. IsFiniteSet(C \cup {k}) /\ Cardinality(C \cup {k}) = Cardinality(C) + 1
    BY <2>2, FS_AddElement, ZenonT(30)
  <2>4. QED
    BY <1>7, <1>8, <2>3, ZenonT(30) DEF C
<1>10. last => Counted(f)' = 1..Count(f)
  <2>1. Counted(f)' \subseteq 1..Count(f)
    BY <1>1, ZenonT(30) DEF Counted
  <2>2. IsFiniteSet(1..Count(f)) /\ Cardinality(1..Count(f)) = Count(f)
    BY <1>3, CountFacts, ZenonT(60)
  <2>3. QED
    BY <1>8, <1>9, <2>1, <2>2, FS_Subset, ZenonT(60)
<1>11. last => \A i \in 1..Count(f) : result[Inputs(f)[i]] # None /\ ~ result[Inputs(f)[i]].ok
  <2> SUFFICES ASSUME last, NEW i \in 1..Count(f)
               PROVE  result[Inputs(f)[i]] # None /\ ~ result[Inputs(f)[i]].ok
    BY Zenon
  <2>1. i \in Counted(f) \/ i = k
    BY <1>7, <1>10, ZenonT(30)
  <2>2. <<f, i>> \in Continuation /\ Ready(<<f, i>>)
    BY <1>3, ShapeFacts, Zenon DEF IInv
  <2>3. pc[<<f, i>>] \in Late \cup {"count"} /\ ~ result[Inputs(f)[i]].ok
    BY <1>1, <1>2, <1>3, <2>1, ZenonT(60) DEF Counted, InputOk
  <2>4. QED
    BY <2>2, <2>3, Zenon DEF Ready, Late
<1>12. y = "resolve" => arg'[c] \in Result /\ Due(shape, slots, result, f, arg'[c])
  BY <1>2, <1>4, <1>5, <1>6, <1>11, ZenonT(60) DEF Due
<1>13. ~ winner'[f] => \A i \in 1..Count(f) : pc'[<<f, i>>] = "count" => firstError'[f] # None
  <2>1. ~ winner[f] => firstError[f] # None
    BY <1>1, <1>3, Zenon DEF Aggregate
  <2>2. QED
    BY <1>1, <2>1, Zenon
<1>14. firstError'[f] # None => ~ firstError'[f].ok
          /\ \E i \in 1..Count(f) : firstError'[f] = result[Inputs(f)[i]]
  BY <1>1, <1>3, ZenonT(30) DEF Aggregate
<1>15. winner' \in [Derived -> BOOLEAN] /\ firstError' \in [Derived -> Result \cup {None}]
  BY <1>1, <1>3, ZenonT(30) DEF TypeAggregates
<1>16. Noted(f)'
  BY <1>1, <1>13, <1>14, Zenon DEF Noted
<1>17. QED
  BY <1>1, <1>2, <1>5, <1>6, <1>8, <1>9, <1>12, <1>15, <1>16, AnyOfStep, ZenonT(30)

-----------------------------------------------------------------------------
(***************************************************************************)
(* The theorems.                                                           *)
(***************************************************************************)
\* Nothing has been resolved, and no continuation has been started.
LEMMA InitInv == Init => IInv
<1> SUFFICES ASSUME Init PROVE IInv
  BY SMTT(30)
<1>1. shape \in Shapes /\ shape.plan \in Seq(Continuation)
  BY ShapesAreNetworks, ZenonT(30) DEF Init
<1>2. TypeCore
  <2>1. built \in 0..Len(shape.plan)
    BY <1>1 DEF Init
  <2>2. QED
    BY <1>1, <2>1, ZenonT(30) DEF Init, TypeCore
<1>3. TypeAggregates
  BY SMTT(30) DEF Init, TypeAggregates
<1>4. Started /\ Events /\ Sleepers /\ Justified
  <2>1. \A a \in Actor : Target(a) \in AFuture
    BY ActorFacts, ZenonT(30)
  <2>2. \A c \in Continuation : c \in Actor
    BY ActorFacts, ZenonT(30)
  <2>3. \A g \in Getter : GetsFrom(g) \in AFuture
    BY <1>1, ShapesAreNetworks, Zenon
  <2>4. QED
    BY <2>1, <2>2, <2>3, ZenonT(30) DEF Init, Started, Events, Sleepers, Justified
<1>5. \A c \in Continuation : Ready(c)
  BY ActorFacts, Zenon DEF Init, Ready
<1>6. ASSUME NEW f \in Derived PROVE Aggregate(f)
  <2>1. Count(f) \in Nat /\ \A i \in 1..Count(f) : <<f, i>> \in Actor
    BY <1>2, ShapeFacts, ActorFacts, ZenonT(30)
  <2>2. slots[f] = [i \in 1..Count(f) |-> None] /\ remaining[f] = Count(f) /\ ~ winner[f]
        /\ failed[f] = 0 /\ firstError[f] = None
        /\ \A i \in 1..Count(f) : pc[<<f, i>>] = "new"
    BY <2>1, ZenonT(30) DEF Init
  <2>3. Unfilled(f) = 1..Count(f) /\ Counted(f) = {}
    BY <2>2, ZenonT(30) DEF Unfilled, Counted, Late
  <2> DEFINE n == Count(f)
  <2> HIDE DEF n
  <2>4. n \in Nat
    BY <2>1, ZenonT(30) DEF n
  <2>5. Cardinality(1..n) = IF 1 > n THEN 0 ELSE n - 1 + 1
    BY <2>4, FS_Interval
  <2>6. Cardinality(Unfilled(f)) = Count(f)
    BY <2>3, <2>4, <2>5 DEF n
  <2>7. Cardinality(Counted(f)) = 0
    BY <2>3, FS_EmptySet, ZenonT(30)
  <2>8. QED
    BY <2>2, <2>6, <2>7, ZenonT(30) DEF Aggregate
<1>7. QED
  BY <1>2, <1>3, <1>4, <1>5, <1>6, ZenonT(60) DEF IInv

\* One step per action.
LEMMA StepInv == IInv /\ [Next]_vars => IInv'
<1> SUFFICES ASSUME IInv, [Next]_vars PROVE IInv'
  BY Zenon
<1>1. CASE Attach
  BY <1>1, AttachInv, ZenonT(30)
<1>2. ASSUME NEW a \in Actor, Step(a) PROVE IInv'
  <2>1. CASE a \in Source /\ Produce(a)
    BY <2>1, ProduceInv, ZenonT(30)
  <2>2. CASE Publish(a)
    BY <2>2, PublishInv, ZenonT(30)
  <2>3. CASE SetDone(a)
    BY <2>3, SetDoneInv, ZenonT(30)
  <2>4. CASE NotifyAll(a)
    BY <2>4, NotifyAllInv, ZenonT(30)
  <2>5. CASE \E c \in Continuation : ResumeWaiter(a, c)
    BY <2>5, ResumeWaiterInv, ZenonT(30)
  <2>6. CASE a \in Continuation /\ (Await(a) \/ AwaitNext(a))
    BY <2>6, AwaitInv, AwaitNextInv, ZenonT(30)
  <2>7. CASE a \in Continuation /\ (RunThen(a) \/ RunOnError(a) \/ RunWhenComplete(a))
    BY <2>7, RunThenInv, ZenonT(60)
  <2>8. CASE a \in Continuation /\ (RunThenAsync(a) \/ FinishThenAsync(a))
    BY <2>8, RunThenAsyncInv, FinishThenAsyncInv, ZenonT(30)
  <2>9. CASE a \in Continuation /\ (RunAllOf(a) \/ RunAnyOf(a))
    BY <2>9, RunAllOfInv, RunAnyOfInv, ZenonT(30)
  <2>10. CASE a \in Continuation /\ (AssignFirstError(a) \/ CountFailed(a))
    BY <2>10, AssignFirstErrorInv, CountFailedInv, ZenonT(30)
  <2>11. QED
    BY <1>2, <2>1, <2>2, <2>3, <2>4, <2>5, <2>6, <2>7, <2>8, <2>9, <2>10, ZenonT(60) DEF Step
<1>3. ASSUME NEW g \in Getter, CheckResolved(g) \/ SpuriousWakeup(g) \/ Timeout(g) PROVE IInv'
  BY <1>3, GetterInv, ZenonT(30)
<1>4. CASE UNCHANGED vars
  <2>1. UNCHANGED <<shape, result, done, waiters, pc, arg, walk, host, built, get, aggregates>>
    BY <1>4, ZenonT(60) DEF vars, aggregates
  <2>2. TypeCore' /\ Started' /\ Events' /\ Sleepers'
    <3>1. TypeCore' /\ Started'
      BY <2>1, ZenonT(60) DEF IInv, TypeCore, Started
    <3>2. Events'
      BY <2>1, EventsKept, Zenon DEF IInv
    <3>3. Sleepers'
      BY <2>1, ZenonT(60) DEF IInv, Sleepers
    <3>4. QED
      BY <3>1, <3>2, <3>3, Zenon
  <2>3. (\A c \in Continuation : Ready(c)') /\ Justified'
    BY <2>1, ZenonT(30) DEF IInv, Ready, Justified, aggregates
  <2>4. TypeAggregates' /\ \A f \in Derived : Aggregate(f)'
    BY <2>1, CompletionKeeps, ZenonT(30)
  <2>5. QED
    BY <2>2, <2>3, <2>4, ZenonT(30) DEF IInv
<1>5. QED
  BY <1>1, <1>2, <1>3, <1>4, ZenonT(30) DEF Next, Quiet

\* The inductive invariant implies the checked ones.
LEMMA IInvImplies == IInv => TypeOK /\ AllOfCorrect /\ AnyOfCorrect /\ NoForgottenWaiter
<1> SUFFICES ASSUME IInv PROVE TypeOK /\ AllOfCorrect /\ AnyOfCorrect /\ NoForgottenWaiter
  BY Zenon
<1>1. TypeCore /\ TypeAggregates /\ Events /\ Sleepers /\ Justified
  BY ZenonT(30) DEF IInv
<1>2. TypeOK
  <2>1. ASSUME NEW f \in Derived
        PROVE  remaining[f] \in 0..Count(f) /\ failed[f] \in 0..Count(f)
    <3>1. Aggregate(f) /\ Count(f) \in Nat
      BY <1>1, ShapeFacts, Zenon DEF IInv
    <3>2. Cardinality(Unfilled(f)) \in 0..Count(f) /\ Cardinality(Counted(f)) \in 0..Count(f)
      BY CountFacts, Zenon
    <3>3. \A n \in Nat : 0 \in 0..n
      OBVIOUS
    <3>4. QED
      BY <3>1, <3>2, <3>3, ZenonT(60) DEF Aggregate
  <2>2. QED
    BY <1>1, <2>1, ZenonT(60) DEF TypeOK, TypeCore, TypeAggregates
<1>3. ASSUME NEW f \in Derived, result[f] # None
      PROVE  Due(shape, slots, result, f, result[f]) /\ f \in AFuture /\ result[f] \in Result
  BY <1>1, <1>3, Zenon DEF Justified, AFuture, TypeCore
<1>4. \A f \in Derived : DOMAIN Inputs(f) = 1..Count(f)
  BY <1>1, ShapeFacts, ZenonT(30)
<1>5. ASSUME NEW f \in Derived, KindOf(f) = "AllOf"
      PROVE  /\ Succeeded(f) => \A i \in DOMAIN Inputs(f) :
                   Succeeded(Inputs(f)[i]) /\ slots[f][i] = result[Inputs(f)[i]]
             /\ Failed(f) => \E x \in InputsOf(f) : Failed(x) /\ result[x] = result[f]
  <2>1. Succeeded(f) => \A i \in 1..Count(f) :
           Succeeded(Inputs(f)[i]) /\ slots[f][i] = result[Inputs(f)[i]]
    <3>1. Aggregate(f)
      BY Zenon DEF IInv
    <3>2. Succeeded(f) => \A i \in 1..Count(f) : slots[f][i] # None
      BY <1>3, <1>5, ZenonT(30) DEF Succeeded, Due
    <3>3. QED
      BY <3>1, <3>2, ZenonT(30) DEF Succeeded, Aggregate
  <2>2. Failed(f) => \E i \in 1..Count(f) : result[Inputs(f)[i]] = result[f]
    BY <1>3, <1>5, ZenonT(30) DEF Failed, Due
  <2>3. QED
    BY <1>4, <2>1, <2>2, ZenonT(60) DEF Failed, InputsOf
<1>6. ASSUME NEW f \in Derived, KindOf(f) = "AnyOf"
      PROVE  /\ Succeeded(f) => \E x \in InputsOf(f) : Succeeded(x) /\ result[x] = result[f]
             /\ Failed(f) => /\ \A x \in InputsOf(f) : Failed(x)
                             /\ \E x \in InputsOf(f) : result[x] = result[f]
  <2>1. result[f] # None => \E i \in 1..Count(f) : result[Inputs(f)[i]] = result[f]
    BY <1>3, <1>6, SMTT(30) DEF Due
  <2>2. Failed(f) => \A i \in 1..Count(f) : Failed(Inputs(f)[i])
    BY <1>3, <1>6, ZenonT(30) DEF Failed, Due
  <2>3. QED
    BY <1>4, <2>1, <2>2, ZenonT(60) DEF Failed, Succeeded, InputsOf
<1>7. NoForgottenWaiter
  BY <1>1, Zenon DEF NoForgottenWaiter, Events, Sleepers
<1>8. QED
  BY <1>2, <1>5, <1>6, <1>7, ZenonT(30) DEF AllOfCorrect, AnyOfCorrect

\* The inductive invariant holds throughout, for every network of futures.
THEOREM Invariance == Spec => []IInv
  BY InitInv, StepInv, PTL DEF Spec

\* No future is resolved with neither a value nor an error, and the counters of
\* AllOf and AnyOf stay within the number of inputs.
THEOREM ResolvesWithAResult == Spec => []TypeOK
<1>1. IInv => TypeOK
  BY IInvImplies, Zenon
<1>2. QED
  BY <1>1, Invariance, PTL

\* AllOf succeeds with the values of all inputs, or fails with the error of one.
THEOREM AllOfAlwaysCorrect == Spec => []AllOfCorrect
<1>1. IInv => AllOfCorrect
  BY IInvImplies, Zenon
<1>2. QED
  BY <1>1, Invariance, PTL

\* AnyOf succeeds with the value of an input, and fails only when all have, with
\* the error of one of them although first_error is shared without a lock.
THEOREM AnyOfAlwaysCorrect == Spec => []AnyOfCorrect
<1>1. IInv => AnyOfCorrect
  BY IInvImplies, Zenon
<1>2. QED
  BY <1>1, Invariance, PTL

\* Neither a thread blocked in Get nor a suspended continuation is forgotten.
THEOREM NobodyForgotten == Spec => []NoForgottenWaiter
<1>1. IInv => NoForgottenWaiter
  BY IInvImplies, Zenon
<1>2. QED
  BY <1>1, Invariance, PTL

\* No result is ever replaced, however many continuations resolve a future.
THEOREM ResultsAreFinal == Spec => ResolvedOnce
<1>1. TypeCore /\ [Next]_vars =>
         [\A f \in AFuture : result[f] # None => result'[f] = result[f]]_vars
  <2> SUFFICES ASSUME TypeCore, Next, NEW f \in AFuture, result[f] # None
               PROVE  result'[f] = result[f]
    BY Zenon
  <2>1. CASE \E a \in Actor : Publish(a)
    BY <2>1, Zenon DEF Publish, TypeCore
  <2>2. CASE UNCHANGED result
    BY <2>2, ZenonT(30)
  <2>3. (\E a \in Actor : Publish(a)) \/ UNCHANGED result
    <3>1. ASSUME NEW a \in Actor, Step(a) PROVE Publish(a) \/ UNCHANGED result
      BY <3>1, ZenonT(30) DEF Step, Produce, SetDone, NotifyAll, ResumeWaiter, Await, AwaitDone, RunThen,
           RunThenAsync, AwaitNext, FinishThenAsync, RunOnError, RunWhenComplete, RunAllOf,
           RunAnyOf, AssignFirstError, CountFailed, states
    <3>2. Attach \/ (\E g \in Getter : CheckResolved(g) \/ SpuriousWakeup(g) \/ Timeout(g)) \/ Quiet
          => UNCHANGED result
      BY Zenon DEF Attach, CheckResolved, SpuriousWakeup, Timeout, Quiet, states, vars
    <3>3. QED
      BY <3>1, <3>2, ZenonT(60) DEF Next
  <2>4. QED
    BY <2>1, <2>2, <2>3, ZenonT(60)
<1>2. IInv => TypeCore
  BY Zenon DEF IInv
<1>3. QED
  BY <1>1, <1>2, Invariance, PTL DEF Spec, ResolvedOnce

\* Get(timeout) reports a timeout only if the result is not there at that moment.
THEOREM TimeoutsAreReal == Spec => TimeoutMeansUnresolved
<1>1. TypeCore /\ [Next]_vars =>
         [\A g \in Getter : get'[g] = "timedout" /\ get[g] # "timedout" =>
             result[GetsFrom(g)] = None]_vars
  <2> SUFFICES ASSUME TypeCore, Next, NEW g \in Getter, get'[g] = "timedout",
                      get[g] # "timedout"
               PROVE  result[GetsFrom(g)] = None
    BY SMTT(30)
  <2>1. ASSUME NEW h \in Getter, CheckResolved(h) \/ SpuriousWakeup(h) \/ Timeout(h)
        PROVE  result[GetsFrom(g)] = None
    BY <2>1, ZenonT(30) DEF CheckResolved, SpuriousWakeup, Timeout, TypeCore
  <2>2. ASSUME NEW a \in Actor, Step(a) PROVE FALSE
    <3>1. CASE NotifyAll(a)
      BY <3>1, SMTT(30) DEF NotifyAll, TypeCore
    <3>2. NotifyAll(a) \/ UNCHANGED get
      BY <2>2, ZenonT(30) DEF Step, Produce, Publish, SetDone, ResumeWaiter, Await, AwaitDone, RunThen,
           RunThenAsync, AwaitNext, FinishThenAsync, RunOnError, RunWhenComplete, RunAllOf,
           RunAnyOf, AssignFirstError, CountFailed
    <3>3. QED
      BY <3>1, <3>2, ZenonT(30)
  <2>3. Attach \/ Quiet => UNCHANGED get
    BY Zenon DEF Attach, Quiet, vars
  <2>4. QED
    BY <2>1, <2>2, <2>3, ZenonT(30) DEF Next
<1>2. IInv => TypeCore
  BY Zenon DEF IInv
<1>3. QED
  BY <1>1, <1>2, Invariance, PTL DEF Spec, TimeoutMeansUnresolved
=============================================================================
