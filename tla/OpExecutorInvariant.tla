------------------------- MODULE OpExecutorInvariant -------------------------
(***************************************************************************)
(* The inductive invariant of OpExecutor, and the steps of the workers that *)
(* keep it: taking an item, Execute, the batches of a reduction, the end of *)
(* an op, which resolves its future, and the AllOfs resumed by that.        *)
(***************************************************************************)
EXTENDS OpExecutor, FiniteSetTheorems, TLAPS

-----------------------------------------------------------------------------
(***************************************************************************)
(* The inductive invariant.                                                *)
(***************************************************************************)
Item == Ops \X Nat

Place == Busy \cup {"unborn", "waiting", "queued", "done"}
Status == Final \cup {"kPending", "kRunning"}
BatchState == {"unborn", "queued", "requeued", "running", "done", "error"}

BatchTyped ==
    /\ batch = [o \in Ops |-> batch[o]]
    /\ \A o \in Ops : batch[o] \in [BatchesOf(o) -> BatchState]

Typed ==
    /\ chained \in 0 .. Len(order)
    /\ at \in [Ops -> Place]
    /\ status \in [Ops -> Status]
    /\ result \in [Ops \cup {All} -> {"pending", "value", "error"}]
    /\ left \in [Ops \cup {All} -> Int]
    /\ subs \in [Ops -> SUBSET (Ops \cup {All})]
    /\ walk \in [Worker -> SUBSET (Ops \X (Ops \cup {All}))]
    /\ hold \in [Worker -> Item \cup {NoItem}]
    /\ queue \in Seq(Item)
    /\ BatchTyped
    /\ total = [o \in Ops |-> total[o]]
    /\ threw \subseteq Ops

\* An op or a batch that is scheduled is one item, in the queue once or held by one
\* worker, and which of the two follows from where it is.
Single ==
    /\ Distinct(queue)
    /\ \A v, w \in Worker : hold[v] = hold[w] /\ hold[w] # NoItem => v = w
    /\ \A w \in Worker : hold[w] \notin Range(queue)

Queued(o, b) ==
    IF b = 0 THEN at[o] = "queued"
    ELSE b \in BatchesOf(o) /\ batch[o][b] \in {"queued", "requeued"}

Held(o, b) ==
    IF b = 0 THEN at[o] \in Busy \ {"suspended"}
    ELSE b \in BatchesOf(o) /\ batch[o][b] = "running"

Items ==
    /\ Single
    /\ \A o \in Ops, b \in Nat : <<o, b>> \in Range(queue) => Queued(o, b)
    /\ \A w \in Worker, o \in Ops, b \in Nat : hold[w] = <<o, b>> => Held(o, b)
    /\ \A w \in Worker : hold[w] # NoItem => walk[w] = {}

\* What the place of an op says about its status, its future and its dependencies.
Phase(o) ==
    /\ at[o] = "done" <=> result[o] # "pending"
    /\ status[o] # "kPending" => at[o] \in Busy \cup {"done"}
    /\ at[o] = "after" => status[o] \in Final
    /\ result[o] = "value" => status[o] \in Final /\ o \notin threw
    /\ result[o] = "error" => threw # {}
    /\ at[o] # "done" => o \notin threw
    /\ at[o] \in Busy \cup {"queued"} \/ status[o] # "kPending" =>
          \A d \in graph.deps[o] : result[d] = "value"

\* Batches live only while their op awaits them, or after an error of one of them.
Reduction(o) ==
    /\ total[o] = Pending /\ at[o] \notin {"spawn", "suspended"} =>
          \A b \in BatchesOf(o) : batch[o][b] = "unborn"
    /\ total[o] # Pending /\ total[o] # Error =>
          \A b \in BatchesOf(o) : batch[o][b] = "done"

\* The AllOf of x: what it is made of, whether it exists, and whether it is undecided.
From(x) == IF x = All THEN Ops ELSE graph.deps[x]
Exists(x) == IF x = All THEN caller \in {"wait", "returned"} ELSE at[x] # "unborn"
Waits(x) == result[x] = "pending" /\ Exists(x) /\ (x # All => at[x] = "waiting")

\* A subscriber awaits what it is suspended on, and what a worker is about to resume it
\* for is resolved; each is resumed once.
Subscribed(d, x) == d \in From(x) /\ Exists(x) /\ (result[x] = "pending" => Waits(x))

Subscriptions ==
    /\ \A d \in Ops, x \in Ops \cup {All} :
          x \in subs[d] => Subscribed(d, x) /\ result[d] = "pending"
    /\ \A w \in Worker, d \in Ops, x \in Ops \cup {All} :
          <<d, x>> \in walk[w] => Subscribed(d, x) /\ result[d] # "pending"
    /\ \A v, w \in Worker, d \in Ops, x \in Ops \cup {All} :
          <<d, x>> \in walk[v] /\ <<d, x>> \in walk[w] => v = w

\* An undecided AllOf counts the futures that are pending or about to resume it, is
\* suspended on the pending ones, and has not been told of an error.
Coming(d, x) == \E w \in Worker : <<d, x>> \in walk[w]
Outstanding(x) == {d \in From(x) : result[d] = "pending" \/ Coming(d, x)}

Countdown(x) ==
    Waits(x) =>
        /\ left[x] = Cardinality(Outstanding(x))
        /\ \A d \in From(x) : result[d] = "pending" => x \in subs[d]
        /\ \A d \in From(x) : result[d] = "error" => Coming(d, x)

\* The calling thread: the ops it has chained are those that exist.
Caller ==
    /\ \A i \in 1 .. Len(order) : at[order[i]] = "unborn" <=> i > chained
    /\ caller \in {"wait", "returned"} => chained = Len(order)
    /\ caller = "chain" => result[All] = "pending"
    /\ caller = "returned" => result[All] # "pending"
    /\ result[All] = "value" => \A o \in Ops : result[o] = "value"
    /\ result[All] = "error" => threw # {}

\* While the graph executes ...
Live ==
    /\ Compiled(graph)
    /\ All \notin Ops /\ NoItem \notin Item
    /\ Typed
    /\ Items
    /\ \A o \in Ops : Phase(o)
    /\ \A o \in Ops : Reduction(o)
    /\ Subscriptions
    /\ \A x \in Ops \cup {All} : Countdown(x)
    /\ Caller

\* ... and before it does.
Blank ==
    /\ NoItem \notin Item
    /\ chained = 0
    /\ at = [o \in Ops |-> "unborn"]
    /\ status = [o \in Ops |-> "kPending"]
    /\ result = [o \in Ops \cup {All} |-> "pending"]
    /\ left = [o \in Ops \cup {All} |-> 0]
    /\ subs = [o \in Ops |-> {}]
    /\ walk = [w \in Worker |-> {}]
    /\ hold = [w \in Worker |-> NoItem]
    /\ queue = <<>>
    /\ batch = [o \in Ops |-> [b \in BatchesOf(o) |-> "unborn"]]
    /\ total = [o \in Ops |-> Pending]
    /\ threw = {}

IInv ==
    \/ caller = "ready" /\ Blank /\ \E source \in Sources : graph = BuildDsl(source) /\ graph.ok
    \/ caller = "rejected" /\ Blank
    \/ caller \in {"chain", "wait", "returned"} /\ Live

-----------------------------------------------------------------------------
(***************************************************************************)
(* The queue, and graphs.                                                  *)
(***************************************************************************)
\* What an item pushed to the pool's queue does to the items in it.
LEMMA AppendFacts ==
    ASSUME NEW S, NEW q \in Seq(S), NEW x \in S
    PROVE  /\ Append(q, x) \in Seq(S)
           /\ Range(Append(q, x)) = Range(q) \cup {x}
           /\ Distinct(q) /\ x \notin Range(q) => Distinct(Append(q, x))
<1> DEFINE r == Append(q, x)
<1>1. r \in Seq(S) /\ Len(q) \in Nat /\ DOMAIN q = 1 .. Len(q) /\ DOMAIN r = 1 .. Len(q) + 1
  OBVIOUS
<1>2. (\A i \in 1 .. Len(q) : r[i] = q[i]) /\ r[Len(q) + 1] = x
  OBVIOUS
<1> HIDE DEF r
<1>3. Range(r) = Range(q) \cup {x}
  BY <1>1, <1>2 DEF Range
<1>4. Distinct(q) /\ x \notin Range(q) => Distinct(r)
  BY <1>1, <1>2 DEF Range, Distinct
<1>5. QED
  BY <1>1, <1>3, <1>4 DEF r

\* What the item taken from the front of the queue leaves behind.
LEMMA TailFacts ==
    ASSUME NEW S, NEW q \in Seq(S), q # <<>>, Distinct(q)
    PROVE  /\ Head(q) \in S /\ Head(q) \in Range(q)
           /\ Tail(q) \in Seq(S)
           /\ Range(Tail(q)) = Range(q) \ {Head(q)}
           /\ Distinct(Tail(q))
<1> DEFINE r == Tail(q)
<1>1. /\ r \in Seq(S) /\ Len(q) \in Nat /\ Len(q) >= 1 /\ DOMAIN q = 1 .. Len(q)
      /\ DOMAIN r = 1 .. Len(q) - 1
  OBVIOUS
<1>2. (\A i \in 1 .. Len(q) - 1 : r[i] = q[i + 1]) /\ Head(q) = q[1] /\ q[1] \in S
  OBVIOUS
<1> HIDE DEF r
<1>3. Head(q) \in Range(q)
  BY <1>1, <1>2 DEF Range
<1>4. \A y \in Range(r) : y \in Range(q) /\ y # Head(q)
  BY <1>1, <1>2, SMTT(30) DEF Range, Distinct
<1>5. ASSUME NEW y \in Range(q), y # Head(q) PROVE y \in Range(r)
  <2>1. PICK i \in 1 .. Len(q) : q[i] = y
    BY <1>1 DEF Range
  <2>2. i - 1 \in 1 .. Len(q) - 1 /\ r[i - 1] = y
    BY <1>1, <1>2, <1>5, <2>1
  <2>3. QED
    BY <1>1, <2>2 DEF Range
<1>6. Distinct(r)
  BY <1>1, <1>2, SMTT(30) DEF Distinct
<1>7. QED
  BY <1>1, <1>2, <1>3, <1>4, <1>5, <1>6 DEF r

\* The graph does not change while it executes, nor does what is read off it.
LEMMA GraphKept ==
    ASSUME graph' = graph
    PROVE  /\ Ops' = Ops /\ Item' = Item /\ order' = order
           /\ \A o : BatchesOf(o)' = BatchesOf(o)
           /\ Compiled(graph)' = Compiled(graph)
  BY DEF Ops, Item, order, BatchesOf, IsJob, Job, SizeOf, Compiled, Distinct

\* The order of a compiled graph lists every op.
LEMMA OrderFacts ==
    ASSUME Live
    PROVE  /\ order \in Seq(Ops) /\ Len(order) \in Nat /\ IsFiniteSet(Ops)
           /\ \A i \in 1 .. Len(order) : order[i] \in Ops
           /\ \A o \in Ops : \E i \in 1 .. Len(order) : order[i] = o
           /\ \A o \in Ops : graph.deps[o] \subseteq Ops
<1>1. /\ order \in Seq(Ops) /\ Range(order) = Ops /\ IsFiniteSet(Ops)
      /\ graph.deps \in [Ops -> SUBSET Ops]
  BY Zenon DEF Live, Compiled, Distinct, order, Ops
<1>2. \A o \in Ops : graph.deps[o] \subseteq Ops
  BY <1>1
<1> DEFINE ord == order
<1> HIDE DEF ord
<1>3. ord \in Seq(Ops) /\ Range(ord) = Ops
  BY <1>1 DEF ord
<1>4. Len(ord) \in Nat /\ DOMAIN ord = 1 .. Len(ord) /\ \A i \in 1 .. Len(ord) : ord[i] \in Ops
  BY <1>3
<1>5. \A o \in Ops : \E i \in 1 .. Len(ord) : ord[i] = o
  BY <1>3, <1>4 DEF Range
<1>6. QED
  BY <1>1, <1>2, <1>4, <1>5 DEF ord

\* The future of an op that is not yet chained is awaited by nobody.
LEMMA Unawaited ==
    ASSUME Live, caller = "chain", NEW o \in Ops, at[o] = "unborn",
           NEW x \in Ops \cup {All}, Exists(x)
    PROVE  o \notin From(x)
<1>1. o \in Ops /\ x \in Ops /\ at[x] # "unborn" /\ From(x) = graph.deps[x]
  BY DEF Live, Exists, From
<1>2. PICK i \in 1 .. Len(order) : order[i] = x
  BY <1>1, OrderFacts
<1>3. i <= chained
  BY <1>1, <1>2 DEF Live, Caller, Typed
<1>4. SUFFICES ASSUME o \in From(x) PROVE FALSE
  OBVIOUS
<1>5. graph.deps[order[i]] \subseteq {order[j] : j \in 1 .. i - 1}
  BY <1>2 DEF Live, Compiled, Distinct, order
<1>6. PICK j \in 1 .. i - 1 : order[j] = o
  BY <1>1, <1>2, <1>4, <1>5
<1>7. j \in 1 .. Len(order) /\ ~ (j > chained)
  BY <1>3, <1>6 DEF Live, Typed
<1>8. QED
  BY <1>6, <1>7 DEF Live, Caller

-----------------------------------------------------------------------------
(***************************************************************************)
(* Steps that leave the futures alone.                                     *)
(***************************************************************************)
\* Subscriptions and countdowns depend on the ops only as far as they are chained and
\* still waiting.
LEMMA FuturesKept ==
    ASSUME Live, UNCHANGED <<graph, futureVars>>,
           caller' \in {"wait", "returned"} <=> caller \in {"wait", "returned"},
           \A o \in Ops : /\ at'[o] = "waiting" <=> at[o] = "waiting"
                          /\ at'[o] = "unborn" <=> at[o] = "unborn"
    PROVE  Subscriptions' /\ \A x \in Ops \cup {All} : Countdown(x)'
<1>0. graph' = graph /\ result' = result /\ left' = left /\ subs' = subs /\ walk' = walk
  BY Zenon DEF futureVars
<1>1. Ops' = Ops /\ \A x \in Ops \cup {All} : From(x)' = From(x)
  BY <1>0, GraphKept, Zenon DEF From
<1>2. ASSUME NEW x \in Ops \cup {All}
      PROVE  (Exists(x)' <=> Exists(x)) /\ (Waits(x)' <=> Waits(x))
  <2>1. CASE x = All
    BY <1>0, <2>1, Zenon DEF Exists, Waits
  <2>2. CASE x # All
    <3>1. x \in Ops
      BY <2>2, Zenon
    <3>2. /\ at'[x] = "waiting" <=> at[x] = "waiting"
          /\ at'[x] = "unborn" <=> at[x] = "unborn"
      BY <3>1, Zenon
    <3>3. Exists(x)' <=> Exists(x)
      BY <2>2, <3>2 DEF Exists
    <3>4. QED
      BY <1>0, <2>2, <3>2, <3>3 DEF Waits
  <2>3. QED
    BY <2>1, <2>2
<1>3. \A d \in Ops, x \in Ops \cup {All} : Subscribed(d, x)' <=> Subscribed(d, x)
  BY <1>0, <1>1, <1>2, Zenon DEF Subscribed
<1>4. Subscriptions'
  <2>1. Subscriptions
    BY Zenon DEF Live
  <2>2. QED
    BY <1>0, <1>1, <1>3, <2>1, Zenon DEF Subscriptions
<1>5. ASSUME NEW x \in Ops \cup {All} PROVE Countdown(x)'
  <2>1. Outstanding(x)' = Outstanding(x) /\ \A d : Coming(d, x)' <=> Coming(d, x)
    BY <1>0, <1>1, Zenon DEF Outstanding, Coming
  <2>2. Countdown(x)
    BY Zenon DEF Live
  <2>3. QED
    BY <1>0, <1>1, <1>2, <2>1, <2>2, Zenon DEF Countdown
<1>6. QED
  BY <1>1, <1>4, <1>5

\* The step of one op, or of one of its batches.
LEMMA OpMoves ==
    ASSUME Live, UNCHANGED <<graph, caller, chained, futureVars, threw>>, Typed', Items',
           NEW o \in Ops,
           \/ at'[o] = at[o] /\ status'[o] = status[o]
           \/ /\ at[o] \in Busy \cup {"queued"} /\ at'[o] \in Busy
              /\ at'[o] = "after" => status'[o] \in Final,
           \A q \in Ops \ {o} : at'[q] = at[q] /\ status'[q] = status[q]
                                 /\ batch'[q] = batch[q] /\ total'[q] = total[q],
           Reduction(o)'
    PROVE  Live'
<1>1. /\ Ops' = Ops /\ Item' = Item /\ order' = order
      /\ (\A q : BatchesOf(q)' = BatchesOf(q)) /\ Compiled(graph)'
      /\ result' = result
  BY GraphKept DEF Live, futureVars
<1>2. ASSUME NEW q \in Ops
      PROVE  /\ at'[q] = "waiting" <=> at[q] = "waiting"
             /\ at'[q] = "unborn" <=> at[q] = "unborn"
  <2>1. CASE q = o
    BY <2>1 DEF Busy
  <2>2. CASE q # o
    BY <2>2, Zenon
  <2>3. QED
    BY <2>1, <2>2
<1>3. Subscriptions' /\ \A x \in Ops \cup {All} : Countdown(x)'
  <2>1. UNCHANGED <<graph, futureVars>> /\ caller' = caller
    BY Zenon
  <2>2. QED
    BY <1>2, <2>1, FuturesKept, Zenon
<1>4. \A q \in Ops : Phase(q)'
  <2>1. \A q \in Ops : Phase(q)
    BY DEF Live
  <2>2. Phase(o)'
    BY <1>1, <2>1 DEF Phase, Busy, Final
  <2>3. ASSUME NEW q \in Ops \ {o} PROVE Phase(q)'
    BY <1>1, <2>1 DEF Phase
  <2>4. QED
    BY <2>2, <2>3
<1>5. ASSUME NEW q \in Ops PROVE Reduction(q)'
  <2>1. CASE q = o
    BY <2>1, Zenon
  <2>2. CASE q # o
    <3>1. Reduction(q) /\ at'[q] = at[q] /\ batch'[q] = batch[q] /\ total'[q] = total[q]
      BY <2>2, Zenon DEF Live
    <3>2. QED
      BY <1>1, <3>1, ZenonT(60) DEF Reduction, Pending, Error
  <2>3. QED
    BY <2>1, <2>2
<1>6. Caller'
  <2>1. \A i \in 1 .. Len(order) : order[i] \in Ops
    BY OrderFacts
  <2>2. caller' = caller /\ chained' = chained /\ threw' = threw
    BY Zenon
  <2>3. QED
    BY <1>1, <1>2, <2>1, <2>2, ZenonT(60) DEF Live, Caller
<1>7. QED
  BY <1>1, <1>3, <1>4, <1>5, <1>6 DEF Live

-----------------------------------------------------------------------------
(***************************************************************************)
(* The items of the pool.                                                  *)
(***************************************************************************)
\* The step leaves the item of o and b where it is.
Keeps(o, b) == (Queued(o, b) => Queued(o, b)') /\ (Held(o, b) => Held(o, b)')

\* An item is a pair, of an op and a number.
LEMMA ItemFacts ==
    ASSUME Live
    PROVE  /\ NoItem \notin Item /\ Range(queue) \subseteq Item
           /\ \A w \in Worker : hold[w] \in Item \cup {NoItem}
           /\ \A o \in Ops, b \in Nat : <<o, b>> \in Item
<1>1. queue \in Seq(Item) /\ NoItem \notin Item /\ hold \in [Worker -> Item \cup {NoItem}]
  BY Zenon DEF Live, Typed
<1>2. Range(queue) \subseteq Item /\ \A w \in Worker : hold[w] \in Item \cup {NoItem}
  BY <1>1 DEF Range
<1>3. \A o \in Ops, b \in Nat : <<o, b>> \in Item
  BY DEF Item
<1>4. QED
  BY <1>1, <1>2, <1>3, Zenon

\* No item moves.
LEMMA ItemsKept ==
    ASSUME Live, graph' = graph, queue' = queue, hold' = hold,
           \A w \in Worker : hold[w] # NoItem => walk'[w] = {},
           \A o \in Ops, b \in Nat : Keeps(o, b)
    PROVE  Items'
<1>1. Single' /\ Ops' = Ops
  BY GraphKept, Zenon DEF Live, Items, Single
<1>2. ASSUME NEW o \in Ops, NEW b \in Nat
      PROVE  /\ <<o, b>> \in Range(queue) => Queued(o, b)'
             /\ \A w \in Worker : hold[w] = <<o, b>> => Held(o, b)'
  <2>1. Keeps(o, b)
    BY Zenon
  <2>2. QED
    BY <2>1, Zenon DEF Live, Items, Keeps
<1>3. QED
  BY <1>1, <1>2, Zenon DEF Items

\* A new item is pushed.
LEMMA ItemsAppend ==
    ASSUME Live, graph' = graph, hold' = hold, NEW o \in Ops, NEW b \in Nat,
           queue' = Append(queue, <<o, b>>),
           ~ Queued(o, b), ~ Held(o, b), Queued(o, b)',
           \A w \in Worker : hold[w] # NoItem => walk'[w] = {},
           \A q \in Ops, c \in Nat : Keeps(q, c)
    PROVE  Items' /\ queue' \in Seq(Item)
<1> DEFINE new == <<o, b>>
<1>1. new \in Item /\ new # NoItem /\ new \notin Range(queue) /\ \A w \in Worker : hold[w] # new
  BY ItemFacts, Zenon DEF Live, Items
<1>2. queue \in Seq(Item) /\ Distinct(queue) /\ queue' = Append(queue, new)
  BY Zenon DEF Live, Typed, Items, Single
<1>3. \A q \in Ops, c \in Nat : <<q, c>> = new => q = o /\ c = b
  OBVIOUS
<1> HIDE DEF new
<1>4. queue' \in Seq(Item) /\ Range(queue') = Range(queue) \cup {new} /\ Distinct(queue')
  <2>1. new \in Item /\ new \notin Range(queue)
    BY <1>1, Zenon
  <2>2. /\ Append(queue, new) \in Seq(Item)
        /\ Range(Append(queue, new)) = Range(queue) \cup {new}
        /\ Distinct(queue) /\ new \notin Range(queue) => Distinct(Append(queue, new))
    BY <1>2, <2>1, AppendFacts, Zenon
  <2>3. QED
    BY <1>2, <2>1, <2>2, Zenon
<1>5. Single' /\ Ops' = Ops
  <2>1. \A w \in Worker : hold[w] \notin Range(queue')
    BY <1>1, <1>4, Zenon DEF Live, Items, Single
  <2>2. QED
    BY <1>4, <2>1, GraphKept, Zenon DEF Live, Items, Single
<1>6. ASSUME NEW q \in Ops, NEW c \in Nat
      PROVE  /\ <<q, c>> \in Range(queue') => Queued(q, c)'
             /\ \A w \in Worker : hold[w] = <<q, c>> => Held(q, c)'
  <2>1. Keeps(q, c)
    BY Zenon
  <2>2. CASE <<q, c>> = new
    BY <1>1, <1>3, <2>2, Zenon
  <2>3. CASE <<q, c>> # new
    BY <1>4, <2>1, <2>3, Zenon DEF Live, Items, Keeps
  <2>4. QED
    BY <2>2, <2>3, Zenon
<1>7. QED
  BY <1>4, <1>5, <1>6, Zenon DEF Items

\* A worker lets go of its item.
LEMMA ItemsRelease ==
    ASSUME Live, graph' = graph, queue' = queue, NEW w \in Worker, hold[w] # NoItem,
           hold' = [hold EXCEPT ![w] = NoItem],
           \A v \in Worker \ {w} : hold[v] # NoItem => walk'[v] = {},
           \A o \in Ops, b \in Nat : <<o, b>> # hold[w] => Keeps(o, b)
    PROVE  Items'
<1>1. hold \in [Worker -> Item \cup {NoItem}] /\ NoItem \notin Item /\ Ops' = Ops
  BY GraphKept, Zenon DEF Live, Typed
<1>2. /\ hold'[w] = NoItem
      /\ \A v \in Worker \ {w} : hold'[v] = hold[v]
  BY <1>1, Zenon
<1>3. \A v \in Worker \ {w} : hold[v] # NoItem => hold[v] # hold[w]
  BY Zenon DEF Live, Items, Single
<1>4. Single'
  <2>1. \A v \in Worker : hold'[v] \notin Range(queue)
    BY <1>1, <1>2, ItemFacts, Zenon DEF Live, Items, Single
  <2>2. ASSUME NEW u \in Worker, NEW v \in Worker, hold'[u] = hold'[v] /\ hold'[v] # NoItem
        PROVE  u = v
    <3>1. hold[u] = hold[v] /\ hold[v] # NoItem => u = v
      BY Zenon DEF Live, Items, Single
    <3>2. QED
      BY <1>2, <2>2, <3>1, Zenon
  <2>3. QED
    BY <2>1, <2>2, Zenon DEF Live, Items, Single
<1>5. ASSUME NEW q \in Ops, NEW c \in Nat
      PROVE  /\ <<q, c>> \in Range(queue) => Queued(q, c)'
             /\ \A v \in Worker : hold'[v] = <<q, c>> => Held(q, c)'
  <2>1. <<q, c>> # NoItem
    BY ItemFacts, Zenon
  <2>2. CASE <<q, c>> = hold[w]
    <3>1. <<q, c>> \notin Range(queue)
      BY <2>2, Zenon DEF Live, Items, Single
    <3>2. \A v \in Worker : hold'[v] # <<q, c>>
      BY <1>2, <1>3, <2>1, <2>2, Zenon
    <3>3. QED
      BY <3>1, <3>2, Zenon
  <2>3. CASE <<q, c>> # hold[w]
    <3>1. Keeps(q, c)
      BY <2>3, Zenon
    <3>2. \A v \in Worker : hold'[v] = <<q, c>> => hold[v] = <<q, c>>
      BY <1>2, <2>1, Zenon
    <3>3. QED
      BY <3>1, <3>2, Zenon DEF Live, Items, Keeps
  <2>4. QED
    BY <2>2, <2>3, Zenon
<1>6. QED
  BY <1>1, <1>2, <1>4, <1>5, Zenon DEF Items

\* A worker takes the item at the front of the queue.
LEMMA ItemsTaken ==
    ASSUME Live, graph' = graph, walk' = walk, NEW w \in Worker, hold[w] = NoItem, walk[w] = {},
           queue # <<>>, NEW o \in Ops, NEW b \in Nat, Head(queue) = <<o, b>>,
           queue' = Tail(queue), hold' = [hold EXCEPT ![w] = <<o, b>>],
           Held(o, b)',
           \A q \in Ops, c \in Nat : <<q, c>> # <<o, b>> => Keeps(q, c)
    PROVE  Items' /\ queue' \in Seq(Item) /\ hold' \in [Worker -> Item \cup {NoItem}]
<1> DEFINE new == <<o, b>>
<1>1. /\ hold \in [Worker -> Item \cup {NoItem}] /\ queue \in Seq(Item) /\ Distinct(queue)
      /\ new \in Item /\ NoItem \notin Item /\ Ops' = Ops
  BY GraphKept, ItemFacts, Zenon DEF Live, Typed, Items, Single
<1>2. \A q \in Ops, c \in Nat : <<q, c>> = new => q = o /\ c = b
  OBVIOUS
<1>3. hold' = [hold EXCEPT ![w] = new] /\ Head(queue) = new
  OBVIOUS
<1> HIDE DEF new
<1>4. /\ new \in Range(queue) /\ queue' \in Seq(Item) /\ Distinct(queue')
      /\ Range(queue') = Range(queue) \ {new}
  <2>1. /\ Head(queue) \in Range(queue) /\ Tail(queue) \in Seq(Item)
        /\ Range(Tail(queue)) = Range(queue) \ {Head(queue)} /\ Distinct(Tail(queue))
    BY <1>1, TailFacts, Zenon
  <2>2. QED
    BY <1>3, <2>1, Zenon
<1>5. hold' \in [Worker -> Item \cup {NoItem}]
  <2>1. hold \in [Worker -> Item \cup {NoItem}] /\ new \in Item \cup {NoItem}
    BY <1>1, Zenon
  <2>2. QED
    BY <1>3, <2>1, Zenon
<1>6. hold'[w] = new /\ \A v \in Worker \ {w} : hold'[v] = hold[v] /\ hold[v] # new
  <2>1. ASSUME NEW v \in Worker PROVE hold[v] # new
    <3>1. hold[v] \notin Range(queue)
      BY Zenon DEF Live, Items, Single
    <3>2. QED
      BY <1>4, <3>1, Zenon
  <2>2. QED
    BY <1>1, <1>3, <2>1, Zenon
<1>7. Single'
  <2>1. \A v \in Worker : hold'[v] \notin Range(queue')
    BY <1>4, <1>6, Zenon DEF Live, Items, Single
  <2>2. ASSUME NEW u \in Worker, NEW v \in Worker, hold'[u] = hold'[v] /\ hold'[v] # NoItem
        PROVE  u = v
    <3>1. hold[u] = hold[v] /\ hold[v] # NoItem => u = v
      BY Zenon DEF Live, Items, Single
    <3>2. QED
      BY <1>6, <2>2, <3>1, Zenon
  <2>3. QED
    BY <1>4, <2>1, <2>2, Zenon DEF Single
<1>8. ASSUME NEW q \in Ops, NEW c \in Nat
      PROVE  /\ <<q, c>> \in Range(queue') => Queued(q, c)'
             /\ \A v \in Worker : hold'[v] = <<q, c>> => Held(q, c)'
  <2>1. CASE <<q, c>> = new
    BY <1>2, <1>4, <2>1, Zenon
  <2>2. CASE <<q, c>> # new
    <3>1. Keeps(q, c)
      BY <2>2, Zenon DEF new
    <3>2. \A v \in Worker : hold'[v] = <<q, c>> => hold[v] = <<q, c>>
      BY <1>6, <2>2, Zenon
    <3>3. QED
      BY <1>4, <3>1, <3>2, Zenon DEF Live, Items, Keeps
  <2>3. QED
    BY <2>1, <2>2, Zenon
<1>9. \A v \in Worker : hold'[v] # NoItem => walk'[v] = {}
  BY <1>6, Zenon DEF Live, Items
<1>10. QED
  BY <1>1, <1>4, <1>5, <1>7, <1>8, <1>9, Zenon DEF Items

\* A batch that a worker has taken goes to the end of the queue once more.
LEMMA ItemsRequeued ==
    ASSUME Live, graph' = graph, walk' = walk, hold' = hold,
           queue # <<>>, queue' = Append(Tail(queue), Head(queue)),
           \A q \in Ops, c \in Nat : Keeps(q, c)
    PROVE  Items' /\ queue' \in Seq(Item)
<1>1. queue \in Seq(Item) /\ Distinct(queue) /\ Ops' = Ops
  BY GraphKept, Zenon DEF Live, Typed, Items, Single
<1>2. /\ Head(queue) \in Item /\ Head(queue) \in Range(queue) /\ Tail(queue) \in Seq(Item)
      /\ Range(Tail(queue)) = Range(queue) \ {Head(queue)} /\ Distinct(Tail(queue))
  BY <1>1, TailFacts, Zenon
<1> DEFINE head == Head(queue)
           tail == Tail(queue)
<1> HIDE DEF head, tail
<1>3. /\ Append(tail, head) \in Seq(Item)
      /\ Range(Append(tail, head)) = Range(tail) \cup {head}
      /\ Distinct(tail) /\ head \notin Range(tail) => Distinct(Append(tail, head))
  <2>1. head \in Item /\ tail \in Seq(Item)
    BY <1>2 DEF head, tail
  <2>2. QED
    BY <2>1, AppendFacts, Zenon
<1>4. queue' \in Seq(Item) /\ Range(queue') = Range(queue) /\ Distinct(queue')
  <2>1. queue' = Append(tail, head)
    BY DEF head, tail
  <2>2. /\ head \in Range(queue) /\ Range(tail) = Range(queue) \ {head} /\ Distinct(tail)
    BY <1>2, Zenon DEF head, tail
  <2>3. QED
    BY <1>3, <2>1, <2>2, Zenon
<1>5. Single' /\ \A w \in Worker : hold'[w] # NoItem => walk'[w] = {}
  BY <1>4, Zenon DEF Live, Items, Single
<1>6. ASSUME NEW q \in Ops, NEW c \in Nat
      PROVE  /\ <<q, c>> \in Range(queue') => Queued(q, c)'
             /\ \A w \in Worker : hold'[w] = <<q, c>> => Held(q, c)'
  <2>1. Keeps(q, c)
    BY Zenon
  <2>2. QED
    BY <1>4, <2>1, Zenon DEF Live, Items, Keeps
<1>7. QED
  BY <1>1, <1>4, <1>5, <1>6, Zenon DEF Items

\* The worker whose batch completes a reduction goes on with the suspended op.
LEMMA ItemsResumed ==
    ASSUME Live, graph' = graph, walk' = walk, queue' = queue, NEW w \in Worker,
           hold[w] # NoItem, NEW o \in Ops, hold' = [hold EXCEPT ![w] = <<o, 0>>],
           at[o] = "suspended", at'[o] = "reduced",
           \A q \in Ops, c \in Nat : <<q, c>> # hold[w] /\ <<q, c>> # <<o, 0>> => Keeps(q, c)
    PROVE  Items' /\ hold' \in [Worker -> Item \cup {NoItem}]
<1> DEFINE new == <<o, 0>>
<1>1. /\ hold \in [Worker -> Item \cup {NoItem}] /\ 0 \in Nat
      /\ new \in Item /\ NoItem \notin Item /\ Ops' = Ops
  BY GraphKept, ItemFacts, Zenon DEF Live, Typed
<1>2. \A q \in Ops, c \in Nat : <<q, c>> = new => q = o /\ c = 0
  OBVIOUS
<1>3. ~ Queued(o, 0) /\ ~ Held(o, 0) /\ Held(o, 0)'
  BY DEF Queued, Held, Busy
<1>4. new \notin Range(queue) /\ (\A v \in Worker : hold[v] # new) /\ hold' = [hold EXCEPT ![w] = new]
  BY <1>1, <1>3, Zenon DEF Live, Items
<1> HIDE DEF new
<1>5. hold' \in [Worker -> Item \cup {NoItem}]
  BY <1>1, <1>4
<1>6. hold'[w] = new /\ \A v \in Worker \ {w} : hold'[v] = hold[v] /\ hold[v] # new
  BY <1>1, <1>4, Zenon
<1>7. \A v \in Worker \ {w} : hold[v] # NoItem => hold[v] # hold[w]
  BY Zenon DEF Live, Items, Single
<1>8. Single'
  <2>1. \A v \in Worker : hold'[v] \notin Range(queue)
    BY <1>4, <1>6, Zenon DEF Live, Items, Single
  <2>2. ASSUME NEW u \in Worker, NEW v \in Worker, hold'[u] = hold'[v] /\ hold'[v] # NoItem
        PROVE  u = v
    <3>1. hold[u] = hold[v] /\ hold[v] # NoItem => u = v
      BY Zenon DEF Live, Items, Single
    <3>2. QED
      BY <1>6, <2>2, <3>1, Zenon
  <2>3. QED
    BY <2>1, <2>2, Zenon DEF Live, Items, Single
<1>9. ASSUME NEW q \in Ops, NEW c \in Nat
      PROVE  /\ <<q, c>> \in Range(queue) => Queued(q, c)'
             /\ \A v \in Worker : hold'[v] = <<q, c>> => Held(q, c)'
  <2>0. <<q, c>> # NoItem
    BY ItemFacts, Zenon
  <2>1. CASE <<q, c>> = new
    BY <1>2, <1>3, <1>4, <2>1, Zenon
  <2>2. CASE <<q, c>> = hold[w] /\ <<q, c>> # new
    <3>1. <<q, c>> \notin Range(queue)
      BY <2>2, Zenon DEF Live, Items, Single
    <3>2. \A v \in Worker : hold'[v] # <<q, c>>
      BY <1>6, <1>7, <2>0, <2>2, Zenon
    <3>3. QED
      BY <3>1, <3>2, Zenon
  <2>3. CASE <<q, c>> # hold[w] /\ <<q, c>> # new
    <3>1. Keeps(q, c)
      BY <2>3, Zenon DEF new
    <3>2. \A v \in Worker : hold'[v] = <<q, c>> => hold[v] = <<q, c>>
      BY <1>6, <2>3, Zenon
    <3>3. QED
      BY <3>1, <3>2, Zenon DEF Live, Items, Keeps
  <2>4. QED
    BY <2>1, <2>2, <2>3, Zenon
<1>10. \A v \in Worker : hold'[v] # NoItem => walk'[v] = {}
  BY <1>6, Zenon DEF Live, Items
<1>11. QED
  BY <1>1, <1>5, <1>8, <1>9, <1>10, Zenon DEF Items

-----------------------------------------------------------------------------
(***************************************************************************)
(* RunOp up to the resolution of the op's future.                          *)
(***************************************************************************)
\* What a step of an op may change keeps its type.
LEMMA TypedMoves ==
    ASSUME Live, UNCHANGED <<graph, chained, futureVars, threw>>,
           at' \in [Ops -> Place], status' \in [Ops -> Status],
           hold' \in [Worker -> Item \cup {NoItem}], queue' \in Seq(Item),
           BatchTyped', total' = [o \in Ops |-> total'[o]]
    PROVE  Typed'
<1>1. /\ graph' = graph /\ chained' = chained /\ result' = result /\ left' = left
      /\ subs' = subs /\ walk' = walk /\ threw' = threw
  BY Zenon DEF futureVars
<1>2. Ops' = Ops /\ Item' = Item /\ order' = order
  BY <1>1, GraphKept, Zenon
<1>3. QED
  BY <1>1, <1>2, Zenon DEF Live, Typed

\* The state of one batch.
BatchIs(o, b, st) == batch[o][b] = st

\* The state of one batch changes, and that of no other.
LEMMA BatchStep ==
    ASSUME Live, graph' = graph, NEW o \in Ops, NEW b \in BatchesOf(o), NEW st \in BatchState,
           batch' = [batch EXCEPT ![o][b] = st]
    PROVE  /\ BatchTyped' /\ b \in Nat /\ b # 0 /\ BatchIs(o, b, st)'
           /\ \A c \in BatchesOf(o) \ {b} : batch'[o][c] = batch[o][c]
           /\ \A q \in Ops \ {o} : batch'[q] = batch[q]
<1>1. /\ batch = [q \in Ops |-> batch[q]]
      /\ \A q \in Ops : batch[q] \in [BatchesOf(q) -> BatchState]
      /\ Ops' = Ops /\ \A q : BatchesOf(q)' = BatchesOf(q)
  BY GraphKept, Zenon DEF Live, Typed, BatchTyped
<1>2. batch' = [q \in Ops |-> IF q = o THEN [batch[o] EXCEPT ![b] = st] ELSE batch[q]]
  <2> DEFINE B == batch
  <2>1. DOMAIN batch = Ops
    <3> HIDE DEF B
    <3>1. B = [q \in Ops |-> B[q]]
      BY <1>1, Zenon DEF B
    <3>2. DOMAIN B = Ops
      BY <3>1, Zenon
    <3>3. QED
      BY <3>2 DEF B
  <2>2. QED
    BY <2>1, Zenon
<1>3. batch'[o] = [batch[o] EXCEPT ![b] = st] /\ \A q \in Ops \ {o} : batch'[q] = batch[q]
  BY <1>2, Zenon
<1>4. batch[o] \in [BatchesOf(o) -> BatchState]
  BY <1>1, Zenon
<1>5. /\ batch'[o] \in [BatchesOf(o) -> BatchState] /\ batch'[o][b] = st
      /\ \A c \in BatchesOf(o) \ {b} : batch'[o][c] = batch[o][c]
  <2> DEFINE f == batch[o]
             g == batch'[o]
  <2> HIDE DEF f, g
  <2>1. g = [f EXCEPT ![b] = st] /\ f \in [BatchesOf(o) -> BatchState]
    BY <1>3, <1>4, Zenon DEF f, g
  <2>2. /\ g \in [BatchesOf(o) -> BatchState] /\ g[b] = st
        /\ \A c \in BatchesOf(o) \ {b} : g[c] = f[c]
    BY <2>1, Zenon
  <2>3. QED
    BY <2>2 DEF f, g
<1>6. BatchTyped'
  <2>1. \A q \in Ops : batch'[q] \in [BatchesOf(q) -> BatchState]
    BY <1>1, <1>3, <1>5, Zenon
  <2>2. batch' = [q \in Ops |-> batch'[q]]
    BY <1>2, Zenon
  <2>3. QED
    BY <1>1, <2>1, <2>2, Zenon DEF BatchTyped
<1>7. b \in Nat /\ b # 0
  BY DEF BatchesOf
<1>8. BatchIs(o, b, st)'
  BY <1>5, Zenon DEF BatchIs
<1>9. QED
  BY <1>3, <1>5, <1>6, <1>7, <1>8, Zenon

\* BeginExecute, and the end of Execute: only the place of the op and its status change.
LEMMA OpGoesOn ==
    ASSUME Live, NEW w \in Worker, NEW o \in Ops, NEW from \in Busy, Holds(w, o, from),
           NEW to \in Busy \ {"suspended"}, NEW st \in Status,
           from \notin {"spawn", "suspended"},
           at' = [at EXCEPT ![o] = to], status' = [status EXCEPT ![o] = st],
           to = "after" => st \in Final,
           UNCHANGED <<graph, caller, chained, futureVars, hold, queue, batchVars, threw>>
    PROVE  Live'
<1>1. /\ graph' = graph /\ chained' = chained /\ walk' = walk /\ hold' = hold /\ queue' = queue
      /\ batch' = batch /\ total' = total
      /\ UNCHANGED <<graph, chained, futureVars, threw>>
      /\ UNCHANGED <<graph, caller, chained, futureVars, threw>>
  BY Zenon DEF futureVars, batchVars
<1>2. at[o] = from /\ at \in [Ops -> Place] /\ status \in [Ops -> Status]
  BY Zenon DEF Holds, Live, Typed
<1>3. /\ at'[o] = to /\ status'[o] = st
      /\ \A q \in Ops \ {o} : at'[q] = at[q] /\ status'[q] = status[q]
  BY <1>2, Zenon
<1>4. at' \in [Ops -> Place] /\ status' \in [Ops -> Status]
  BY <1>2 DEF Place
<1>5. BatchTyped' /\ \A q : BatchesOf(q)' = BatchesOf(q)
  BY <1>1, GraphKept, Zenon DEF Live, Typed, BatchTyped
<1>6. Typed'
  BY <1>1, <1>4, <1>5, TypedMoves, Zenon DEF Live, Typed
<1>7. ASSUME NEW q \in Ops, NEW c \in Nat PROVE Keeps(q, c)
  <2>1. CASE q = o
    BY <1>1, <1>2, <1>3, <1>5, <2>1 DEF Keeps, Queued, Held, Busy
  <2>2. CASE q # o
    BY <1>1, <1>3, <1>5, <2>2, Zenon DEF Keeps, Queued, Held
  <2>3. QED
    BY <2>1, <2>2
<1>8. Items'
  <2>1. \A v \in Worker : hold[v] # NoItem => walk'[v] = {}
    BY <1>1, Zenon DEF Live, Items
  <2>2. QED
    BY <1>1, <1>7, <2>1, ItemsKept, Zenon
<1>9. Reduction(o)'
  <2>1. Reduction(o)
    BY Zenon DEF Live
  <2>2. QED
    BY <1>1, <1>2, <1>3, <1>5, <2>1, Zenon DEF Reduction, Pending, Error
<1>10. at[o] \in Busy \cup {"queued"} /\ at'[o] \in Busy /\ (at'[o] = "after" => status'[o] \in Final)
  BY <1>2, <1>3, Zenon
<1>11. QED
  BY <1>1, <1>3, <1>6, <1>8, <1>9, <1>10, OpMoves, Zenon

\* op->Execute begins.
LEMMA BeginExecuteInv ==
    ASSUME Live, NEW w \in Worker, NEW o \in Ops, BeginExecute(w, o)
    PROVE  Live'
<1> DEFINE to == IF IsJob(o) THEN "spawn" ELSE "execute"
<1>1. to \in Busy \ {"suspended"} /\ to # "after" /\ "before" \in Busy /\ "before" \notin {"spawn", "suspended"}
  BY DEF Busy
<1>2. status \in [Ops -> Status] /\ status' = status
  BY Zenon DEF Live, Typed, BeginExecute
<1>3. status[o] \in Status /\ status' = [status EXCEPT ![o] = status[o]]
  BY <1>2
<1>4. /\ Holds(w, o, "before") /\ at' = [at EXCEPT ![o] = to]
      /\ UNCHANGED <<graph, caller, chained, futureVars, hold, queue, batchVars, threw>>
  BY Zenon DEF BeginExecute
<1> HIDE DEF to
<1>5. QED
  BY <1>1, <1>3, <1>4, OpGoesOn, Zenon

\* A plain Execute, or the op that awaited its reduction, ends with its status set.
LEMMA EndExecuteInv ==
    ASSUME Live, NEW w \in Worker, NEW o \in Ops, PlainExecute(w, o) \/ Reduced(w, o)
    PROVE  Live'
<1>1. PICK from \in {"execute", "reduced"}, st \in {"kSuccess", "kFailed"} :
        Holds(w, o, from) /\ EndExecute(w, o, st)
  BY Zenon DEF PlainExecute, Reduced
<1>2. /\ from \in Busy /\ from \notin {"spawn", "suspended"} /\ "after" \in Busy \ {"suspended"}
      /\ st \in Status /\ st \in Final
  BY DEF Busy, Status, Final
<1>3. /\ Holds(w, o, from) /\ at' = [at EXCEPT ![o] = "after"] /\ status' = [status EXCEPT ![o] = st]
      /\ UNCHANGED <<graph, caller, chained, futureVars, hold, queue, batchVars, threw>>
  BY <1>1, Zenon DEF EndExecute
<1>4. QED
  BY <1>2, <1>3, OpGoesOn, Zenon

-----------------------------------------------------------------------------
(***************************************************************************)
(* Taking items, and the batches of a reduction.                           *)
(***************************************************************************)
\* The op awaits its batches, or one of them has failed.
Reducing(o) == (total[o] = Pending /\ at[o] \in {"spawn", "suspended"}) \/ total[o] = Error

\* Nothing is claimed of the batches of such an op ...
LEMMA ReducingSuffices ==
    ASSUME NEW o, Reducing(o)
    PROVE  Reduction(o)
<1>1. Pending # Error
  BY DEF Pending, Error
<1>2. QED
  BY <1>1, Zenon DEF Reducing, Reduction

\* ... and only such an op has batches that are scheduled.
LEMMA ScheduledBatch ==
    ASSUME Live, NEW o \in Ops, NEW b \in BatchesOf(o), batch[o][b] \notin {"unborn", "done"}
    PROVE  Reducing(o)
  BY Zenon DEF Live, Reduction, Reducing

\* A batch is spawned, or a worker takes one.
LEMMA BatchMoves ==
    ASSUME Live, UNCHANGED <<graph, caller, chained, at, status, futureVars, total, threw>>,
           NEW o \in Ops, NEW b \in BatchesOf(o), NEW st \in BatchState,
           batch' = [batch EXCEPT ![o][b] = st], Reducing(o),
           Items', queue' \in Seq(Item), hold' \in [Worker -> Item \cup {NoItem}]
    PROVE  Live'
<1>1. /\ graph' = graph /\ at' = at /\ status' = status /\ total' = total
      /\ UNCHANGED <<graph, chained, futureVars, threw>>
      /\ UNCHANGED <<graph, caller, chained, futureVars, threw>>
  BY Zenon
<1>2. BatchTyped' /\ \A q \in Ops \ {o} : batch'[q] = batch[q]
  BY <1>1, BatchStep, Zenon
<1>3. /\ at' \in [Ops -> Place] /\ status' \in [Ops -> Status]
      /\ total' = [q \in Ops |-> total'[q]]
  BY <1>1, Zenon DEF Live, Typed
<1>4. Typed'
  BY <1>1, <1>2, <1>3, TypedMoves, Zenon
<1>5. Reduction(o)'
  <2>1. Reducing(o)'
    BY <1>1, Zenon DEF Reducing, Pending, Error
  <2>2. Pending' # Error'
    BY DEF Pending, Error
  <2>3. QED
    BY <2>1, <2>2, Zenon DEF Reducing, Reduction
<1>6. QED
  BY <1>1, <1>2, <1>4, <1>5, OpMoves, Zenon

\* What the step of one batch leaves alone.
LEMMA BatchKeeps ==
    ASSUME Live, graph' = graph, NEW o \in Ops, NEW b \in BatchesOf(o), NEW st \in BatchState,
           batch' = [batch EXCEPT ![o][b] = st],
           NEW q \in Ops, NEW c \in Nat, <<q, c>> # <<o, b>>,
           at'[q] = at[q] \/ c \in Nat \ {0}
    PROVE  Keeps(q, c)
<1>1. /\ b # 0 /\ \A d \in BatchesOf(o) \ {b} : batch'[o][d] = batch[o][d]
      /\ \A r \in Ops \ {o} : batch'[r] = batch[r]
  BY BatchStep, Zenon
<1>2. BatchesOf(q)' = BatchesOf(q)
  BY GraphKept, Zenon
<1>3. CASE c = 0
  <2>1. at'[q] = at[q]
    BY <1>3
  <2>2. QED
    BY <1>3, <2>1, Zenon DEF Keeps, Queued, Held
<1>4. CASE c # 0 /\ q = o
  <2>1. c \in BatchesOf(o) => batch'[o][c] = batch[o][c]
    BY <1>1, <1>4, Zenon
  <2>2. QED
    BY <1>2, <1>4, <2>1, Zenon DEF Keeps, Queued, Held
<1>5. CASE c # 0 /\ q # o
  BY <1>1, <1>2, <1>5, Zenon DEF Keeps, Queued, Held
<1>6. QED
  BY <1>3, <1>4, <1>5, Zenon

\* A worker takes the front of the queue: an op starts to run, a batch is scheduled once
\* more, or a batch starts to run.
LEMMA TakeInv ==
    ASSUME Live, NEW w \in Worker, Take(w)
    PROVE  Live'
<1>1. queue \in Seq(Item) /\ Distinct(queue) /\ queue # <<>>
  BY Zenon DEF Live, Typed, Items, Single, Take
<1>2. Head(queue) \in Item /\ Head(queue) \in Range(queue)
  BY <1>1, TailFacts, Zenon
<1>3. PICK o \in Ops, b \in Nat : Head(queue) = <<o, b>> /\ Head(queue)[1] = o /\ Head(queue)[2] = b
  BY <1>2 DEF Item
<1>0. Head(queue) = <<o, b>>
  BY <1>3
<1>4. Queued(o, b)
  BY <1>2, <1>3, Zenon DEF Live, Items
<1>5. /\ hold[w] = NoItem /\ walk[w] = {} /\ graph' = graph /\ walk' = walk /\ total' = total
      /\ UNCHANGED <<graph, chained, futureVars, threw>>
      /\ UNCHANGED <<graph, caller, chained, futureVars, threw>>
  BY Zenon DEF Take, Free, futureVars
<1>6. /\ at \in [Ops -> Place] /\ status \in [Ops -> Status] /\ BatchTyped
      /\ hold \in [Worker -> Item \cup {NoItem}] /\ total = [q \in Ops |-> total[q]]
      /\ \A q : BatchesOf(q)' = BatchesOf(q)
      /\ Ops' = Ops
  BY <1>5, GraphKept, Zenon DEF Live, Typed
<1>7. CASE b = 0
  <2>1. /\ at' = [at EXCEPT ![o] = "before"] /\ status' = [status EXCEPT ![o] = "kRunning"]
        /\ batch' = batch /\ queue' = Tail(queue) /\ hold' = [hold EXCEPT ![w] = <<o, b>>]
    BY <1>3, <1>7, Zenon DEF Take
  <2>2. at[o] = "queued"
    BY <1>4, <1>7, Zenon DEF Queued
  <2>3. /\ at'[o] = "before" /\ at' \in [Ops -> Place] /\ status' \in [Ops -> Status]
        /\ \A q \in Ops \ {o} : at'[q] = at[q] /\ status'[q] = status[q]
    BY <1>3, <1>6, <2>1 DEF Place, Busy, Status
  <2>4. Held(o, b)'
    BY <1>7, <2>3 DEF Held, Busy
  <2>5. ASSUME NEW q \in Ops, NEW c \in Nat, <<q, c>> # <<o, b>> PROVE Keeps(q, c)
    <3>1. q # o \/ c # 0
      BY <1>7, <2>5
    <3>2. QED
      BY <1>6, <2>1, <2>3, <3>1, Zenon DEF Keeps, Queued, Held
  <2>6. Items' /\ queue' \in Seq(Item) /\ hold' \in [Worker -> Item \cup {NoItem}]
    BY <1>0, <1>1, <1>5, <2>1, <2>4, <2>5, ItemsTaken, Zenon
  <2>7. BatchTyped' /\ total' = [q \in Ops |-> total'[q]]
    BY <1>5, <1>6, <2>1, Zenon DEF BatchTyped
  <2>8. Typed'
    BY <1>5, <2>3, <2>6, <2>7, TypedMoves, Zenon
  <2>9. Reduction(o)'
    <3>1. Reduction(o)
      BY <1>3, Zenon DEF Live
    <3>2. QED
      BY <1>5, <1>6, <2>1, <2>2, <2>3, <3>1, Zenon DEF Reduction, Pending, Error
  <2>10. at[o] \in Busy \cup {"queued"} /\ at'[o] \in Busy /\ at'[o] # "after"
    BY <2>2, <2>3 DEF Busy
  <2>11. QED
    BY <1>5, <2>1, <2>3, <2>6, <2>8, <2>9, <2>10, OpMoves, Zenon
<1>8. CASE b # 0
  <2>1. at' = at /\ status' = status
    BY <1>3, <1>8, Zenon DEF Take
  <2>2. b \in BatchesOf(o) /\ batch[o][b] \in {"queued", "requeued"}
    BY <1>4, <1>8, Zenon DEF Queued
  <2>3. Reducing(o)
    BY <1>3, <2>2, ScheduledBatch
  <2>4. UNCHANGED <<graph, caller, chained, at, status, futureVars, total, threw>>
    BY <1>5, <2>1, Zenon
  <2>5. CASE batch[o][b] = "queued"
    <3>1. /\ queue' = Append(Tail(queue), Head(queue)) /\ hold' = hold
          /\ batch' = [batch EXCEPT ![o][b] = "requeued"]
      BY <1>3, <1>8, <2>5, Zenon DEF Take
    <3>2. "requeued" \in BatchState
      BY DEF BatchState
    <3>3. batch'[o][b] = "requeued"
      <4>1. BatchIs(o, b, "requeued")'
        BY <1>5, <2>2, <3>1, <3>2, BatchStep, Zenon
      <4>2. QED
        BY <4>1 DEF BatchIs
    <3>4. ASSUME NEW q \in Ops, NEW c \in Nat PROVE Keeps(q, c)
      <4>1. CASE <<q, c>> = <<o, b>>
        <5>1. q = o /\ c = b
          BY <4>1
        <5>2. Keeps(o, b)
          BY <1>6, <1>8, <2>2, <2>5, <3>3 DEF Keeps, Queued, Held
        <5>3. QED
          BY <5>1, <5>2
      <4>2. CASE <<q, c>> # <<o, b>>
        BY <1>5, <2>1, <2>2, <3>1, <3>2, <4>2, BatchKeeps, ZenonT(60)
      <4>3. QED
        BY <4>1, <4>2
    <3>5. Items' /\ queue' \in Seq(Item)
      BY <1>1, <1>5, <3>1, <3>4, ItemsRequeued, Zenon
    <3>6. QED
      BY <1>6, <2>2, <2>3, <2>4, <3>1, <3>2, <3>5, BatchMoves, Zenon
  <2>6. CASE batch[o][b] # "queued"
    <3>1. /\ queue' = Tail(queue) /\ hold' = [hold EXCEPT ![w] = <<o, b>>]
          /\ batch' = [batch EXCEPT ![o][b] = "running"]
      BY <1>3, <1>8, <2>6, Zenon DEF Take
    <3>2. "running" \in BatchState
      BY DEF BatchState
    <3>3. batch'[o][b] = "running"
      <4>1. BatchIs(o, b, "running")'
        BY <1>5, <2>2, <3>1, <3>2, BatchStep, Zenon
      <4>2. QED
        BY <4>1 DEF BatchIs
    <3>4. Held(o, b)'
      BY <1>6, <1>8, <2>2, <3>3, Zenon DEF Held
    <3>5. ASSUME NEW q \in Ops, NEW c \in Nat, <<q, c>> # <<o, b>> PROVE Keeps(q, c)
      BY <1>5, <2>1, <2>2, <3>1, <3>2, <3>5, BatchKeeps, Zenon
    <3>6. Items' /\ queue' \in Seq(Item) /\ hold' \in [Worker -> Item \cup {NoItem}]
      BY <1>0, <1>1, <1>5, <3>1, <3>4, <3>5, ItemsTaken, Zenon
    <3>7. QED
      BY <2>2, <2>3, <2>4, <3>1, <3>2, <3>6, BatchMoves, Zenon
  <2>7. QED
    BY <2>5, <2>6
<1>9. QED
  BY <1>7, <1>8

\* The loop of RunBatches schedules the next batch.
LEMMA SpawnBatchInv ==
    ASSUME Live, NEW w \in Worker, NEW o \in Ops, NEW b \in BatchesOf(o), SpawnBatch(w, o, b)
    PROVE  Live'
<1>1. /\ at[o] = "spawn" /\ batch[o][b] = "unborn" /\ at' = at
      /\ batch' = [batch EXCEPT ![o][b] = "queued"] /\ queue' = Append(queue, <<o, b>>)
      /\ hold' = hold /\ walk' = walk /\ graph' = graph
      /\ UNCHANGED <<graph, caller, chained, at, status, futureVars, total, threw>>
  BY Zenon DEF SpawnBatch, Holds, futureVars
<1>2. "queued" \in BatchState
  BY DEF BatchState
<1>3. b \in Nat /\ b # 0 /\ batch'[o][b] = "queued"
  <2>1. b \in Nat /\ b # 0 /\ BatchIs(o, b, "queued")'
    BY <1>1, <1>2, BatchStep, Zenon
  <2>2. QED
    BY <2>1 DEF BatchIs
<1>4. ~ Queued(o, b) /\ ~ Held(o, b) /\ Queued(o, b)'
  <2>1. BatchesOf(o)' = BatchesOf(o)
    BY <1>1, GraphKept, Zenon
  <2>2. QED
    BY <1>1, <1>3, <2>1 DEF Queued, Held
<1>5. ASSUME NEW q \in Ops, NEW c \in Nat PROVE Keeps(q, c)
  <2>1. CASE <<q, c>> = <<o, b>>
    <3>1. q = o /\ c = b
      BY <2>1
    <3>2. QED
      BY <1>4, <3>1, Zenon DEF Keeps
  <2>2. CASE <<q, c>> # <<o, b>>
    BY <1>1, <1>2, <2>2, BatchKeeps, ZenonT(60)
  <2>3. QED
    BY <2>1, <2>2
<1>6. \A v \in Worker : hold[v] # NoItem => walk'[v] = {}
  BY <1>1, Zenon DEF Live, Items
<1>7. Items' /\ queue' \in Seq(Item) /\ hold' \in [Worker -> Item \cup {NoItem}]
  <2>1. Items' /\ queue' \in Seq(Item)
    BY <1>1, <1>3, <1>4, <1>5, <1>6, ItemsAppend, Zenon
  <2>2. QED
    BY <1>1, <2>1, Zenon DEF Live, Typed
<1>8. Reducing(o)
  BY <1>1, Zenon DEF Live, Reduction, Reducing
<1>9. QED
  BY <1>1, <1>2, <1>7, <1>8, BatchMoves, Zenon

\* An op that runs stays where it is or goes on, short of its end.
Proceeds(o, to) == to = at[o] \/ (at[o] \in Busy /\ to \in Busy \ {"after"})

\* The reduction or the awaiting op moves on: the op's place, its total and one worker's
\* item change.
LEMMA ReductionMoves ==
    ASSUME Live, UNCHANGED <<graph, caller, chained, status, futureVars, threw>>, NEW o \in Ops,
           NEW to \in Place, NEW t, Proceeds(o, to),
           at' = [at EXCEPT ![o] = to], total' = [total EXCEPT ![o] = t],
           BatchTyped', \A q \in Ops \ {o} : batch'[q] = batch[q],
           Items', queue' = queue, hold' \in [Worker -> Item \cup {NoItem}],
           Reduction(o)'
    PROVE  Live'
<1>1. /\ at \in [Ops -> Place] /\ status \in [Ops -> Status] /\ queue \in Seq(Item)
      /\ total = [q \in Ops |-> total[q]] /\ status' = status
      /\ UNCHANGED <<graph, chained, futureVars, threw>>
      /\ UNCHANGED <<graph, caller, chained, futureVars, threw>>
  BY Zenon DEF Live, Typed
<1>2. /\ at' \in [Ops -> Place] /\ at'[o] = to
      /\ \A q \in Ops \ {o} : at'[q] = at[q]
  BY <1>1, Zenon
<1>3. total' = [q \in Ops |-> total'[q]] /\ \A q \in Ops \ {o} : total'[q] = total[q]
  <2> DEFINE f == total
             g == total'
  <2> HIDE DEF f, g
  <2>1. f = [q \in Ops |-> f[q]] /\ g = [f EXCEPT ![o] = t]
    BY <1>1 DEF f, g
  <2>2. g = [q \in Ops |-> g[q]] /\ \A q \in Ops \ {o} : g[q] = f[q]
    BY <2>1
  <2>3. QED
    BY <2>2 DEF f, g
<1>4. Typed'
  BY <1>1, <1>2, <1>3, TypedMoves, Zenon
<1>5. \/ at'[o] = at[o] /\ status'[o] = status[o]
      \/ /\ at[o] \in Busy \cup {"queued"} /\ at'[o] \in Busy
         /\ at'[o] = "after" => status'[o] \in Final
  BY <1>1, <1>2, Zenon DEF Proceeds
<1>6. QED
  BY <1>1, <1>2, <1>3, <1>4, <1>5, OpMoves, Zenon

\* RunBatches has scheduled all batches, and the op awaits the reduction.
LEMMA AwaitBatchesInv ==
    ASSUME Live, NEW w \in Worker, NEW o \in Ops, AwaitBatches(w, o)
    PROVE  Live'
<1> DEFINE t == IF BatchesOf(o) = {} THEN Value(<<>>) ELSE total[o]
<1>1. /\ hold[w] = <<o, 0>> /\ at[o] = "spawn" /\ graph' = graph /\ walk' = walk /\ queue' = queue
      /\ batch' = batch /\ UNCHANGED <<graph, caller, chained, status, futureVars, threw>>
  BY Zenon DEF AwaitBatches, Holds, futureVars
<1>2. /\ at \in [Ops -> Place] /\ hold \in [Worker -> Item \cup {NoItem}] /\ BatchTyped
      /\ total = [q \in Ops |-> total[q]] /\ Ops' = Ops /\ \A q : BatchesOf(q)' = BatchesOf(q)
  BY <1>1, GraphKept, Zenon DEF Live, Typed
<1>3. BatchTyped' /\ \A q \in Ops \ {o} : batch'[q] = batch[q]
  BY <1>1, <1>2, Zenon DEF BatchTyped
<1>4. total' = [total EXCEPT ![o] = t] /\ total'[o] = t
  <2>1. total' = [total EXCEPT ![o] = t]
    BY DEF AwaitBatches
  <2> HIDE DEF t
  <2>2. QED
    BY <1>2, <2>1
<1>5. hold[w] # NoItem /\ \A v \in Worker : hold[v] # NoItem => walk'[v] = {}
  BY <1>1, ItemFacts, Zenon DEF Live, Items
<1>6. CASE t = Pending
  <2>1. at' = [at EXCEPT ![o] = "suspended"] /\ hold' = [hold EXCEPT ![w] = NoItem]
    BY <1>4, <1>6, Zenon DEF AwaitBatches
  <2>2. "suspended" \in Place /\ Proceeds(o, "suspended")
    BY <1>1 DEF Place, Busy, Proceeds
  <2>3. at'[o] = "suspended" /\ \A q \in Ops \ {o} : at'[q] = at[q]
    BY <1>2, <2>1, Zenon
  <2>4. ASSUME NEW q \in Ops, NEW c \in Nat, <<q, c>> # hold[w] PROVE Keeps(q, c)
    <3>1. q # o \/ c # 0
      BY <1>1, <2>4
    <3>2. QED
      BY <1>1, <1>2, <2>3, <3>1, Zenon DEF Keeps, Queued, Held
  <2>5. Items'
    BY <1>1, <1>5, <2>1, <2>4, ItemsRelease, Zenon
  <2>6. hold' \in [Worker -> Item \cup {NoItem}]
    BY <1>2, <2>1, Zenon
  <2>7. Reduction(o)'
    <3>1. total'[o] = Pending /\ at'[o] = "suspended" /\ Pending # Error /\ Pending' = Pending /\ Error' = Error
      BY <1>4, <1>6, <2>3 DEF Pending, Error
    <3>2. QED
      BY <3>1, Zenon DEF Reduction
  <2> HIDE DEF t
  <2>8. PICK u : u = t
    OBVIOUS
  <2>9. QED
    BY <1>1, <1>3, <1>4, <2>1, <2>2, <2>5, <2>6, <2>7, <2>8, ReductionMoves, ZenonT(60)
<1>7. CASE t # Pending
  <2>1. at' = [at EXCEPT ![o] = "reduced"] /\ hold' = hold
    BY <1>4, <1>7, Zenon DEF AwaitBatches
  <2>2. "reduced" \in Place /\ Proceeds(o, "reduced")
    BY <1>1 DEF Place, Busy, Proceeds
  <2>3. at'[o] = "reduced" /\ \A q \in Ops \ {o} : at'[q] = at[q]
    BY <1>2, <2>1, Zenon
  <2>4. ASSUME NEW q \in Ops, NEW c \in Nat PROVE Keeps(q, c)
    <3>1. CASE q # o \/ c # 0
      BY <1>1, <1>2, <2>3, <3>1, Zenon DEF Keeps, Queued, Held
    <3>2. CASE q = o /\ c = 0
      BY <1>1, <2>3, <3>2 DEF Keeps, Queued, Held, Busy
    <3>3. QED
      BY <3>1, <3>2
  <2>5. Items'
    BY <1>1, <1>5, <2>1, <2>4, ItemsKept, Zenon
  <2>6. Reduction(o)'
    <3>1. total'[o] # Pending /\ (BatchesOf(o) # {} => total'[o] = total[o]) /\ Pending' = Pending /\ Error' = Error
      BY <1>4, <1>7 DEF Pending, Error
    <3>2. Reduction(o)
      BY Zenon DEF Live
    <3>3. QED
      BY <1>1, <1>2, <3>1, <3>2, Zenon DEF Reduction
  <2> HIDE DEF t
  <2>7. PICK u : u = t
    OBVIOUS
  <2>8. QED
    BY <1>1, <1>2, <1>3, <1>4, <2>1, <2>2, <2>5, <2>6, <2>7, ReductionMoves, ZenonT(60)
<1>8. QED
  BY <1>6, <1>7

\* What a batch that ends may report: an error, or, behind all others, the total.
Reports(o, u) == u = Pending \/ u = Error \/ \A a \in BatchesOf(o) : batch'[o][a] = "done"

\* A batch ends, and the future of the reduction resolves with u unless it already has.
LEMMA ResolveReduceInv ==
    ASSUME Live, NEW w \in Worker, NEW o \in Ops, NEW b \in BatchesOf(o), hold[w] = <<o, b>>,
           NEW st \in {"done", "error"}, batch' = [batch EXCEPT ![o][b] = st],
           NEW u, ResolveReduce(w, o, u), Reports(o, u)
    PROVE  Live'
<1> DEFINE t == IF total[o] = Pending THEN u ELSE total[o]
<1>0. st \in BatchState
  BY DEF BatchState
<1>1. /\ graph' = graph /\ walk' = walk /\ queue' = queue
      /\ UNCHANGED <<graph, caller, chained, status, futureVars, threw>>
  BY Zenon DEF ResolveReduce, futureVars
<1>2. /\ at \in [Ops -> Place] /\ hold \in [Worker -> Item \cup {NoItem}]
      /\ total = [q \in Ops |-> total[q]] /\ Ops' = Ops /\ \A q : BatchesOf(q)' = BatchesOf(q)
  BY <1>1, GraphKept, Zenon DEF Live, Typed
<1>3. BatchTyped' /\ b \in Nat /\ b # 0 /\ \A q \in Ops \ {o} : batch'[q] = batch[q]
  BY <1>0, <1>1, BatchStep, Zenon
<1>4. total' = [total EXCEPT ![o] = t] /\ total'[o] = t
  <2>1. total' = [total EXCEPT ![o] = t]
    BY DEF ResolveReduce
  <2> HIDE DEF t
  <2>2. QED
    BY <1>2, <2>1
<1>5. hold[w] # NoItem /\ \A v \in Worker : hold[v] # NoItem => walk'[v] = {}
  BY <1>1, <1>3, ItemFacts, Zenon DEF Live, Items
<1>6. Reducing(o) /\ Pending # Error /\ Pending' = Pending /\ Error' = Error
  <2>1. Held(o, b)
    BY <1>3, Zenon DEF Live, Items
  <2>2. batch[o][b] = "running"
    BY <1>3, <2>1, Zenon DEF Held
  <2>3. Reducing(o)
    BY <2>2, ScheduledBatch
  <2>4. QED
    BY <2>3 DEF Pending, Error
<1>7. CASE u # Pending /\ total[o] = Pending /\ at[o] = "suspended"
  <2>1. at' = [at EXCEPT ![o] = "reduced"] /\ hold' = [hold EXCEPT ![w] = <<o, 0>>]
    BY <1>7, Zenon DEF ResolveReduce
  <2>2. "reduced" \in Place /\ Proceeds(o, "reduced")
    BY <1>7 DEF Place, Busy, Proceeds
  <2>3. at'[o] = "reduced" /\ \A q \in Ops \ {o} : at'[q] = at[q]
    BY <1>2, <2>1, Zenon
  <2>4. ASSUME NEW q \in Ops, NEW c \in Nat, <<q, c>> # hold[w] /\ <<q, c>> # <<o, 0>> PROVE Keeps(q, c)
    <3>1. at'[q] = at[q] \/ c # 0
      BY <2>3, <2>4, Zenon
    <3>2. <<q, c>> # <<o, b>>
      BY <2>4, Zenon
    <3>3. QED
      <4>1. CASE at'[q] = at[q]
        BY <1>0, <1>1, <3>2, <4>1, BatchKeeps, ZenonT(60)
      <4>2. CASE c # 0
        <5>1. c \in Nat \ {0}
          BY <4>2
        <5>2. QED
          BY <1>0, <1>1, <3>2, <5>1, BatchKeeps, ZenonT(60)
      <4>3. QED
        BY <3>1, <4>1, <4>2
  <2>5. Items' /\ hold' \in [Worker -> Item \cup {NoItem}]
    BY <1>1, <1>5, <1>7, <2>1, <2>3, <2>4, ItemsResumed, ZenonT(60)
  <2>6. Reduction(o)'
    <3>1. total'[o] = u
      BY <1>4, <1>7, Zenon
    <3>2. QED
      BY <1>2, <1>6, <1>7, <3>1, Zenon DEF Reduction, Reports
  <2> HIDE DEF t
  <2>7. PICK x : total' = [total EXCEPT ![o] = x]
    BY <1>4, Zenon
  <2>8. QED
    BY <1>1, <1>3, <2>1, <2>2, <2>5, <2>6, <2>7, ReductionMoves, ZenonT(60)
<1>8. CASE ~ (u # Pending /\ total[o] = Pending /\ at[o] = "suspended")
  <2>1. at' = at /\ hold' = [hold EXCEPT ![w] = NoItem]
    BY <1>8, Zenon DEF ResolveReduce
  <2>2. at[o] \in Place /\ at' = [at EXCEPT ![o] = at[o]]
    BY <1>2, <2>1
  <2>3. ASSUME NEW q \in Ops, NEW c \in Nat, <<q, c>> # hold[w] PROVE Keeps(q, c)
    <3>1. <<q, c>> # <<o, b>>
      BY <2>3, Zenon
    <3>2. QED
      BY <1>0, <1>1, <2>1, <3>1, BatchKeeps, ZenonT(60)
  <2>4. Items'
    BY <1>1, <1>5, <2>1, <2>3, ItemsRelease, Zenon
  <2>5. hold' \in [Worker -> Item \cup {NoItem}]
    BY <1>2, <2>1, Zenon
  <2>6. Reduction(o)'
    <3>1. CASE total'[o] = Pending \/ total'[o] = Error
      <4>1. total'[o] = Pending => at'[o] \in {"spawn", "suspended"}
        BY <1>4, <1>6, <2>1, Zenon DEF Reducing
      <4>2. QED
        BY <1>6, <3>1, <4>1, Zenon DEF Reduction
    <3>2. CASE total'[o] # Pending /\ total'[o] # Error
      <4>1. total'[o] = u
        BY <1>4, <1>6, <3>2, Zenon DEF Reducing
      <4>2. \A a \in BatchesOf(o) : batch'[o][a] = "done"
        BY <3>2, <4>1, Zenon DEF Reports
      <4>3. QED
        BY <1>2, <1>6, <3>2, <4>2, Zenon DEF Reduction
    <3>3. QED
      BY <3>1, <3>2
  <2> HIDE DEF t
  <2>7. PICK to \in Place : to = at[o]
    BY <2>2
  <2>8. at' = [at EXCEPT ![o] = to] /\ Proceeds(o, to)
    <3>1. at' = [at EXCEPT ![o] = to]
      BY <2>2, <2>7
    <3>2. Proceeds(o, to)
      BY <2>7, Zenon DEF Proceeds
    <3>3. QED
      BY <3>1, <3>2, Zenon
  <2>9. PICK x : total' = [total EXCEPT ![o] = x]
    BY <1>4, Zenon
  <2>10. QED
    BY <1>1, <1>3, <2>4, <2>5, <2>6, <2>8, <2>9, ReductionMoves, ZenonT(60)
<1>9. QED
  BY <1>7, <1>8

\* A batch folds its elements, or its function throws.
LEMMA FoldInv ==
    ASSUME Live, NEW w \in Worker, NEW o \in Ops, NEW b \in BatchesOf(o),
           Fold(w, o, b) \/ FoldThrows(w, o, b)
    PROVE  Live'
<1>1. CASE Fold(w, o, b)
  <2>1. PICK u : ResolveReduce(w, o, u) /\ Reports(o, u)
    BY <1>1, Zenon DEF Fold, Reports
  <2>2. hold[w] = <<o, b>> /\ batch' = [batch EXCEPT ![o][b] = "done"]
    BY <1>1, Zenon DEF Fold
  <2>3. QED
    BY <2>1, <2>2, ResolveReduceInv, Zenon
<1>2. CASE FoldThrows(w, o, b)
  <2>1. /\ hold[w] = <<o, b>> /\ batch' = [batch EXCEPT ![o][b] = "error"]
        /\ ResolveReduce(w, o, Error) /\ Reports(o, Error)
    BY <1>2, Zenon DEF FoldThrows, Reports
  <2>2. QED
    BY <2>1, ResolveReduceInv, Zenon
<1>3. QED
  BY <1>1, <1>2

-----------------------------------------------------------------------------
(***************************************************************************)
(* An op's future resolves.                                                *)
(***************************************************************************)
\* The subscribers of o are added to what w has to resume, and only pairs for o itself
\* are dropped.
Delivers(w, o) ==
    \A v \in Worker, d \in Ops, x \in Ops \cup {All} :
        /\ <<d, x>> \in walk'[v] => <<d, x>> \in walk[v] \/ (v = w /\ d = o /\ x \in subs[o])
        /\ x # o /\ <<d, x>> \in walk[v] => <<d, x>> \in walk'[v]
        /\ x # o /\ v = w /\ d = o /\ x \in subs[o] => <<d, x>> \in walk'[v]

\* One result, or the place of one op, changes.
ResultIs(o, r) == \A x \in Ops \cup {All} : result'[x] = IF x = o THEN r ELSE result[x]
AtIs(o, to) == \A q \in Ops : at'[q] = IF q = o THEN to ELSE at[q]

\* The future of o resolves with r: what was pending for a subscriber is now coming.
LEMMA ResolutionFutures ==
    ASSUME Live, graph' = graph, caller' = caller, NEW w \in Worker, NEW o \in Ops,
           NEW r \in {"value", "error"}, result[o] = "pending", at[o] # "unborn",
           ResultIs(o, r), AtIs(o, "done"), Delivers(w, o),
           \A d \in Ops : subs'[d] = IF d = o THEN {} ELSE subs[d],
           \A x \in Ops \cup {All} : x # o => left'[x] = left[x]
    PROVE  Subscriptions' /\ \A x \in Ops \cup {All} : Countdown(x)'
<1>1. Ops' = Ops /\ All \notin Ops /\ \A x \in Ops \cup {All} : From(x)' = From(x) /\ From(x) \subseteq Ops
  BY GraphKept, OrderFacts, Zenon DEF From, Live
<1>2. result'[o] = r /\ r # "pending" /\ \A x \in Ops \cup {All} : x # o => result'[x] = result[x]
  BY DEF ResultIs
<1>3. at'[o] = "done" /\ \A q \in Ops : q # o => at'[q] = at[q]
  BY Zenon DEF AtIs
<1>4. \A x \in Ops \cup {All} : Exists(x)' <=> Exists(x)
  BY <1>1, <1>3 DEF Exists
<1>5. ~ Waits(o)' /\ \A x \in Ops \cup {All} : x # o => (Waits(x)' <=> Waits(x))
  BY <1>1, <1>2, <1>3, <1>4, Zenon DEF Waits
<1>6. ASSUME NEW d \in Ops, NEW x \in Ops \cup {All}, Subscribed(d, x) PROVE Subscribed(d, x)'
  BY <1>1, <1>2, <1>4, <1>5, <1>6, Zenon DEF Subscribed
<1>7. Subscriptions
  BY Zenon DEF Live
<1>8. Subscriptions'
  <2>1. ASSUME NEW d \in Ops, NEW x \in Ops \cup {All}, x \in subs'[d]
        PROVE  Subscribed(d, x)' /\ result'[d] = "pending"
    <3>1. d # o /\ x \in subs[d]
      BY <2>1
    <3>2. Subscribed(d, x) /\ result[d] = "pending"
      BY <1>7, <3>1, Zenon DEF Subscriptions
    <3>3. QED
      BY <1>2, <1>6, <3>1, <3>2, ZenonT(60)
  <2>2. ASSUME NEW v \in Worker, NEW d \in Ops, NEW x \in Ops \cup {All}, <<d, x>> \in walk'[v]
        PROVE  Subscribed(d, x)' /\ result'[d] # "pending"
    <3>1. CASE <<d, x>> \in walk[v]
      <4>1. Subscribed(d, x) /\ result[d] # "pending"
        BY <1>7, <3>1, Zenon DEF Subscriptions
      <4>2. QED
        BY <1>2, <1>6, <4>1, Zenon
    <3>2. CASE d = o /\ x \in subs[o]
      <4>1. Subscribed(d, x)
        BY <1>7, <3>2, Zenon DEF Subscriptions
      <4>2. QED
        BY <1>2, <1>6, <3>2, <4>1, Zenon
    <3>3. QED
      BY <2>2, <3>1, <3>2, Zenon DEF Delivers
  <2>3. ASSUME NEW u \in Worker, NEW v \in Worker, NEW d \in Ops, NEW x \in Ops \cup {All},
               <<d, x>> \in walk'[u], <<d, x>> \in walk'[v]
        PROVE  u = v
    <3>1. CASE d = o
      <4>1. <<d, x>> \notin walk[u] /\ <<d, x>> \notin walk[v]
        BY <1>7, <3>1, Zenon DEF Subscriptions
      <4>2. QED
        BY <2>3, <4>1, Zenon DEF Delivers
    <3>2. CASE d # o
      <4>1. <<d, x>> \in walk[u] /\ <<d, x>> \in walk[v]
        BY <2>3, <3>2, Zenon DEF Delivers
      <4>2. QED
        BY <1>7, <4>1, Zenon DEF Subscriptions
    <3>3. QED
      BY <3>1, <3>2
  <2>4. QED
    BY <1>1, <2>1, <2>2, <2>3, Zenon DEF Subscriptions
<1>9. ASSUME NEW x \in Ops \cup {All} PROVE Countdown(x)'
  <2>1. CASE ~ Waits(x)'
    BY <2>1, Zenon DEF Countdown
  <2>2. CASE Waits(x)'
    <3>1. x # o /\ Waits(x) /\ Countdown(x)
      BY <1>5, <2>2, Zenon DEF Live
    <3>2. \A d \in Ops : d # o => (Coming(d, x)' <=> Coming(d, x))
      BY <3>1, Zenon DEF Coming, Delivers
    <3>3. o \in From(x) => Coming(o, x)'
      BY <3>1, Zenon DEF Countdown, Coming, Delivers
    <3>4. ASSUME NEW d \in From(x)
          PROVE  /\ result'[d] = "pending" \/ Coming(d, x)' <=> result[d] = "pending" \/ Coming(d, x)
                 /\ result'[d] = "pending" => x \in subs'[d]
                 /\ result'[d] = "error" => Coming(d, x)'
      <4>1. d \in Ops
        BY <1>1, Zenon
      <4>2. CASE d = o
        BY <1>2, <3>3, <4>2, Zenon
      <4>3. CASE d # o
        <5>1. result'[d] = result[d] /\ subs'[d] = subs[d] /\ (Coming(d, x)' <=> Coming(d, x))
          BY <1>2, <3>2, <4>1, <4>3, Zenon
        <5>2. QED
          BY <3>1, <5>1, Zenon DEF Countdown
      <4>4. QED
        BY <4>2, <4>3, Zenon
    <3>5. Outstanding(x)' = Outstanding(x)
      BY <1>1, <3>4, Zenon DEF Outstanding
    <3>6. left'[x] = left[x]
      BY <3>1, Zenon
    <3>7. QED
      BY <1>1, <3>1, <3>4, <3>5, <3>6, Zenon DEF Countdown
  <2>3. QED
    BY <2>1, <2>2
<1>10. QED
  BY <1>1, <1>8, <1>9

\* The future of o resolves with r: the rest of the invariant.
LEMMA ResolutionInv ==
    ASSUME Live, UNCHANGED <<graph, caller, chained, batchVars>>, Typed', Items',
           NEW w \in Worker, NEW o \in Ops,
           NEW r \in {"value", "error"}, result[o] = "pending",
           at[o] \notin {"unborn", "spawn", "suspended"},
           ResultIs(o, r), AtIs(o, "done"), Delivers(w, o),
           \A d \in Ops : subs'[d] = IF d = o THEN {} ELSE subs[d],
           \A x \in Ops \cup {All} : x # o => left'[x] = left[x],
           \A q \in Ops \ {o} : status'[q] = status[q],
           threw' = threw \/ threw' = threw \cup {o},
           Phase(o)'
    PROVE  Live'
<1>1. /\ graph' = graph /\ caller' = caller /\ chained' = chained /\ batch' = batch /\ total' = total
      /\ Ops' = Ops /\ Item' = Item /\ order' = order /\ All \notin Ops
      /\ (\A q : BatchesOf(q)' = BatchesOf(q)) /\ Compiled(graph)'
  <2>1. graph' = graph /\ caller' = caller /\ chained' = chained /\ batch' = batch /\ total' = total
    BY Zenon DEF batchVars
  <2>2. QED
    BY <2>1, GraphKept, Zenon DEF Live
<1>2. result'[o] = r /\ \A x \in Ops \cup {All} : x # o => result'[x] = result[x]
  BY Zenon DEF ResultIs
<1>3. at'[o] = "done" /\ \A q \in Ops : q # o => at'[q] = at[q]
  BY Zenon DEF AtIs
<1>4. Subscriptions' /\ \A x \in Ops \cup {All} : Countdown(x)'
  <2>1. at[o] # "unborn"
    OBVIOUS
  <2>2. QED
    BY <1>1, <2>1, ResolutionFutures, ZenonT(60)
<1>5. ASSUME NEW q \in Ops PROVE Phase(q)'
  <2>1. CASE q = o
    BY <2>1, Zenon
  <2>2. CASE q # o
    <3>1. /\ at'[q] = at[q] /\ status'[q] = status[q] /\ result'[q] = result[q]
          /\ (q \in threw' <=> q \in threw) /\ (threw # {} => threw' # {})
      BY <1>2, <1>3, <2>2, SMTT(30)
    <3>2. \A d \in graph.deps[q] : result[d] = "value" => result'[d] = "value"
      <4>1. \A d \in graph.deps[q] : d \in Ops
        BY OrderFacts, Zenon
      <4>2. QED
        BY <1>2, <4>1
    <3>3. Phase(q)
      BY Zenon DEF Live
    <3>4. QED
      BY <1>1, <3>1, <3>2, <3>3, ZenonT(60) DEF Phase, Final, Busy
  <2>3. QED
    BY <2>1, <2>2
<1>6. ASSUME NEW q \in Ops PROVE Reduction(q)'
  <2>1. Reduction(q) /\ Pending' = Pending /\ Error' = Error
    BY Zenon DEF Live, Pending, Error
  <2>2. CASE q = o
    <3>1. at[q] \notin {"spawn", "suspended"}
      BY <2>2
    <3>2. QED
      BY <1>1, <2>1, <3>1, Zenon DEF Reduction
  <2>3. CASE q # o
    <3>1. at'[q] = at[q]
      BY <1>3, <2>3, Zenon
    <3>2. QED
      BY <1>1, <2>1, <3>1, Zenon DEF Reduction
  <2>4. QED
    BY <2>2, <2>3
<1>7. Caller'
  <2>1. \A i \in 1 .. Len(order) : order[i] \in Ops
    BY OrderFacts, ZenonT(60)
  <2>2. \A q \in Ops : at'[q] = "unborn" <=> at[q] = "unborn"
    <3>1. at[o] # "unborn"
      OBVIOUS
    <3>2. QED
      BY <1>3, <3>1, ZenonT(60)
  <2>3. result'[All] = result[All] /\ result[All] # "value" /\ (threw # {} => threw' # {})
    <3>1. result'[All] = result[All]
      BY <1>1, <1>2, Zenon
    <3>2. QED
      BY <3>1, SMTT(30) DEF Live, Caller
  <2>4. QED
    BY <1>1, <2>1, <2>2, <2>3, ZenonT(60) DEF Live, Caller
<1>8. QED
  BY <1>1, <1>4, <1>5, <1>6, <1>7, Zenon DEF Live

\* A worker ends RunOp of the op it holds.
LEMMA ResolveInv ==
    ASSUME Live, NEW w \in Worker, NEW o \in Ops, Holds(w, o, "before") \/ Holds(w, o, "after"),
           NEW r \in {"value", "error"}, Resolve(w, o, r),
           UNCHANGED <<graph, caller, chained, left, queue, batchVars>>,
           status' \in [Ops -> Status], \A q \in Ops \ {o} : status'[q] = status[q],
           threw' = threw \/ threw' = threw \cup {o},
           r = "value" => threw' = threw /\ status'[o] \in Final,
           r = "error" => o \in threw'
    PROVE  Live'
<1>1. /\ graph' = graph /\ batch' = batch /\ queue' = queue /\ left' = left
      /\ chained' = chained /\ partial' = partial /\ total' = total
      /\ Ops' = Ops /\ Item' = Item /\ order' = order /\ All \notin Ops
      /\ \A q : BatchesOf(q)' = BatchesOf(q)
  <2>1. /\ graph' = graph /\ batch' = batch /\ queue' = queue /\ left' = left
        /\ chained' = chained /\ partial' = partial /\ total' = total
    BY Zenon DEF batchVars
  <2>2. QED
    BY <2>1, GraphKept, Zenon DEF Live
<1>2. /\ at \in [Ops -> Place] /\ result \in [Ops \cup {All} -> {"pending", "value", "error"}]
      /\ subs \in [Ops -> SUBSET (Ops \cup {All})]
      /\ walk \in [Worker -> SUBSET (Ops \X (Ops \cup {All}))]
      /\ hold \in [Worker -> Item \cup {NoItem}]
  BY Zenon DEF Live, Typed
<1>3. hold[w] = <<o, 0>> /\ at[o] \in {"before", "after"}
  BY DEF Holds
<1>4. hold[w] # NoItem /\ walk[w] = {}
  BY <1>3, ItemFacts, Zenon DEF Live, Items
<1>5. Phase(o) /\ result[o] = "pending" /\ o \notin threw /\ \A d \in graph.deps[o] : result[d] = "value"
  <2>1. Phase(o) /\ result[o] \in {"pending", "value", "error"}
    BY <1>2, Zenon DEF Live
  <2>2. at[o] # "done" /\ at[o] \in Busy \cup {"queued"}
    BY <1>3 DEF Busy
  <2>3. QED
    BY <2>1, <2>2, Zenon DEF Phase
<1>6. /\ result' \in [Ops \cup {All} -> {"pending", "value", "error"}] /\ ResultIs(o, r)
  <2>1. result' = [result EXCEPT ![o] = r]
    BY DEF Resolve
  <2>2. QED
    BY <1>2, <2>1, ZenonT(60) DEF ResultIs
<1>7. at' \in [Ops -> Place] /\ AtIs(o, "done")
  <2>1. at' = [at EXCEPT ![o] = "done"]
    BY DEF Resolve
  <2>2. QED
    BY <1>2, <2>1, Zenon DEF AtIs, Place
<1>8. /\ subs' \in [Ops -> SUBSET (Ops \cup {All})]
      /\ \A d \in Ops : subs'[d] = IF d = o THEN {} ELSE subs[d]
  <2>1. subs' = [subs EXCEPT ![o] = {}]
    BY DEF Resolve
  <2>2. QED
    BY <1>2, <2>1, ZenonT(60)
<1>9. /\ walk' \in [Worker -> SUBSET (Ops \X (Ops \cup {All}))] /\ Delivers(w, o)
      /\ \A v \in Worker \ {w} : walk'[v] = walk[v]
  <2> DEFINE new == {<<o, x>> : x \in subs[o]}
  <2>1. walk' = [walk EXCEPT ![w] = new]
    BY DEF Resolve
  <2>2. /\ new \in SUBSET (Ops \X (Ops \cup {All}))
        /\ \A d \in Ops, x \in Ops \cup {All} : <<d, x>> \in new <=> d = o /\ x \in subs[o]
    <3>1. subs[o] \in SUBSET (Ops \cup {All})
      BY <1>2
    <3>2. QED
      BY <3>1
  <2> HIDE DEF new
  <2>3. /\ walk' \in [Worker -> SUBSET (Ops \X (Ops \cup {All}))] /\ walk'[w] = new
        /\ \A v \in Worker \ {w} : walk'[v] = walk[v]
    BY <1>2, <2>1, <2>2, ZenonT(60)
  <2>4. ASSUME NEW v \in Worker, NEW d \in Ops, NEW x \in Ops \cup {All}
        PROVE  /\ <<d, x>> \in walk'[v] => <<d, x>> \in walk[v] \/ (v = w /\ d = o /\ x \in subs[o])
               /\ x # o /\ <<d, x>> \in walk[v] => <<d, x>> \in walk'[v]
               /\ x # o /\ v = w /\ d = o /\ x \in subs[o] => <<d, x>> \in walk'[v]
    <3>1. CASE v = w
      BY <1>4, <2>2, <2>3, <3>1, Zenon
    <3>2. CASE v # w
      BY <2>3, <3>2, Zenon
    <3>3. QED
      BY <3>1, <3>2
  <2>5. QED
    BY <2>3, <2>4, ZenonT(60) DEF Delivers
<1>10. Items'
  <2>1. hold' = [hold EXCEPT ![w] = NoItem]
    BY Zenon DEF Resolve
  <2>2. \A v \in Worker \ {w} : hold[v] # NoItem => walk'[v] = {}
    BY <1>9, Zenon DEF Live, Items
  <2>3. ASSUME NEW q \in Ops, NEW c \in Nat, <<q, c>> # hold[w] PROVE Keeps(q, c)
    <3>1. q # o \/ c # 0
      BY <1>3, <2>3
    <3>2. q # o => at'[q] = at[q]
      BY <1>7, Zenon DEF AtIs
    <3>3. QED
      BY <1>1, <3>1, <3>2, Zenon DEF Keeps, Queued, Held
  <2>4. QED
    BY <1>1, <1>4, <2>1, <2>2, <2>3, ItemsRelease, Zenon
<1>11. Typed'
  <2>1. hold' \in [Worker -> Item \cup {NoItem}]
    BY <1>2, Zenon DEF Resolve
  <2>2. threw' \subseteq Ops /\ BatchTyped'
    <3>1. threw \subseteq Ops /\ BatchTyped
      BY Zenon DEF Live, Typed
    <3>2. BatchTyped'
      BY <1>1, <3>1, Zenon DEF BatchTyped
    <3>3. QED
      BY <3>1, <3>2
  <2>3. chained \in 0 .. Len(order) /\ left \in [Ops \cup {All} -> Int] /\ queue \in Seq(Item)
        /\ total = [q \in Ops |-> total[q]]
    BY Zenon DEF Live, Typed
  <2>4. QED
    BY <1>1, <1>6, <1>7, <1>8, <1>9, <2>1, <2>2, <2>3, ZenonT(60) DEF Typed
<1>12. Phase(o)'
  <2>1. result'[o] = r /\ at'[o] = "done" /\ r # "pending"
    BY <1>6, <1>7 DEF ResultIs, AtIs
  <2>2. \A d \in graph.deps[o] : result'[d] = "value"
    <3>1. \A d \in graph.deps[o] : d \in Ops /\ d # o
      BY <1>5, OrderFacts
    <3>2. QED
      BY <1>5, <1>6, <3>1, ZenonT(60) DEF ResultIs
  <2>3. (r = "value" => o \notin threw') /\ (r = "error" => threw' # {})
    BY <1>5
  <2>4. QED
    BY <1>1, <2>1, <2>2, <2>3, ZenonT(60) DEF Phase
<1>13. at[o] \notin {"unborn", "spawn", "suspended"} /\ \A x \in Ops \cup {All} : x # o => left'[x] = left[x]
  BY <1>1, <1>3
<1>14. QED
  BY <1>5, <1>6, <1>7, <1>8, <1>9, <1>10, <1>11, <1>12, <1>13, ResolutionInv, ZenonT(60)

\* An aspect skips the op, an aspect throws, or RunOp comes to its end.
LEMMA EndsInv ==
    ASSUME Live, NEW w \in Worker, NEW o \in Ops, Skip(w, o) \/ AspectThrows(w, o) \/ After(w, o)
    PROVE  Live'
<1>1. status \in [Ops -> Status]
  BY Zenon DEF Live, Typed
<1>2. CASE Skip(w, o)
  <2>1. /\ Holds(w, o, "before") /\ Resolve(w, o, "value") /\ threw' = threw
        /\ UNCHANGED <<graph, caller, chained, left, queue, batchVars>>
    BY <1>2, Zenon DEF Skip
  <2>2. /\ status' \in [Ops -> Status] /\ status'[o] \in Final
        /\ \A q \in Ops \ {o} : status'[q] = status[q]
    BY <1>1, <1>2 DEF Skip, Status, Final
  <2>3. QED
    BY <2>1, <2>2, ResolveInv
<1>3. CASE AspectThrows(w, o)
  <2>1. /\ Holds(w, o, "before") \/ Holds(w, o, "after")
        /\ Resolve(w, o, "error") /\ threw' = threw \cup {o} /\ status' = status
        /\ UNCHANGED <<graph, caller, chained, left, queue, batchVars>>
    BY <1>3, Zenon DEF AspectThrows
  <2>2. o \in threw' /\ status' \in [Ops -> Status] /\ \A q \in Ops \ {o} : status'[q] = status[q]
    BY <1>1, <2>1, Zenon
  <2>3. QED
    BY <2>1, <2>2, ResolveInv
<1>4. CASE After(w, o)
  <2>1. /\ Holds(w, o, "after") /\ Resolve(w, o, "value") /\ threw' = threw /\ status' = status
        /\ UNCHANGED <<graph, caller, chained, left, queue, batchVars>>
    BY <1>4, Zenon DEF After
  <2>2. status'[o] \in Final /\ status' \in [Ops -> Status] /\ \A q \in Ops \ {o} : status'[q] = status[q]
    <3>1. Phase(o) /\ at[o] = "after"
      BY <2>1, Zenon DEF Live, Holds
    <3>2. QED
      BY <1>1, <2>1, <3>1, Zenon DEF Phase
  <2>3. QED
    BY <2>1, <2>2, ResolveInv
<1>5. QED
  BY <1>2, <1>3, <1>4

-----------------------------------------------------------------------------
(***************************************************************************)
(* An AllOf is resumed for one of its futures.                             *)
(***************************************************************************)
\* What an AllOf counts is finite.
LEMMA OutstandingFinite ==
    ASSUME Live, NEW x \in Ops \cup {All}
    PROVE  From(x) \subseteq Ops /\ IsFiniteSet(Outstanding(x)) /\ Cardinality(Outstanding(x)) \in Nat
<1>1. From(x) \subseteq Ops /\ IsFiniteSet(Ops)
  BY OrderFacts, Zenon DEF From
<1>2. Outstanding(x) \in SUBSET Ops
  BY <1>1, Zenon DEF Outstanding
<1>3. IsFiniteSet(Outstanding(x))
  BY <1>1, <1>2, FS_Subset, Zenon
<1>4. QED
  BY <1>1, <1>3, FS_CardinalityType, Zenon

\* The value that an AllOf with a count of 1 is resumed for is the last: all it is made
\* of are values.
LEMMA LastOne ==
    ASSUME Live, NEW x \in Ops \cup {All}, NEW d \in From(x), Waits(x), Coming(d, x),
           left[x] = 1, result[d] = "value"
    PROVE  Outstanding(x) = {d} /\ \A e \in From(x) : result[e] = "value"
<1>1. Countdown(x) /\ d \in Outstanding(x)
  BY Zenon DEF Live, Outstanding
<1>2. IsFiniteSet(Outstanding(x)) /\ Cardinality(Outstanding(x)) = 1
  BY <1>1, OutstandingFinite, Zenon DEF Countdown
<1>3. PICK y : Outstanding(x) = {y}
  BY <1>2, FS_Singleton, Zenon
<1>4. Outstanding(x) = {d}
  BY <1>1, <1>3, Zenon
<1>5. ASSUME NEW e \in From(x) PROVE result[e] = "value"
  <2>1. CASE e = d
    BY <2>1, Zenon
  <2>2. CASE e # d
    <3>1. result[e] # "pending" /\ ~ Coming(e, x)
      <4>1. e \notin Outstanding(x)
        BY <1>4, <2>2
      <4>2. QED
        BY <4>1, Zenon DEF Outstanding
    <3>2. result[e] # "error"
      BY <1>1, <3>1, Zenon DEF Countdown
    <3>3. result[e] \in {"pending", "value", "error"}
      BY OutstandingFinite DEF Live, Typed
    <3>4. QED
      BY <3>1, <3>2, <3>3
  <2>3. QED
    BY <2>1, <2>2
<1>6. QED
  BY <1>4, <1>5

\* The worker w has dealt with one pair.
Withdraws(w, d, x) ==
    \A v \in Worker, e \in Ops, y \in Ops \cup {All} :
        <<e, y>> \in walk'[v] <=> <<e, y>> \in walk[v] /\ ~ (v = w /\ e = d /\ y = x)

\* Resuming the AllOf of x touches no other: it has counted down, is decided, or was
\* resumed for the last time.
LEMMA WithdrawalFutures ==
    ASSUME Live, graph' = graph, caller' = caller, subs' = subs, NEW w \in Worker,
           NEW d \in Ops, NEW x \in Ops \cup {All}, <<d, x>> \in walk[w], Withdraws(w, d, x),
           \A q \in Ops : result'[q] = result[q],
           \A y \in Ops \cup {All} : y # x => result'[y] = result[y] /\ left'[y] = left[y],
           NEW to, AtIs(x, to), to # "unborn",
           Countdown(x)', result'[x] = "pending" /\ ~ Waits(x)' => Outstanding(x) = {d}
    PROVE  Subscriptions' /\ \A y \in Ops \cup {All} : Countdown(y)'
<1>1. Ops' = Ops /\ All \notin Ops /\ \A y \in Ops \cup {All} : From(y)' = From(y) /\ From(y) \subseteq Ops
  BY GraphKept, OrderFacts, Zenon DEF From, Live
<1>2. Subscriptions /\ Subscribed(d, x) /\ result[d] # "pending"
  BY Zenon DEF Live, Subscriptions
<1>3. (x \in Ops => at'[x] = to) /\ \A q \in Ops : q # x => at'[q] = at[q]
  BY ZenonT(60) DEF AtIs
<1>4. ASSUME NEW y \in Ops \cup {All} PROVE Exists(y)' <=> Exists(y)
  <2>1. CASE y = All
    BY <2>1, Zenon DEF Exists
  <2>2. CASE y # All /\ y = x
    <3>1. Exists(y) /\ y \in Ops /\ at'[y] # "unborn"
      BY <1>2, <1>3, <2>2, Zenon DEF Subscribed
    <3>2. QED
      BY <2>2, <3>1, Zenon DEF Exists
  <2>3. CASE y # All /\ y # x
    <3>1. at'[y] = at[y]
      BY <1>3, <2>3, Zenon
    <3>2. QED
      BY <2>3, <3>1, Zenon DEF Exists
  <2>4. QED
    BY <2>1, <2>2, <2>3
<1>5. ASSUME NEW y \in Ops \cup {All}, y # x PROVE Waits(y)' <=> Waits(y)
  BY <1>3, <1>4, <1>5, ZenonT(60) DEF Waits
<1>6. ASSUME NEW e \in Ops, NEW y \in Ops \cup {All}, Subscribed(e, y),
             result[e] = "pending" \/ \E v \in Worker : <<e, y>> \in walk'[v]
      PROVE  Subscribed(e, y)'
  <2>1. CASE y # x
    BY <1>1, <1>4, <1>5, <1>6, <2>1, Zenon DEF Subscribed
  <2>2. CASE y = x /\ Outstanding(x) # {d}
    BY <1>1, <1>4, <1>6, <2>2, ZenonT(60) DEF Subscribed
  <2>3. CASE y = x /\ Outstanding(x) = {d}
    <3>1. e \in From(x)
      BY <1>6, <2>3, ZenonT(60) DEF Subscribed
    <3>2. CASE result[e] = "pending"
      <4>1. e \in Outstanding(x)
        BY <3>1, <3>2, ZenonT(60) DEF Outstanding
      <4>2. QED
        BY <1>2, <2>3, <3>2, <4>1
    <3>3. CASE \E v \in Worker : <<e, y>> \in walk'[v]
      <4>1. PICK v \in Worker : <<e, y>> \in walk'[v]
        BY <3>3, Zenon
      <4>2. <<e, y>> \in walk[v] /\ ~ (v = w /\ e = d /\ y = x)
        BY <4>1, Zenon DEF Withdraws
      <4>3. e = d
        BY <2>3, <3>1, <4>2, Zenon DEF Outstanding, Coming
      <4>4. v = w
        BY <1>2, <2>3, <4>2, <4>3, Zenon DEF Subscriptions
      <4>5. QED
        BY <2>3, <4>2, <4>3, <4>4
    <3>4. QED
      BY <1>6, <3>2, <3>3
  <2>4. QED
    BY <2>1, <2>2, <2>3
<1>7. Subscriptions'
  <2>1. ASSUME NEW e \in Ops, NEW y \in Ops \cup {All}, y \in subs'[e]
        PROVE  Subscribed(e, y)' /\ result'[e] = "pending"
    <3>1. Subscribed(e, y) /\ result[e] = "pending"
      BY <1>2, <2>1, Zenon DEF Subscriptions
    <3>2. QED
      BY <1>6, <3>1, Zenon
  <2>2. ASSUME NEW v \in Worker, NEW e \in Ops, NEW y \in Ops \cup {All}, <<e, y>> \in walk'[v]
        PROVE  Subscribed(e, y)' /\ result'[e] # "pending"
    <3>1. <<e, y>> \in walk[v]
      BY <2>2, Zenon DEF Withdraws
    <3>2. Subscribed(e, y) /\ result[e] # "pending"
      BY <1>2, <3>1, Zenon DEF Subscriptions
    <3>3. QED
      BY <1>6, <2>2, <3>2, Zenon
  <2>3. ASSUME NEW u \in Worker, NEW v \in Worker, NEW e \in Ops, NEW y \in Ops \cup {All},
               <<e, y>> \in walk'[u], <<e, y>> \in walk'[v]
        PROVE  u = v
    <3>1. <<e, y>> \in walk[u] /\ <<e, y>> \in walk[v]
      BY <2>3, Zenon DEF Withdraws
    <3>2. QED
      BY <1>2, <3>1, Zenon DEF Subscriptions
  <2>4. QED
    BY <1>1, <2>1, <2>2, <2>3, Zenon DEF Subscriptions
<1>8. ASSUME NEW y \in Ops \cup {All}, y # x PROVE Countdown(y)'
  <2>1. \A e \in Ops : Coming(e, y)' <=> Coming(e, y)
    BY <1>8, Zenon DEF Coming, Withdraws
  <2>2. \A e \in From(y) : e \in Ops /\ result'[e] = result[e]
    BY <1>1, Zenon
  <2>3. Outstanding(y)' = Outstanding(y)
    BY <1>1, <2>1, <2>2, Zenon DEF Outstanding
  <2>4. Countdown(y)
    BY Zenon DEF Live
  <2>5. QED
    BY <1>1, <1>5, <1>8, <2>1, <2>2, <2>3, <2>4, ZenonT(60) DEF Countdown
<1>9. QED
  BY <1>1, <1>7, <1>8, Zenon

\* Execute's AllOf stays as it is, has all its values, or fails.
AllSettled ==
    \/ result'[All] = result[All]
    \/ caller = "wait" /\ result'[All] = "value" /\ \A q \in Ops : result[q] = "value"
    \/ caller = "wait" /\ result'[All] = "error" /\ threw # {}

\* A step that moves no op but x, and resolves nothing but perhaps Execute's AllOf.
LEMMA WithdrawalInv ==
    ASSUME Live, UNCHANGED <<graph, caller, chained, status, batchVars, threw>>, Typed', Items',
           Subscriptions', \A y \in Ops \cup {All} : Countdown(y)',
           NEW x \in Ops \cup {All}, NEW to, AtIs(x, to),
           \A q \in Ops : result'[q] = result[q],
           \/ x \in Ops => to = at[x]
           \/ /\ x \in Ops /\ at[x] = "waiting" /\ to = "queued"
              /\ \A e \in graph.deps[x] : result[e] = "value",
           AllSettled
    PROVE  Live'
<1>1. /\ graph' = graph /\ caller' = caller /\ chained' = chained /\ batch' = batch /\ total' = total
      /\ Ops' = Ops /\ Item' = Item /\ order' = order /\ All \notin Ops
      /\ (\A q : BatchesOf(q)' = BatchesOf(q)) /\ Compiled(graph)'
  <2>1. graph' = graph /\ caller' = caller /\ chained' = chained /\ batch' = batch /\ total' = total
    BY Zenon DEF batchVars
  <2>2. QED
    BY <2>1, GraphKept, Zenon DEF Live
<1>2. ASSUME NEW q \in Ops
      PROVE  /\ Phase(q)' /\ Reduction(q)' /\ (at'[q] = "unborn" <=> at[q] = "unborn")
  <2>1. Phase(q) /\ Reduction(q) /\ Pending' = Pending /\ Error' = Error
    BY Zenon DEF Live, Pending, Error
  <2>2. \A e \in graph.deps[q] : result'[e] = result[e]
    BY OrderFacts, Zenon
  <2>3. CASE at'[q] = at[q]
    BY <1>1, <2>1, <2>2, <2>3, ZenonT(60) DEF Phase, Reduction
  <2>4. CASE at[q] = "waiting" /\ at'[q] = "queued" /\ \A e \in graph.deps[q] : result[e] = "value"
    <3>1. result[q] = "pending" /\ status[q] = "kPending" /\ q \notin threw
      BY <2>1, <2>4, Zenon DEF Phase, Busy
    <3>2. Phase(q)'
      BY <1>1, <2>2, <2>4, <3>1, ZenonT(60) DEF Phase
    <3>3. Reduction(q)'
      BY <1>1, <2>1, <2>4 DEF Reduction
    <3>4. QED
      BY <2>4, <3>2, <3>3, ZenonT(60)
  <2>5. QED
    <3>1. CASE q = x
      <4>1. at'[q] = to
        BY <3>1, Zenon DEF AtIs
      <4>2. QED
        BY <2>3, <2>4, <3>1, <4>1, Zenon
    <3>2. CASE q # x
      BY <2>3, <3>2, Zenon DEF AtIs
    <3>3. QED
      BY <3>1, <3>2
<1>3. Caller'
  <2>1. \A i \in 1 .. Len(order) : order[i] \in Ops
    BY OrderFacts
  <2>2. /\ \A i \in 1 .. Len(order) : at'[order[i]] = "unborn" <=> i > chained
        /\ caller \in {"wait", "returned"} => chained = Len(order)
    BY <1>2, <2>1, ZenonT(60) DEF Live, Caller
  <2>3. /\ caller = "chain" => result'[All] = "pending"
        /\ caller = "returned" => result'[All] # "pending"
        /\ result'[All] = "value" => \A q \in Ops : result[q] = "value"
        /\ result'[All] = "error" => threw # {}
    BY DEF Live, Caller, AllSettled
  <2>4. QED
    BY <1>1, <2>2, <2>3, ZenonT(60) DEF Caller
<1>4. QED
  BY <1>1, <1>2, <1>3, Zenon DEF Live

\* A worker resumes the AllOf of x for d: what holds whatever comes of it.
LEMMA NotifyFacts ==
    ASSUME Live, NEW w \in Worker, NEW d \in Ops, NEW x \in Ops \cup {All}, Notify(w, d, x)
    PROVE  /\ <<d, x>> \in walk[w] /\ Subscribed(d, x) /\ Coming(d, x)
           /\ d \in From(x) /\ result[d] \in {"value", "error"}
           /\ result[x] = "pending" => Waits(x) /\ (x # All => at[x] = "waiting")
           /\ result[d] = "error" => threw # {}
           /\ UNCHANGED <<graph, caller, chained, status, hold, batchVars, threw>>
           /\ graph' = graph /\ caller' = caller /\ hold' = hold /\ batch' = batch
           /\ left' \in [Ops \cup {All} -> Int]
           /\ left'[x] = IF result[d] = "value" THEN left[x] - 1 ELSE left[x]
           /\ \A y \in Ops \cup {All} : y # x => left'[y] = left[y]
           /\ \A v \in Worker : hold[v] # NoItem => v # w /\ walk[v] = {}
<1>1. /\ <<d, x>> \in walk[w]
      /\ UNCHANGED <<graph, caller, chained, status, hold, batchVars, threw>>
      /\ graph' = graph /\ caller' = caller /\ hold' = hold /\ batch' = batch
  BY Zenon DEF Notify, batchVars
<1>2. Subscribed(d, x) /\ result[d] # "pending" /\ Coming(d, x)
  BY <1>1, Zenon DEF Live, Subscriptions, Coming
<1>3. d \in From(x) /\ (result[x] = "pending" => Waits(x))
  BY <1>2, Zenon DEF Subscribed
<1>4. /\ result \in [Ops \cup {All} -> {"pending", "value", "error"}]
      /\ left \in [Ops \cup {All} -> Int]
  BY Zenon DEF Live, Typed
<1>5. result[d] \in {"value", "error"}
  BY <1>2, <1>4
<1>6. result[d] = "error" => threw # {}
  BY Zenon DEF Live, Phase
<1>7. /\ left' \in [Ops \cup {All} -> Int]
      /\ left'[x] = IF result[d] = "value" THEN left[x] - 1 ELSE left[x]
      /\ \A y \in Ops \cup {All} : y # x => left'[y] = left[y]
  <2>1. left' = [left EXCEPT ![x] = IF result[d] = "value" THEN left[x] - 1 ELSE left[x]]
    BY DEF Notify
  <2>2. QED
    BY <1>4, <2>1, SMTT(30)
<1>8. \A v \in Worker : hold[v] # NoItem => v # w /\ walk[v] = {}
  BY <1>1, Zenon DEF Live, Items
<1>9. QED
  BY <1>1, <1>2, <1>3, <1>5, <1>6, <1>7, <1>8, ZenonT(60) DEF Waits

\* Types after such a step.
LEMMA NotifyTyped ==
    ASSUME Live, UNCHANGED <<graph, caller, chained, status, hold, batchVars, threw>>,
           at' \in [Ops -> Place], result' \in [Ops \cup {All} -> {"pending", "value", "error"}],
           left' \in [Ops \cup {All} -> Int], subs' \in [Ops -> SUBSET (Ops \cup {All})],
           walk' \in [Worker -> SUBSET (Ops \X (Ops \cup {All}))], queue' \in Seq(Item)
    PROVE  Typed'
<1>1. /\ graph' = graph /\ chained' = chained /\ status' = status /\ hold' = hold /\ batch' = batch
      /\ total' = total /\ threw' = threw
  BY Zenon DEF batchVars
<1>2. Ops' = Ops /\ Item' = Item /\ order' = order /\ \A q : BatchesOf(q)' = BatchesOf(q)
  BY <1>1, GraphKept, Zenon
<1>3. /\ chained \in 0 .. Len(order) /\ status \in [Ops -> Status]
      /\ hold \in [Worker -> Item \cup {NoItem}] /\ BatchTyped
      /\ total = [q \in Ops |-> total[q]] /\ threw \subseteq Ops
  BY Zenon DEF Live, Typed
<1>4. BatchTyped'
  BY <1>1, <1>2, <1>3, Zenon DEF BatchTyped
<1>5. QED
  BY <1>1, <1>2, <1>3, <1>4, Zenon DEF Typed

\* An error reaches an op that waits: its own future fails, and its subscribers are next.
LEMMA NotifyFails ==
    ASSUME Live, NEW w \in Worker, NEW d \in Ops, NEW x \in Ops, Notify(w, d, x),
           result[d] = "error", result[x] = "pending"
    PROVE  Live'
<1>0. x \in Ops \cup {All} /\ x # All
  BY Zenon DEF Live
<1>1. /\ at[x] = "waiting" /\ result[d] # "value" /\ threw # {}
      /\ UNCHANGED <<graph, caller, chained, status, hold, batchVars, threw>>
      /\ graph' = graph /\ caller' = caller /\ hold' = hold /\ batch' = batch /\ queue' = queue
      /\ left' \in [Ops \cup {All} -> Int]
      /\ \A y \in Ops \cup {All} : y # x => left'[y] = left[y]
      /\ \A v \in Worker : hold[v] # NoItem => v # w /\ walk[v] = {}
  <2>1. result[d] # "value"
    OBVIOUS
  <2>2. queue' = queue
    BY <2>1, Zenon DEF Notify
  <2>3. QED
    BY <1>0, <2>1, <2>2, NotifyFacts, Zenon
<1>2. /\ at \in [Ops -> Place] /\ result \in [Ops \cup {All} -> {"pending", "value", "error"}]
      /\ subs \in [Ops -> SUBSET (Ops \cup {All})] /\ queue \in Seq(Item)
      /\ walk \in [Worker -> SUBSET (Ops \X (Ops \cup {All}))]
  BY Zenon DEF Live, Typed
<1>3. result' \in [Ops \cup {All} -> {"pending", "value", "error"}] /\ ResultIs(x, "error")
  <2>1. result' = [result EXCEPT ![x] = "error"]
    BY Zenon DEF Notify
  <2>2. QED
    BY <1>2, <2>1 DEF ResultIs
<1>4. at' \in [Ops -> Place] /\ AtIs(x, "done")
  <2>1. at' = [at EXCEPT ![x] = "done"]
    BY <1>0, Zenon DEF Notify
  <2>2. QED
    BY <1>2, <2>1 DEF AtIs, Place
<1>5. /\ subs' \in [Ops -> SUBSET (Ops \cup {All})]
      /\ \A e \in Ops : subs'[e] = IF e = x THEN {} ELSE subs[e]
  <2>1. subs' = [subs EXCEPT ![x] = {}]
    BY <1>0, Zenon DEF Notify
  <2>2. QED
    BY <1>2, <2>1
<1>6. /\ walk' \in [Worker -> SUBSET (Ops \X (Ops \cup {All}))] /\ Delivers(w, x)
      /\ \A v \in Worker \ {w} : walk'[v] = walk[v]
  <2> DEFINE rest == walk[w] \ {<<d, x>>}
             new == {<<x, y>> : y \in subs[x]}
  <2>1. walk' = [walk EXCEPT ![w] = rest \cup new]
    BY <1>0, ZenonT(60) DEF Notify
  <2>2. /\ rest \cup new \in SUBSET (Ops \X (Ops \cup {All}))
        /\ \A e \in Ops, y \in Ops \cup {All} : <<e, y>> \in new <=> e = x /\ y \in subs[x]
        /\ \A e \in Ops, y \in Ops \cup {All} : <<e, y>> \in rest => <<e, y>> \in walk[w]
        /\ \A e \in Ops, y \in Ops \cup {All} : y # x /\ <<e, y>> \in walk[w] => <<e, y>> \in rest
    <3>1. subs[x] \in SUBSET (Ops \cup {All}) /\ walk[w] \in SUBSET (Ops \X (Ops \cup {All}))
      BY <1>2
    <3>2. QED
      BY <3>1
  <2> HIDE DEF rest, new
  <2>3. /\ walk' \in [Worker -> SUBSET (Ops \X (Ops \cup {All}))] /\ walk'[w] = rest \cup new
        /\ \A v \in Worker \ {w} : walk'[v] = walk[v]
    BY <1>2, <2>1, <2>2, ZenonT(60)
  <2>4. ASSUME NEW v \in Worker, NEW e \in Ops, NEW y \in Ops \cup {All}
        PROVE  /\ <<e, y>> \in walk'[v] => <<e, y>> \in walk[v] \/ (v = w /\ e = x /\ y \in subs[x])
               /\ y # x /\ <<e, y>> \in walk[v] => <<e, y>> \in walk'[v]
               /\ y # x /\ v = w /\ e = x /\ y \in subs[x] => <<e, y>> \in walk'[v]
    <3>1. CASE v = w
      BY <2>2, <2>3, <3>1, Zenon
    <3>2. CASE v # w
      BY <2>3, <3>2, Zenon
    <3>3. QED
      BY <3>1, <3>2
  <2>5. QED
    BY <2>3, <2>4, Zenon DEF Delivers
<1>7. Items'
  <2>1. \A v \in Worker : hold[v] # NoItem => walk'[v] = {}
    BY <1>1, <1>6, Zenon
  <2>2. ASSUME NEW q \in Ops, NEW c \in Nat PROVE Keeps(q, c)
    <3>1. BatchesOf(q)' = BatchesOf(q) /\ (q # x => at'[q] = at[q])
      BY <1>1, <1>4, GraphKept, Zenon DEF AtIs
    <3>2. CASE q # x \/ c # 0
      BY <1>1, <3>1, <3>2, ZenonT(60) DEF Keeps, Queued, Held
    <3>3. CASE q = x /\ c = 0
      BY <1>1, <3>3 DEF Keeps, Queued, Held, Busy
    <3>4. QED
      BY <3>2, <3>3, Zenon
  <2>3. QED
    BY <1>1, <2>1, <2>2, ItemsKept, Zenon
<1>8. Typed'
  <2>1. queue' \in Seq(Item)
    BY <1>1, <1>2, ZenonT(60)
  <2>2. QED
    BY <1>1, <1>3, <1>4, <1>5, <1>6, <2>1, NotifyTyped, ZenonT(60)
<1>9. Phase(x)'
  <2>1. Phase(x)
    BY ZenonT(60) DEF Live
  <2>2. status[x] = "kPending"
    BY <1>1, <2>1 DEF Phase, Busy
  <2>3. status'[x] = "kPending" /\ threw' # {} /\ at'[x] = "done" /\ result'[x] = "error"
    <3>1. at'[x] = "done" /\ result'[x] = "error"
      BY <1>0, <1>3, <1>4, ZenonT(60) DEF AtIs, ResultIs
    <3>2. QED
      BY <1>1, <2>2, <3>1, Zenon
  <2>4. QED
    BY <2>3 DEF Phase, Busy
<1>10. /\ at[x] \notin {"unborn", "spawn", "suspended"} /\ \A q \in Ops \ {x} : status'[q] = status[q]
       /\ UNCHANGED <<graph, caller, chained, batchVars>> /\ threw' = threw
  BY <1>1
<1>11. QED
  BY <1>1, <1>3, <1>4, <1>5, <1>6, <1>7, <1>8, <1>9, <1>10, ResolutionInv, ZenonT(60)

\* The pair is dropped, and nothing takes its place.
LEMMA PairDropped ==
    ASSUME Live, NEW w \in Worker, NEW d \in Ops, NEW x \in Ops \cup {All},
           walk' = [walk EXCEPT ![w] = walk[w] \ {<<d, x>>}]
    PROVE  /\ walk' \in [Worker -> SUBSET (Ops \X (Ops \cup {All}))]
           /\ Withdraws(w, d, x)
           /\ \A v \in Worker \ {w} : walk'[v] = walk[v]
<1> DEFINE rest == walk[w] \ {<<d, x>>}
<1>1. walk \in [Worker -> SUBSET (Ops \X (Ops \cup {All}))]
  BY Zenon DEF Live, Typed
<1>2. /\ walk' = [walk EXCEPT ![w] = rest] /\ rest \in SUBSET (Ops \X (Ops \cup {All}))
      /\ \A e \in Ops, y \in Ops \cup {All} :
            <<e, y>> \in rest <=> <<e, y>> \in walk[w] /\ ~ (e = d /\ y = x)
  BY <1>1
<1> HIDE DEF rest
<1>3. /\ walk' \in [Worker -> SUBSET (Ops \X (Ops \cup {All}))] /\ walk'[w] = rest
      /\ \A v \in Worker \ {w} : walk'[v] = walk[v]
  BY <1>1, <1>2, Zenon
<1>4. ASSUME NEW v \in Worker, NEW e \in Ops, NEW y \in Ops \cup {All}
      PROVE  <<e, y>> \in walk'[v] <=> <<e, y>> \in walk[v] /\ ~ (v = w /\ e = d /\ y = x)
  <2>1. CASE v = w
    BY <1>2, <1>3, <2>1, Zenon
  <2>2. CASE v # w
    BY <1>3, <2>2, Zenon
  <2>3. QED
    BY <2>1, <2>2
<1>5. QED
  BY <1>3, <1>4, Zenon DEF Withdraws

\* The last dependency of a waiting op has its value: RunOp of x goes to the pool.
LEMMA NotifyReleases ==
    ASSUME Live, NEW w \in Worker, NEW d \in Ops, NEW x \in Ops, Notify(w, d, x),
           result[d] = "value", result[x] = "pending", left[x] = 1
    PROVE  Live'
<1>0. x \in Ops \cup {All} /\ x # All /\ result[d] # "error"
  BY DEF Live
<1>1. /\ <<d, x>> \in walk[w] /\ at[x] = "waiting" /\ Waits(x) /\ Coming(d, x) /\ d \in From(x)
      /\ UNCHANGED <<graph, caller, chained, status, hold, batchVars, threw>>
      /\ graph' = graph /\ caller' = caller /\ hold' = hold /\ batch' = batch
      /\ left' \in [Ops \cup {All} -> Int]
      /\ \A y \in Ops \cup {All} : y # x => left'[y] = left[y]
      /\ \A v \in Worker : hold[v] # NoItem => v # w /\ walk[v] = {}
  BY <1>0, NotifyFacts, ZenonT(60)
<1>2. /\ at \in [Ops -> Place] /\ result \in [Ops \cup {All} -> {"pending", "value", "error"}]
      /\ subs \in [Ops -> SUBSET (Ops \cup {All})]
  BY Zenon DEF Live, Typed
<1>3. subs' = subs /\ queue' = Append(queue, <<x, 0>>)
  BY <1>0, Zenon DEF Notify
<1>4. result' = result
  <2>1. result' = [result EXCEPT ![x] = result[x]]
    BY <1>0, Zenon DEF Notify
  <2>2. QED
    BY <1>2, <2>1
<1>5. at' \in [Ops -> Place] /\ AtIs(x, "queued") /\ at'[x] = "queued"
  <2>1. at' = [at EXCEPT ![x] = "queued"]
    BY <1>0, Zenon DEF Notify
  <2>2. QED
    BY <1>2, <2>1 DEF AtIs, Place
<1>6. /\ walk' \in [Worker -> SUBSET (Ops \X (Ops \cup {All}))] /\ Withdraws(w, d, x)
      /\ \A v \in Worker \ {w} : walk'[v] = walk[v]
  <2>1. walk' = [walk EXCEPT ![w] = walk[w] \ {<<d, x>>}]
    <3>1. walk' = [walk EXCEPT ![w] = (walk[w] \ {<<d, x>>}) \cup {}]
      BY <1>0, Zenon DEF Notify
    <3>2. (walk[w] \ {<<d, x>>}) \cup {} = walk[w] \ {<<d, x>>}
      OBVIOUS
    <3>3. QED
      BY <3>1, <3>2, Zenon
  <2>2. QED
    BY <1>0, <2>1, PairDropped, Zenon
<1>7. Outstanding(x) = {d} /\ \A e \in graph.deps[x] : result[e] = "value"
  BY <1>0, <1>1, LastOne, ZenonT(60) DEF From
<1>8. Items' /\ queue' \in Seq(Item)
  <2>1. \A v \in Worker : hold[v] # NoItem => walk'[v] = {}
    BY <1>1, <1>6, ZenonT(60)
  <2>2. ~ Queued(x, 0) /\ ~ Held(x, 0) /\ Queued(x, 0)'
    BY <1>1, <1>5 DEF Queued, Held, Busy
  <2>3. ASSUME NEW q \in Ops, NEW c \in Nat PROVE Keeps(q, c)
    <3>1. BatchesOf(q)' = BatchesOf(q) /\ (q # x => at'[q] = at[q])
      BY <1>1, <1>5, GraphKept, Zenon DEF AtIs
    <3>2. CASE q # x \/ c # 0
      BY <1>1, <3>1, <3>2, Zenon DEF Keeps, Queued, Held
    <3>3. CASE q = x /\ c = 0
      BY <2>2, <3>3, ZenonT(60) DEF Keeps
    <3>4. QED
      BY <3>2, <3>3, Zenon
  <2>4. 0 \in Nat
    OBVIOUS
  <2>5. QED
    BY <1>1, <1>3, <2>1, <2>2, <2>3, <2>4, ItemsAppend, ZenonT(60)
<1>9. Typed'
  <2>1. result' \in [Ops \cup {All} -> {"pending", "value", "error"}] /\ subs' \in [Ops -> SUBSET (Ops \cup {All})]
    BY <1>2, <1>3, <1>4, Zenon
  <2>2. QED
    BY <1>1, <1>5, <1>6, <1>8, <2>1, NotifyTyped, ZenonT(60)
<1>10. Subscriptions' /\ \A y \in Ops \cup {All} : Countdown(y)'
  <2>1. ~ Waits(x)'
    BY <1>0, <1>5 DEF Waits
  <2>2. Countdown(x)'
    BY <2>1, ZenonT(60) DEF Countdown
  <2>3. "queued" # "unborn"
    OBVIOUS
  <2>4. /\ \A q \in Ops : result'[q] = result[q]
        /\ \A y \in Ops \cup {All} : y # x => result'[y] = result[y] /\ left'[y] = left[y]
    BY <1>1, <1>4, Zenon
  <2>5. QED
    BY <1>0, <1>1, <1>3, <1>5, <1>6, <1>7, <2>2, <2>3, <2>4, WithdrawalFutures, ZenonT(60)
<1>11. QED
  <2>1. (\A q \in Ops : result'[q] = result[q]) /\ AllSettled
    BY <1>4, Zenon DEF AllSettled
  <2>2. \/ x \in Ops => "queued" = at[x]
        \/ /\ x \in Ops /\ at[x] = "waiting" /\ "queued" = "queued"
           /\ \A e \in graph.deps[x] : result[e] = "value"
    BY <1>1, <1>7, ZenonT(60)
  <2>3. QED
    BY <1>0, <1>1, <1>5, <1>8, <1>9, <1>10, <2>1, <2>2, WithdrawalInv, ZenonT(60)

\* The AllOf of x is resumed and no op moves: it is already decided, counts down, or is
\* that of Execute.
Settles(w, d, x) ==
    /\ Notify(w, d, x)
    /\ ~ (x # All /\ result[x] = "pending" /\ (result[d] = "error" \/ left[x] = 1))

LEMMA SettlesFacts ==
    ASSUME Live, NEW w \in Worker, NEW d \in Ops, NEW x \in Ops \cup {All}, Settles(w, d, x)
    PROVE  /\ at' = at /\ queue' = queue /\ subs' = subs
           /\ walk' = [walk EXCEPT ![w] = walk[w] \ {<<d, x>>}]
<1>1. at \in [Ops -> Place] /\ result[d] \in {"value", "error"} /\ (x # All => x \in Ops)
  BY NotifyFacts, Zenon DEF Live, Typed, Settles
<1>2. /\ ~ (result[d] = "error" /\ result[x] = "pending" /\ x # All)
      /\ ~ (result[d] = "value" /\ result[x] = "pending" /\ left[x] = 1 /\ x # All)
  BY Zenon DEF Settles
<1>3. queue' = queue /\ subs' = subs
  BY <1>2, Zenon DEF Settles, Notify
<1>4. at' = at
  <2>1. CASE x = All
    BY <2>1, Zenon DEF Settles, Notify
  <2>2. CASE x # All
    <3>1. at' = [at EXCEPT ![x] = at[x]]
      BY <1>2, <2>2, Zenon DEF Settles, Notify
    <3>2. QED
      BY <1>1, <3>1
  <2>3. QED
    BY <2>1, <2>2
<1>5. walk' = [walk EXCEPT ![w] = walk[w] \ {<<d, x>>}]
  <2>1. walk' = [walk EXCEPT ![w] = (walk[w] \ {<<d, x>>}) \cup {}]
    BY <1>2, ZenonT(60) DEF Settles, Notify
  <2>2. (walk[w] \ {<<d, x>>}) \cup {} = walk[w] \ {<<d, x>>}
    OBVIOUS
  <2>3. QED
    BY <2>1, <2>2, Zenon
<1>6. QED
  BY <1>3, <1>4, <1>5

\* The count of x and its result are right.
Settled(x) ==
    /\ result' \in [Ops \cup {All} -> {"pending", "value", "error"}]
    /\ \A y \in Ops \cup {All} : y # x \/ y # All => result'[y] = result[y]
    /\ Countdown(x)'
    /\ result'[x] = "pending" => Waits(x)'
    /\ AllSettled

\* Then the invariant is kept.
LEMMA SettlesInv ==
    ASSUME Live, NEW w \in Worker, NEW d \in Ops, NEW x \in Ops \cup {All}, Settles(w, d, x),
           Settled(x)
    PROVE  Live'
<1>1. /\ <<d, x>> \in walk[w] /\ Subscribed(d, x)
      /\ UNCHANGED <<graph, caller, chained, status, hold, batchVars, threw>>
      /\ graph' = graph /\ caller' = caller /\ hold' = hold /\ batch' = batch
      /\ left' \in [Ops \cup {All} -> Int]
      /\ \A y \in Ops \cup {All} : y # x => left'[y] = left[y]
      /\ \A v \in Worker : hold[v] # NoItem => v # w /\ walk[v] = {}
  <2>1. Notify(w, d, x)
    BY Zenon DEF Settles
  <2>2. QED
    BY <2>1, NotifyFacts, Zenon
<1>2. /\ at' = at /\ queue' = queue /\ subs' = subs
      /\ walk' = [walk EXCEPT ![w] = walk[w] \ {<<d, x>>}]
  BY SettlesFacts, Zenon
<1>3. /\ at \in [Ops -> Place] /\ subs \in [Ops -> SUBSET (Ops \cup {All})] /\ queue \in Seq(Item)
      /\ All \notin Ops
  BY Zenon DEF Live, Typed
<1>4. /\ walk' \in [Worker -> SUBSET (Ops \X (Ops \cup {All}))] /\ Withdraws(w, d, x)
      /\ \A v \in Worker \ {w} : walk'[v] = walk[v]
  BY <1>2, PairDropped, Zenon
<1>5. Items'
  <2>1. \A v \in Worker : hold[v] # NoItem => walk'[v] = {}
    BY <1>1, <1>4, Zenon
  <2>2. \A q \in Ops, c \in Nat : Keeps(q, c)
    BY <1>1, <1>2, GraphKept, ZenonT(60) DEF Keeps, Queued, Held
  <2>3. QED
    BY <1>1, <1>2, <2>1, <2>2, ItemsKept, ZenonT(60)
<1>6. Typed'
  <2>1. at' \in [Ops -> Place] /\ subs' \in [Ops -> SUBSET (Ops \cup {All})] /\ queue' \in Seq(Item)
    BY <1>2, <1>3, Zenon
  <2>2. result' \in [Ops \cup {All} -> {"pending", "value", "error"}]
    BY Zenon DEF Settled
  <2>3. QED
    BY <1>1, <1>4, <2>1, <2>2, NotifyTyped, ZenonT(60)
<1>7. PICK to : AtIs(x, to) /\ to # "unborn" /\ (x \in Ops => to = at[x])
  <2>1. CASE x = All
    <3>1. AtIs(x, "done")
      BY <1>2, <1>3, <2>1, Zenon DEF AtIs
    <3>2. "done" # "unborn"
      OBVIOUS
    <3>3. QED
      BY <1>3, <2>1, <3>1, <3>2, ZenonT(60)
  <2>2. CASE x # All
    <3>1. AtIs(x, at[x]) /\ at[x] # "unborn"
      BY <1>1, <1>2, <2>2, Zenon DEF AtIs, Subscribed, Exists
    <3>2. QED
      BY <3>1, Zenon
  <2>3. QED
    BY <2>1, <2>2
<1>8. /\ \A q \in Ops : result'[q] = result[q]
      /\ \A y \in Ops \cup {All} : y # x => result'[y] = result[y] /\ left'[y] = left[y]
  BY <1>1, <1>3, Zenon DEF Settled
<1>9. Subscriptions' /\ \A y \in Ops \cup {All} : Countdown(y)'
  <2>1. result'[x] = "pending" /\ ~ Waits(x)' => Outstanding(x) = {d}
    BY Zenon DEF Settled
  <2>2. Countdown(x)'
    BY Zenon DEF Settled
  <2>3. QED
    BY <1>1, <1>2, <1>4, <1>7, <1>8, <2>1, <2>2, WithdrawalFutures, ZenonT(60)
<1>10. AllSettled
  BY Zenon DEF Settled
<1>11. QED
  BY <1>1, <1>5, <1>6, <1>7, <1>8, <1>9, <1>10, WithdrawalInv, ZenonT(60)

\* A value that is not the last is counted off.
LEMMA CountedOff ==
    ASSUME Live, NEW w \in Worker, NEW d \in Ops, NEW x \in Ops \cup {All}, Settles(w, d, x),
           Waits(x), result[d] = "value", result' = result
    PROVE  Countdown(x)'
<1>1. /\ <<d, x>> \in walk[w] /\ d \in From(x) /\ Coming(d, x) /\ graph' = graph
      /\ left'[x] = left[x] - 1
  BY NotifyFacts, ZenonT(60) DEF Settles
<1>2. Withdraws(w, d, x) /\ subs' = subs
  BY SettlesFacts, PairDropped, Zenon
<1>3. From(x)' = From(x) /\ From(x) \subseteq Ops /\ Ops' = Ops
  BY <1>1, GraphKept, OutstandingFinite, Zenon DEF From
<1>4. /\ left[x] = Cardinality(Outstanding(x))
      /\ \A e \in From(x) : result[e] = "pending" => x \in subs[e]
      /\ \A e \in From(x) : result[e] = "error" => Coming(e, x)
  BY Zenon DEF Live, Countdown
<1>5. ~ Coming(d, x)'
  <2>1. \A v \in Worker : <<d, x>> \in walk[v] => v = w
    BY <1>1, Zenon DEF Live, Subscriptions
  <2>2. QED
    BY <1>2, <2>1, Zenon DEF Coming, Withdraws
<1>6. \A e \in From(x) : e # d => (Coming(e, x)' <=> Coming(e, x))
  BY <1>2, <1>3, ZenonT(60) DEF Coming, Withdraws
<1>7. Outstanding(x)' = Outstanding(x) \ {d} /\ d \in Outstanding(x)
  <2>1. result[d] # "pending"
    OBVIOUS
  <2>2. \A e \in From(x) : result'[e] = "pending" \/ Coming(e, x)' <=> (result[e] = "pending" \/ Coming(e, x)) /\ e # d
    BY <1>5, <1>6, <2>1, Zenon
  <2>3. QED
    BY <1>1, <1>3, <2>2 DEF Outstanding
<1>8. left'[x] = Cardinality(Outstanding(x)')
  <2>1. IsFiniteSet(Outstanding(x))
    BY OutstandingFinite, Zenon
  <2>2. Cardinality(Outstanding(x) \ {d}) = Cardinality(Outstanding(x)) - 1
    BY <1>7, <2>1, FS_RemoveElement, ZenonT(60)
  <2>3. QED
    BY <1>1, <1>4, <1>7, <2>2, ZenonT(60)
<1>9. \A e \in From(x) : result'[e] = "error" => Coming(e, x)'
  BY <1>4, <1>6, ZenonT(60)
<1>10. QED
  BY <1>2, <1>3, <1>4, <1>8, <1>9, ZenonT(60) DEF Countdown

\* A worker resumes an AllOf.
LEMMA NotifyInv ==
    ASSUME Live, NEW w \in Worker, NEW d \in Ops, NEW x \in Ops \cup {All}, Notify(w, d, x)
    PROVE  Live'
<1>1. /\ result[d] \in {"value", "error"} /\ d \in From(x) /\ Coming(d, x)
      /\ (result[x] = "pending" => Waits(x)) /\ (result[d] = "error" => threw # {})
      /\ graph' = graph /\ caller' = caller
  BY NotifyFacts, Zenon
<1>2. result \in [Ops \cup {All} -> {"pending", "value", "error"}] /\ All \notin Ops
  BY Zenon DEF Live, Typed
<1>3. CASE x \in Ops /\ result[x] = "pending" /\ result[d] = "error"
  BY <1>3, NotifyFails, ZenonT(60)
<1>4. CASE x \in Ops /\ result[x] = "pending" /\ result[d] = "value" /\ left[x] = 1
  BY <1>4, NotifyReleases, Zenon
<1>5. CASE result[x] # "pending"
  <2>1. Settles(w, d, x)
    BY <1>5, Zenon DEF Settles
  <2>2. result' = result
    <3>1. result' = [result EXCEPT ![x] = result[x]]
      BY <1>5, Zenon DEF Notify
    <3>2. QED
      BY <1>2, <3>1
  <2>3. ~ Waits(x)' /\ Countdown(x)'
    BY <1>5, <2>2, Zenon DEF Waits, Countdown
  <2>4. result' \in [Ops \cup {All} -> {"pending", "value", "error"}] /\ result'[x] # "pending"
    BY <1>2, <1>5, <2>2, Zenon
  <2>5. Settled(x)
    BY <2>2, <2>3, <2>4, Zenon DEF Settled, AllSettled
  <2>6. QED
    BY <2>1, <2>5, SettlesInv, Zenon
<1>6. CASE result[x] = "pending" /\ result[d] = "value" /\ left[x] # 1
  <2>1. Settles(w, d, x) /\ Waits(x)
    BY <1>1, <1>6, ZenonT(60) DEF Settles
  <2>2. result' = result
    <3>1. result' = [result EXCEPT ![x] = result[x]]
      BY <1>6 DEF Notify
    <3>2. QED
      BY <1>2, <3>1
  <2>3. Countdown(x)'
    BY <1>6, <2>1, <2>2, CountedOff, ZenonT(60)
  <2>4. Waits(x)'
    <3>1. at' = at
      BY <2>1, SettlesFacts, Zenon
    <3>2. QED
      BY <1>1, <2>1, <2>2, <3>1, Zenon DEF Waits, Exists
  <2>5. result' \in [Ops \cup {All} -> {"pending", "value", "error"}]
    BY <1>2, <2>2, Zenon
  <2>6. Settled(x)
    BY <2>2, <2>3, <2>4, <2>5, ZenonT(60) DEF Settled, AllSettled
  <2>7. QED
    BY <2>1, <2>6, SettlesInv, ZenonT(60)
<1>7. CASE x = All /\ result[x] = "pending" /\ (result[d] = "error" \/ left[x] = 1)
  <2>1. Settles(w, d, x) /\ Waits(x)
    BY <1>1, <1>7, ZenonT(60) DEF Settles
  <2>2. caller = "wait"
    BY <1>7, <2>1 DEF Waits, Exists, Live, Caller
  <2>3. PICK r \in {"value", "error"} :
          /\ result' = [result EXCEPT ![x] = r]
          /\ r = "error" => result[d] = "error"
          /\ r = "value" => result[d] = "value" /\ left[x] = 1
    <3>1. CASE result[d] = "error"
      <4>1. result' = [result EXCEPT ![x] = "error"]
        BY <1>7, <3>1, Zenon DEF Notify
      <4>2. QED
        BY <3>1, <4>1
    <3>2. CASE result[d] = "value"
      <4>1. result[d] # "error" /\ left[x] = 1
        BY <1>7, <3>2
      <4>2. result' = [result EXCEPT ![x] = "value"]
        BY <1>7, <3>2, <4>1, ZenonT(60) DEF Notify
      <4>3. QED
        BY <3>2, <4>1, <4>2, ZenonT(60)
    <3>3. QED
      BY <1>1, <3>1, <3>2, ZenonT(60)
  <2>4. /\ result' \in [Ops \cup {All} -> {"pending", "value", "error"}]
        /\ result'[x] = r /\ r # "pending" /\ result'[All] = r
        /\ \A y \in Ops \cup {All} : y # x \/ y # All => result'[y] = result[y]
    BY <1>2, <1>7, <2>3
  <2>5. ~ Waits(x)' /\ Countdown(x)'
    BY <2>4, Zenon DEF Waits, Countdown
  <2>6. AllSettled
    <3>1. CASE r = "value"
      <4>1. \A q \in From(x) : result[q] = "value"
        BY <1>1, <2>1, <2>3, <3>1, LastOne, ZenonT(60)
      <4>2. QED
        BY <1>7, <2>2, <2>4, <3>1, <4>1, ZenonT(60) DEF From, AllSettled
    <3>2. CASE r = "error"
      BY <1>1, <2>2, <2>3, <2>4, <3>2, ZenonT(60) DEF AllSettled
    <3>3. QED
      BY <3>1, <3>2
  <2>7. Settled(x)
    BY <2>4, <2>5, <2>6, Zenon DEF Settled
  <2>8. QED
    BY <2>1, <2>7, SettlesInv, ZenonT(60)
<1>8. QED
  BY <1>1, <1>3, <1>4, <1>5, <1>6, <1>7, ZenonT(60)
=============================================================================
