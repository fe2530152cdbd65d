-------------------------- MODULE OpExecutorProofs ---------------------------
(***************************************************************************)
(* Theorems about OpExecutor, for any sources, workers and jobs, and any    *)
(* number of throwing aspects: no op runs before its dependencies are final, *)
(* nor behind one that an aspect has cut off, and when Execute returns the  *)
(* graph has drained.                                                       *)
(***************************************************************************)
EXTENDS OpExecutorInvariant, OpExecutorData

-----------------------------------------------------------------------------
(***************************************************************************)
(* The calling thread.                                                     *)
(***************************************************************************)
\* Apart from x, no future resolves and no AllOf comes into being or is decided.
Others(x) ==
    \A y \in Ops \cup {All} : y # x =>
        /\ result'[y] = result[y]
        /\ Exists(y)' <=> Exists(y)
        /\ Waits(y)' <=> Waits(y)

\* The new AllOf of x has failed, is complete, or waits.
Begins(x) ==
    result'[x] = "pending" => ~ Failed(From(x)) /\ (Waits(x)' \/ Met(From(x)))

\* A new AllOf subscribes to the futures that are pending.
LEMMA SubscribeFutures ==
    ASSUME Live, graph' = graph, walk' = walk, NEW x \in Ops \cup {All},
           ~ Exists(x), Exists(x)', Subscribe(x, From(x)), Others(x), Begins(x),
           result[x] = "pending",
           \A y \in Ops \cup {All} : Exists(y) \/ y = x => x \notin From(y)
    PROVE  /\ left' \in [Ops \cup {All} -> Int] /\ subs' \in [Ops -> SUBSET (Ops \cup {All})]
           /\ Subscriptions' /\ \A y \in Ops \cup {All} : Countdown(y)'
<1> DEFINE P == {d \in From(x) : result[d] = "pending"}
<1>1. Ops' = Ops /\ \A y \in Ops \cup {All} : From(y)' = From(y) /\ From(y) \subseteq Ops
  BY GraphKept, OrderFacts, ZenonT(60) DEF From
<1>2. left \in [Ops \cup {All} -> Int] /\ subs \in [Ops -> SUBSET (Ops \cup {All})] /\ Subscriptions
  BY Zenon DEF Live, Typed
<1>3. P \in SUBSET Ops /\ IsFiniteSet(P) /\ Cardinality(P) \in Nat
  <2>1. P \in SUBSET Ops /\ IsFiniteSet(Ops)
    BY <1>1, OrderFacts, Zenon
  <2> HIDE DEF P
  <2>2. QED
    BY <2>1, FS_Subset, FS_CardinalityType, ZenonT(60)
<1>4. /\ left' = [left EXCEPT ![x] = Cardinality(P)]
      /\ subs' = [o \in Ops |-> IF o \in P THEN subs[o] \cup {x} ELSE subs[o]]
  BY Zenon DEF Subscribe
<1>5. \A d : d \in P <=> d \in From(x) /\ result[d] = "pending"
  OBVIOUS
<1> HIDE DEF P
<1>6. /\ left' \in [Ops \cup {All} -> Int] /\ left'[x] = Cardinality(P)
      /\ \A y \in Ops \cup {All} : y # x => left'[y] = left[y]
  BY <1>2, <1>3, <1>4, SMTT(30)
<1>7. /\ subs' \in [Ops -> SUBSET (Ops \cup {All})]
      /\ \A d \in Ops, y \in Ops \cup {All} : y \in subs'[d] <=> y \in subs[d] \/ (d \in P /\ y = x)
  BY <1>2, <1>4, ZenonT(60)
<1>8. \A d \in Ops : x \notin subs[d] /\ ~ Coming(d, x)
  BY <1>2, Zenon DEF Subscriptions, Subscribed, Coming
<1>9. ASSUME NEW d \in Ops, NEW y \in Ops \cup {All}, Subscribed(d, y)
      PROVE  Subscribed(d, y)' /\ result'[d] = result[d]
  <2>1. y # x /\ d # x
    BY <1>9, Zenon DEF Subscribed
  <2>2. QED
    BY <1>1, <1>9, <2>1, ZenonT(60) DEF Subscribed, Others
<1>10. ASSUME NEW d \in P
       PROVE  Subscribed(d, x)' /\ result'[d] = "pending"
  <2>1. d \in Ops /\ d \in From(x) /\ result[d] = "pending" /\ d # x
    BY <1>1, <1>5, Zenon
  <2>2. ~ Met(From(x))
    BY <2>1 DEF Met
  <2>3. QED
    BY <1>1, <2>1, <2>2, ZenonT(60) DEF Begins, Subscribed, Others
<1>11. Subscriptions'
  <2>1. ASSUME NEW d \in Ops, NEW y \in Ops \cup {All}, y \in subs'[d]
        PROVE  Subscribed(d, y)' /\ result'[d] = "pending"
    <3>1. CASE y \in subs[d]
      <4>1. Subscribed(d, y) /\ result[d] = "pending"
        BY <1>2, <3>1, Zenon DEF Subscriptions
      <4>2. QED
        BY <1>9, <4>1, Zenon
    <3>2. CASE d \in P /\ y = x
      BY <1>10, <3>2, Zenon
    <3>3. QED
      BY <1>7, <2>1, <3>1, <3>2, ZenonT(60)
  <2>2. ASSUME NEW v \in Worker, NEW d \in Ops, NEW y \in Ops \cup {All}, <<d, y>> \in walk'[v]
        PROVE  Subscribed(d, y)' /\ result'[d] # "pending"
    <3>1. Subscribed(d, y) /\ result[d] # "pending"
      BY <1>2, <2>2, ZenonT(60) DEF Subscriptions
    <3>2. QED
      BY <1>9, <3>1, Zenon
  <2>3. QED
    BY <1>1, <1>2, <2>1, <2>2, ZenonT(60) DEF Subscriptions
<1>12. ASSUME NEW y \in Ops \cup {All}, Waits(y)' PROVE Countdown(y)'
  <2>1. \A d \in Ops : Coming(d, y)' <=> Coming(d, y)
    BY <1>1, Zenon DEF Coming
  <2>2. CASE y # x
    <3>1. Waits(y) /\ Countdown(y) /\ x \notin From(y)
      <4>1. Waits(y)
        BY <1>12, <2>2, ZenonT(60) DEF Others
      <4>2. QED
        BY <4>1, Zenon DEF Live, Waits
    <3>2. \A d \in From(y) : d \in Ops /\ result'[d] = result[d] /\ (Coming(d, y)' <=> Coming(d, y))
      BY <1>1, <2>1, <3>1, ZenonT(60) DEF Others
    <3>3. Outstanding(y)' = Outstanding(y)
      BY <1>1, <3>2, Zenon DEF Outstanding
    <3>4. \A d \in From(y) : result'[d] = "pending" => y \in subs'[d]
      BY <1>7, <3>1, <3>2, ZenonT(60) DEF Countdown
    <3>5. QED
      BY <1>1, <1>6, <2>2, <3>1, <3>2, <3>3, <3>4, ZenonT(60) DEF Countdown
  <2>3. CASE y = x
    <3>1. \A d \in From(x) : d \in Ops /\ result'[d] = result[d] /\ ~ Coming(d, x)'
      BY <1>1, <1>8, <2>1, <2>3, ZenonT(60) DEF Others
    <3>2. Outstanding(x)' = P
      BY <1>1, <1>5, <3>1, ZenonT(60) DEF Outstanding
    <3>3. \A d \in From(x) : result'[d] = "pending" => x \in subs'[d]
      BY <1>5, <1>7, <3>1, ZenonT(60)
    <3>4. \A d \in From(x) : result'[d] # "error"
      BY <1>12, <2>3, <3>1, ZenonT(60) DEF Begins, Waits, Failed
    <3>5. QED
      BY <1>1, <1>6, <2>3, <3>2, <3>3, <3>4, ZenonT(60) DEF Countdown
  <2>4. QED
    BY <2>2, <2>3
<1>13. \A y \in Ops \cup {All} : Countdown(y)'
  BY <1>12, Zenon DEF Countdown
<1>14. QED
  BY <1>6, <1>7, <1>11, <1>13, ZenonT(60)

\* The types, after the calling thread's part in a step.
LEMMA CallerTyped ==
    ASSUME Live, UNCHANGED <<graph, status, walk, hold, batchVars, threw>>,
           chained' \in 0 .. Len(order),
           at' \in [Ops -> Place], result' \in [Ops \cup {All} -> {"pending", "value", "error"}],
           left' \in [Ops \cup {All} -> Int], subs' \in [Ops -> SUBSET (Ops \cup {All})],
           queue' \in Seq(Item)
    PROVE  Typed'
<1>1. /\ graph' = graph /\ walk' = walk /\ status' = status /\ hold' = hold /\ batch' = batch
      /\ total' = total /\ threw' = threw
  BY Zenon DEF batchVars
<1>2. Ops' = Ops /\ Item' = Item /\ order' = order /\ \A q : BatchesOf(q)' = BatchesOf(q)
  BY <1>1, GraphKept, ZenonT(60)
<1>3. /\ walk \in [Worker -> SUBSET (Ops \X (Ops \cup {All}))] /\ status \in [Ops -> Status]
      /\ hold \in [Worker -> Item \cup {NoItem}] /\ BatchTyped
      /\ total = [q \in Ops |-> total[q]] /\ threw \subseteq Ops
  BY Zenon DEF Live, Typed
<1>4. BatchTyped'
  BY <1>1, <1>2, <1>3, ZenonT(60) DEF BatchTyped
<1>5. QED
  BY <1>1, <1>2, <1>3, <1>4, ZenonT(60) DEF Typed

\* ExecuteAsync has chained every op, and Execute waits for the AllOf of their futures.
LEMMA ChainAllInv ==
    ASSUME Live, ChainAll
    PROVE  Live'
<1>1. /\ caller = "chain" /\ caller' = "wait" /\ chained = Len(order) /\ Subscribe(All, Ops)
      /\ UNCHANGED <<graph, status, walk, hold, batchVars, threw>>
      /\ graph' = graph /\ chained' = chained /\ at' = at /\ status' = status /\ walk' = walk
      /\ hold' = hold /\ queue' = queue /\ batch' = batch /\ total' = total /\ threw' = threw
  BY Zenon DEF ChainAll, batchVars
<1>2. /\ Ops' = Ops /\ Item' = Item /\ order' = order /\ All \notin Ops /\ NoItem \notin Item
      /\ (\A q : BatchesOf(q)' = BatchesOf(q)) /\ Compiled(graph)'
  BY <1>1, GraphKept, ZenonT(60) DEF Live
<1>3. /\ at \in [Ops -> Place] /\ result \in [Ops \cup {All} -> {"pending", "value", "error"}]
      /\ queue \in Seq(Item) /\ chained \in 0 .. Len(order) /\ result[All] = "pending"
  BY <1>1, Zenon DEF Live, Typed, Caller
<1>4. /\ result' \in [Ops \cup {All} -> {"pending", "value", "error"}]
      /\ \A q \in Ops : result'[q] = result[q]
      /\ result'[All] = IF Failed(Ops) THEN "error" ELSE IF Met(Ops) THEN "value" ELSE "pending"
  <2>1. result' = [result EXCEPT ![All] = IF Failed(Ops) THEN "error" ELSE IF Met(Ops) THEN "value" ELSE result[All]]
    BY DEF ChainAll
  <2>2. QED
    BY <1>2, <1>3, <2>1, ZenonT(60)
<1>5. /\ left' \in [Ops \cup {All} -> Int] /\ subs' \in [Ops -> SUBSET (Ops \cup {All})]
      /\ Subscriptions' /\ \A y \in Ops \cup {All} : Countdown(y)'
  <2>1. ~ Exists(All) /\ Exists(All)' /\ From(All) = Ops
    BY <1>1 DEF Exists, From
  <2>2. Others(All)
    BY <1>1, <1>4, ZenonT(60) DEF Others, Exists, Waits
  <2>3. Begins(All)
    BY <1>4, <2>1, Zenon DEF Begins, Waits
  <2>4. \A y \in Ops \cup {All} : All \notin From(y)
    BY <1>2, OrderFacts, ZenonT(60) DEF From
  <2>5. All \in Ops \cup {All} /\ Subscribe(All, From(All))
    BY <1>1, <2>1, ZenonT(60)
  <2>6. QED
    BY <1>1, <1>3, <2>1, <2>2, <2>3, <2>4, <2>5, SubscribeFutures, ZenonT(60)
<1>6. Items'
  <2>1. \A v \in Worker : hold[v] # NoItem => walk'[v] = {}
    BY <1>1, Zenon DEF Live, Items
  <2>2. \A q \in Ops, c \in Nat : Keeps(q, c)
    BY <1>1, <1>2, ZenonT(60) DEF Keeps, Queued, Held
  <2>3. QED
    BY <1>1, <2>1, <2>2, ItemsKept, ZenonT(60)
<1>7. Typed'
  <2>1. chained' \in 0 .. Len(order) /\ at' \in [Ops -> Place] /\ queue' \in Seq(Item)
    BY <1>1, <1>3, Zenon
  <2>2. QED
    BY <1>1, <1>4, <1>5, <2>1, CallerTyped, ZenonT(60)
<1>8. ASSUME NEW q \in Ops PROVE Phase(q)' /\ Reduction(q)'
  <2>1. Phase(q) /\ Reduction(q) /\ Pending' = Pending /\ Error' = Error
    BY Zenon DEF Live, Pending, Error
  <2>2. \A e \in graph.deps[q] : result'[e] = result[e]
    BY <1>4, OrderFacts, ZenonT(60)
  <2>3. QED
    BY <1>1, <1>2, <1>4, <2>1, <2>2, ZenonT(60) DEF Phase, Reduction
<1>9. Caller'
  <2>1. result'[All] = "value" => \A q \in Ops : result[q] = "value"
    BY <1>4 DEF Met
  <2>2. result'[All] = "error" => threw # {}
    <3>1. result'[All] = "error" => Failed(Ops)
      BY <1>4
    <3>2. QED
      BY <3>1, Zenon DEF Failed, Live, Phase
  <2>3. caller' # "chain" /\ caller' # "returned"
    BY <1>1
  <2>4. QED
    BY <1>1, <1>2, <1>4, <2>1, <2>2, <2>3, ZenonT(60) DEF Live, Caller
<1>10. QED
  BY <1>2, <1>5, <1>6, <1>7, <1>8, <1>9, ZenonT(60) DEF Live

\* Execute returns.
Returns == caller = "wait" /\ result[All] # "pending" /\ caller' = "returned"

\* Execute returns, or nothing changes at all.
LEMMA ReturnInv ==
    ASSUME Live, Returns \/ caller' = caller,
           UNCHANGED <<graph, chained, at, status, futureVars, hold, queue, batchVars, threw>>
    PROVE  Live'
<1>1. /\ UNCHANGED <<graph, futureVars>>
      /\ graph' = graph /\ chained' = chained /\ at' = at /\ status' = status /\ result' = result
      /\ left' = left /\ subs' = subs /\ walk' = walk /\ hold' = hold /\ queue' = queue
      /\ batch' = batch /\ total' = total /\ threw' = threw
  BY Zenon DEF futureVars, batchVars
<1>2. /\ Ops' = Ops /\ Item' = Item /\ order' = order /\ (\A q : BatchesOf(q)' = BatchesOf(q))
      /\ Compiled(graph)' /\ Pending' = Pending /\ Error' = Error
  BY <1>1, GraphKept, ZenonT(60) DEF Live, Pending, Error
<1>3. Subscriptions' /\ \A x \in Ops \cup {All} : Countdown(x)'
  <2>1. caller' \in {"wait", "returned"} <=> caller \in {"wait", "returned"}
    BY DEF Returns
  <2>2. \A o \in Ops : /\ at'[o] = "waiting" <=> at[o] = "waiting"
                       /\ at'[o] = "unborn" <=> at[o] = "unborn"
    BY <1>1, Zenon
  <2>3. QED
    BY <1>1, <2>1, <2>2, FuturesKept, ZenonT(60)
<1>4. Typed'
  <2>1. Typed
    BY Zenon DEF Live
  <2>2. QED
    BY <1>1, <1>2, <2>1, ZenonT(60) DEF Typed, BatchTyped
<1>5. Items'
  <2>1. \A q \in Ops, c \in Nat : Keeps(q, c)
    BY <1>1, <1>2, ZenonT(60) DEF Keeps, Queued, Held
  <2>2. \A v \in Worker : hold[v] # NoItem => walk'[v] = {}
    BY <1>1, Zenon DEF Live, Items
  <2>3. QED
    BY <1>1, <2>1, <2>2, ItemsKept, ZenonT(60)
<1>6. \A o \in Ops : Phase(o)' /\ Reduction(o)'
  <2>1. ASSUME NEW o \in Ops PROVE Phase(o)' /\ Reduction(o)'
    <3>1. Phase(o) /\ Reduction(o)
      BY Zenon DEF Live
    <3>2. QED
      BY <1>1, <1>2, <3>1, ZenonT(60) DEF Phase, Reduction
  <2>2. QED
    BY <2>1, Zenon
<1>7. Caller'
  <2>1. CASE caller' = caller
    BY <1>1, <1>2, <2>1, ZenonT(60) DEF Live, Caller
  <2>2. CASE Returns
    <3>1. caller' # "chain" /\ chained = Len(order)
      BY <2>2 DEF Returns, Live, Caller
    <3>2. QED
      BY <1>1, <1>2, <2>2, <3>1, ZenonT(60) DEF Returns, Live, Caller
  <2>3. QED
    BY <2>1, <2>2, ZenonT(60)
<1>8. QED
  BY <1>2, <1>3, <1>4, <1>5, <1>6, <1>7, ZenonT(60) DEF Live

\* ExecuteAsync chains op o.
Chains(o) ==
    LET deps == graph.deps[o]
    IN  /\ Subscribe(o, deps)
        /\ result' = [result EXCEPT ![o] = IF Failed(deps) THEN "error" ELSE result[o]]
        /\ at' = [at EXCEPT ![o] = IF Failed(deps) THEN "done" ELSE IF Met(deps) THEN "queued" ELSE "waiting"]
        /\ queue' = IF Met(deps) THEN Append(queue, <<o, 0>>) ELSE queue

\* The op that is chained next does not exist yet, depends on ops that do, and is the only
\* one in its place.
LEMMA NextOp ==
    ASSUME Live, chained < Len(order)
    PROVE  /\ chained + 1 \in 1 .. Len(order)
           /\ order[chained + 1] \in Ops
           /\ at[order[chained + 1]] = "unborn"
           /\ order[chained + 1] \notin graph.deps[order[chained + 1]]
           /\ \A i \in 1 .. Len(order) : i # chained + 1 => order[i] # order[chained + 1]
<1>1. /\ chained \in 0 .. Len(order) /\ Len(order) \in Nat
      /\ \A i \in 1 .. Len(order) : at[order[i]] = "unborn" <=> i > chained
  BY OrderFacts, Zenon DEF Live, Typed, Caller
<1>2. chained + 1 \in 1 .. Len(order) /\ chained + 1 > chained
  BY <1>1
<1>3. order[chained + 1] \in Ops /\ at[order[chained + 1]] = "unborn"
  BY <1>1, <1>2, OrderFacts, ZenonT(60)
<1>4. /\ order \in Seq(Ops)
      /\ \A i, j \in DOMAIN order : order[i] = order[j] => i = j
      /\ \A i \in DOMAIN order : graph.deps[order[i]] \subseteq {order[j] : j \in 1 .. i - 1}
  BY Zenon DEF Live, Compiled, Distinct, order, Ops
<1>5. DOMAIN order = 1 .. Len(order)
  <2> DEFINE ord == order
  <2> HIDE DEF ord
  <2>1. ord \in Seq(Ops)
    BY <1>4 DEF ord
  <2>2. DOMAIN ord = 1 .. Len(ord)
    BY <2>1
  <2>3. QED
    BY <2>2 DEF ord
<1>6. \A i \in 1 .. Len(order) : i # chained + 1 => order[i] # order[chained + 1]
  BY <1>2, <1>4, <1>5, ZenonT(60)
<1>7. order[chained + 1] \notin graph.deps[order[chained + 1]]
  <2>1. SUFFICES ASSUME order[chained + 1] \in graph.deps[order[chained + 1]] PROVE FALSE
    OBVIOUS
  <2>2. order[chained + 1] \in {order[j] : j \in 1 .. (chained + 1) - 1}
    BY <1>2, <1>4, <1>5, <2>1, ZenonT(60)
  <2>3. PICK j \in 1 .. (chained + 1) - 1 : order[chained + 1] = order[j]
    BY <2>2, Zenon
  <2>4. j \in 1 .. Len(order) /\ j # chained + 1
    BY <1>1, <1>2, <2>3, SMTT(30)
  <2>5. QED
    BY <1>6, <2>3, <2>4, ZenonT(60)
<1>8. QED
  BY <1>2, <1>3, <1>6, <1>7, ZenonT(60)

\* An op is chained: it goes to the pool at once, fails at once, or waits.
LEMMA ChainInv ==
    ASSUME Live, Chain
    PROVE  Live'
<1>1. /\ caller = "chain" /\ chained < Len(order) /\ chained' = chained + 1
      /\ UNCHANGED <<graph, status, walk, hold, batchVars, threw>>
      /\ graph' = graph /\ caller' = caller /\ status' = status /\ walk' = walk
      /\ hold' = hold /\ batch' = batch /\ total' = total /\ threw' = threw
  BY Zenon DEF Chain, batchVars
<1>2. PICK o \in Ops : /\ Chains(o) /\ at[o] = "unborn" /\ o \notin graph.deps[o]
                       /\ o = order[chained + 1]
                       /\ \A i \in 1 .. Len(order) : i # chained + 1 => order[i] # o
  <2>1. Chains(order[chained + 1])
    BY Zenon DEF Chain, Chains
  <2>2. QED
    BY <1>1, <2>1, NextOp, ZenonT(60)
<1>3. /\ Ops' = Ops /\ Item' = Item /\ order' = order /\ All \notin Ops /\ NoItem \notin Item
      /\ (\A q : BatchesOf(q)' = BatchesOf(q)) /\ Compiled(graph)' /\ o # All /\ o \in Ops \cup {All}
  BY <1>1, GraphKept, ZenonT(60) DEF Live
<1>4. /\ at \in [Ops -> Place] /\ result \in [Ops \cup {All} -> {"pending", "value", "error"}]
      /\ queue \in Seq(Item) /\ chained \in 0 .. Len(order) /\ Len(order) \in Nat
  BY OrderFacts, ZenonT(60) DEF Live, Typed
<1>5. result[o] = "pending" /\ status[o] = "kPending" /\ o \notin threw
  <2>1. Phase(o)
    BY Zenon DEF Live
  <2>2. QED
    BY <1>2, <2>1, ZenonT(60) DEF Phase, Busy
<1>6. PICK r \in {"pending", "error"} :
        result' = [result EXCEPT ![o] = r] /\ (r = "error" <=> Failed(graph.deps[o]))
  <2>1. CASE Failed(graph.deps[o])
    <3>1. result' = [result EXCEPT ![o] = "error"]
      BY <1>2, <2>1, ZenonT(60) DEF Chains
    <3>2. QED
      BY <2>1, <3>1, ZenonT(60)
  <2>2. CASE ~ Failed(graph.deps[o])
    <3>1. result' = [result EXCEPT ![o] = "pending"]
      BY <1>2, <1>5, <2>2, ZenonT(60) DEF Chains
    <3>2. QED
      BY <2>2, <3>1, ZenonT(60)
  <2>3. QED
    BY <2>1, <2>2, ZenonT(60)
<1>7. /\ result' \in [Ops \cup {All} -> {"pending", "value", "error"}] /\ result'[o] = r
      /\ \A y \in Ops \cup {All} : y # o => result'[y] = result[y]
  BY <1>3, <1>4, <1>6, ZenonT(60)
<1>8. PICK to \in {"done", "queued", "waiting"} :
        /\ at' = [at EXCEPT ![o] = to]
        /\ to = "done" <=> Failed(graph.deps[o])
        /\ to = "queued" <=> Met(graph.deps[o])
  <2>1. CASE Failed(graph.deps[o])
    <3>1. at' = [at EXCEPT ![o] = "done"]
      BY <1>2, <2>1, ZenonT(60) DEF Chains
    <3>2. ~ Met(graph.deps[o])
      BY <2>1 DEF Failed, Met
    <3>3. QED
      BY <2>1, <3>1, <3>2, ZenonT(60)
  <2>2. CASE ~ Failed(graph.deps[o]) /\ Met(graph.deps[o])
    <3>1. at' = [at EXCEPT ![o] = "queued"]
      BY <1>2, <2>2, ZenonT(60) DEF Chains
    <3>2. QED
      BY <2>2, <3>1, ZenonT(60)
  <2>3. CASE ~ Failed(graph.deps[o]) /\ ~ Met(graph.deps[o])
    <3>1. at' = [at EXCEPT ![o] = "waiting"]
      BY <1>2, <2>3, ZenonT(60) DEF Chains
    <3>2. QED
      BY <2>3, <3>1, ZenonT(60)
  <2>4. QED
    BY <2>1, <2>2, <2>3, Zenon
<1>9. at' \in [Ops -> Place] /\ at'[o] = to /\ to # "unborn" /\ \A q \in Ops : q # o => at'[q] = at[q]
  BY <1>4, <1>8, ZenonT(60) DEF Place
<1>10. /\ left' \in [Ops \cup {All} -> Int] /\ subs' \in [Ops -> SUBSET (Ops \cup {All})]
       /\ Subscriptions' /\ \A y \in Ops \cup {All} : Countdown(y)'
  <2>1. ~ Exists(o) /\ Exists(o)' /\ From(o) = graph.deps[o]
    BY <1>2, <1>3, <1>9, ZenonT(60) DEF Exists, From
  <2>2. Others(o)
    BY <1>1, <1>7, <1>9, ZenonT(60) DEF Others, Exists, Waits
  <2>3. Begins(o)
    <3>1. SUFFICES ASSUME result'[o] = "pending" PROVE ~ Failed(From(o)) /\ (Waits(o)' \/ Met(From(o)))
      BY Zenon DEF Begins
    <3>2. r # "error"
      BY <1>7, <3>1, ZenonT(60)
    <3>3. ~ Failed(From(o))
      BY <1>6, <2>1, <3>2, ZenonT(60)
    <3>4. to # "queued" => to = "waiting"
      BY <1>8, <2>1, <3>3, ZenonT(60)
    <3>5. QED
      BY <1>8, <1>9, <2>1, <3>1, <3>3, <3>4, ZenonT(60) DEF Waits
  <2>4. \A y \in Ops \cup {All} : Exists(y) \/ y = o => o \notin From(y)
    BY <1>1, <1>2, <2>1, Unawaited, ZenonT(60)
  <2>5. Subscribe(o, From(o))
    BY <1>2, <2>1, ZenonT(60) DEF Chains
  <2>6. QED
    BY <1>1, <1>3, <1>5, <2>1, <2>2, <2>3, <2>4, <2>5, SubscribeFutures, ZenonT(60)
<1>11. Items' /\ queue' \in Seq(Item)
  <2>1. \A v \in Worker : hold[v] # NoItem => walk'[v] = {}
    BY <1>1, ZenonT(60) DEF Live, Items
  <2>2. ~ Queued(o, 0) /\ ~ Held(o, 0) /\ (to = "queued" => Queued(o, 0)')
    BY <1>2, <1>9 DEF Queued, Held, Busy
  <2>3. ASSUME NEW q \in Ops, NEW c \in Nat PROVE Keeps(q, c)
    <3>1. CASE q # o \/ c # 0
      BY <1>1, <1>3, <1>9, <3>1, ZenonT(60) DEF Keeps, Queued, Held
    <3>2. CASE q = o /\ c = 0
      BY <2>2, <3>2, ZenonT(60) DEF Keeps
    <3>3. QED
      BY <3>1, <3>2, ZenonT(60)
  <2>4. CASE Met(graph.deps[o])
    <3>1. queue' = Append(queue, <<o, 0>>) /\ Queued(o, 0)'
      BY <1>2, <1>8, <2>2, <2>4, ZenonT(60) DEF Chains
    <3>2. 0 \in Nat
      OBVIOUS
    <3>3. QED
      BY <1>1, <2>1, <2>2, <2>3, <3>1, <3>2, ItemsAppend, ZenonT(60)
  <2>5. CASE ~ Met(graph.deps[o])
    <3>1. queue' = queue
      BY <1>2, <2>5, ZenonT(60) DEF Chains
    <3>2. Items'
      BY <1>1, <2>1, <2>3, <3>1, ItemsKept, ZenonT(60)
    <3>3. QED
      BY <1>4, <3>1, <3>2, ZenonT(60)
  <2>6. QED
    BY <2>4, <2>5, ZenonT(60)
<1>12. Typed'
  <2>1. chained' \in 0 .. Len(order)
    BY <1>1, <1>4
  <2>2. QED
    BY <1>1, <1>7, <1>9, <1>10, <1>11, <2>1, CallerTyped, ZenonT(60)
<1>13. ASSUME NEW q \in Ops PROVE Phase(q)' /\ Reduction(q)'
  <2>1. Phase(q) /\ Reduction(q) /\ Pending' = Pending /\ Error' = Error
    BY Zenon DEF Live, Pending, Error
  <2>2. \A e \in graph.deps[q] : e \in Ops /\ (result[e] = "value" => result'[e] = "value")
    <3>1. \A e \in graph.deps[q] : e \in Ops
      BY OrderFacts, ZenonT(60)
    <3>2. QED
      BY <1>5, <1>7, <3>1, Zenon
  <2>3. CASE q # o
    <3>1. at'[q] = at[q] /\ result'[q] = result[q]
      BY <1>7, <1>9, <2>3, ZenonT(60)
    <3>2. QED
      BY <1>1, <1>3, <2>1, <2>2, <3>1, ZenonT(60) DEF Phase, Reduction
  <2>4. CASE q = o
    <3>1. Reduction(q)'
      <4>1. at[q] \notin {"spawn", "suspended"}
        BY <1>2, <2>4, ZenonT(60)
      <4>2. QED
        BY <1>1, <1>3, <2>1, <4>1, ZenonT(60) DEF Reduction
    <3>2. r = "error" => threw # {}
      <4>1. Failed(graph.deps[o]) => threw # {}
        BY <2>2, <2>4, ZenonT(60) DEF Failed, Live, Phase
      <4>2. QED
        BY <1>6, <4>1, ZenonT(60)
    <3>3. to = "queued" => \A e \in graph.deps[o] : result'[e] = "value"
      BY <1>8, <2>2, <2>4, ZenonT(60) DEF Met
    <3>4. to = "done" <=> r # "pending"
      BY <1>6, <1>8, ZenonT(60)
    <3>5. Phase(o)'
      <4>1. /\ status'[o] = "kPending" /\ o \notin threw' /\ (r = "error" => threw' # {})
            /\ r # "value" /\ to # "after" /\ (to \in Busy \cup {"queued"} => to = "queued")
        BY <1>1, <1>5, <3>2, ZenonT(60) DEF Busy
      <4>2. at'[o] = to /\ result'[o] = r /\ graph'.deps[o] = graph.deps[o]
        BY <1>1, <1>7, <1>9, ZenonT(60)
      <4>3. QED
        BY <3>3, <3>4, <4>1, <4>2, ZenonT(60) DEF Phase
    <3>6. QED
      BY <2>4, <3>1, <3>5, ZenonT(60)
  <2>5. QED
    BY <2>3, <2>4, ZenonT(60)
<1>14. Caller'
  <2>1. ASSUME NEW i \in 1 .. Len(order) PROVE at'[order[i]] = "unborn" <=> i > chained + 1
    <3>1. order[i] \in Ops /\ (at[order[i]] = "unborn" <=> i > chained)
      BY OrderFacts, ZenonT(60) DEF Live, Caller
    <3>2. CASE i = chained + 1
      <4>1. at'[order[i]] # "unborn" /\ ~ (i > chained + 1)
        BY <1>2, <1>4, <1>9, <3>2, SMTT(30)
      <4>2. QED
        BY <4>1
    <3>3. CASE i # chained + 1
      <4>1. at'[order[i]] = at[order[i]]
        BY <1>2, <1>9, <3>1, <3>3, ZenonT(60)
      <4>2. i > chained <=> i > chained + 1
        BY <1>4, <3>3
      <4>3. QED
        BY <3>1, <4>1, <4>2, ZenonT(60)
    <3>4. QED
      BY <3>2, <3>3, Zenon
  <2>2. result'[All] = "pending" /\ caller' = "chain"
    <3>1. result[All] = "pending"
      BY <1>1, ZenonT(60) DEF Live, Caller
    <3>2. QED
      BY <1>1, <1>3, <1>7, <3>1, ZenonT(60)
  <2>3. QED
    BY <1>1, <1>3, <2>1, <2>2, ZenonT(60) DEF Caller
<1>15. QED
  BY <1>3, <1>10, <1>11, <1>12, <1>13, <1>14, ZenonT(60) DEF Live

-----------------------------------------------------------------------------
(***************************************************************************)
(* Building and compiling the graph.                                       *)
(***************************************************************************)
\* Before the first op is chained nothing has happened.
LEMMA BlankLive == Blank /\ Compiled(graph) /\ All \notin Ops /\ caller = "chain" => Live
<1>1. SUFFICES ASSUME Blank, Compiled(graph), All \notin Ops, caller = "chain" PROVE Live
  OBVIOUS
<1>2. /\ chained = 0 /\ threw = {} /\ queue = <<>> /\ NoItem \notin Item
      /\ at = [o \in Ops |-> "unborn"] /\ status = [o \in Ops |-> "kPending"]
      /\ result = [o \in Ops \cup {All} |-> "pending"] /\ left = [o \in Ops \cup {All} |-> 0]
      /\ subs = [o \in Ops |-> {}] /\ walk = [w \in Worker |-> {}]
      /\ hold = [w \in Worker |-> NoItem] /\ total = [o \in Ops |-> Pending]
  BY <1>1, ZenonT(60) DEF Blank
<1>3. /\ \A o \in Ops : at[o] = "unborn" /\ status[o] = "kPending" /\ subs[o] = {} /\ total[o] = Pending
      /\ \A x \in Ops \cup {All} : result[x] = "pending"
      /\ \A w \in Worker : walk[w] = {} /\ hold[w] = NoItem
  BY <1>2, Zenon
<1>4. order \in Seq(Ops) /\ Range(order) = Ops
  BY <1>1, ZenonT(60) DEF Compiled, Distinct, order, Ops
<1>5. Len(order) \in Nat /\ \A i \in 1 .. Len(order) : order[i] \in Ops
  <2> DEFINE ord == order
  <2> HIDE DEF ord
  <2>1. ord \in Seq(Ops)
    BY <1>4 DEF ord
  <2>2. Len(ord) \in Nat /\ \A i \in 1 .. Len(ord) : ord[i] \in Ops
    BY <2>1
  <2>3. QED
    BY <2>2, ZenonT(60) DEF ord
<1>6. /\ BatchTyped
      /\ \A o \in Ops : \A b \in BatchesOf(o) : batch[o][b] = "unborn"
  <2>1. batch = [o \in Ops |-> [b \in BatchesOf(o) |-> "unborn"]]
    BY <1>1, Zenon DEF Blank
  <2>2. \A o \in Ops : batch[o] = [b \in BatchesOf(o) |-> "unborn"]
    BY <2>1, Zenon
  <2>3. "unborn" \in BatchState
    BY DEF BatchState
  <2>4. \A o \in Ops : batch[o] \in [BatchesOf(o) -> BatchState]
    BY <2>2, <2>3, ZenonT(60)
  <2>5. batch = [o \in Ops |-> batch[o]]
    BY <2>1
  <2>6. QED
    BY <2>2, <2>4, <2>5, ZenonT(60) DEF BatchTyped
<1>7. Typed
  <2>1. "unborn" \in Place /\ "kPending" \in Status /\ "pending" \in {"pending", "value", "error"} /\ 0 \in Int
    BY DEF Place, Status
  <2>2. /\ at \in [Ops -> Place] /\ status \in [Ops -> Status]
        /\ result \in [Ops \cup {All} -> {"pending", "value", "error"}]
        /\ left \in [Ops \cup {All} -> Int] /\ hold \in [Worker -> Item \cup {NoItem}]
    BY <1>2, <2>1, ZenonT(60)
  <2>3. /\ subs \in [Ops -> SUBSET (Ops \cup {All})]
        /\ walk \in [Worker -> SUBSET (Ops \X (Ops \cup {All}))]
        /\ threw \subseteq Ops
    BY <1>2
  <2>4. chained \in 0 .. Len(order) /\ queue \in Seq(Item) /\ total = [o \in Ops |-> total[o]]
    BY <1>2, <1>5
  <2>5. QED
    BY <1>6, <2>2, <2>3, <2>4, ZenonT(60) DEF Typed
<1>8. Items
  <2>1. Range(queue) = {} /\ Distinct(queue)
    BY <1>2 DEF Range, Distinct
  <2>2. \A o \in Ops, b \in Nat : <<o, b>> # NoItem
    BY <1>2 DEF Item
  <2>3. QED
    BY <1>3, <2>1, <2>2, ZenonT(60) DEF Items, Single
<1>9. ASSUME NEW o \in Ops PROVE Phase(o) /\ Reduction(o)
  <2>1. result[o] = "pending" /\ at[o] = "unborn" /\ status[o] = "kPending" /\ o \notin threw /\ total[o] = Pending
    BY <1>2, <1>3, ZenonT(60)
  <2>2. Phase(o)
    BY <2>1, ZenonT(60) DEF Phase, Busy
  <2>3. QED
    BY <1>6, <2>1, <2>2, ZenonT(60) DEF Reduction
<1>10. Subscriptions
  BY <1>3 DEF Subscriptions
<1>11. ASSUME NEW x \in Ops \cup {All} PROVE Countdown(x)
  <2>1. ~ Waits(x)
    BY <1>1, <1>3, ZenonT(60) DEF Waits, Exists
  <2>2. QED
    BY <2>1, Zenon DEF Countdown
<1>12. Caller
  BY <1>1, <1>2, <1>3, <1>5, SMTT(30) DEF Caller
<1>13. QED
  BY <1>1, <1>2, <1>7, <1>8, <1>9, <1>10, <1>11, <1>12, ZenonT(60) DEF Live

\* Nothing but the graph and the calling thread changes, and of the graph only its order.
LEMMA BlankKept ==
    ASSUME Blank, Ops' = Ops, \A o : BatchesOf(o)' = BatchesOf(o),
           UNCHANGED <<chained, at, status, futureVars, hold, queue, batchVars, threw>>
    PROVE  Blank'
<1>1. /\ chained' = chained /\ at' = at /\ status' = status /\ result' = result /\ left' = left
      /\ subs' = subs /\ walk' = walk /\ hold' = hold /\ queue' = queue /\ batch' = batch
      /\ total' = total /\ threw' = threw
  BY Zenon DEF futureVars, batchVars
<1>2. Item' = Item /\ Pending' = Pending
  BY Zenon DEF Item, Pending
<1>3. QED
  BY <1>1, <1>2, ZenonT(60) DEF Blank

\* No worker has anything to do.
LEMMA BlankIdle ==
    ASSUME Blank, NEW w \in Worker
    PROVE  ~ WorkerStep(w)
<1>1. queue = <<>> /\ hold[w] = NoItem /\ walk[w] = {} /\ NoItem \notin Item
  BY Zenon DEF Blank
<1>2. \A o \in Ops, b \in Nat : hold[w] # <<o, b>>
  BY <1>1 DEF Item
<1>3. \A o \in Ops : hold[w] # <<o, 0>>
  BY <1>2
<1>4. ASSUME NEW o \in Ops, NEW b \in BatchesOf(o) PROVE hold[w] # <<o, b>>
  <2>1. b \in Nat
    BY DEF BatchesOf
  <2>2. QED
    BY <1>2, <2>1, ZenonT(60)
<1>5. ~ Take(w)
  BY <1>1, Zenon DEF Take
<1>6. ASSUME NEW o \in Ops
      PROVE  /\ ~ Skip(w, o) /\ ~ AspectThrows(w, o) /\ ~ BeginExecute(w, o) /\ ~ PlainExecute(w, o)
             /\ ~ After(w, o) /\ ~ AwaitBatches(w, o) /\ ~ Reduced(w, o)
             /\ \A b \in BatchesOf(o) : ~ SpawnBatch(w, o, b) /\ ~ Fold(w, o, b) /\ ~ FoldThrows(w, o, b)
             /\ \A x \in Ops \cup {All} : ~ Notify(w, o, x)
  <2>1. \A place : ~ Holds(w, o, place)
    BY <1>3, Zenon DEF Holds
  <2>2. \A b \in BatchesOf(o) : ~ SpawnBatch(w, o, b) /\ ~ Fold(w, o, b) /\ ~ FoldThrows(w, o, b)
    BY <1>4, <2>1, ZenonT(60) DEF SpawnBatch, Fold, FoldThrows
  <2>3. \A x \in Ops \cup {All} : ~ Notify(w, o, x)
    BY <1>1, ZenonT(60) DEF Notify
  <2>4. QED
    BY <2>1, <2>2, <2>3, ZenonT(60) DEF Skip, AspectThrows, BeginExecute, PlainExecute, After, AwaitBatches, Reduced
<1>7. QED
  BY <1>5, <1>6, ZenonT(60) DEF WorkerStep

\* Compile gives the graph its order, and nothing else.
LEMMA CompileFacts ==
    ASSUME NEW source \in Sources, graph = BuildDsl(source), graph' = Compile(graph)
    PROVE  /\ Ops' = Ops /\ \A o : BatchesOf(o)' = BatchesOf(o)
           /\ All \notin Ops
           /\ graph.ok /\ graph'.ok => Compiled(graph)'
<1>1. Built(graph) /\ Ops \subseteq IdsOf(source)
  BY SourceGraph, Zenon DEF Ops
<1>2. All \notin Ops
  BY <1>1, SourcesAssumption, ZenonT(60)
<1>3. graph'.ids = graph.ids /\ graph'.type = graph.type
  BY <1>1, CompileFields, ZenonT(60)
<1>4. Ops' = Ops /\ \A o : BatchesOf(o)' = BatchesOf(o)
  BY <1>3, ZenonT(60) DEF Ops, BatchesOf, SizeOf, Job, IsJob
<1>5. graph.ok /\ graph'.ok => Compiled(graph)'
  <2>1. graph'.ok => Compiled(graph')
    BY <1>1, CompileOrders, ZenonT(60)
  <2>2. QED
    BY <2>1, ZenonT(60) DEF Compiled, Distinct
<1>6. QED
  BY <1>2, <1>4, <1>5, ZenonT(60)

\* Execute compiles the graph, or throws.
LEMMA StartInv ==
    ASSUME Blank, NEW source \in Sources, graph = BuildDsl(source), graph.ok, Start
    PROVE  IInv'
<1>1. /\ graph' = Compile(graph) /\ caller' = IF graph'.ok THEN "chain" ELSE "rejected"
      /\ UNCHANGED <<chained, at, status, futureVars, hold, queue, batchVars, threw>>
  BY Zenon DEF Start
<1>2. /\ Ops' = Ops /\ (\A o : BatchesOf(o)' = BatchesOf(o)) /\ All \notin Ops
      /\ graph'.ok => Compiled(graph)'
  BY <1>1, CompileFacts, ZenonT(60)
<1>3. Blank'
  BY <1>1, <1>2, BlankKept, ZenonT(60)
<1>4. CASE ~ graph'.ok
  <2>1. caller' = "rejected"
    BY <1>1, <1>4, ZenonT(60)
  <2>2. QED
    BY <1>3, <2>1, ZenonT(60) DEF IInv
<1>5. CASE graph'.ok
  <2>1. caller' = "chain" /\ (All \notin Ops)' /\ Compiled(graph)'
    BY <1>1, <1>2, <1>5, ZenonT(60)
  <2>2. (Blank /\ Compiled(graph) /\ All \notin Ops /\ caller = "chain" => Live)'
    BY BlankLive, PTL
  <2>3. Live'
    BY <1>3, <2>1, <2>2, ZenonT(60)
  <2>4. caller' \in {"chain", "wait", "returned"}
    BY <2>1
  <2>5. QED
    BY <2>3, <2>4, ZenonT(60) DEF IInv
<1>6. QED
  BY <1>4, <1>5, ZenonT(60)

\* The graph is built, or Build has thrown.
LEMMA InitInv == ASSUME Init PROVE IInv
<1>1. PICK source \in Sources : graph = BuildDsl(source)
  BY ZenonT(60) DEF Init
<1>2. NoItem \notin Item
  <2>1. Ops \subseteq IdsOf(source)
    BY <1>1, SourceGraph, ZenonT(60) DEF Ops
  <2>2. NoItem \notin IdsOf(source) \X Nat
    BY SourcesAssumption, ZenonT(60)
  <2>3. QED
    BY <2>1, <2>2, Zenon DEF Item
<1>3. Blank
  BY <1>2, ZenonT(60) DEF Init, Blank
<1>4. caller = IF graph.ok THEN "ready" ELSE "rejected"
  BY Zenon DEF Init
<1>5. CASE graph.ok
  <2>1. caller = "ready"
    BY <1>4, <1>5, ZenonT(60)
  <2>2. QED
    BY <1>1, <1>3, <1>5, <2>1, ZenonT(60) DEF IInv
<1>6. CASE ~ graph.ok
  <2>1. caller = "rejected"
    BY <1>4, <1>6, ZenonT(60)
  <2>2. QED
    BY <1>3, <2>1, ZenonT(60) DEF IInv
<1>7. QED
  BY <1>5, <1>6, ZenonT(60)

-----------------------------------------------------------------------------
(***************************************************************************)
(* The theorems.                                                           *)
(***************************************************************************)
\* A step of a worker while the graph executes.
LEMMA WorkerStepInv ==
    ASSUME Live, NEW w \in Worker, WorkerStep(w)
    PROVE  Live' /\ caller' = caller
<1>1. CASE Take(w)
  BY <1>1, TakeInv, ZenonT(60) DEF Take
<1>2. ASSUME NEW o \in Ops,
             \/ Skip(w, o) \/ AspectThrows(w, o) \/ BeginExecute(w, o) \/ PlainExecute(w, o)
             \/ After(w, o) \/ AwaitBatches(w, o) \/ Reduced(w, o)
      PROVE  Live' /\ caller' = caller
  <2>1. CASE Skip(w, o) \/ AspectThrows(w, o) \/ After(w, o)
    <3>1. caller' = caller
      BY <2>1, ZenonT(60) DEF Skip, AspectThrows, After
    <3>2. QED
      BY <2>1, <3>1, EndsInv, ZenonT(60)
  <2>2. CASE BeginExecute(w, o)
    BY <2>2, BeginExecuteInv, ZenonT(60) DEF BeginExecute
  <2>3. CASE PlainExecute(w, o) \/ Reduced(w, o)
    <3>1. caller' = caller
      BY <2>3, ZenonT(60) DEF PlainExecute, Reduced, EndExecute
    <3>2. QED
      BY <2>3, <3>1, EndExecuteInv, ZenonT(60)
  <2>4. CASE AwaitBatches(w, o)
    BY <2>4, AwaitBatchesInv, ZenonT(60) DEF AwaitBatches
  <2>5. QED
    BY <1>2, <2>1, <2>2, <2>3, <2>4, ZenonT(60)
<1>3. ASSUME NEW o \in Ops, NEW b \in BatchesOf(o), SpawnBatch(w, o, b) \/ Fold(w, o, b) \/ FoldThrows(w, o, b)
      PROVE  Live' /\ caller' = caller
  <2>1. CASE SpawnBatch(w, o, b)
    BY <2>1, SpawnBatchInv, ZenonT(60) DEF SpawnBatch
  <2>2. CASE Fold(w, o, b) \/ FoldThrows(w, o, b)
    <3>1. caller' = caller
      BY <2>2, ZenonT(60) DEF Fold, FoldThrows, ResolveReduce
    <3>2. QED
      BY <2>2, <3>1, FoldInv, ZenonT(60)
  <2>3. QED
    BY <1>3, <2>1, <2>2, ZenonT(60)
<1>4. ASSUME NEW o \in Ops, NEW x \in Ops \cup {All}, Notify(w, o, x)
      PROVE  Live' /\ caller' = caller
  BY <1>4, NotifyInv, ZenonT(60) DEF Notify
<1>5. QED
  BY <1>1, <1>2, <1>3, <1>4, ZenonT(60) DEF WorkerStep

\* Every step keeps the invariant.
LEMMA StepInv == ASSUME IInv, [Next]_vars PROVE IInv'
<1>1. CASE caller = "ready" /\ Blank /\ \E source \in Sources : graph = BuildDsl(source) /\ graph.ok
  <2>1. PICK source \in Sources : graph = BuildDsl(source) /\ graph.ok
    BY <1>1, ZenonT(60)
  <2>2. CASE Start
    BY <1>1, <2>1, <2>2, StartInv, ZenonT(60)
  <2>3. ~ Chain /\ ~ ChainAll /\ ~ Return
    BY <1>1 DEF Chain, ChainAll, Return
  <2>4. CASE UNCHANGED vars
    <3>1. /\ graph' = graph /\ caller' = caller
          /\ UNCHANGED <<chained, at, status, futureVars, hold, queue, batchVars, threw>>
      BY <2>4, ZenonT(60) DEF vars, futureVars, batchVars
    <3>2. Blank'
      BY <1>1, <3>1, GraphKept, BlankKept, ZenonT(60)
    <3>3. caller' = "ready" /\ \E s \in Sources : graph' = BuildDsl(s) /\ graph'.ok
      BY <1>1, <3>1, ZenonT(60)
    <3>4. QED
      BY <3>2, <3>3, ZenonT(60) DEF IInv
  <2>5. QED
    BY <1>1, <2>2, <2>3, <2>4, BlankIdle, ZenonT(60) DEF Next, CallerStep
<1>2. CASE caller = "rejected" /\ Blank
  <2>1. ~ Start /\ ~ Chain /\ ~ ChainAll /\ ~ Return
    BY <1>2, ZenonT(60) DEF Start, Chain, ChainAll, Return
  <2>2. UNCHANGED vars
    BY <1>2, <2>1, BlankIdle, ZenonT(60) DEF Next, CallerStep
  <2>3. /\ graph' = graph /\ caller' = caller
        /\ UNCHANGED <<chained, at, status, futureVars, hold, queue, batchVars, threw>>
    BY <2>2, Zenon DEF vars, futureVars, batchVars
  <2>4. Blank'
    BY <1>2, <2>3, GraphKept, BlankKept, ZenonT(60)
  <2>5. caller' = "rejected"
    BY <1>2, <2>3, ZenonT(60)
  <2>6. QED
    BY <2>4, <2>5, ZenonT(60) DEF IInv
<1>3. CASE caller \in {"chain", "wait", "returned"} /\ Live
  <2>1. SUFFICES caller' \in {"chain", "wait", "returned"} /\ Live'
    BY Zenon DEF IInv
  <2>2. ~ Start
    BY <1>3 DEF Start
  <2>3. CASE Chain
    <3>1. caller' = caller
      BY <2>3, ZenonT(60) DEF Chain
    <3>2. QED
      BY <1>3, <2>3, <3>1, ChainInv, ZenonT(60)
  <2>4. CASE ChainAll
    <3>1. caller' \in {"chain", "wait", "returned"}
      BY <2>4 DEF ChainAll
    <3>2. QED
      BY <1>3, <2>4, <3>1, ChainAllInv, ZenonT(60)
  <2>5. CASE Return
    <3>1. /\ Returns
          /\ UNCHANGED <<graph, chained, at, status, futureVars, hold, queue, batchVars, threw>>
      BY <2>5, ZenonT(60) DEF Return, Returns
    <3>2. caller' \in {"chain", "wait", "returned"}
      BY <3>1 DEF Returns
    <3>3. QED
      BY <1>3, <3>1, <3>2, ReturnInv, ZenonT(60)
  <2>6. CASE \E w \in Worker : WorkerStep(w)
    BY <1>3, <2>6, WorkerStepInv, ZenonT(60)
  <2>7. CASE UNCHANGED vars
    <3>1. /\ caller' = caller
          /\ UNCHANGED <<graph, chained, at, status, futureVars, hold, queue, batchVars, threw>>
      BY <2>7, ZenonT(60) DEF vars, futureVars, batchVars
    <3>2. QED
      BY <1>3, <3>1, ReturnInv, ZenonT(60)
  <2>8. QED
    BY <2>2, <2>3, <2>4, <2>5, <2>6, <2>7, ZenonT(60) DEF Next, CallerStep
<1>4. QED
  BY <1>1, <1>2, <1>3, ZenonT(60) DEF IInv

\* The invariant holds throughout: an item is in one place, an AllOf counts what it still
\* waits for, and the place of an op tells its status, its future and its dependencies.
THEOREM Invariance == Spec => []IInv
<1>1. Init => IInv
  BY InitInv, SMTT(30)
<1>2. IInv /\ [Next]_vars => IInv'
  BY StepInv
<1>3. QED
  BY <1>1, <1>2, PTL DEF Spec

\* RunOp of an op begins only behind the final status of every op that it depends on, and
\* never behind one that an aspect's exception has cut off.
THEOREM RunsAfterDependencies == Spec => []RunsAfterDeps
<1>1. IInv => RunsAfterDeps
  <2>1. SUFFICES ASSUME IInv, NEW o \in Ops, at[o] \in Busy \/ status[o] # "kPending",
                        NEW d \in graph.deps[o]
                 PROVE  status[d] \in Final /\ d \notin threw /\ result[d] = "value"
    BY Zenon DEF RunsAfterDeps
  <2>2. CASE Blank
    <3>1. at[o] = "unborn" /\ status[o] = "kPending"
      BY <2>2, ZenonT(60) DEF Blank
    <3>2. QED
      BY <2>1, <3>1, ZenonT(60) DEF Busy
  <2>3. CASE Live
    <3>1. Phase(o) /\ d \in Ops
      BY <2>1, <2>3, OrderFacts, ZenonT(60) DEF Live
    <3>2. result[d] = "value"
      BY <2>1, <3>1, ZenonT(60) DEF Phase
    <3>3. QED
      BY <2>3, <3>1, <3>2, ZenonT(60) DEF Live, Phase
  <2>4. QED
    BY <2>1, <2>2, <2>3, ZenonT(60) DEF IInv
<1>2. QED
  BY <1>1, Invariance, PTL

\* When Execute returns and no aspect has thrown, every op has a final status and a value,
\* and the pool has no work left but batches of a reduction that has already failed.
THEOREM DrainedWhenReturned == Spec => []DrainedOnReturn
<1>1. IInv => DrainedOnReturn
  <2>1. SUFFICES ASSUME IInv, caller = "returned", threw = {}
                 PROVE  /\ \A o \in Ops : status[o] \in Final /\ result[o] = "value"
                        /\ LET busy == (Range(queue) \cup {hold[w] : w \in Worker}) \ {NoItem}
                               broken == {o \in Ops : total[o] = Error}
                           IN  \A item \in busy : item[2] # 0 /\ item[1] \in broken
    BY ZenonT(60) DEF DrainedOnReturn
  <2>2. Live
    BY <2>1, ZenonT(60) DEF IInv
  <2>3. \A o \in Ops : result[o] = "value"
    <3>1. result[All] \in {"pending", "value", "error"} /\ result[All] # "pending" /\ result[All] # "error"
      BY <2>1, <2>2, ZenonT(60) DEF Live, Typed, Caller
    <3>2. QED
      BY <2>2, <3>1, ZenonT(60) DEF Live, Caller
  <2>4. \A o \in Ops : status[o] \in Final /\ at[o] = "done"
    <3>1. \A o \in Ops : Phase(o)
      BY <2>2, ZenonT(60) DEF Live
    <3>2. QED
      BY <2>3, <3>1, ZenonT(60) DEF Phase
  <2>5. ASSUME NEW o \in Ops, NEW b \in Nat, Queued(o, b) \/ Held(o, b)
        PROVE  b # 0 /\ total[o] = Error
    <3>1. at[o] = "done"
      BY <2>4, ZenonT(60)
    <3>2. b # 0
      BY <2>5, <3>1, ZenonT(60) DEF Queued, Held, Busy
    <3>3. b \in BatchesOf(o) /\ batch[o][b] \in {"queued", "requeued", "running"}
      BY <2>5, <3>2, ZenonT(60) DEF Queued, Held
    <3>4. Reduction(o) /\ at[o] \notin {"spawn", "suspended"} /\ batch[o][b] # "unborn" /\ batch[o][b] # "done"
      <4>1. Reduction(o)
        BY <2>2, ZenonT(60) DEF Live
      <4>2. QED
        BY <3>1, <3>3, <4>1, ZenonT(60)
    <3>5. QED
      BY <3>2, <3>3, <3>4, ZenonT(60) DEF Reduction
  <2>6. ASSUME NEW item \in (Range(queue) \cup {hold[w] : w \in Worker}) \ {NoItem}
        PROVE  item[2] # 0 /\ item[1] \in {o \in Ops : total[o] = Error}
    <3>1. item \in Item
      BY <2>2, <2>6, ItemFacts, ZenonT(60)
    <3>2. PICK o \in Ops, b \in Nat : item = <<o, b>> /\ item[1] = o /\ item[2] = b
      BY <3>1 DEF Item
    <3>3. Queued(o, b) \/ Held(o, b)
      BY <2>2, <2>6, <3>2, ZenonT(60) DEF Live, Items
    <3>4. b # 0 /\ total[o] = Error
      BY <2>5, <3>3, Zenon
    <3>5. QED
      BY <3>2, <3>4, ZenonT(60)
  <2>7. QED
    BY <2>3, <2>4, <2>6, ZenonT(60)
<1>2. QED
  BY <1>1, Invariance, PTL
=============================================================================
