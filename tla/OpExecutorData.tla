--------------------------- MODULE OpExecutorData ----------------------------
(***************************************************************************)
(* The data of an execution of dag::OpExecutor, for every source and job.   *)
(* OpGraphBuilder leaves a well-formed graph; Kahn's queue lists nodes once *)
(* and behind their dependencies, and OpGraph::Compile accepts exactly the  *)
(* acyclic graphs; batch splits the elements without gap or overlap, and    *)
(* what BatchReduce returns is their reduction in order.                    *)
(*                                                                         *)
(* The loops of the code are runs of FoldInOrder.  A run is a function of   *)
(* the loop index; the first lemmas say that it exists and that what holds  *)
(* before the loop and survives each turn holds after it.                   *)
(***************************************************************************)
EXTENDS OpExecutor, FiniteSetTheorems, WellFoundedInduction, TLAPS

\* The indices of a loop, and the turn before one.
LEMMA Indices ==
    ASSUME NEW n \in Nat
    PROVE  /\ 0 \in 0 .. n /\ n \in 0 .. n
           /\ \A i \in 0 .. n : i = 0 \/ i \in 1 .. n
           /\ \A i \in 1 .. n : i \in 0 .. n /\ i # 0 /\ i - 1 \in 0 .. n
  OBVIOUS

\* Induction up to n, for a set of numbers.
LEMMA UpTo ==
    ASSUME NEW n \in Nat, NEW T, 0 \in T, \A i \in 1 .. n : i - 1 \in T => i \in T
    PROVE  0 .. n \subseteq T
<1> DEFINE Less == {ss \in Nat \X Nat : ss[1] < ss[2]}
           Bad == (0 .. n) \ T
<1>1. IsWellFoundedOn(Less, Nat)
  BY NatLessThanWellFounded, Zenon DEF OpToRel
<1>2. SUFFICES ASSUME Bad # {} PROVE FALSE
  OBVIOUS
<1>3. Bad \subseteq Nat
  OBVIOUS
<1>4. PICK m \in Bad : \A k \in Bad : ~ (<<k, m>> \in Less)
  <2> HIDE DEF Less, Bad
  <2>1. QED
    BY <1>1, <1>2, <1>3, WFMin, Zenon
<1>5. m - 1 \in 0 .. n /\ m \in 1 .. n
  OBVIOUS
<1>6. m - 1 \in Bad
  BY <1>5
<1>7. <<m - 1, m>> \in Less
  BY <1>5
<1>8. QED
  BY <1>4, <1>6, <1>7, Zenon

\* The values in X that a loop of n turns goes through: turn i applies step[i].
IsFold(f, X, base, n, step) ==
    f \in [0 .. n -> X] /\ f[0] = base /\ \A i \in 1 .. n : f[i] = step[i][f[i - 1]]

\* Every loop whose turns stay in X has a run.
LEMMA FoldExists ==
    ASSUME NEW X, NEW base \in X, NEW n \in Nat, NEW step \in [1 .. n -> [X -> X]]
    PROVE  \E f : IsFold(f, X, base, n, step)
<1> DEFINE T == {k \in 0 .. n : \E f : IsFold(f, X, base, k, step)}
<1>1. 0 \in T
  <2>1. IsFold([i \in 0 .. 0 |-> base], X, base, 0, step)
    BY DEF IsFold
  <2>2. QED
    BY <2>1
<1>2. ASSUME NEW m \in 1 .. n, m - 1 \in T PROVE m \in T
  <2>1. PICK f : IsFold(f, X, base, m - 1, step)
    BY <1>2
  <2> DEFINE g == [i \in 0 .. m |-> IF i = m THEN step[m][f[m - 1]] ELSE f[i]]
  <2>2. f[m - 1] \in X /\ step[m][f[m - 1]] \in X
    BY <2>1 DEF IsFold
  <2>3. g \in [0 .. m -> X] /\ g[0] = base
    BY <2>1, <2>2 DEF IsFold
  <2>4. ASSUME NEW i \in 1 .. m PROVE g[i] = step[i][g[i - 1]]
    <3>1. CASE i = m
      BY <3>1
    <3>2. CASE i # m
      BY <3>2, <2>1 DEF IsFold
    <3>3. QED
      BY <3>1, <3>2
  <2>5. IsFold(g, X, base, m, step)
    BY <2>3, <2>4, Zenon DEF IsFold
  <2>6. QED
    BY <2>5
<1>3. n \in T
  <2> HIDE DEF T
  <2>1. 0 .. n \subseteq T
    BY <1>1, <1>2, UpTo, Zenon
  <2>2. QED
    BY <2>1
<1>4. QED
  BY <1>3

\* What holds before a loop and survives each turn holds throughout.
LEMMA RunStays ==
    ASSUME NEW n \in Nat, NEW X, NEW c, c[0] \in X, \A i \in 1 .. n : c[i - 1] \in X => c[i] \in X
    PROVE  \A i \in 0 .. n : c[i] \in X
<1> DEFINE T == {k \in 0 .. n : c[k] \in X}
<1>1. 0 \in T
  OBVIOUS
<1>2. \A i \in 1 .. n : i - 1 \in T => i \in T
  OBVIOUS
<1>3. 0 .. n \subseteq T
  <2> HIDE DEF T
  <2>1. QED
    BY <1>1, <1>2, UpTo, Zenon
<1>4. QED
  BY <1>3

-----------------------------------------------------------------------------
(* Sequences without repetition.                                           *)

\* The empty sequence has no members.
LEMMA EmptyFacts == Range(<<>>) = {} /\ Distinct(<<>>)
  BY DEF Range, Distinct

\* What Append does to the members.
LEMMA AppendFresh ==
    ASSUME NEW V, NEW s \in Seq(V), NEW x \in V
    PROVE  /\ Append(s, x) \in Seq(V)
           /\ Range(Append(s, x)) = Range(s) \cup {x}
           /\ Distinct(s) /\ x \notin Range(s) => Distinct(Append(s, x))
<1>1. /\ Append(s, x) \in Seq(V) /\ DOMAIN Append(s, x) = 1 .. Len(s) + 1 /\ DOMAIN s = 1 .. Len(s)
      /\ Len(s) \in Nat
      /\ \A i \in 1 .. Len(s) : Append(s, x)[i] = s[i]
      /\ Append(s, x)[Len(s) + 1] = x
  OBVIOUS
<1>2. Range(Append(s, x)) = Range(s) \cup {x}
  <2>1. ASSUME NEW y \in Range(Append(s, x)) PROVE y \in Range(s) \cup {x}
    <3>1. PICK i \in 1 .. Len(s) + 1 : y = Append(s, x)[i]
      BY <1>1, <2>1 DEF Range
    <3>2. QED
      BY <1>1, <3>1 DEF Range
  <2>2. ASSUME NEW y \in Range(s) PROVE y \in Range(Append(s, x))
    <3>1. PICK i \in 1 .. Len(s) : y = s[i]
      BY <1>1, <2>2 DEF Range
    <3>2. QED
      BY <1>1, <3>1 DEF Range
  <2>3. x \in Range(Append(s, x))
    BY <1>1 DEF Range
  <2>4. QED
    BY <2>1, <2>2, <2>3
<1>3. ASSUME Distinct(s), x \notin Range(s) PROVE Distinct(Append(s, x))
  <2>1. \A i \in 1 .. Len(s) : s[i] # x
    BY <1>1, <1>3 DEF Range
  <2>2. QED
    BY <1>1, <1>3, <2>1 DEF Distinct
<1>4. QED
  BY <1>1, <1>2, <1>3

\* What concatenation does to the members.
LEMMA ConcatFacts ==
    ASSUME NEW V, NEW s \in Seq(V), NEW t \in Seq(V)
    PROVE  /\ s \o t \in Seq(V)
           /\ Range(s \o t) = Range(s) \cup Range(t)
           /\ Distinct(s) /\ Distinct(t) /\ Range(s) \cap Range(t) = {} => Distinct(s \o t)
<1>1. /\ s \o t \in Seq(V) /\ DOMAIN (s \o t) = 1 .. Len(s) + Len(t)
      /\ DOMAIN s = 1 .. Len(s) /\ DOMAIN t = 1 .. Len(t)
      /\ Len(s) \in Nat /\ Len(t) \in Nat
      /\ \A i \in 1 .. Len(s) : (s \o t)[i] = s[i]
      /\ \A i \in 1 .. Len(t) : (s \o t)[Len(s) + i] = t[i]
  OBVIOUS
<1>2. \A i \in 1 .. Len(s) + Len(t) : i \in 1 .. Len(s) \/ \E j \in 1 .. Len(t) : i = Len(s) + j
  <2>1. ASSUME NEW i \in 1 .. Len(s) + Len(t), i \notin 1 .. Len(s)
        PROVE  \E j \in 1 .. Len(t) : i = Len(s) + j
    <3>1. i - Len(s) \in 1 .. Len(t) /\ i = Len(s) + (i - Len(s))
      BY <1>1, <2>1
    <3>2. QED
      BY <3>1, Zenon
  <2>2. QED
    BY <2>1
<1>3. Range(s \o t) = Range(s) \cup Range(t)
  <2>1. ASSUME NEW y \in Range(s \o t) PROVE y \in Range(s) \cup Range(t)
    <3>1. PICK i \in 1 .. Len(s) + Len(t) : y = (s \o t)[i]
      BY <1>1, <2>1 DEF Range
    <3>2. QED
      BY <1>1, <1>2, <3>1, Zenon DEF Range
  <2>2. ASSUME NEW y \in Range(s) PROVE y \in Range(s \o t)
    <3>1. PICK i \in 1 .. Len(s) : y = s[i]
      BY <1>1, <2>2 DEF Range
    <3>2. QED
      BY <1>1, <3>1 DEF Range
  <2>3. ASSUME NEW y \in Range(t) PROVE y \in Range(s \o t)
    <3>1. PICK i \in 1 .. Len(t) : y = t[i]
      BY <1>1, <2>3 DEF Range
    <3>2. Len(s) + i \in 1 .. Len(s) + Len(t)
      BY <1>1
    <3>3. QED
      BY <1>1, <3>1, <3>2, Zenon DEF Range
  <2>4. QED
    BY <2>1, <2>2, <2>3
<1>4. ASSUME Distinct(s), Distinct(t), Range(s) \cap Range(t) = {} PROVE Distinct(s \o t)
  <2>1. \A i \in 1 .. Len(s) : \A j \in 1 .. Len(t) : s[i] # t[j]
    BY <1>1, <1>4, Zenon DEF Range
  <2>2. ASSUME NEW i \in 1 .. Len(s) + Len(t), NEW j \in 1 .. Len(s) + Len(t), (s \o t)[i] = (s \o t)[j]
        PROVE  i = j
    <3>1. CASE i \in 1 .. Len(s) /\ j \in 1 .. Len(s)
      BY <1>1, <1>4, <2>2, <3>1 DEF Distinct
    <3>2. CASE i \in 1 .. Len(s) /\ j \notin 1 .. Len(s)
      BY <1>1, <1>2, <2>1, <2>2, <3>2, SMTT(30)
    <3>3. CASE i \notin 1 .. Len(s) /\ j \in 1 .. Len(s)
      BY <1>1, <1>2, <2>1, <2>2, <3>3, SMTT(30)
    <3>4. CASE i \notin 1 .. Len(s) /\ j \notin 1 .. Len(s)
      <4>1. PICK k \in 1 .. Len(t), l \in 1 .. Len(t) : i = Len(s) + k /\ j = Len(s) + l
        BY <1>2, <3>4
      <4>2. t[k] = t[l]
        BY <1>1, <2>2, <4>1
      <4>3. QED
        BY <1>1, <1>4, <4>1, <4>2 DEF Distinct
    <3>5. QED
      BY <3>1, <3>2, <3>3, <3>4
  <2>3. QED
    BY <1>1, <2>2 DEF Distinct
<1>5. QED
  BY <1>1, <1>3, <1>4

\* Keep returns the members of S that seq has, each once.
LEMMA KeepFacts ==
    ASSUME NEW V, NEW seq \in Seq(V), Distinct(seq), NEW S
    PROVE  /\ Keep(seq, S) \in Seq(V)
           /\ Distinct(Keep(seq, S))
           /\ Range(Keep(seq, S)) = Range(seq) \cap S
<1> DEFINE n == Len(seq)
           turn(kept, x) == IF x \in S THEN Append(kept, x) ELSE kept
           step == [i \in 1 .. n |-> [kept \in Seq(V) |-> turn(kept, seq[i])]]
           F(h) == [i \in 0 .. n |-> IF i = 0 THEN <<>> ELSE turn(h[i - 1], seq[i])]
           c == CHOOSE h : h = F(h)
           first(i) == {seq[j] : j \in 1 .. i}
           T == {i \in 0 .. n : c[i] \in Seq(V) /\ Distinct(c[i]) /\ Range(c[i]) = first(i) \cap S}
<1>1. Keep(seq, S) = c[n]
  BY Zenon DEF Keep, FoldInOrder
<1>2. n \in Nat /\ DOMAIN seq = 1 .. n /\ <<>> \in Seq(V) /\ \A i \in 1 .. n : seq[i] \in V
  OBVIOUS
<1>3. \A i \in 1 .. n : \A kept \in Seq(V) : turn(kept, seq[i]) \in Seq(V)
  BY <1>2, AppendFresh
<1>4. /\ step \in [1 .. n -> [Seq(V) -> Seq(V)]]
      /\ \A i \in 1 .. n : \A kept \in Seq(V) : step[i][kept] = turn(kept, seq[i])
  <2> HIDE DEF turn, n
  <2>1. QED
    BY <1>3, Zenon
<1> HIDE DEF step, n, c, turn
<1>5. c = F(c)
  <2>1. PICK f : IsFold(f, Seq(V), <<>>, n, step)
    BY <1>2, <1>4, FoldExists, Zenon
  <2>2. f \in [0 .. n -> Seq(V)] /\ f[0] = <<>> /\ \A i \in 1 .. n : f[i] = step[i][f[i - 1]]
    BY <2>1, Zenon DEF IsFold
  <2>3. \A i \in 0 .. n : f[i] = IF i = 0 THEN <<>> ELSE turn(f[i - 1], seq[i])
    BY <1>2, <1>4, <2>2, Indices, Zenon
  <2>4. f = F(f)
    BY <2>2, <2>3, Zenon
  <2> HIDE DEF F
  <2>5. QED
    BY <2>4, Zenon DEF c
<1>6. c[0] = <<>> /\ \A i \in 1 .. n : c[i] = turn(c[i - 1], seq[i])
  <2>1. \A i \in 0 .. n : c[i] = IF i = 0 THEN <<>> ELSE turn(c[i - 1], seq[i])
    BY <1>5, Zenon
  <2>2. QED
    BY <1>2, <2>1, Indices, Zenon
<1>7. 0 \in T
  <2>1. Range(c[0]) = {} /\ Distinct(c[0]) /\ c[0] \in Seq(V)
    BY <1>2, <1>6, EmptyFacts, Zenon
  <2>2. first(0) = {} /\ 0 \in 0 .. n
    BY <1>2
  <2>3. QED
    BY <2>1, <2>2
<1>8. ASSUME NEW i \in 1 .. n, i - 1 \in T PROVE i \in T
  <2>1. i \in 0 .. n /\ c[i - 1] \in Seq(V) /\ Distinct(c[i - 1]) /\ Range(c[i - 1]) = first(i - 1) \cap S
    BY <1>2, <1>8
  <2>2. first(i) = first(i - 1) \cup {seq[i]}
    BY <1>2
  <2>3. seq[i] \notin first(i - 1)
    BY <1>2 DEF Distinct
  <2>4. CASE seq[i] \in S
    <3>1. c[i] = Append(c[i - 1], seq[i])
      BY <1>6, <2>4, Zenon DEF turn
    <3>2. seq[i] \in V /\ seq[i] \notin Range(c[i - 1])
      BY <1>2, <2>1, <2>3
    <3> HIDE DEF first
    <3>3. c[i] \in Seq(V) /\ Distinct(c[i]) /\ Range(c[i]) = Range(c[i - 1]) \cup {seq[i]}
      <4> DEFINE kept == c[i - 1]
                 x == seq[i]
      <4>1. kept \in Seq(V) /\ x \in V /\ Distinct(kept) /\ x \notin Range(kept) /\ c[i] = Append(kept, x)
        BY <2>1, <3>1, <3>2, Zenon
      <4> HIDE DEF kept, x
      <4>2. c[i] \in Seq(V) /\ Distinct(c[i]) /\ Range(c[i]) = Range(kept) \cup {x}
        BY <4>1, AppendFresh
      <4>3. QED
        BY <4>2, Zenon DEF kept, x
    <3>4. QED
      BY <2>1, <2>2, <2>4, <3>3, Zenon
  <2>5. CASE seq[i] \notin S
    <3>1. c[i] = c[i - 1]
      BY <1>6, <2>5, Zenon DEF turn
    <3> HIDE DEF first
    <3>2. QED
      BY <2>1, <2>2, <2>5, <3>1, Zenon
  <2>6. QED
    BY <2>4, <2>5
<1>9. n \in T
  <2> HIDE DEF T
  <2>1. 0 .. n \subseteq T
    BY <1>2, <1>7, <1>8, UpTo, Zenon
  <2>2. QED
    BY <1>2, <2>1, Indices
<1>10. first(n) = Range(seq)
  BY <1>2 DEF Range
<1>11. QED
  BY <1>1, <1>9, <1>10

\* A sequence without repetition is as long as it has members.
LEMMA DistinctLength ==
    ASSUME NEW V, IsFiniteSet(V), NEW s \in Seq(V), Distinct(s)
    PROVE  Len(s) <= Cardinality(V) /\ (Len(s) = Cardinality(V) <=> Range(s) = V)
<1>1. Len(s) \in Nat /\ DOMAIN s = 1 .. Len(s) /\ s \in [1 .. Len(s) -> V]
  OBVIOUS
<1>2. s \in Injection(1 .. Len(s), V)
  BY <1>1 DEF Distinct, Injection, IsInjective
<1>3. Cardinality(1 .. Len(s)) = Len(s)
  BY <1>1, FS_Interval, SMTT(30)
<1>4. Len(s) <= Cardinality(V) /\ (Len(s) = Cardinality(V) <=> s \in Surjection(1 .. Len(s), V))
  BY <1>2, <1>3, FS_Injection
<1>5. s \in Surjection(1 .. Len(s), V) <=> Range(s) = V
  BY <1>1 DEF Surjection, Range
<1>6. QED
  BY <1>4, <1>5

\* A sequence has finitely many members.
LEMMA RangeFinite ==
    ASSUME NEW V, NEW s \in Seq(V)
    PROVE  IsFiniteSet(Range(s)) /\ s \in Seq(Range(s)) /\ Range(s) \subseteq V
<1>1. Len(s) \in Nat /\ DOMAIN s = 1 .. Len(s) /\ s \in [1 .. Len(s) -> V]
  OBVIOUS
<1>2. s \in [1 .. Len(s) -> Range(s)] /\ Range(s) \subseteq V
  BY <1>1 DEF Range
<1>3. s \in Seq(Range(s))
  BY <1>1, <1>2
<1>4. s \in Surjection(1 .. Len(s), Range(s))
  BY <1>1, <1>2 DEF Surjection, Range
<1>5. IsFiniteSet(1 .. Len(s))
  BY <1>1, FS_Interval
<1>6. QED
  BY <1>2, <1>3, <1>4, <1>5, FS_Surjection

-----------------------------------------------------------------------------
(* Kahn's queue.                                                           *)

\* The first i members of s.
Front(s, i) == {s[j] : j \in DOMAIN s \cap (1 .. i)}

\* s is the queue after i pops: it holds the nodes that depend on popped ones only, and
\* each of them stands behind its dependencies.
Lined(s, i, N, deps) ==
    /\ s \in Seq(N) /\ Distinct(s)
    /\ \A n \in N : n \in Range(s) <=> deps[n] \subseteq Front(s, i)
    /\ \A j \in DOMAIN s : deps[s[j]] \subseteq Front(s, j - 1)

\* new are the nodes that join the queue when its i-th node is popped.
Joins(new, s, i, N, deps) ==
    new = {n \in N : deps[n] \subseteq Front(s, i)} \ {n \in N : deps[n] \subseteq Front(s, i - 1)}

\* The front of a sequence, inside it.
LEMMA FrontInside ==
    ASSUME NEW N, NEW s \in Seq(N), NEW i \in Nat, i <= Len(s)
    PROVE  Front(s, i) = {s[j] : j \in 1 .. i}
<1>1. DOMAIN s \cap (1 .. i) = 1 .. i
  OBVIOUS
<1>2. QED
  BY <1>1, Zenon DEF Front

\* The front of a sequence, beyond its end, and when it grows.
LEMMA FrontFacts ==
    ASSUME NEW N, NEW s \in Seq(N), NEW i \in Nat
    PROVE  /\ Front(s, i) \subseteq Range(s)
           /\ Len(s) <= i => Front(s, i) = Range(s)
           /\ \A t \in Seq(N) : i <= Len(s) => Front(s \o t, i) = Front(s, i)
           /\ \A k \in Nat : i <= k => Front(s, i) \subseteq Front(s, k)
<1>1. Len(s) \in Nat /\ DOMAIN s = 1 .. Len(s)
  OBVIOUS
<1>2. Front(s, i) \subseteq Range(s)
  BY DEF Front, Range
<1>4. ASSUME Len(s) <= i PROVE Front(s, i) = Range(s)
  <2>1. DOMAIN s \cap (1 .. i) = DOMAIN s
    BY <1>1, <1>4
  <2>2. QED
    BY <2>1, Zenon DEF Front, Range
<1>5. ASSUME NEW t \in Seq(N), i <= Len(s) PROVE Front(s \o t, i) = Front(s, i)
  <2>1. DOMAIN s \cap (1 .. i) = 1 .. i /\ DOMAIN (s \o t) \cap (1 .. i) = 1 .. i
    BY <1>1, <1>5
  <2>2. \A j \in 1 .. i : (s \o t)[j] = s[j]
    BY <1>1, <1>5
  <2>3. QED
    BY <2>1, <2>2, Zenon DEF Front
<1>6. ASSUME NEW k \in Nat, i <= k PROVE Front(s, i) \subseteq Front(s, k)
  BY <1>6 DEF Front
<1>7. QED
  BY <1>2, <1>4, <1>5, <1>6

\* Popping the i-th node, when there is one, adds the nodes whose last unpopped dependency
\* it was.
LEMMA PopKeepsQueue ==
    ASSUME NEW N, NEW nodes \in Seq(N), Distinct(nodes), Range(nodes) = N,
           NEW deps, \A n \in N : deps[n] \subseteq N,
           NEW i \in Nat \ {0}, NEW s, Lined(s, i - 1, N, deps), i <= Len(s),
           NEW new, Joins(new, s, i, N, deps)
    PROVE  Lined(s \o Keep(nodes, new), i, N, deps)
<1> DEFINE t == Keep(nodes, new)
<1>1. t \in Seq(N) /\ Distinct(t) /\ Range(t) = new
  <2>1. t \in Seq(N) /\ Distinct(t) /\ Range(t) = Range(nodes) \cap new
    BY KeepFacts, Zenon
  <2>2. QED
    BY <2>1 DEF Joins
<1> HIDE DEF t
<1>2. s \in Seq(N) /\ Distinct(s) /\ Len(s) \in Nat /\ DOMAIN s = 1 .. Len(s) /\ i - 1 \in Nat /\ i \in Nat
  BY DEF Lined
<1>3. Range(s) = {n \in N : deps[n] \subseteq Front(s, i - 1)}
  <2>1. Range(s) \subseteq N
    BY <1>2 DEF Range
  <2>2. QED
    BY <2>1 DEF Lined
<1>4. s \o t \in Seq(N) /\ Distinct(s \o t) /\ Range(s \o t) = Range(s) \cup new
  <2>1. Range(s) \cap Range(t) = {}
    BY <1>1, <1>3, Zenon DEF Joins
  <2>2. s \o t \in Seq(N) /\ Distinct(s \o t) /\ Range(s \o t) = Range(s) \cup Range(t)
    BY <1>1, <1>2, <2>1, ConcatFacts
  <2>3. QED
    BY <1>1, <2>2, Zenon
<1>5. Front(s \o t, i) = Front(s, i) /\ Front(s, i - 1) \subseteq Front(s, i)
  BY <1>1, <1>2, FrontFacts
<1>6. \A n \in N : n \in Range(s \o t) <=> deps[n] \subseteq Front(s \o t, i)
  BY <1>3, <1>4, <1>5, Zenon DEF Joins
<1>7. ASSUME NEW j \in DOMAIN (s \o t) PROVE deps[(s \o t)[j]] \subseteq Front(s \o t, j - 1)
  <2>1. Len(t) \in Nat /\ DOMAIN t = 1 .. Len(t) /\ DOMAIN (s \o t) = 1 .. Len(s) + Len(t)
    BY <1>1, <1>2
  <2>2. CASE j \in 1 .. Len(s)
    <3>1. (s \o t)[j] = s[j] /\ j - 1 \in Nat /\ j - 1 <= Len(s)
      BY <1>1, <1>2, <2>2
    <3>2. deps[s[j]] \subseteq Front(s, j - 1)
      BY <1>2, <2>2 DEF Lined
    <3>3. Front(s \o t, j - 1) = Front(s, j - 1)
      BY <1>1, <1>2, <3>1, FrontFacts
    <3>4. QED
      BY <3>1, <3>2, <3>3, Zenon
  <2>3. CASE j \notin 1 .. Len(s)
    <3>1. j - Len(s) \in 1 .. Len(t) /\ (s \o t)[j] = t[j - Len(s)] /\ j - 1 \in Nat /\ i <= j - 1
      BY <1>1, <1>2, <2>1, <2>3
    <3>2. (s \o t)[j] \in new
      BY <1>1, <2>1, <3>1 DEF Range
    <3>3. deps[(s \o t)[j]] \subseteq Front(s \o t, i)
      BY <1>5, <3>2, Zenon DEF Joins
    <3>4. Front(s \o t, i) \subseteq Front(s \o t, j - 1)
      BY <1>2, <1>4, <3>1, FrontFacts, Zenon
    <3>5. QED
      BY <3>3, <3>4, Zenon
  <2>4. QED
    BY <2>2, <2>3
<1>8. QED
  BY <1>4, <1>6, <1>7, Zenon DEF Lined, t

\* Before the first pop the queue holds the nodes without dependencies.
LEMMA RootsAreQueue ==
    ASSUME NEW N, NEW nodes \in Seq(N), Distinct(nodes), Range(nodes) = N, NEW deps
    PROVE  Lined(Keep(nodes, {n \in N : deps[n] = {}}), 0, N, deps)
<1> DEFINE R == {n \in N : deps[n] = {}}
           s == Keep(nodes, R)
<1>1. s \in Seq(N) /\ Distinct(s) /\ Range(s) = Range(nodes) \cap R
  <2> HIDE DEF R
  <2>1. QED
    BY KeepFacts, Zenon
<1> HIDE DEF s
<1>2. Front(s, 0) = {}
  BY DEF Front
<1>3. \A n \in N : n \in Range(s) <=> deps[n] \subseteq Front(s, 0)
  BY <1>1, <1>2
<1>4. \A j \in DOMAIN s : deps[s[j]] = {}
  BY <1>1, SMTT(30) DEF Range
<1>5. QED
  BY <1>1, <1>3, <1>4, Zenon DEF Lined, s

\* TopoOrder lists nodes once, each behind its dependencies, and misses only nodes that
\* depend on one it misses.
LEMMA TopoFacts ==
    ASSUME NEW N, NEW nodes \in Seq(N), Distinct(nodes), Range(nodes) = N,
           NEW deps, \A n \in N : deps[n] \subseteq N
    PROVE  /\ TopoOrder(nodes, deps) \in Seq(N) /\ Distinct(TopoOrder(nodes, deps))
           /\ \A j \in DOMAIN TopoOrder(nodes, deps) :
                 deps[TopoOrder(nodes, deps)[j]] \subseteq Front(TopoOrder(nodes, deps), j - 1)
           /\ \A n \in N : n \in Range(TopoOrder(nodes, deps)) <=> deps[n] \subseteq Range(TopoOrder(nodes, deps))
<1> DEFINE n == Len(nodes)
           rest(s, i) == Range(nodes) \ {s[j] : j \in 1 .. i}
           free(s, i) == {m \in Range(nodes) : deps[m] \cap rest(s, i) = {}}
           next(s, i) == IF Len(s) < i THEN s ELSE s \o Keep(nodes, free(s, i) \ free(s, i - 1))
           pop(i) == [s \in Seq(Range(nodes)) |-> next(s, i)]
           index == [i \in DOMAIN nodes |-> i]
           base == Keep(nodes, {m \in Range(nodes) : deps[m] = {}})
           F(h) == [i \in 0 .. Len(index) |-> IF i = 0 THEN base ELSE pop(index[i])[h[i - 1]]]
           c == CHOOSE h : h = F(h)
<1>1. TopoOrder(nodes, deps) = c[Len(index)]
  BY Zenon DEF TopoOrder, FoldInOrder
<1>2. n \in Nat /\ DOMAIN nodes = 1 .. n /\ Len(index) = n /\ \A i \in 1 .. n : index[i] = i
  OBVIOUS
<1>3. base \in Seq(N) /\ Lined(base, 0, N, deps)
  <2>1. Lined(Keep(nodes, {m \in N : deps[m] = {}}), 0, N, deps)
    BY RootsAreQueue, Zenon
  <2>2. base = Keep(nodes, {m \in N : deps[m] = {}})
    BY Zenon
  <2> HIDE DEF base
  <2>3. QED
    BY <2>1, <2>2, Zenon DEF Lined
<1>4. \A s \in Seq(N) : \A i \in 1 .. n : s \o Keep(nodes, free(s, i) \ free(s, i - 1)) \in Seq(N)
  <2>1. ASSUME NEW s \in Seq(N), NEW S PROVE s \o Keep(nodes, S) \in Seq(N)
    <3>1. Keep(nodes, S) \in Seq(N)
      BY KeepFacts, Zenon
    <3>2. QED
      BY <3>1, ConcatFacts, Zenon
  <2> HIDE DEF free, n
  <2>2. QED
    BY <2>1, Zenon
<1>5. ASSUME NEW i \in 1 .. n, NEW s \in Seq(N), Lined(s, i - 1, N, deps)
      PROVE  Lined(next(s, i), i, N, deps)
  <2>1. i \in Nat \ {0} /\ i - 1 \in Nat /\ Len(s) \in Nat
    BY <1>2
  <2>2. CASE Len(s) < i
    <3>1. Front(s, i) = Range(s) /\ Front(s, i - 1) = Range(s)
      BY <2>1, <2>2, FrontFacts
    <3>2. Lined(s, i, N, deps)
      BY <1>5, <3>1 DEF Lined
    <3>3. QED
      BY <2>2, <3>2, Zenon
  <2>3. CASE ~(Len(s) < i)
    <3>1. i <= Len(s) /\ i - 1 <= Len(s)
      BY <2>1, <2>3
    <3>2. Front(s, i) = {s[j] : j \in 1 .. i} /\ Front(s, i - 1) = {s[j] : j \in 1 .. i - 1}
      <4>1. ASSUME NEW k \in Nat, k <= Len(s) PROVE Front(s, k) = {s[j] : j \in 1 .. k}
        BY <4>1, FrontInside, Zenon
      <4>2. QED
        BY <2>1, <3>1, <4>1, Zenon
    <3>3. /\ free(s, i) = {m \in N : deps[m] \subseteq Front(s, i)}
          /\ free(s, i - 1) = {m \in N : deps[m] \subseteq Front(s, i - 1)}
      BY <3>2, Zenon
    <3>4. Joins(free(s, i) \ free(s, i - 1), s, i, N, deps)
      BY <3>3, Zenon DEF Joins
    <3> HIDE DEF free
    <3>5. Lined(s \o Keep(nodes, free(s, i) \ free(s, i - 1)), i, N, deps)
      BY <1>5, <2>1, <3>1, <3>4, PopKeepsQueue, Zenon
    <3>6. QED
      BY <2>3, <3>5, Zenon
  <2>4. QED
    BY <2>2, <2>3
<1> DEFINE step == [i \in 1 .. n |-> pop(i)]
           T == {i \in 0 .. n : Lined(c[i], i, N, deps)}
<1>6. \A i \in 1 .. n : \A s \in Seq(N) : next(s, i) \in Seq(N)
  <2> HIDE DEF free, n
  <2>1. QED
    BY <1>4, Zenon
<1> HIDE DEF next, n, index, base, c
<1>7. /\ step \in [1 .. n -> [Seq(N) -> Seq(N)]]
      /\ \A i \in 1 .. n : \A s \in Seq(N) : step[i][s] = next(s, i) /\ pop(i)[s] = next(s, i)
  BY <1>6, Zenon
<1> HIDE DEF step, pop
<1>8. c = F(c)
  <2>1. PICK f : IsFold(f, Seq(N), base, n, step)
    BY <1>2, <1>3, <1>7, FoldExists, Zenon
  <2>2. f \in [0 .. n -> Seq(N)] /\ f[0] = base /\ \A i \in 1 .. n : f[i] = step[i][f[i - 1]]
    BY <2>1, Zenon DEF IsFold
  <2>3. \A i \in 0 .. n : f[i] = IF i = 0 THEN base ELSE pop(index[i])[f[i - 1]]
    <3>1. \A i \in 1 .. n : f[i - 1] \in Seq(N)
      BY <1>2, <2>2, Indices, Zenon
    <3>2. \A i \in 1 .. n : f[i] = pop(index[i])[f[i - 1]]
      <4>1. ASSUME NEW i \in 1 .. n PROVE f[i] = pop(i)[f[i - 1]]
        BY <1>7, <2>2, <3>1, Zenon
      <4>2. QED
        BY <1>2, <4>1, Zenon
    <3>3. QED
      BY <1>2, <2>2, <3>2, Indices, Zenon
  <2>4. f = F(f)
    BY <1>2, <2>2, <2>3, Zenon
  <2> HIDE DEF F
  <2>5. QED
    BY <2>4, Zenon DEF c
<1>9. c[0] = base /\ \A i \in 1 .. n : c[i] = pop(i)[c[i - 1]]
  <2>1. \A i \in 0 .. n : c[i] = IF i = 0 THEN base ELSE pop(index[i])[c[i - 1]]
    BY <1>2, <1>8, Zenon
  <2>2. QED
    BY <1>2, <2>1, Indices, Zenon
<1>10. 0 \in T
  BY <1>2, <1>3, <1>9, Indices, Zenon
<1>11. ASSUME NEW i \in 1 .. n, i - 1 \in T PROVE i \in T
  <2>1. Lined(c[i - 1], i - 1, N, deps) /\ c[i - 1] \in Seq(N) /\ i \in 0 .. n
    BY <1>2, <1>11, Indices, Zenon DEF Lined
  <2>2. c[i] = next(c[i - 1], i)
    BY <1>7, <1>9, <2>1, Zenon
  <2>3. Lined(c[i], i, N, deps)
    BY <1>5, <2>1, <2>2, Zenon
  <2>4. QED
    BY <2>1, <2>3
<1>12. Lined(c[n], n, N, deps)
  <2> HIDE DEF T
  <2>1. 0 .. n \subseteq T
    BY <1>2, <1>10, <1>11, UpTo, Zenon
  <2>2. n \in T
    BY <1>2, <2>1, Indices, Zenon
  <2>3. QED
    BY <2>2, Zenon DEF T
<1>13. Front(c[n], n) = Range(c[n])
  <2>1. IsFiniteSet(N)
    BY RangeFinite
  <2>2. c[n] \in Seq(N) /\ Distinct(c[n])
    BY <1>12, Zenon DEF Lined
  <2>3. Len(c[n]) <= Cardinality(N) /\ n = Cardinality(N)
    BY <2>1, <2>2, DistinctLength DEF n
  <2>4. QED
    BY <1>2, <2>2, <2>3, FrontFacts
<1>14. TopoOrder(nodes, deps) = c[n]
  BY <1>1, <1>2, Zenon
<1>15. QED
  BY <1>12, <1>13, <1>14, Zenon DEF Lined

-----------------------------------------------------------------------------
(* Compile.                                                                *)

\* What Build leaves behind: every id once, registered types, and dependencies among
\* the ids.
Built(g) ==
    /\ DOMAIN g = {"ids", "type", "deps", "order", "ok"}
    /\ g.ids \in Seq(Range(g.ids)) /\ Distinct(g.ids)
    /\ g.type \in [Range(g.ids) -> Registry]
    /\ g.deps \in [Range(g.ids) -> SUBSET Range(g.ids)]
    /\ g.ok \in BOOLEAN

\* No op depends on itself, directly or not: each set of ops has one that depends on none
\* of them.
Acyclic(g) == \A S \in SUBSET Range(g.ids) : S # {} => \E n \in S : g.deps[n] \cap S = {}

\* What Compile does to the record.
LEMMA CompileFields ==
    ASSUME NEW g, Built(g)
    PROVE  /\ DOMAIN Compile(g) = DOMAIN g
           /\ Compile(g).ids = g.ids /\ Compile(g).deps = g.deps /\ Compile(g).type = g.type
           /\ Compile(g).order = TopoOrder(g.ids, g.deps)
           /\ Compile(g).ok = (Len(TopoOrder(g.ids, g.deps)) = Len(g.ids))
<1> DEFINE s == TopoOrder(g.ids, g.deps)
<1>1. Compile(g) = [g EXCEPT !.order = s, !.ok = Len(s) = Len(g.ids)]
  BY Zenon DEF Compile
<1> HIDE DEF s
<1>2. /\ DOMAIN Compile(g) = DOMAIN g
      /\ Compile(g).ids = g.ids /\ Compile(g).deps = g.deps /\ Compile(g).type = g.type
      /\ Compile(g).order = s /\ Compile(g).ok = (Len(s) = Len(g.ids))
  BY <1>1 DEF Built
<1>3. QED
  BY <1>2 DEF s

\* OpGraph::Compile throws unless Kahn's queue has listed every op; when it returns,
\* order_ lists every op once, behind the ops it depends on.
THEOREM CompileOrders == \A g : Built(g) /\ Compile(g).ok => Compiled(Compile(g))
<1> SUFFICES ASSUME NEW g, Built(g), Compile(g).ok PROVE Compiled(Compile(g))
  OBVIOUS
<1> DEFINE s == TopoOrder(g.ids, g.deps)
           N == Range(g.ids)
<1>1. g.ids \in Seq(N) /\ Distinct(g.ids) /\ g.deps \in [N -> SUBSET N]
  BY DEF Built
<1>2. /\ Compile(g).ids = g.ids /\ Compile(g).deps = g.deps /\ Compile(g).order = s
      /\ Len(s) = Len(g.ids)
  BY CompileFields, Zenon
<1>3. IsFiniteSet(N) /\ \A n \in N : g.deps[n] \subseteq N
  BY <1>1, RangeFinite
<1>4. /\ s \in Seq(N) /\ Distinct(s)
      /\ \A j \in DOMAIN s : g.deps[s[j]] \subseteq Front(s, j - 1)
  BY <1>1, <1>3, TopoFacts, Zenon
<1> HIDE DEF s, N
<1>5. Range(s) = N
  <2>1. Len(g.ids) = Cardinality(N)
    BY <1>1, <1>3, DistinctLength, Zenon DEF N
  <2>2. QED
    BY <1>2, <1>3, <1>4, <2>1, DistinctLength, Zenon
<1>6. ASSUME NEW j \in DOMAIN s PROVE g.deps[s[j]] \subseteq {s[k] : k \in 1 .. j - 1}
  <2>1. j - 1 \in Nat /\ j - 1 <= Len(s)
    BY <1>4
  <2>2. Front(s, j - 1) = {s[k] : k \in 1 .. j - 1}
    BY <1>4, <2>1, FrontInside, Zenon
  <2>3. QED
    BY <1>4, <2>2, Zenon
<1> DEFINE h == Compile(g)
<1>7. Range(h.ids) = N /\ h.deps = g.deps /\ h.order = s
  BY <1>2, Zenon DEF N
<1> HIDE DEF h
<1>8. /\ IsFiniteSet(Range(h.ids)) /\ h.deps \in [Range(h.ids) -> SUBSET Range(h.ids)]
      /\ h.order \in Seq(Range(h.ids)) /\ Range(h.order) = Range(h.ids)
  BY <1>1, <1>3, <1>4, <1>5, <1>7
<1>9. Distinct(h.order)
  BY <1>4, <1>7, Zenon
<1> DEFINE Behind(q, deps) == \A i \in DOMAIN q : deps[q[i]] \subseteq {q[j] : j \in 1 .. i - 1}
<1>10. Behind(h.order, h.deps)
  <2>1. Behind(s, g.deps)
    BY <1>6, Zenon
  <2> HIDE DEF Behind
  <2>2. QED
    BY <1>7, <2>1, Zenon
<1>11. Compiled(h)
  BY <1>8, <1>9, <1>10, Zenon DEF Compiled
<1>12. QED
  BY <1>11, Zenon DEF h

\* OpGraph::Compile throws exactly for the graphs that have a cycle.
THEOREM CompileAcceptsDags == \A g : Built(g) => (Compile(g).ok <=> Acyclic(g))
<1> SUFFICES ASSUME NEW g, Built(g) PROVE Compile(g).ok <=> Acyclic(g)
  OBVIOUS
<1> DEFINE s == TopoOrder(g.ids, g.deps)
           N == Range(g.ids)
<1>1. g.ids \in Seq(N) /\ Distinct(g.ids) /\ g.deps \in [N -> SUBSET N]
  BY DEF Built
<1>2. Compile(g).ok <=> Len(s) = Len(g.ids)
  BY CompileFields, Zenon
<1>3. IsFiniteSet(N) /\ \A n \in N : g.deps[n] \subseteq N
  BY <1>1, RangeFinite
<1>4. /\ s \in Seq(N) /\ Distinct(s)
      /\ \A j \in DOMAIN s : g.deps[s[j]] \subseteq Front(s, j - 1)
      /\ \A n \in N : n \in Range(s) <=> g.deps[n] \subseteq Range(s)
  BY <1>1, <1>3, TopoFacts, Zenon
<1>5. Compile(g).ok <=> Range(s) = N
  <2> HIDE DEF s
  <2>1. Len(g.ids) = Cardinality(N)
    BY <1>1, <1>3, DistinctLength, Zenon
  <2>2. QED
    BY <1>2, <1>3, <1>4, <2>1, DistinctLength, Zenon
<1> HIDE DEF s
<1>6. ASSUME Range(s) # N PROVE ~Acyclic(g)
  <2>1. Range(s) \subseteq N
    BY <1>4, RangeFinite
  <2>2. N \ Range(s) # {} /\ N \ Range(s) \in SUBSET N
    BY <1>6, <2>1
  <2>3. \A n \in N \ Range(s) : g.deps[n] \cap (N \ Range(s)) # {}
    BY <1>3, <1>4
  <2>4. QED
    BY <2>2, <2>3, Zenon DEF Acyclic
<1>7. ASSUME Range(s) = N PROVE Acyclic(g)
  <2> SUFFICES ASSUME NEW S \in SUBSET N, \A n \in S : g.deps[n] \cap S # {}
               PROVE  S = {}
    BY DEF Acyclic
  <2> DEFINE T == {i \in 0 .. Len(s) : S \cap Front(s, i) = {}}
  <2>1. Len(s) \in Nat /\ DOMAIN s = 1 .. Len(s)
    BY <1>4
  <2>2. 0 \in T
    BY <2>1 DEF Front
  <2>3. ASSUME NEW i \in 1 .. Len(s), i - 1 \in T PROVE i \in T
    <3>1. S \cap Front(s, i - 1) = {} /\ i \in 0 .. Len(s)
      BY <2>1, <2>3
    <3>2. g.deps[s[i]] \subseteq Front(s, i - 1)
      BY <1>4, <2>1
    <3>3. s[i] \notin S
      BY <3>1, <3>2
    <3>4. Front(s, i) = Front(s, i - 1) \cup {s[i]}
      BY <2>1 DEF Front
    <3>5. QED
      BY <3>1, <3>3, <3>4
  <2>4. Len(s) \in T
    <3> HIDE DEF T
    <3>1. 0 .. Len(s) \subseteq T
      BY <2>1, <2>2, <2>3, UpTo, Zenon
    <3>2. QED
      BY <2>1, <3>1, Indices, Zenon
  <2>5. Front(s, Len(s)) = N
    BY <1>4, <1>7, <2>1, FrontFacts
  <2>6. QED
    BY <2>4, <2>5
<1>8. QED
  BY <1>5, <1>6, <1>7

-----------------------------------------------------------------------------
(* Build.                                                                  *)

Segment(I, Y) == [id : I, type : Y]
Definition(I, Y) == [id : I, type : Y, deps : Seq(I)]
Parsed(I, Y) == [defs : Seq(Definition(I, Y)), ok : BOOLEAN]

\* The graphs over the ids I that Build goes through.
Partial(I) ==
    {g \in [ids : Seq(I), type : UNION {[A -> Registry] : A \in SUBSET I},
            deps : UNION {[A -> SUBSET I] : A \in SUBSET I}, order : {<<>>}, ok : BOOLEAN] : Built(g)}

\* Membership, field by field.
LEMMA PartialFields ==
    ASSUME NEW I, NEW ids \in Seq(I), Distinct(ids), NEW type \in [Range(ids) -> Registry],
           NEW deps \in [Range(ids) -> SUBSET Range(ids)], NEW ok \in BOOLEAN
    PROVE  [ids |-> ids, type |-> type, deps |-> deps, order |-> <<>>, ok |-> ok] \in Partial(I)
<1> DEFINE g == [ids |-> ids, type |-> type, deps |-> deps, order |-> <<>>, ok |-> ok]
<1>1. ids \in Seq(Range(ids)) /\ Range(ids) \subseteq I
  BY RangeFinite
<1>2. /\ g.ids = ids /\ g.type = type /\ g.deps = deps /\ g.ok = ok
      /\ DOMAIN g = {"ids", "type", "deps", "order", "ok"}
  OBVIOUS
<1>3. Built(g)
  <2> HIDE DEF g
  <2>1. QED
    BY <1>1, <1>2, Zenon DEF Built
<1>4. type \in UNION {[A -> Registry] : A \in SUBSET I} /\ deps \in UNION {[A -> SUBSET I] : A \in SUBSET I}
  <2>1. deps \in [Range(ids) -> SUBSET I]
    BY <1>1
  <2>2. QED
    BY <1>1, <2>1, Zenon
<1> DEFINE K == UNION {[A -> Registry] : A \in SUBSET I}
           L == UNION {[A -> SUBSET I] : A \in SUBSET I}
<1>5. g \in [ids : Seq(I), type : K, deps : L, order : {<<>>}, ok : BOOLEAN]
  <2> HIDE DEF K, L
  <2>1. type \in K /\ deps \in L
    BY <1>4, Zenon DEF K, L
  <2>2. QED
    BY <2>1
<1>6. QED
  BY <1>3, <1>5, Zenon DEF Partial

\* What a member is.
LEMMA PartialIs ==
    ASSUME NEW I, NEW g \in Partial(I)
    PROVE  /\ g = [ids |-> g.ids, type |-> g.type, deps |-> g.deps, order |-> <<>>, ok |-> g.ok]
           /\ g.ids \in Seq(I) /\ Distinct(g.ids) /\ g.type \in [Range(g.ids) -> Registry]
           /\ g.deps \in [Range(g.ids) -> SUBSET Range(g.ids)] /\ g.ok \in BOOLEAN
<1> DEFINE K == UNION {[A -> Registry] : A \in SUBSET I}
           L == UNION {[A -> SUBSET I] : A \in SUBSET I}
<1>1. g \in [ids : Seq(I), type : K, deps : L, order : {<<>>}, ok : BOOLEAN] /\ Built(g)
  BY Zenon DEF Partial
<1> HIDE DEF K, L
<1>2. g = [ids |-> g.ids, type |-> g.type, deps |-> g.deps, order |-> <<>>, ok |-> g.ok] /\ g.ids \in Seq(I)
  BY <1>1
<1>3. QED
  BY <1>1, <1>2, Zenon DEF Built

\* An operation that throws leaves the rest of the graph alone.
LEMMA FlagStays ==
    ASSUME NEW I, NEW g \in Partial(I), NEW b \in BOOLEAN
    PROVE  [g EXCEPT !.ok = b] \in Partial(I)
<1>1. PICK ids, type, deps, ok :
         /\ g = [ids |-> ids, type |-> type, deps |-> deps, order |-> <<>>, ok |-> ok]
         /\ ids \in Seq(I) /\ Distinct(ids) /\ type \in [Range(ids) -> Registry]
         /\ deps \in [Range(ids) -> SUBSET Range(ids)]
  BY PartialIs, Zenon
<1>2. [g EXCEPT !.ok = b] = [ids |-> ids, type |-> type, deps |-> deps, order |-> <<>>, ok |-> b]
  BY <1>1
<1>3. [ids |-> ids, type |-> type, deps |-> deps, order |-> <<>>, ok |-> b] \in Partial(I)
  BY <1>1, PartialFields, Zenon
<1>4. QED
  BY <1>2, <1>3

\* OpGraph::AddOp.
LEMMA AddOpStays ==
    ASSUME NEW I, NEW g \in Partial(I), NEW id \in I, NEW type \in Registry
    PROVE  AddOp(g, id, type) \in Partial(I)
<1>1. CASE id \in Range(g.ids)
  BY <1>1, FlagStays, Zenon DEF AddOp
<1>2. CASE id \notin Range(g.ids)
  <2> DEFINE ids == Append(g.ids, id)
             types == Emplace(g.type, id, type)
             deps == Emplace(g.deps, id, {})
  <2>1. /\ g.ids \in Seq(I) /\ Distinct(g.ids) /\ g.type \in [Range(g.ids) -> Registry]
        /\ g.deps \in [Range(g.ids) -> SUBSET Range(g.ids)] /\ g.ok \in BOOLEAN
    BY PartialIs, Zenon
  <2>2. ids \in Seq(I) /\ Distinct(ids) /\ Range(ids) = Range(g.ids) \cup {id}
    BY <1>2, <2>1, AppendFresh
  <2>3. types \in [Range(g.ids) \cup {id} -> Registry]
    BY <2>1 DEF Emplace
  <2>4. deps \in [Range(g.ids) \cup {id} -> SUBSET (Range(g.ids) \cup {id})]
    BY <2>1 DEF Emplace
  <2>5. AddOp(g, id, type) = [g EXCEPT !.ids = ids, !.type = types, !.deps = deps]
    BY <1>2, Zenon DEF AddOp
  <2> HIDE DEF ids, types, deps
  <2>6. PICK i, t, d, ok : g = [ids |-> i, type |-> t, deps |-> d, order |-> <<>>, ok |-> ok] /\ ok \in BOOLEAN
    BY PartialIs, Zenon
  <2>7. AddOp(g, id, type) = [ids |-> ids, type |-> types, deps |-> deps, order |-> <<>>, ok |-> ok]
    BY <2>5, <2>6, Zenon
  <2>8. types \in [Range(ids) -> Registry] /\ deps \in [Range(ids) -> SUBSET Range(ids)]
    BY <2>2, <2>3, <2>4, Zenon
  <2>9. QED
    BY <2>2, <2>6, <2>7, <2>8, PartialFields, Zenon
<1>3. QED
  BY <1>1, <1>2

\* OpGraph::DependsOn.
LEMMA DependsOnStays ==
    ASSUME NEW I, NEW g \in Partial(I), NEW dep, NEW dependent
    PROVE  DependsOn(g, dep, dependent) \in Partial(I)
<1>1. CASE {dep, dependent} \subseteq Range(g.ids)
  <2>1. PICK ids, type, deps, ok :
           /\ g = [ids |-> ids, type |-> type, deps |-> deps, order |-> <<>>, ok |-> ok]
           /\ ids \in Seq(I) /\ Distinct(ids) /\ type \in [Range(ids) -> Registry]
           /\ deps \in [Range(ids) -> SUBSET Range(ids)] /\ ok \in BOOLEAN
    BY PartialIs, Zenon
  <2> DEFINE linked == [deps EXCEPT ![dependent] = @ \cup {dep}]
  <2>2. g.ids = ids
    BY <2>1
  <2>3. linked \in [Range(ids) -> SUBSET Range(ids)]
    BY <1>1, <2>1, <2>2
  <2>4. DependsOn(g, dep, dependent) = [g EXCEPT !.deps[dependent] = @ \cup {dep}]
    BY <1>1, Zenon DEF DependsOn
  <2>5. DependsOn(g, dep, dependent) = [ids |-> ids, type |-> type, deps |-> linked, order |-> <<>>, ok |-> ok]
    BY <2>1, <2>4, Zenon
  <2> HIDE DEF linked
  <2>6. QED
    BY <2>1, <2>3, <2>5, PartialFields, ZenonT(60)
<1>2. CASE ~({dep, dependent} \subseteq Range(g.ids))
  BY <1>2, FlagStays, Zenon DEF DependsOn
<1>3. QED
  BY <1>1, <1>2

\* The loop of Build that creates the ops.
LEMMA CreateStays ==
    ASSUME NEW I, NEW Y, NEW defs \in Seq(Definition(I, Y)), NEW empty \in Partial(I)
    PROVE  FoldInOrder(Create, empty, defs) \in Partial(I)
<1> DEFINE n == Len(defs)
           turn(x, d) == Create(x, d)
           step == [i \in 1 .. n |-> [x \in Partial(I) |-> turn(x, defs[i])]]
           F(h) == [i \in 0 .. n |-> IF i = 0 THEN empty ELSE turn(h[i - 1], defs[i])]
           c == CHOOSE h : h = F(h)
<1>1. FoldInOrder(Create, empty, defs) = c[n]
  BY Zenon DEF FoldInOrder
<1>2. n \in Nat /\ \A i \in 1 .. n : defs[i] \in Definition(I, Y)
  OBVIOUS
<1>3. \A i \in 1 .. n : \A x \in Partial(I) : turn(x, defs[i]) \in Partial(I)
  <2>1. ASSUME NEW d \in Definition(I, Y), NEW x \in Partial(I) PROVE turn(x, d) \in Partial(I)
    <3>1. d.id \in I
      BY DEF Definition
    <3>2. [x EXCEPT !.ok = FALSE] \in Partial(I)
      BY FlagStays, Zenon
    <3>3. d.type \in Registry => AddOp(x, d.id, d.type) \in Partial(I)
      BY <3>1, AddOpStays, Zenon
    <3>4. QED
      BY <3>2, <3>3, Zenon DEF Create
  <2> HIDE DEF turn, n
  <2>2. QED
    BY <1>2, <2>1, Zenon
<1> HIDE DEF n, turn, c
<1>4. /\ step \in [1 .. n -> [Partial(I) -> Partial(I)]]
      /\ \A i \in 1 .. n : \A x \in Partial(I) : step[i][x] = turn(x, defs[i])
  BY <1>3, Zenon
<1> HIDE DEF step
<1>5. c = F(c)
  <2>1. PICK f : IsFold(f, Partial(I), empty, n, step)
    BY <1>2, <1>4, FoldExists, Zenon
  <2>2. f \in [0 .. n -> Partial(I)] /\ f[0] = empty /\ \A i \in 1 .. n : f[i] = step[i][f[i - 1]]
    BY <2>1, Zenon DEF IsFold
  <2>3. \A i \in 0 .. n : f[i] = IF i = 0 THEN empty ELSE turn(f[i - 1], defs[i])
    BY <1>2, <1>4, <2>2, Indices, Zenon
  <2>4. f = F(f)
    BY <2>2, <2>3, Zenon
  <2> HIDE DEF F
  <2>5. QED
    BY <2>4, Zenon DEF c
<1>6. c[0] = empty /\ \A i \in 1 .. n : c[i] = turn(c[i - 1], defs[i])
  <2>1. \A i \in 0 .. n : c[i] = IF i = 0 THEN empty ELSE turn(c[i - 1], defs[i])
    BY <1>5, Zenon
  <2>2. QED
    BY <1>2, <2>1, Indices, Zenon
<1>7. \A i \in 0 .. n : c[i] \in Partial(I)
  <2>1. c[0] \in Partial(I) /\ \A i \in 1 .. n : c[i - 1] \in Partial(I) => c[i] \in Partial(I)
    BY <1>3, <1>6, Zenon
  <2>2. QED
    BY <1>2, <2>1, RunStays, Zenon
<1>8. QED
  BY <1>1, <1>2, <1>7, Indices, Zenon

\* The inner loop of Build that links an op to its dependencies.
LEMMA LinkStays ==
    ASSUME NEW I, NEW Y, NEW g \in Partial(I), NEW e \in Definition(I, Y)
    PROVE  Link(g, e) \in Partial(I)
<1> DEFINE n == Len(e.deps)
           turn(x, d) == IF x.ok THEN DependsOn(x, d, e.id) ELSE x
           step == [i \in 1 .. n |-> [x \in Partial(I) |-> turn(x, e.deps[i])]]
           F(h) == [i \in 0 .. n |-> IF i = 0 THEN g ELSE turn(h[i - 1], e.deps[i])]
           c == CHOOSE h : h = F(h)
<1>1. Link(g, e) = c[n]
  BY Zenon DEF Link, FoldInOrder
<1>2. n \in Nat /\ \A i \in 1 .. n : e.deps[i] \in I
  BY DEF Definition
<1>3. \A i \in 1 .. n : \A x \in Partial(I) : turn(x, e.deps[i]) \in Partial(I)
  <2> HIDE DEF n
  <2>1. QED
    BY DependsOnStays, Zenon
<1> HIDE DEF n, turn, c
<1>4. /\ step \in [1 .. n -> [Partial(I) -> Partial(I)]]
      /\ \A i \in 1 .. n : \A x \in Partial(I) : step[i][x] = turn(x, e.deps[i])
  BY <1>3, Zenon
<1> HIDE DEF step
<1>5. c = F(c)
  <2>1. PICK f : IsFold(f, Partial(I), g, n, step)
    BY <1>2, <1>4, FoldExists, Zenon
  <2>2. f \in [0 .. n -> Partial(I)] /\ f[0] = g /\ \A i \in 1 .. n : f[i] = step[i][f[i - 1]]
    BY <2>1, Zenon DEF IsFold
  <2>3. \A i \in 0 .. n : f[i] = IF i = 0 THEN g ELSE turn(f[i - 1], e.deps[i])
    BY <1>2, <1>4, <2>2, Indices, Zenon
  <2>4. f = F(f)
    BY <2>2, <2>3, Zenon
  <2> HIDE DEF F
  <2>5. QED
    BY <2>4, Zenon DEF c
<1>6. c[0] = g /\ \A i \in 1 .. n : c[i] = turn(c[i - 1], e.deps[i])
  <2>1. \A i \in 0 .. n : c[i] = IF i = 0 THEN g ELSE turn(c[i - 1], e.deps[i])
    BY <1>5, Zenon
  <2>2. QED
    BY <1>2, <2>1, Indices, Zenon
<1>7. \A i \in 0 .. n : c[i] \in Partial(I)
  <2>1. c[0] \in Partial(I) /\ \A i \in 1 .. n : c[i - 1] \in Partial(I) => c[i] \in Partial(I)
    BY <1>3, <1>6, Zenon
  <2>2. QED
    BY <1>2, <2>1, RunStays, Zenon
<1>8. QED
  BY <1>1, <1>2, <1>7, Indices, Zenon

\* The outer loop of Build that links the ops.
LEMMA LinkAllStays ==
    ASSUME NEW I, NEW Y, NEW defs \in Seq(Definition(I, Y)), NEW base \in Partial(I)
    PROVE  FoldInOrder(Link, base, defs) \in Partial(I)
<1> DEFINE n == Len(defs)
           turn(x, d) == Link(x, d)
           step == [i \in 1 .. n |-> [x \in Partial(I) |-> turn(x, defs[i])]]
           F(h) == [i \in 0 .. n |-> IF i = 0 THEN base ELSE turn(h[i - 1], defs[i])]
           c == CHOOSE h : h = F(h)
<1>1. FoldInOrder(Link, base, defs) = c[n]
  BY Zenon DEF FoldInOrder
<1>2. n \in Nat /\ \A i \in 1 .. n : defs[i] \in Definition(I, Y)
  OBVIOUS
<1>3. \A i \in 1 .. n : \A x \in Partial(I) : turn(x, defs[i]) \in Partial(I)
  <2>1. ASSUME NEW d \in Definition(I, Y), NEW x \in Partial(I) PROVE turn(x, d) \in Partial(I)
    BY LinkStays, ZenonT(60)
  <2> HIDE DEF turn, n
  <2>2. QED
    BY <1>2, <2>1, Zenon
<1> HIDE DEF n, turn, c
<1>4. /\ step \in [1 .. n -> [Partial(I) -> Partial(I)]]
      /\ \A i \in 1 .. n : \A x \in Partial(I) : step[i][x] = turn(x, defs[i])
  BY <1>3, Zenon
<1> HIDE DEF step
<1>5. c = F(c)
  <2>1. PICK f : IsFold(f, Partial(I), base, n, step)
    BY <1>2, <1>4, FoldExists, Zenon
  <2>2. f \in [0 .. n -> Partial(I)] /\ f[0] = base /\ \A i \in 1 .. n : f[i] = step[i][f[i - 1]]
    BY <2>1, Zenon DEF IsFold
  <2>3. \A i \in 0 .. n : f[i] = IF i = 0 THEN base ELSE turn(f[i - 1], defs[i])
    BY <1>2, <1>4, <2>2, Indices, Zenon
  <2>4. f = F(f)
    BY <2>2, <2>3, Zenon
  <2> HIDE DEF F
  <2>5. QED
    BY <2>4, Zenon DEF c
<1>6. c[0] = base /\ \A i \in 1 .. n : c[i] = turn(c[i - 1], defs[i])
  <2>1. \A i \in 0 .. n : c[i] = IF i = 0 THEN base ELSE turn(c[i - 1], defs[i])
    BY <1>5, Zenon
  <2>2. QED
    BY <1>2, <2>1, Indices, Zenon
<1>7. \A i \in 0 .. n : c[i] \in Partial(I)
  <2>1. c[0] \in Partial(I) /\ \A i \in 1 .. n : c[i - 1] \in Partial(I) => c[i] \in Partial(I)
    BY <1>3, <1>6, Zenon
  <2>2. QED
    BY <1>2, <2>1, RunStays, Zenon
<1>8. QED
  BY <1>1, <1>2, <1>7, Indices, Zenon

\* ensure: a segment of a chain is defined, or is one that is.
LEMMA EnsureStays ==
    ASSUME NEW I, NEW Y, NEW acc \in Parsed(I, Y), NEW seg \in Segment(I, Y)
    PROVE  ensure(acc, seg) \in Parsed(I, Y)
<1> DEFINE known == {i \in DOMAIN acc.defs : acc.defs[i].id = seg.id}
           new == [id |-> seg.id, type |-> seg.type, deps |-> <<>>]
           same == acc.ok /\ \A i \in known : acc.defs[i].type = seg.type
<1>1. ensure(acc, seg) = IF known = {} THEN [acc EXCEPT !.defs = Append(@, new)] ELSE [acc EXCEPT !.ok = same]
  BY Zenon DEF ensure
<1>2. new \in Definition(I, Y) /\ same \in BOOLEAN
  BY DEF Segment, Definition
<1> HIDE DEF known, new, same
<1>3. acc.defs \in Seq(Definition(I, Y)) /\ acc \in [defs : Seq(Definition(I, Y)), ok : BOOLEAN]
  BY DEF Parsed
<1>4. Append(acc.defs, new) \in Seq(Definition(I, Y))
  BY <1>2, <1>3
<1>5. [acc EXCEPT !.defs = Append(@, new)] \in Parsed(I, Y) /\ [acc EXCEPT !.ok = same] \in Parsed(I, Y)
  BY <1>2, <1>3, <1>4 DEF Parsed
<1>6. QED
  BY <1>1, <1>5, Zenon

\* A link adds to the dependencies of one definition.
LEMMA AddLinkStays ==
    ASSUME NEW I, NEW Y, NEW acc \in Parsed(I, Y), NEW prev \in I, NEW id
    PROVE  AddLink(acc, prev, id) \in Parsed(I, Y)
<1> DEFINE linked(d) == IF d.id = id THEN [d EXCEPT !.deps = Append(@, prev)] ELSE d
           defs == [i \in DOMAIN acc.defs |-> linked(acc.defs[i])]
<1>1. AddLink(acc, prev, id) = [acc EXCEPT !.defs = defs]
  BY Zenon DEF AddLink
<1>2. ASSUME NEW d \in Definition(I, Y) PROVE linked(d) \in Definition(I, Y)
  <2>1. Append(d.deps, prev) \in Seq(I)
    BY DEF Definition
  <2>2. QED
    BY <2>1 DEF Definition
<1> HIDE DEF linked
<1>3. acc.defs \in Seq(Definition(I, Y)) /\ acc \in [defs : Seq(Definition(I, Y)), ok : BOOLEAN]
  BY DEF Parsed
<1>4. defs \in Seq(Definition(I, Y))
  BY <1>2, <1>3
<1> HIDE DEF defs
<1>5. QED
  BY <1>1, <1>3, <1>4 DEF Parsed

\* The loop of ParseChain over the segments of a chain.
LEMMA ChainStays ==
    ASSUME NEW I, NEW Y, NEW chain \in Seq(Segment(I, Y)), NEW acc \in Parsed(I, Y)
    PROVE  ParseChain(acc, chain) \in Parsed(I, Y)
<1> DEFINE index == [i \in DOMAIN chain |-> i]
           n == Len(chain)
           turn(x, d) == ParseSegment(x, chain, d)
           step == [i \in 1 .. n |-> [x \in Parsed(I, Y) |-> turn(x, index[i])]]
           F(h) == [i \in 0 .. Len(index) |-> IF i = 0 THEN acc ELSE turn(h[i - 1], index[i])]
           c == CHOOSE h : h = F(h)
<1>1. ParseChain(acc, chain) = c[Len(index)]
  BY Zenon DEF ParseChain, FoldInOrder
<1>2. n \in Nat /\ Len(index) = n /\ \A i \in 1 .. n : index[i] = i /\ chain[i] \in Segment(I, Y)
  OBVIOUS
<1>3. \A i \in 1 .. n : \A x \in Parsed(I, Y) : turn(x, index[i]) \in Parsed(I, Y)
  <2>1. ASSUME NEW i \in 1 .. n, NEW x \in Parsed(I, Y) PROVE ParseSegment(x, chain, i) \in Parsed(I, Y)
    <3> DEFINE e == ensure(x, chain[i])
    <3>1. e \in Parsed(I, Y)
      BY <1>2, EnsureStays, Zenon
    <3>2. CASE i = 1
      BY <3>1, <3>2, Zenon DEF ParseSegment
    <3>3. CASE i # 1
      <4>1. i - 1 \in 1 .. n
        BY <3>3
      <4>2. chain[i - 1].id \in I
        BY <1>2, <4>1, Zenon DEF Segment
      <4> HIDE DEF e
      <4>3. AddLink(e, chain[i - 1].id, chain[i].id) \in Parsed(I, Y)
        BY <3>1, <4>2, AddLinkStays, Zenon
      <4>4. QED
        BY <3>1, <3>3, <4>3, Zenon DEF ParseSegment, e
    <3>4. QED
      BY <3>2, <3>3
  <2> HIDE DEF n, index
  <2>2. QED
    BY <1>2, <2>1, Zenon
<1> HIDE DEF n, turn, c, index
<1>4. /\ step \in [1 .. n -> [Parsed(I, Y) -> Parsed(I, Y)]]
      /\ \A i \in 1 .. n : \A x \in Parsed(I, Y) : step[i][x] = turn(x, index[i])
  BY <1>3, Zenon
<1> HIDE DEF step
<1>5. c = F(c)
  <2>1. PICK f : IsFold(f, Parsed(I, Y), acc, n, step)
    BY <1>2, <1>4, FoldExists, Zenon
  <2>2. f \in [0 .. n -> Parsed(I, Y)] /\ f[0] = acc /\ \A i \in 1 .. n : f[i] = step[i][f[i - 1]]
    BY <2>1, Zenon DEF IsFold
  <2>3. \A i \in 0 .. n : f[i] = IF i = 0 THEN acc ELSE turn(f[i - 1], index[i])
    BY <1>2, <1>4, <2>2, Indices, Zenon
  <2>4. f = F(f)
    BY <1>2, <2>2, <2>3, Zenon
  <2> HIDE DEF F
  <2>5. QED
    BY <2>4, Zenon DEF c
<1>6. c[0] = acc /\ \A i \in 1 .. n : c[i] = turn(c[i - 1], index[i])
  <2>1. \A i \in 0 .. n : c[i] = IF i = 0 THEN acc ELSE turn(c[i - 1], index[i])
    BY <1>2, <1>5, Zenon
  <2>2. QED
    BY <1>2, <2>1, Indices, Zenon
<1>7. \A i \in 0 .. n : c[i] \in Parsed(I, Y)
  <2>1. c[0] \in Parsed(I, Y) /\ \A i \in 1 .. n : c[i - 1] \in Parsed(I, Y) => c[i] \in Parsed(I, Y)
    BY <1>3, <1>6, Zenon
  <2>2. QED
    BY <1>2, <2>1, RunStays, Zenon
<1>8. QED
  BY <1>1, <1>2, <1>7, Indices, Zenon

\* The loop over the chains of a source.
LEMMA SourceStays ==
    ASSUME NEW I, NEW Y, NEW source \in Seq(Seq(Segment(I, Y))), NEW acc \in Parsed(I, Y)
    PROVE  FoldInOrder(ParseChain, acc, source) \in Parsed(I, Y)
<1> DEFINE n == Len(source)
           turn(x, d) == ParseChain(x, d)
           step == [i \in 1 .. n |-> [x \in Parsed(I, Y) |-> turn(x, source[i])]]
           F(h) == [i \in 0 .. n |-> IF i = 0 THEN acc ELSE turn(h[i - 1], source[i])]
           c == CHOOSE h : h = F(h)
<1>1. FoldInOrder(ParseChain, acc, source) = c[n]
  BY Zenon DEF FoldInOrder
<1>2. n \in Nat /\ \A i \in 1 .. n : source[i] \in Seq(Segment(I, Y))
  OBVIOUS
<1>3. \A i \in 1 .. n : \A x \in Parsed(I, Y) : turn(x, source[i]) \in Parsed(I, Y)
  <2> HIDE DEF n
  <2>1. QED
    BY <1>2, ChainStays, Zenon
<1> HIDE DEF n, turn, c
<1>4. /\ step \in [1 .. n -> [Parsed(I, Y) -> Parsed(I, Y)]]
      /\ \A i \in 1 .. n : \A x \in Parsed(I, Y) : step[i][x] = turn(x, source[i])
  BY <1>3, Zenon
<1> HIDE DEF step
<1>5. c = F(c)
  <2>1. PICK f : IsFold(f, Parsed(I, Y), acc, n, step)
    BY <1>2, <1>4, FoldExists, Zenon
  <2>2. f \in [0 .. n -> Parsed(I, Y)] /\ f[0] = acc /\ \A i \in 1 .. n : f[i] = step[i][f[i - 1]]
    BY <2>1, Zenon DEF IsFold
  <2>3. \A i \in 0 .. n : f[i] = IF i = 0 THEN acc ELSE turn(f[i - 1], source[i])
    BY <1>2, <1>4, <2>2, Indices, Zenon
  <2>4. f = F(f)
    BY <2>2, <2>3, Zenon
  <2> HIDE DEF F
  <2>5. QED
    BY <2>4, Zenon DEF c
<1>6. c[0] = acc /\ \A i \in 1 .. n : c[i] = turn(c[i - 1], source[i])
  <2>1. \A i \in 0 .. n : c[i] = IF i = 0 THEN acc ELSE turn(c[i - 1], source[i])
    BY <1>5, Zenon
  <2>2. QED
    BY <1>2, <2>1, Indices, Zenon
<1>7. \A i \in 0 .. n : c[i] \in Parsed(I, Y)
  <2>1. c[0] \in Parsed(I, Y) /\ \A i \in 1 .. n : c[i - 1] \in Parsed(I, Y) => c[i] \in Parsed(I, Y)
    BY <1>3, <1>6, Zenon
  <2>2. QED
    BY <1>2, <2>1, RunStays, Zenon
<1>8. QED
  BY <1>1, <1>2, <1>7, Indices, Zenon

\* BuildDsl leaves a well-formed graph, whether or not it throws: no id twice, only
\* registered types, and links only among the ids of the source.
THEOREM BuildIsWellFormed ==
    ASSUME NEW I, NEW Y, NEW source \in Seq(Seq(Segment(I, Y)))
    PROVE  Built(BuildDsl(source)) /\ Range(BuildDsl(source).ids) \subseteq I
<1> DEFINE empty == [ids |-> <<>>, type |-> [x \in {} |-> ""], deps |-> [x \in {} |-> {}],
                     order |-> <<>>, ok |-> TRUE]
           acc == FoldInOrder(ParseChain, [defs |-> <<>>, ok |-> TRUE], source)
           g == FoldInOrder(Link, FoldInOrder(Create, empty, acc.defs), acc.defs)
           both == g.ok /\ acc.ok
<1>1. [defs |-> <<>>, ok |-> TRUE] \in Parsed(I, Y)
  BY DEF Parsed
<1>2. acc \in Parsed(I, Y)
  BY <1>1, SourceStays, Zenon
<1>3. empty \in Partial(I)
  <2>1. <<>> \in Seq(I) /\ Range(<<>>) = {} /\ Distinct(<<>>)
    BY EmptyFacts
  <2>2. [x \in {} |-> ""] \in [Range(<<>>) -> Registry] /\ [x \in {} |-> {}] \in [Range(<<>>) -> SUBSET Range(<<>>)]
    BY <2>1
  <2>3. QED
    BY <2>1, <2>2, PartialFields, Zenon
<1>4. BuildDsl(source) = [g EXCEPT !.ok = both]
  BY Zenon DEF BuildDsl, Build
<1> HIDE DEF acc, empty
<1>5. acc.defs \in Seq(Definition(I, Y))
  BY <1>2 DEF Parsed
<1>6. FoldInOrder(Create, empty, acc.defs) \in Partial(I)
  BY <1>3, <1>5, CreateStays, Zenon
<1>7. g \in Partial(I)
  BY <1>5, <1>6, LinkAllStays, Zenon
<1>8. both \in BOOLEAN
  OBVIOUS
<1> HIDE DEF g, both
<1>9. BuildDsl(source) \in Partial(I)
  BY <1>4, <1>7, <1>8, FlagStays, Zenon
<1>10. Built(BuildDsl(source)) /\ BuildDsl(source).ids \in Seq(I)
  BY <1>9, PartialIs, Zenon DEF Partial
<1>11. QED
  BY <1>10, RangeFinite, Zenon

-----------------------------------------------------------------------------
(* batch: the split of the elements, and what combining the batches gives. *)

\* A batch is never empty, so that the division by its size is defined.
LEMMA BatchSizePositive ==
    ASSUME NEW n \in Nat, NEW batch_size \in Nat, NEW workers \in Nat
    PROVE  BatchSize(n, batch_size, workers) \in Nat \ {0}
<1>1. ASSUME NEW w \in Nat \ {0}, n > w
      PROVE  Ceiling(n, w) \in Nat \ {0}
  <2>1. n + w - 1 \in Nat /\ n + w - 1 >= w
    BY <1>1
  <2>2. (n + w - 1) \div w \in Nat \ {0}
    BY <2>1
  <2>3. QED
    BY <2>2 DEF Ceiling
<1>2. QED
  BY <1>1 DEF BatchSize, DefaultBatchSize

\* The number of batches is what covers the elements and no more: every batch but the
\* last ends inside the data, and the last reaches its end.
LEMMA BatchesCover ==
    ASSUME NEW n \in Nat, NEW size \in Nat \ {0}
    PROVE  /\ Batches(n, size) \in Nat /\ (Batches(n, size) = 0 <=> n = 0)
           /\ n <= Batches(n, size) * size
           /\ \A b \in 1 .. Batches(n, size) : BatchBegin(size, b - 1) \in Nat /\ BatchBegin(size, b - 1) < n
<1> DEFINE m == (n + size - 1) \div size
<1>1. m \in Nat /\ m * size <= n + size - 1 /\ n + size - 1 < m * size + size
  BY SMTT(30)
<1>2. ASSUME NEW b \in 1 .. m PROVE (b - 1) * size \in Nat /\ (b - 1) * size < n
  <2>1. (b - 1) * size + size = b * size /\ b * size <= m * size /\ (b - 1) * size \in Nat
    BY <1>1, SMTT(30)
  <2>2. QED
    BY <1>1, <2>1
<1>3. m = 0 <=> n = 0
  <2>1. m = 0 => m * size = 0
    BY <1>1
  <2>2. m # 0 => m * size >= size
    BY <1>1, SMTT(30)
  <2>3. QED
    BY <1>1, <2>1, <2>2
<1>4. n <= m * size
  BY <1>1
<1> HIDE DEF m
<1>5. Batches(n, size) = m
  BY Zenon DEF Batches, Ceiling, m
<1>6. QED
  BY <1>1, <1>2, <1>3, <1>4, <1>5 DEF BatchBegin

\* The elements of adjacent ranges, joined.
LEMMA ElementsJoin ==
    ASSUME NEW a \in Nat, NEW b \in Nat, NEW c \in Nat, a <= b, b <= c
    PROVE  /\ Elements(a, b) \in Seq(Nat)
           /\ Elements(a, b) \o Elements(b, c) = Elements(a, c)
<1>1. ASSUME NEW x \in Nat, NEW y \in Nat, x <= y
      PROVE  Elements(x, y) \in Seq(Nat) /\ Len(Elements(x, y)) = y - x
  <2>1. y - x \in Nat /\ \A i \in 1 .. y - x : x + i \in Nat
    BY <1>1
  <2>2. QED
    BY <2>1 DEF Elements
<1>2. a <= c
  OBVIOUS
<1>3. \A i \in 1 .. c - a : (Elements(a, b) \o Elements(b, c))[i] = a + i
  <2> DEFINE s == Elements(a, b)
             t == Elements(b, c)
  <2>1. /\ s \in Seq(Nat) /\ Len(s) = b - a /\ \A i \in 1 .. b - a : s[i] = a + i
        /\ t \in Seq(Nat) /\ Len(t) = c - b /\ \A i \in 1 .. c - b : t[i] = b + i
    BY <1>1 DEF Elements
  <2> HIDE DEF s, t
  <2>2. \A i \in 1 .. Len(s) + Len(t) : (s \o t)[i] = IF i <= Len(s) THEN s[i] ELSE t[i - Len(s)]
    BY <2>1, SMTT(30)
  <2>3. ASSUME NEW i \in 1 .. c - a PROVE (s \o t)[i] = a + i
    <3>1. (s \o t)[i] = IF i <= b - a THEN s[i] ELSE t[i - (b - a)]
      BY <2>1, <2>2, SMTT(30)
    <3>2. i > b - a => i - (b - a) \in 1 .. c - b
      OBVIOUS
    <3>3. QED
      BY <2>1, <3>1, <3>2
  <2>4. QED
    BY <2>3, Zenon DEF s, t
<1>4. /\ Elements(a, b) \o Elements(b, c) \in Seq(Nat)
      /\ Len(Elements(a, b) \o Elements(b, c)) = c - a
  <2>1. /\ Elements(a, b) \in Seq(Nat) /\ Len(Elements(a, b)) = b - a
        /\ Elements(b, c) \in Seq(Nat) /\ Len(Elements(b, c)) = c - b
    BY <1>1, Zenon
  <2>2. QED
    BY <2>1, SMTT(30)
<1>5. QED
  BY <1>1, <1>2, <1>3, <1>4 DEF Elements

\* combine, as BatchReduce applies it to the partials.
Combined(seq) == FoldInOrder(LAMBDA s, t : s \o t, <<>>, seq)

\* The loop that combines the partials goes through the concatenations of the first ones.
LEMMA ConcatFold ==
    ASSUME NEW S, NEW seq \in Seq(Seq(S))
    PROVE  \E f \in [0 .. Len(seq) -> Seq(S)] :
               /\ f[0] = <<>>
               /\ \A i \in 1 .. Len(seq) : f[i] = f[i - 1] \o seq[i]
               /\ Combined(seq) = f[Len(seq)]
<1> DEFINE n == Len(seq)
           step == [i \in 1 .. n |-> [x \in Seq(S) |-> x \o seq[i]]]
           F(h) == [i \in 0 .. n |-> IF i = 0 THEN <<>> ELSE h[i-1] \o seq[i]]
           c == CHOOSE h : h = F(h)
<1>1. Combined(seq) = c[n]
  BY Zenon DEF Combined, FoldInOrder
<1>2. n \in Nat /\ <<>> \in Seq(S) /\ step \in [1 .. n -> [Seq(S) -> Seq(S)]]
  OBVIOUS
<1>3. \A i \in 1 .. n : \A x \in Seq(S) : step[i][x] = x \o seq[i] /\ x \o seq[i] \in Seq(S)
  OBVIOUS
<1> HIDE DEF step, n, c
<1>4. c = F(c)
  <2>1. PICK f : IsFold(f, Seq(S), <<>>, n, step)
    BY <1>2, FoldExists, Zenon
  <2>2. f \in [0 .. n -> Seq(S)] /\ f[0] = <<>> /\ \A i \in 1 .. n : f[i] = step[i][f[i - 1]]
    BY <2>1, Zenon DEF IsFold
  <2>3. \A i \in 0 .. n : f[i] = IF i = 0 THEN <<>> ELSE f[i-1] \o seq[i]
    BY <1>2, <1>3, <2>2, Indices, Zenon
  <2>4. f = F(f)
    BY <2>2, <2>3, Zenon
  <2> HIDE DEF F
  <2>5. QED
    BY <2>4, Zenon DEF c
<1>5. c = [i \in 0 .. n |-> c[i]] /\ c[0] = <<>> /\ \A i \in 1 .. n : c[i] = c[i-1] \o seq[i]
  <2>1. DOMAIN c = 0 .. n /\ \A i \in 0 .. n : c[i] = IF i = 0 THEN <<>> ELSE c[i-1] \o seq[i]
    BY <1>4, Zenon
  <2>2. c = [i \in 0 .. n |-> c[i]]
    BY <1>4, Zenon
  <2>3. QED
    BY <1>2, <2>1, <2>2, Indices, Zenon
<1>6. \A i \in 0 .. n : c[i] \in Seq(S)
  <2>1. c[0] \in Seq(S)
    BY <1>2, <1>5, Zenon
  <2>2. \A i \in 1 .. n : c[i - 1] \in Seq(S) => c[i] \in Seq(S)
    BY <1>3, <1>5, Zenon
  <2>3. QED
    BY <1>2, <2>1, <2>2, RunStays, Zenon
<1>7. c \in [0 .. n -> Seq(S)]
  BY <1>5, <1>6, Zenon
<1>8. QED
  BY <1>1, <1>5, <1>7, Zenon DEF n

\* Concatenating the ranges of the batches gives all elements, in order.
LEMMA BatchesJoin ==
    ASSUME NEW n \in Nat, NEW size \in Nat \ {0}, NEW parts \in [1 .. Batches(n, size) -> Seq(Nat)],
           \A b \in 1 .. Batches(n, size) :
               parts[b] = Elements(BatchBegin(size, b - 1), BatchEnd(n, size, b - 1))
    PROVE  Combined(parts) = Elements(0, n)
<1> DEFINE m == Batches(n, size)
           reach == [i \in 0 .. m |-> Lesser(i * size, n)]
<1>1. m \in Nat /\ n <= m * size /\ \A b \in 1 .. m : BatchBegin(size, b - 1) \in Nat /\ BatchBegin(size, b - 1) < n
  BY BatchesCover
<1> HIDE DEF m
<1>2. parts \in Seq(Seq(Nat)) /\ Len(parts) = m
  BY <1>1, SMTT(30) DEF m
<1>3. PICK f : /\ f \in [0 .. m -> Seq(Nat)] /\ f[0] = <<>>
               /\ \A i \in 1 .. m : f[i] = f[i - 1] \o parts[i]
               /\ Combined(parts) = f[m]
  <2>1. \E f \in [0 .. Len(parts) -> Seq(Nat)] :
            /\ f[0] = <<>>
            /\ \A i \in 1 .. Len(parts) : f[i] = f[i - 1] \o parts[i]
            /\ Combined(parts) = f[Len(parts)]
    BY <1>2, ConcatFold, Zenon
  <2>2. QED
    BY <1>2, <2>1, Zenon
<1>4. reach[0] = 0 /\ reach[m] = n
  BY <1>1 DEF Lesser
<1>5. ASSUME NEW i \in 1 .. m
      PROVE  /\ reach[i - 1] = BatchBegin(size, i - 1) /\ reach[i] = BatchEnd(n, size, i - 1)
             /\ reach[i - 1] \in Nat /\ reach[i] \in Nat /\ reach[i - 1] <= reach[i]
  <2>1. (i - 1) * size + size = i * size /\ (i - 1) * size \in Nat /\ (i - 1) * size < n
    BY <1>1, SMTT(30) DEF BatchBegin
  <2>2. reach[i - 1] = Lesser((i - 1) * size, n) /\ reach[i] = Lesser(i * size, n)
    BY <1>1
  <2>3. QED
    BY <2>1, <2>2 DEF Lesser, BatchBegin, BatchEnd
<1> DEFINE T == {i \in 0 .. m : f[i] = Elements(0, reach[i])}
<1> HIDE DEF reach
<1>6. 0 \in T
  <2>1. Elements(0, 0) = <<>>
    BY DEF Elements
  <2>2. 0 \in 0 .. m
    BY <1>1
  <2>3. QED
    BY <1>3, <1>4, <2>1, <2>2, Zenon
<1>7. ASSUME NEW i \in 1 .. m, i - 1 \in T PROVE i \in T
  <2>1. f[i - 1] = Elements(0, reach[i - 1])
    BY <1>7
  <2>2. parts[i] = Elements(reach[i - 1], reach[i])
    BY <1>5 DEF m
  <2>3. 0 \in Nat /\ 0 <= reach[i - 1] /\ i \in 0 .. m
    BY <1>5
  <2>4. Elements(0, reach[i - 1]) \o Elements(reach[i - 1], reach[i]) = Elements(0, reach[i])
    BY <1>5, <2>3, ElementsJoin, ZenonT(30)
  <2>5. f[i] = Elements(0, reach[i])
    BY <1>3, <2>1, <2>2, <2>4, Zenon
  <2>6. QED
    BY <2>3, <2>5, Zenon
<1>8. m \in T
  <2> HIDE DEF T
  <2>1. 0 .. m \subseteq T
    BY <1>1, <1>6, <1>7, UpTo, Zenon
  <2>2. QED
    BY <1>1, <2>1
<1>9. QED
  BY <1>3, <1>4, <1>8

-----------------------------------------------------------------------------
(* BatchReduce under every interleaving.                                   *)

\* What batch b of op o folds.
Slice(o, b) == Elements(BatchBegin(SizeOf(o), b - 1), BatchEnd(Job(o).n, SizeOf(o), b - 1))

\* What is known of the data of an op: a finished batch has left its slice, BatchReduce
\* has no other value than all elements in order, and RunOp goes on behind BatchReduce
\* only once that is resolved.
Sound(o) ==
    /\ partial[o] \in [BatchesOf(o) -> Seq(Nat)] /\ DOMAIN batch[o] = BatchesOf(o)
    /\ \A b \in BatchesOf(o) : batch[o][b] = "done" => partial[o][b] = Slice(o, b)
    /\ IsJob(o) => /\ total[o] \in {Pending, Error, Value(Data(o))}
                   /\ at[o] # "execute"
                   /\ at[o] = "reduced" => total[o] # Pending
                   /\ status[o] = "kSuccess" => total[o] = Value(Data(o))

Shaped ==
    /\ Built(graph) /\ DOMAIN at = Ops /\ DOMAIN status = Ops
    /\ DOMAIN total = Ops /\ DOMAIN batch = Ops /\ DOMAIN partial = Ops

DataInv == Shaped /\ \A o \in Ops : Sound(o)

\* The three answers of BatchReduce differ.
LEMMA Answers ==
    ASSUME NEW v
    PROVE  Pending # Error /\ Value(v) # Pending /\ Value(v) # Error
<1>1. Pending.is = "pending" /\ Error.is = "error" /\ Value(v).is = "value"
  BY DEF Pending, Error, Value
<1>2. QED
  BY <1>1

\* The numbers of a job.
LEMMA JobFacts ==
    ASSUME NEW o, IsJob(o)
    PROVE  Job(o).n \in Nat /\ SizeOf(o) \in Nat \ {0} /\ BatchesOf(o) = 1 .. Batches(Job(o).n, SizeOf(o))
<1>1. Job(o).n \in Nat /\ Job(o).batch_size \in Nat
  BY JobsAssumption, Zenon DEF Job, IsJob
<1>2. Cardinality(Worker) \in Nat
  BY WorkerAssumption, FS_CardinalityType, Zenon
<1>3. SizeOf(o) \in Nat \ {0}
  BY <1>1, <1>2, BatchSizePositive, Zenon DEF SizeOf
<1>4. QED
  BY <1>1, <1>3, Zenon DEF BatchesOf

\* The slices of all batches, combined, are the data.
LEMMA SlicesJoin ==
    ASSUME NEW o, IsJob(o), NEW parts \in [BatchesOf(o) -> Seq(Nat)], \A b \in BatchesOf(o) : parts[b] = Slice(o, b)
    PROVE  Combined(parts) = Data(o)
<1> DEFINE n == Job(o).n
           size == SizeOf(o)
<1>1. n \in Nat /\ size \in Nat \ {0} /\ BatchesOf(o) = 1 .. Batches(n, size)
  BY JobFacts, Zenon
<1>2. \A b \in BatchesOf(o) : parts[b] = Elements(BatchBegin(size, b - 1), BatchEnd(n, size, b - 1))
  BY Zenon DEF Slice
<1>3. Combined(parts) = Elements(0, n)
  <2> HIDE DEF n, size
  <2>1. QED
    BY <1>1, <1>2, BatchesJoin, ZenonT(60)
<1>4. QED
  BY <1>3, Zenon DEF Data

\* A job without batches has no elements.
LEMMA NoBatchNoData ==
    ASSUME NEW o, IsJob(o), BatchesOf(o) = {}
    PROVE  Data(o) = <<>>
<1>1. Job(o).n \in Nat /\ SizeOf(o) \in Nat \ {0} /\ 1 .. Batches(Job(o).n, SizeOf(o)) = {}
  BY JobFacts, Zenon
<1>2. Batches(Job(o).n, SizeOf(o)) \in Nat /\ (Batches(Job(o).n, SizeOf(o)) = 0 <=> Job(o).n = 0)
  BY <1>1, BatchesCover, Zenon
<1>3. Job(o).n = 0
  BY <1>1, <1>2
<1>4. Elements(0, 0) = <<>>
  BY DEF Elements
<1>5. QED
  BY <1>3, <1>4, Zenon DEF Data

\* With the same ops and types everything that is computed from them is the same.
LEMMA SameJobs ==
    ASSUME graph'.ids = graph.ids, graph'.type = graph.type
    PROVE  /\ Ops' = Ops
           /\ \A o : /\ IsJob(o)' = IsJob(o) /\ BatchesOf(o)' = BatchesOf(o) /\ Data(o)' = Data(o)
                     /\ \A b : Slice(o, b)' = Slice(o, b)
<1>1. Ops' = Ops
  BY Zenon DEF Ops
<1>2. ASSUME NEW o
      PROVE  /\ IsJob(o)' = IsJob(o) /\ BatchesOf(o)' = BatchesOf(o) /\ Data(o)' = Data(o)
             /\ \A b : Slice(o, b)' = Slice(o, b)
  <2>1. IsJob(o)' = IsJob(o) /\ Job(o)' = Job(o)
    BY Zenon DEF IsJob, Job
  <2>2. SizeOf(o)' = SizeOf(o)
    BY <2>1, Zenon DEF SizeOf
  <2>3. BatchesOf(o)' = BatchesOf(o) /\ Data(o)' = Data(o) /\ \A b : Slice(o, b)' = Slice(o, b)
    BY <2>1, <2>2, Zenon DEF BatchesOf, Data, Slice
  <2>4. QED
    BY <2>1, <2>3, Zenon
<1>3. QED
  BY <1>1, <1>2, Zenon

\* An op keeps what is known of it as long as it does not move on behind BatchReduce.
LEMMA SoundKept ==
    ASSUME NEW o \in Ops, Sound(o), graph'.ids = graph.ids, graph'.type = graph.type,
           partial'[o] = partial[o], total'[o] = total[o],
           DOMAIN batch'[o] = DOMAIN batch[o],
           \A b \in BatchesOf(o) : batch'[o][b] = "done" => batch[o][b] = "done",
           at'[o] = at[o] \/ at'[o] \notin {"execute", "reduced"} \/ (at'[o] = "execute" /\ ~ IsJob(o)),
           status'[o] = status[o] \/ status'[o] # "kSuccess" \/ ~ IsJob(o)
    PROVE  Sound(o)'
<1>1. /\ IsJob(o)' = IsJob(o) /\ BatchesOf(o)' = BatchesOf(o) /\ Data(o)' = Data(o)
      /\ \A b : Slice(o, b)' = Slice(o, b)
  BY SameJobs, Zenon
<1>2. Pending' = Pending /\ Error' = Error /\ Value(Data(o))' = Value(Data(o))
  BY <1>1, Zenon DEF Pending, Error, Value
<1>3. partial'[o] \in [BatchesOf(o)' -> Seq(Nat)] /\ DOMAIN batch'[o] = BatchesOf(o)'
  BY <1>1, Zenon DEF Sound
<1>4. \A b \in BatchesOf(o)' : batch'[o][b] = "done" => partial'[o][b] = Slice(o, b)'
  BY <1>1, ZenonT(60) DEF Sound
<1>5. ASSUME IsJob(o)
      PROVE  /\ total'[o] \in {Pending, Error, Value(Data(o))}
             /\ at'[o] # "execute"
             /\ at'[o] = "reduced" => total'[o] # Pending
             /\ status'[o] = "kSuccess" => total'[o] = Value(Data(o))
  BY <1>5 DEF Sound
<1>6. QED
  BY <1>1, <1>2, <1>3, <1>4, <1>5, Zenon DEF Sound

\* A step that leaves the answers of BatchReduce alone, finishes no batch and moves no op
\* on behind BatchReduce.
LEMMA DataKept ==
    ASSUME DataInv, graph' = graph, partial' = partial, total' = total,
           DOMAIN at' = DOMAIN at, DOMAIN status' = DOMAIN status, DOMAIN batch' = DOMAIN batch,
           \A o \in Ops :
               /\ DOMAIN batch'[o] = DOMAIN batch[o]
               /\ \A b \in BatchesOf(o) : batch'[o][b] = "done" => batch[o][b] = "done"
               /\ at'[o] = at[o] \/ at'[o] \notin {"execute", "reduced"} \/ (at'[o] = "execute" /\ ~ IsJob(o))
               /\ status'[o] = status[o] \/ status'[o] # "kSuccess" \/ ~ IsJob(o)
    PROVE  DataInv'
<1>1. graph'.ids = graph.ids /\ graph'.type = graph.type /\ Ops' = Ops
  BY SameJobs, Zenon
<1>2. Shaped'
  BY <1>1, Zenon DEF DataInv, Shaped, Built
<1>3. ASSUME NEW o \in Ops PROVE Sound(o)'
  BY <1>1, <1>3, SoundKept, Zenon DEF DataInv
<1>4. QED
  BY <1>1, <1>2, <1>3, Zenon DEF DataInv

\* The calling thread creates and chains ops and touches no batch.
LEMMA CallerData == ASSUME DataInv, Chain \/ ChainAll \/ Return PROVE DataInv'
<1>1. /\ graph' = graph /\ partial' = partial /\ total' = total /\ batch' = batch /\ status' = status
  BY Zenon DEF Chain, ChainAll, Return, batchVars
<1>2. /\ DOMAIN at' = DOMAIN at
      /\ \A o \in Ops : at'[o] = at[o] \/ at'[o] \notin {"execute", "reduced"}
  <2>1. CASE Chain
    BY <2>1 DEF Chain, DataInv, Shaped
  <2>2. CASE ChainAll \/ Return
    BY <2>2, Zenon DEF ChainAll, Return
  <2>3. QED
    BY <2>1, <2>2, SMTT(30)
<1>3. QED
  BY <1>1, <1>2, DataKept, Zenon

\* A resolved future lets an op run or fail, but moves none behind BatchReduce.
LEMMA NotifyData ==
    ASSUME DataInv, NEW w, NEW d, NEW x, Notify(w, d, x)
    PROVE  DataInv'
<1>1. /\ graph' = graph /\ partial' = partial /\ total' = total /\ batch' = batch /\ status' = status
  BY Zenon DEF Notify, batchVars
<1>2. /\ DOMAIN at' = DOMAIN at
      /\ \A o \in Ops : at'[o] = at[o] \/ at'[o] \notin {"execute", "reduced"}
  BY DEF Notify, DataInv, Shaped
<1>3. QED
  BY <1>1, <1>2, DataKept, Zenon

\* RunOp up to Execute, and behind it.
LEMMA RunOpData ==
    ASSUME DataInv, NEW w, NEW o \in Ops,
           Skip(w, o) \/ AspectThrows(w, o) \/ BeginExecute(w, o) \/ PlainExecute(w, o) \/ After(w, o)
    PROVE  DataInv'
<1>1. graph' = graph /\ partial' = partial /\ total' = total /\ batch' = batch
  BY Zenon DEF Skip, AspectThrows, BeginExecute, PlainExecute, After, EndExecute, batchVars
<1>2. DOMAIN at = Ops /\ DOMAIN status = Ops /\ (IsJob(o) => at[o] # "execute")
  BY Zenon DEF DataInv, Shaped, Sound
<1>3. \E v : at' = [at EXCEPT ![o] = v] /\ (v = "execute" => ~ IsJob(o)) /\ v # "reduced"
  <2>1. CASE BeginExecute(w, o)
    <3> DEFINE v == IF IsJob(o) THEN "spawn" ELSE "execute"
    <3>1. at' = [at EXCEPT ![o] = v]
      BY <2>1, Zenon DEF BeginExecute
    <3>2. (v = "execute" => ~ IsJob(o)) /\ v # "reduced"
      BY SMTT(30)
    <3> HIDE DEF v
    <3>3. QED
      BY <3>1, <3>2, Zenon
  <2>2. CASE Skip(w, o) \/ AspectThrows(w, o) \/ PlainExecute(w, o) \/ After(w, o)
    BY <2>2, ZenonT(30) DEF Skip, AspectThrows, PlainExecute, After, EndExecute, Resolve
  <2>3. QED
    BY <2>1, <2>2
<1>4. status' = status \/ \E s : status' = [status EXCEPT ![o] = s] /\ (s = "kSuccess" => ~ IsJob(o))
  <2>1. CASE PlainExecute(w, o)
    BY <1>2, <2>1, Zenon DEF PlainExecute, EndExecute, Holds
  <2>2. CASE Skip(w, o) \/ AspectThrows(w, o) \/ BeginExecute(w, o) \/ After(w, o)
    BY <2>2 DEF Skip, AspectThrows, BeginExecute, After
  <2>3. QED
    BY <2>1, <2>2
<1>5. /\ DOMAIN at' = DOMAIN at
      /\ \A p \in Ops : at'[p] = at[p] \/ at'[p] \notin {"execute", "reduced"} \/ (at'[p] = "execute" /\ ~ IsJob(p))
  BY <1>2, <1>3
<1>6. /\ DOMAIN status' = DOMAIN status
      /\ \A p \in Ops : status'[p] = status[p] \/ status'[p] # "kSuccess" \/ ~ IsJob(p)
  BY <1>2, <1>4
<1>7. QED
  BY <1>1, <1>5, <1>6, DataKept, Zenon

\* The queue hands out ops and batches; batches are spawned.
LEMMA QueueData ==
    ASSUME DataInv, NEW w, Take(w) \/ \E o \in Ops : \E b : SpawnBatch(w, o, b)
    PROVE  DataInv'
<1>1. graph' = graph /\ partial' = partial /\ total' = total
  BY Zenon DEF Take, SpawnBatch
<1>2. DOMAIN at = Ops /\ DOMAIN status = Ops /\ DOMAIN batch = Ops /\ \A p \in Ops : DOMAIN batch[p] = BatchesOf(p)
  BY Zenon DEF DataInv, Shaped, Sound
<1>3. at' = at \/ \E o : at' = [at EXCEPT ![o] = "before"]
  BY Zenon DEF Take, SpawnBatch
<1>4. status' = status \/ \E o : status' = [status EXCEPT ![o] = "kRunning"]
  BY Zenon DEF Take, SpawnBatch
<1>5. ASSUME NEW o, NEW b, NEW v, v # "done", batch' = batch \/ batch' = [batch EXCEPT ![o][b] = v]
      PROVE  /\ DOMAIN batch' = DOMAIN batch
             /\ \A p \in Ops : /\ DOMAIN batch'[p] = DOMAIN batch[p]
                               /\ \A a \in BatchesOf(p) : batch'[p][a] = "done" => batch[p][a] = "done"
  BY <1>2, <1>5
<1>6. /\ DOMAIN at' = DOMAIN at
      /\ \A p \in Ops : at'[p] = at[p] \/ at'[p] \notin {"execute", "reduced"}
  BY <1>2, <1>3
<1>7. DOMAIN status' = DOMAIN status /\ \A p \in Ops : status'[p] = status[p] \/ status'[p] # "kSuccess"
  BY <1>2, <1>4, SMTT(30)
<1>8. /\ DOMAIN batch' = DOMAIN batch
      /\ \A p \in Ops : /\ DOMAIN batch'[p] = DOMAIN batch[p]
                        /\ \A a \in BatchesOf(p) : batch'[p][a] = "done" => batch[p][a] = "done"
  <2>1. CASE Take(w)
    <3> DEFINE o == Head(queue)[1]
               b == Head(queue)[2]
               v == IF b # 0 /\ batch[o][b] = "queued" THEN "requeued" ELSE "running"
    <3>1. batch' = batch \/ batch' = [batch EXCEPT ![o][b] = v]
      BY <2>1, Zenon DEF Take
    <3>2. v # "done"
      OBVIOUS
    <3> HIDE DEF o, b, v
    <3>3. QED
      BY <1>5, <3>1, <3>2, ZenonT(30)
  <2>2. CASE \E o \in Ops : \E b : SpawnBatch(w, o, b)
    <3>1. PICK o \in Ops : \E b : SpawnBatch(w, o, b)
      BY <2>2
    <3>2. PICK b : SpawnBatch(w, o, b)
      BY <3>1
    <3>3. batch' = [batch EXCEPT ![o][b] = "queued"] /\ "queued" # "done"
      BY <3>2 DEF SpawnBatch
    <3>4. QED
      BY <1>5, <3>3
  <2>3. QED
    BY <2>1, <2>2
<1>9. QED
  BY <1>1, <1>6, <1>7, <1>8, DataKept, Zenon

\* A step of one op.
LEMMA OpData ==
    ASSUME DataInv, NEW o \in Ops, graph' = graph,
           DOMAIN at' = DOMAIN at, DOMAIN status' = DOMAIN status, DOMAIN total' = DOMAIN total,
           DOMAIN batch' = DOMAIN batch, DOMAIN partial' = DOMAIN partial,
           \A p \in Ops \ {o} : /\ at'[p] = at[p] /\ status'[p] = status[p] /\ total'[p] = total[p]
                                /\ batch'[p] = batch[p] /\ partial'[p] = partial[p],
           partial'[o] \in [BatchesOf(o) -> Seq(Nat)], DOMAIN batch'[o] = BatchesOf(o),
           \A b \in BatchesOf(o) : batch'[o][b] = "done" => partial'[o][b] = Slice(o, b),
           IsJob(o) => /\ total'[o] \in {Pending, Error, Value(Data(o))}
                       /\ at'[o] # "execute"
                       /\ at'[o] = "reduced" => total'[o] # Pending
                       /\ status'[o] = "kSuccess" => total'[o] = Value(Data(o))
    PROVE  DataInv'
<1>1. graph'.ids = graph.ids /\ graph'.type = graph.type /\ Ops' = Ops
  BY SameJobs, Zenon
<1>2. Shaped'
  BY <1>1, Zenon DEF DataInv, Shaped, Built
<1>3. ASSUME NEW p \in Ops, p # o PROVE Sound(p)'
  <2>1. p \in Ops \ {o} /\ Sound(p)
    BY <1>3, Zenon DEF DataInv
  <2>2. QED
    BY <1>1, <2>1, SoundKept, Zenon
<1>4. Sound(o)'
  <2>1. /\ IsJob(o)' = IsJob(o) /\ BatchesOf(o)' = BatchesOf(o) /\ Data(o)' = Data(o)
        /\ \A b : Slice(o, b)' = Slice(o, b)
    BY <1>1, SameJobs, Zenon
  <2>2. Pending' = Pending /\ Error' = Error /\ Value(Data(o))' = Value(Data(o))
    BY <2>1, Zenon DEF Pending, Error, Value
  <2>3. QED
    BY <2>1, <2>2, Zenon DEF Sound
<1>5. QED
  BY <1>1, <1>2, <1>3, <1>4, Zenon DEF DataInv

\* Behind BatchReduce the op succeeds with its value, or fails with its error.
LEMMA ReducedData ==
    ASSUME DataInv, NEW w, NEW o \in Ops, Reduced(w, o)
    PROVE  DataInv'
<1>1. /\ graph' = graph /\ partial' = partial /\ total' = total /\ batch' = batch
      /\ at[o] = "reduced" /\ at' = [at EXCEPT ![o] = "after"]
      /\ status' = [status EXCEPT ![o] = IF total[o] = Error THEN "kFailed" ELSE "kSuccess"]
  BY Zenon DEF Reduced, EndExecute, batchVars, Holds
<1>2. DOMAIN at = Ops /\ DOMAIN status = Ops /\ Sound(o)
  BY Zenon DEF DataInv, Shaped
<1>3. /\ \A p \in Ops \ {o} : at'[p] = at[p] /\ status'[p] = status[p]
      /\ DOMAIN at' = DOMAIN at /\ DOMAIN status' = DOMAIN status
      /\ at'[o] = "after" /\ (status'[o] = "kSuccess" => total[o] # Error)
  BY <1>1, <1>2, SMTT(30)
<1>4. IsJob(o) => /\ total[o] \in {Pending, Error, Value(Data(o))}
                  /\ at'[o] # "execute" /\ at'[o] # "reduced"
                  /\ status'[o] = "kSuccess" => total[o] = Value(Data(o))
  BY <1>1, <1>2, <1>3 DEF Sound
<1>5. /\ partial[o] \in [BatchesOf(o) -> Seq(Nat)] /\ DOMAIN batch[o] = BatchesOf(o)
      /\ \A b \in BatchesOf(o) : batch[o][b] = "done" => partial[o][b] = Slice(o, b)
  BY <1>2, Zenon DEF Sound
<1>6. QED
  BY <1>1, <1>3, <1>4, <1>5, OpData, Zenon

\* The op awaits its batches; without elements BatchReduce has its value at once.
LEMMA AwaitData ==
    ASSUME DataInv, NEW w, NEW o \in Ops, AwaitBatches(w, o)
    PROVE  DataInv'
<1> DEFINE t == IF BatchesOf(o) = {} THEN Value(<<>>) ELSE total[o]
           v == IF t = Pending THEN "suspended" ELSE "reduced"
<1>1. /\ graph' = graph /\ partial' = partial /\ batch' = batch /\ status' = status
      /\ total' = [total EXCEPT ![o] = t]
      /\ at' = [at EXCEPT ![o] = IF total'[o] = Pending THEN "suspended" ELSE "reduced"]
  BY Zenon DEF AwaitBatches
<1>2. DOMAIN at = Ops /\ DOMAIN total = Ops /\ Sound(o)
  BY Zenon DEF DataInv, Shaped
<1>3. IsJob(o) => t \in {Pending, Error, Value(Data(o))} /\ (status[o] = "kSuccess" => t = Value(Data(o)))
  <2>1. ASSUME IsJob(o), BatchesOf(o) = {} PROVE t = Value(Data(o))
    BY <2>1, NoBatchNoData, Zenon
  <2>2. QED
    BY <1>2, <2>1 DEF Sound
<1>4. (v = "reduced" => t # Pending) /\ v # "execute"
  OBVIOUS
<1> HIDE DEF t
<1>5. total'[o] = t /\ DOMAIN total' = DOMAIN total /\ \A p \in Ops \ {o} : total'[p] = total[p]
  BY <1>1, <1>2
<1>6. at' = [at EXCEPT ![o] = v]
  BY <1>1, <1>5, Zenon
<1> HIDE DEF v
<1>7. at'[o] = v /\ DOMAIN at' = DOMAIN at /\ \A p \in Ops \ {o} : at'[p] = at[p]
  BY <1>2, <1>6
<1>8. IsJob(o) => /\ total'[o] \in {Pending, Error, Value(Data(o))}
                  /\ at'[o] # "execute"
                  /\ at'[o] = "reduced" => total'[o] # Pending
                  /\ status'[o] = "kSuccess" => total'[o] = Value(Data(o))
  BY <1>1, <1>3, <1>4, <1>5, <1>7, Zenon
<1>9. /\ partial[o] \in [BatchesOf(o) -> Seq(Nat)] /\ DOMAIN batch[o] = BatchesOf(o)
      /\ \A b \in BatchesOf(o) : batch[o][b] = "done" => partial[o][b] = Slice(o, b)
  BY <1>2, Zenon DEF Sound
<1>10. QED
  BY <1>1, <1>5, <1>7, <1>8, <1>9, OpData, Zenon

\* BatchReduce is resolved, at most once, with an answer it may have.
LEMMA ResolveData ==
    ASSUME DataInv, NEW w, NEW o \in Ops, NEW t, ResolveReduce(w, o, t),
           IsJob(o) => t \in {Pending, Error, Value(Data(o))},
           DOMAIN batch' = DOMAIN batch, DOMAIN partial' = DOMAIN partial,
           \A p \in Ops \ {o} : batch'[p] = batch[p] /\ partial'[p] = partial[p],
           partial'[o] \in [BatchesOf(o) -> Seq(Nat)], DOMAIN batch'[o] = BatchesOf(o),
           \A b \in BatchesOf(o) : batch'[o][b] = "done" => partial'[o][b] = Slice(o, b)
    PROVE  DataInv'
<1> DEFINE new == IF total[o] = Pending THEN t ELSE total[o]
<1>1. /\ graph' = graph /\ status' = status /\ total' = [total EXCEPT ![o] = new]
      /\ at' = at \/ (at' = [at EXCEPT ![o] = "reduced"] /\ t # Pending /\ total[o] = Pending)
  BY Zenon DEF ResolveReduce
<1>2. DOMAIN at = Ops /\ DOMAIN total = Ops /\ Sound(o)
  BY Zenon DEF DataInv, Shaped
<1>3. total'[o] = new /\ DOMAIN total' = DOMAIN total /\ \A p \in Ops \ {o} : total'[p] = total[p]
  BY <1>1, <1>2, SMTT(30)
<1>4. /\ at'[o] = at[o] \/ (at'[o] = "reduced" /\ new # Pending)
      /\ DOMAIN at' = DOMAIN at /\ \A p \in Ops \ {o} : at'[p] = at[p]
  BY <1>1, <1>2, SMTT(30)
<1>5. total[o] # Pending => new = total[o]
  BY SMTT(30)
<1>6. IsJob(o) => /\ new \in {Pending, Error, Value(Data(o))}
                  /\ at[o] # "execute" /\ (at[o] = "reduced" => new # Pending)
                  /\ status[o] = "kSuccess" => new = Value(Data(o))
  <2>1. Value(Data(o)) # Pending
    BY Answers, ZenonT(60)
  <2>2. QED
    BY <1>2, <2>1 DEF Sound
<1> HIDE DEF new
<1>7. IsJob(o) => /\ total'[o] \in {Pending, Error, Value(Data(o))}
                  /\ at'[o] # "execute"
                  /\ at'[o] = "reduced" => total'[o] # Pending
                  /\ status'[o] = "kSuccess" => total'[o] = Value(Data(o))
  BY <1>1, <1>3, <1>4, <1>6
<1>8. QED
  BY <1>1, <1>3, <1>4, <1>7, OpData, Zenon

\* A batch folds its slice or throws; the last of all combines the partials.
LEMMA FoldData ==
    ASSUME DataInv, NEW w, NEW o \in Ops, NEW b \in BatchesOf(o), Fold(w, o, b) \/ FoldThrows(w, o, b)
    PROVE  DataInv'
<1>1. /\ DOMAIN batch = Ops /\ DOMAIN partial = Ops
      /\ partial[o] \in [BatchesOf(o) -> Seq(Nat)] /\ DOMAIN batch[o] = BatchesOf(o)
      /\ \A a \in BatchesOf(o) : batch[o][a] = "done" => partial[o][a] = Slice(o, a)
  BY Zenon DEF DataInv, Shaped, Sound
<1>2. CASE FoldThrows(w, o, b)
  <2>1. batch' = [batch EXCEPT ![o][b] = "error"] /\ partial' = partial /\ ResolveReduce(w, o, Error)
    BY <1>2, Zenon DEF FoldThrows
  <2>2. /\ DOMAIN batch' = DOMAIN batch /\ \A p \in Ops \ {o} : batch'[p] = batch[p]
        /\ DOMAIN batch'[o] = BatchesOf(o)
        /\ \A a \in BatchesOf(o) : batch'[o][a] = "done" => batch[o][a] = "done"
    BY <1>1, <2>1
  <2>3. QED
    BY <1>1, <2>1, <2>2, ResolveData, Zenon
<1>3. CASE Fold(w, o, b)
  <2> DEFINE all == \A a \in BatchesOf(o) : batch'[o][a] = "done"
             t == IF all THEN Value(Combined(partial'[o])) ELSE Pending
  <2>1. /\ partial' = [partial EXCEPT ![o][b] = Slice(o, b)] /\ batch' = [batch EXCEPT ![o][b] = "done"]
        /\ ResolveReduce(w, o, t)
    BY <1>3, Zenon DEF Fold, Slice, Combined
  <2>2. IsJob(o)
    BY Zenon DEF BatchesOf
  <2>3. Slice(o, b) \in Seq(Nat)
    <3>1. Job(o).n \in Nat /\ SizeOf(o) \in Nat \ {0} /\ b \in 1 .. Batches(Job(o).n, SizeOf(o))
      BY <2>2, JobFacts, Zenon
    <3>2. BatchBegin(SizeOf(o), b - 1) \in Nat /\ BatchBegin(SizeOf(o), b - 1) < Job(o).n
      BY <3>1, BatchesCover, Zenon
    <3>3. /\ BatchEnd(Job(o).n, SizeOf(o), b - 1) \in Nat
          /\ BatchBegin(SizeOf(o), b - 1) <= BatchEnd(Job(o).n, SizeOf(o), b - 1)
      BY <3>1, <3>2 DEF BatchEnd, Lesser
    <3>4. BatchEnd(Job(o).n, SizeOf(o), b - 1) <= BatchEnd(Job(o).n, SizeOf(o), b - 1)
      BY <3>3
    <3>5. QED
      BY <3>2, <3>3, <3>4, ElementsJoin, Zenon DEF Slice
  <2>4. /\ DOMAIN batch' = DOMAIN batch /\ \A p \in Ops \ {o} : batch'[p] = batch[p]
        /\ DOMAIN batch'[o] = BatchesOf(o)
        /\ \A a \in BatchesOf(o) : a # b => batch'[o][a] = batch[o][a]
    BY <1>1, <2>1
  <2>5. DOMAIN partial' = DOMAIN partial /\ \A p \in Ops \ {o} : partial'[p] = partial[p]
    BY <1>1, <2>1
  <2>6. partial'[o] = [partial[o] EXCEPT ![b] = Slice(o, b)]
    BY <1>1, <2>1, SMTT(30)
  <2>7. /\ partial'[o] \in [BatchesOf(o) -> Seq(Nat)] /\ partial'[o][b] = Slice(o, b)
        /\ \A a \in BatchesOf(o) : a # b => partial'[o][a] = partial[o][a]
    BY <1>1, <2>3, <2>6
  <2>8. \A a \in BatchesOf(o) : batch'[o][a] = "done" => partial'[o][a] = Slice(o, a)
    BY <1>1, <2>4, <2>7, Zenon
  <2>9. t \in {Pending, Error, Value(Data(o))}
    <3>1. CASE all
      <4>1. Combined(partial'[o]) = Data(o)
        BY <2>2, <2>7, <2>8, <3>1, SlicesJoin, Zenon
      <4>2. QED
        BY <3>1, <4>1, Zenon
    <3>2. QED
      BY <3>1, Zenon
  <2> HIDE DEF t
  <2>10. QED
    BY <2>1, <2>4, <2>5, <2>7, <2>8, <2>9, ResolveData, ZenonT(60)
<1>4. QED
  BY <1>2, <1>3

\* Compile orders the ops and leaves them what they are.
LEMMA StartData == ASSUME DataInv, Start PROVE DataInv'
<1>1. /\ graph' = Compile(graph)
      /\ UNCHANGED <<at, status, batch, partial, total>>
  BY Zenon DEF Start, batchVars
<1>2. Built(graph)
  BY Zenon DEF DataInv, Shaped
<1>3. /\ DOMAIN graph' = DOMAIN graph
      /\ graph'.ids = graph.ids /\ graph'.deps = graph.deps /\ graph'.type = graph.type
      /\ graph'.ok = (Len(TopoOrder(graph.ids, graph.deps)) = Len(graph.ids))
  BY <1>1, <1>2, CompileFields, Zenon
<1>4. graph'.ok \in BOOLEAN
  BY <1>3, Zenon
<1>5. Built(graph')
  BY <1>2, <1>3, <1>4, Zenon DEF Built
<1>6. Ops' = Ops
  BY <1>3, SameJobs, Zenon
<1>7. Shaped'
  BY <1>1, <1>5, <1>6, Zenon DEF DataInv, Shaped, Built
<1>8. ASSUME NEW o \in Ops PROVE Sound(o)'
  BY <1>1, <1>3, <1>8, SoundKept, Zenon DEF DataInv
<1>9. QED
  BY <1>6, <1>7, <1>8, Zenon DEF DataInv

\* The graph of a source is well formed, and its ops have the ids of the source.
LEMMA SourceGraph ==
    ASSUME NEW source \in Sources
    PROVE  Built(BuildDsl(source)) /\ Range(BuildDsl(source).ids) \subseteq IdsOf(source)
<1> DEFINE I == IdsOf(source)
           Y == TypesOf(source)
<1>1. source \in Seq(Seq(Segment(I, Y)))
  BY SourcesAssumption, Zenon DEF Segment
<1> HIDE DEF I, Y
<1>2. Built(BuildDsl(source)) /\ Range(BuildDsl(source).ids) \subseteq I
  BY <1>1, BuildIsWellFormed, Zenon
<1>3. QED
  BY <1>2, Zenon DEF I

\* Before Execute nothing is reduced.
LEMMA InitData == ASSUME Init PROVE DataInv
<1>1. Built(graph)
  BY SourceGraph, Zenon DEF Init
<1>2. /\ at = [o \in Ops |-> "unborn"] /\ status = [o \in Ops |-> "kPending"]
      /\ batch = [o \in Ops |-> [b \in BatchesOf(o) |-> "unborn"]]
      /\ partial = [o \in Ops |-> [b \in BatchesOf(o) |-> <<>>]]
      /\ total = [o \in Ops |-> Pending]
  BY Zenon DEF Init
<1>3. Shaped
  BY <1>1, <1>2, Zenon DEF Shaped
<1>4. ASSUME NEW o \in Ops PROVE Sound(o)
  <2>1. /\ at[o] = "unborn" /\ status[o] = "kPending" /\ total[o] = Pending
        /\ batch[o] = [b \in BatchesOf(o) |-> "unborn"] /\ partial[o] = [b \in BatchesOf(o) |-> <<>>]
    BY <1>2, Zenon
  <2>2. partial[o] \in [BatchesOf(o) -> Seq(Nat)]
    BY <2>1
  <2>3. DOMAIN batch[o] = BatchesOf(o) /\ \A b \in BatchesOf(o) : batch[o][b] # "done"
    BY <2>1
  <2>4. total[o] \in {Pending, Error, Value(Data(o))} /\ at[o] # "execute" /\ at[o] # "reduced" /\ status[o] # "kSuccess"
    BY <2>1
  <2>5. QED
    BY <2>2, <2>3, <2>4, Zenon DEF Sound
<1>5. QED
  BY <1>3, <1>4, Zenon DEF DataInv

\* Every step keeps what is known of the data.
LEMMA StepData == ASSUME DataInv, [Next]_vars PROVE DataInv'
<1>1. CASE CallerStep
  BY <1>1, StartData, CallerData, Zenon DEF CallerStep
<1>2. ASSUME NEW w \in Worker, WorkerStep(w) PROVE DataInv'
  <2>1. CASE Take(w)
    BY <2>1, QueueData, Zenon
  <2>2. ASSUME NEW o \in Ops,
               \/ Skip(w, o) \/ AspectThrows(w, o) \/ BeginExecute(w, o)
               \/ PlainExecute(w, o) \/ After(w, o) \/ AwaitBatches(w, o) \/ Reduced(w, o)
        PROVE  DataInv'
    BY <2>2, RunOpData, AwaitData, ReducedData, Zenon
  <2>3. ASSUME NEW o \in Ops, NEW b \in BatchesOf(o), SpawnBatch(w, o, b) \/ Fold(w, o, b) \/ FoldThrows(w, o, b)
        PROVE  DataInv'
    BY <2>3, QueueData, FoldData, Zenon
  <2>4. ASSUME NEW o \in Ops, NEW x \in Ops \cup {All}, Notify(w, o, x) PROVE DataInv'
    BY <2>4, NotifyData, Zenon
  <2>5. QED
    BY <1>2, <2>1, <2>2, <2>3, <2>4, Zenon DEF WorkerStep
<1>3. CASE UNCHANGED vars
  <2>1. UNCHANGED <<graph, at, status, batch, partial, total>>
    BY <1>3, Zenon DEF vars
  <2>2. QED
    BY <2>1, DataKept, Zenon
<1>4. QED
  BY <1>1, <1>2, <1>3, Zenon DEF Next

\* For every source, every job, every number of workers and every interleaving of the
\* batches: an op that awaits BatchReduce succeeds only with all elements folded, once
\* and in order.
THEOREM ReducesInOrder == Spec => []ReducedInOrder
<1>1. DataInv => ReducedInOrder
  BY Zenon DEF DataInv, Sound, ReducedInOrder
<1>2. QED
  BY <1>1, InitData, StepData, PTL DEF Spec
=============================================================================
