----------------------------- MODULE CacheProofs -----------------------------
(***************************************************************************)
(* Proofs about Cache, for any number of keys and threads, any capacity and *)
(* any ttls: the map and the recency list agree, the capacity is respected, *)
(* eviction takes the least recently used keys and no expired entry is      *)
(* served.                                                                 *)
(***************************************************************************)
EXTENDS Cache, FiniteSetTheorems, SequenceTheorems, WellFoundedInduction, TLAPS

Elems(seq) == {seq[i] : i \in DOMAIN seq}
Distinct(seq) == \A i, j \in DOMAIN seq : seq[i] = seq[j] => i = j

\* Whatever is in front of a key in seq has been used since that key.
Recency(seq, used) == \A i, j \in DOMAIN seq : i < j => seq[i] \in used[seq[j]]

\* The clock an operation has read is not ahead, and an entry expires no later
\* than a ttl after its Put took effect.
Timely ==
    /\ \A t \in Thread : op[t] # NoOp /\ op[t].kind \in {"get", "put"} => op[t].now <= clock
    /\ \A k \in DOMAIN entries : entries[k].expires <= entries[k].deadline

\* The inductive invariant.
IInv ==
    /\ TypeOK
    /\ ListMatchesMap
    /\ Recency(lru, since)
    /\ Timely

-----------------------------------------------------------------------------
(***************************************************************************)
(* The recency list.                                                       *)
(***************************************************************************)
\* A bounded set of numbers has a greatest element.
LEMMA GreatestExists ==
    ASSUME NEW n \in Nat, NEW S \in SUBSET (0..n), S # {}
    PROVE  \E x \in S : \A y \in S : y <= x
<1> DEFINE T == {m \in Nat : n - m \in S}
<1>1. T \subseteq Nat /\ T # {}
  <2>1. PICK x \in S : TRUE
    BY Zenon
  <2>2. n - x \in Nat /\ n - (n - x) = x
    OBVIOUS
  <2>3. QED
    BY <2>1, <2>2, SMTT(30)
<1>2. PICK x \in T : \A y \in T : ~ (y < x)
  <2> DEFINE R == {ss \in Nat \X Nat : ss[1] < ss[2]}
  <2>1. IsWellFoundedOn(R, Nat)
    BY NatLessThanWellFounded, Zenon DEF OpToRel
  <2> HIDE DEF T, R
  <2>2. PICK x \in T : \A y \in T : ~ (<<y, x>> \in R)
    BY <1>1, <2>1, WFMin, Zenon
  <2>3. \A y \in T : ~ (y < x)
    BY <1>1, <2>2, Zenon DEF R
  <2>4. QED
    BY <2>3
<1>3. \A y \in T : x <= y
  BY <1>1, <1>2
<1>4. n - x \in S
  OBVIOUS
<1>5. ASSUME NEW y \in S PROVE y <= n - x
  <2>1. y \in Nat /\ n - y \in Nat /\ n - (n - y) = y
    OBVIOUS
  <2>2. n - y \in T
    BY <2>1
  <2>3. x \in Nat /\ x <= n - y
    BY <1>3, <2>2
  <2>4. QED
    BY <2>1, <2>3
<1>6. QED
  BY <1>4, <1>5

\* The interval 1..n has n elements.
LEMMA CountTo == \A n \in Nat : IsFiniteSet(1..n) /\ Cardinality(1..n) = n
<1> SUFFICES ASSUME NEW n \in Nat PROVE IsFiniteSet(1..n) /\ Cardinality(1..n) = n
  OBVIOUS
<1>1. IsFiniteSet(1..n) /\ Cardinality(1..n) = IF 1 > n THEN 0 ELSE n - 1 + 1
  BY FS_Interval
<1>2. QED
  BY <1>1

\* A key put in front: it is the most recently used one.
LEMMA PushFacts ==
    ASSUME NEW k \in Key, NEW seq \in Seq(Key), Distinct(seq), k \notin Elems(seq),
           NEW used, NEW now, Recency(seq, used),
           \A x \in Elems(seq) : now[x] = used[x] \cup {k}
    PROVE  /\ <<k>> \o seq \in Seq(Key)
           /\ Elems(<<k>> \o seq) = Elems(seq) \cup {k}
           /\ Distinct(<<k>> \o seq)
           /\ Recency(<<k>> \o seq, now)
<1> DEFINE q == <<k>> \o seq
<1>1. q \in Seq(Key) /\ Len(q) = Len(seq) + 1 /\ q[1] = k
  OBVIOUS
<1>2. \A i \in DOMAIN q : i = 1 \/ (i - 1 \in DOMAIN seq /\ q[i] = seq[i - 1])
  BY <1>1
<1>3. 1 \in DOMAIN q /\ \A i \in DOMAIN seq : i + 1 \in DOMAIN q /\ q[i + 1] = seq[i]
  BY <1>1
<1> HIDE DEF q
<1>4. Elems(q) = Elems(seq) \cup {k}
  <2>1. ASSUME NEW x \in Elems(q) PROVE x \in Elems(seq) \cup {k}
    BY <1>1, <1>2 DEF Elems
  <2>2. ASSUME NEW x \in Elems(seq) PROVE x \in Elems(q)
    BY <1>3, Zenon DEF Elems
  <2>3. k \in Elems(q)
    BY <1>1, <1>3 DEF Elems
  <2>4. QED
    BY <2>1, <2>2, <2>3
<1>5. \A i \in DOMAIN seq : seq[i] \in Elems(seq)
  BY DEF Elems
<1>6. Distinct(q)
  BY <1>1, <1>2, <1>5 DEF Distinct
<1>7. ASSUME NEW i \in DOMAIN q, NEW j \in DOMAIN q, i < j PROVE q[i] \in now[q[j]]
  <2>1. j - 1 \in DOMAIN seq /\ q[j] = seq[j - 1] /\ now[q[j]] = used[q[j]] \cup {k}
    BY <1>1, <1>2, <1>5, <1>7
  <2>2. CASE i = 1
    BY <1>1, <2>1, <2>2
  <2>3. CASE i # 1
    <3>1. i - 1 \in DOMAIN seq /\ q[i] = seq[i - 1] /\ i - 1 < j - 1
      BY <1>1, <1>2, <1>7, <2>3
    <3>2. seq[i - 1] \in used[seq[j - 1]]
      BY <2>1, <3>1 DEF Recency
    <3>3. QED
      BY <2>1, <3>1, <3>2
  <2>4. QED
    BY <2>2, <2>3
<1>8. QED
  BY <1>1, <1>4, <1>6, <1>7 DEF q, Recency

\* What the eviction loop leaves: a front part of the list.
LEMMA PrefixFacts ==
    ASSUME NEW seq \in Seq(Key), Distinct(seq), NEW used, Recency(seq, used),
           NEW n \in 0..Len(seq)
    PROVE  /\ SubSeq(seq, 1, n) \in Seq(Key)
           /\ Elems(SubSeq(seq, 1, n)) = Elems(seq) \ {seq[i] : i \in (n + 1)..Len(seq)}
           /\ Distinct(SubSeq(seq, 1, n))
           /\ Recency(SubSeq(seq, 1, n), used)
<1> DEFINE q == SubSeq(seq, 1, n)
<1>1. q \in Seq(Key) /\ DOMAIN q = 1..n /\ \A i \in 1..n : q[i] = seq[i]
  OBVIOUS
<1>2. \A i \in 1..n : i \in DOMAIN seq
  OBVIOUS
<1> HIDE DEF q
<1>3. Elems(q) = Elems(seq) \ {seq[i] : i \in (n + 1)..Len(seq)}
  <2>1. \A i \in DOMAIN seq : i \in 1..n \/ i \in (n + 1)..Len(seq)
    OBVIOUS
  <2>2. \A i \in (n + 1)..Len(seq) : i \in DOMAIN seq /\ i \notin 1..n
    OBVIOUS
  <2>3. ASSUME NEW x \in Elems(q)
        PROVE  x \in Elems(seq) \ {seq[i] : i \in (n + 1)..Len(seq)}
    BY <1>1, <1>2, <2>2 DEF Elems, Distinct
  <2>4. ASSUME NEW x \in Elems(seq) \ {seq[i] : i \in (n + 1)..Len(seq)}
        PROVE  x \in Elems(q)
    BY <1>1, <2>1 DEF Elems
  <2>5. QED
    BY <2>3, <2>4
<1>4. Distinct(q) /\ Recency(q, used)
  BY <1>1, <1>2 DEF Distinct, Recency
<1>5. QED
  BY <1>1, <1>3, <1>4 DEF q

\* What lru_.remove leaves when the key is in the list once.
LEMMA UnlistIs ==
    ASSUME lru \in Seq(Key), Distinct(lru), NEW p \in DOMAIN lru
    PROVE  /\ DOMAIN Unlist(lru[p]) = 1..(Len(lru) - 1)
           /\ \A j \in 1..(Len(lru) - 1) :
                 Unlist(lru[p])[j] = IF j < p THEN lru[j] ELSE lru[j + 1]
<1> DEFINE stay == {i \in DOMAIN lru : lru[i] # lru[p]}
           rank(i) == Cardinality({m \in stay : m <= i})
<1>1. p \in 1..Len(lru) /\ Len(lru) \in Nat /\ DOMAIN lru = 1..Len(lru)
  OBVIOUS
<1>2. stay = (1..Len(lru)) \ {p}
  BY <1>1 DEF Distinct
<1>3. Cardinality(stay) = Len(lru) - 1
  <2>1. IsFiniteSet(1..Len(lru)) /\ Cardinality(1..Len(lru)) = Len(lru)
    BY <1>1, CountTo
  <2>2. Cardinality((1..Len(lru)) \ {p}) = Len(lru) - 1
    <3> DEFINE S == 1..Len(lru)
    <3>1. IsFiniteSet(S) /\ Cardinality(S) = Len(lru) /\ p \in S
      BY <1>1, <2>1
    <3> HIDE DEF S
    <3>2. Cardinality(S \ {p}) = Cardinality(S) - 1
      BY <3>1, FS_RemoveElement, Zenon
    <3>3. QED
      BY <3>1, <3>2 DEF S
  <2>3. QED
    BY <1>2, <2>2, Zenon
<1>4. ASSUME NEW i \in stay PROVE rank(i) = IF i < p THEN i ELSE i - 1
  <2>1. i \in 1..Len(lru) /\ i # p
    BY <1>2
  <2>2. IsFiniteSet(1..i) /\ Cardinality(1..i) = i
    BY <2>1, CountTo
  <2>3. {m \in stay : m <= i} = (1..i) \ {p}
    BY <1>1, <1>2, <2>1
  <2>4. Cardinality((1..i) \ {p}) = IF p \in 1..i THEN i - 1 ELSE i
    BY <2>2, FS_RemoveElement, Zenon
  <2>5. p \in 1..i <=> ~ (i < p)
    BY <1>1, <2>1
  <2>6. QED
    BY <2>3, <2>4, <2>5, Zenon
<1>5. Unlist(lru[p]) = [j \in 1..(Len(lru) - 1) |-> lru[CHOOSE i \in stay : rank(i) = j]]
  BY <1>3 DEF Unlist
<1> HIDE DEF stay, rank
<1>6. ASSUME NEW j \in 1..(Len(lru) - 1)
      PROVE  (CHOOSE i \in stay : rank(i) = j) = IF j < p THEN j ELSE j + 1
  <2> DEFINE w == IF j < p THEN j ELSE j + 1
  <2>1. w \in stay /\ rank(w) = j
    <3>1. w \in stay
      BY <1>1, <1>2
    <3>2. (IF w < p THEN w ELSE w - 1) = j
      BY <1>1
    <3>3. QED
      BY <1>4, <3>1, <3>2
  <2>2. \A i \in stay : rank(i) = j => i = w
    <3>1. \A i \in stay : i \in Nat /\ i # p
      BY <1>2
    <3>2. QED
      BY <1>1, <1>4, <3>1
  <2> HIDE DEF w
  <2>3. (CHOOSE i \in stay : rank(i) = j) = w
    BY <2>1, <2>2
  <2>4. QED
    BY <2>3 DEF w
<1>7. QED
  BY <1>5, <1>6, Zenon

\* lru_.remove(k) takes k off the list and leaves the order of the rest alone.
LEMMA UnlistFacts ==
    ASSUME lru \in Seq(Key), Distinct(lru), NEW k \in Elems(lru), Recency(lru, since)
    PROVE  /\ Unlist(k) \in Seq(Key)
           /\ Elems(Unlist(k)) = Elems(lru) \ {k}
           /\ Distinct(Unlist(k))
           /\ Recency(Unlist(k), since)
<1>1. PICK p \in DOMAIN lru : k = lru[p]
  BY DEF Elems
<1> DEFINE q == Unlist(k)
           at(j) == IF j < p THEN j ELSE j + 1
           n == Len(lru) - 1
<1>2. p \in 1..Len(lru) /\ Len(lru) \in Nat /\ DOMAIN lru = 1..Len(lru) /\ n \in Nat
  OBVIOUS
<1>3. DOMAIN q = 1..n /\ \A j \in 1..n : q[j] = lru[at(j)]
  BY <1>1, UnlistIs
<1>4. q = [j \in 1..n |-> q[j]]
  BY <1>3 DEF Unlist
<1> HIDE DEF q
<1>5. \A j \in 1..n : at(j) \in DOMAIN lru /\ at(j) # p
  BY <1>2
<1>6. \A i, j \in 1..n : (at(i) = at(j) => i = j) /\ (i < j => at(i) < at(j))
  BY <1>2
<1>7. \A i \in DOMAIN lru : i # p => \E j \in 1..n : at(j) = i
  <2> SUFFICES ASSUME NEW i \in DOMAIN lru, i # p PROVE \E j \in 1..n : at(j) = i
    OBVIOUS
  <2>1. CASE i < p
    <3>1. i \in 1..n /\ at(i) = i
      BY <1>2, <2>1
    <3>2. QED
      BY <3>1
  <2>2. CASE ~ (i < p)
    <3>1. i - 1 \in 1..n /\ at(i - 1) = i
      BY <1>2, <2>2
    <3>2. QED
      BY <3>1
  <2>3. QED
    BY <2>1, <2>2
<1> HIDE DEF at, n
<1>8. \A j \in 1..n : q[j] \in Key
  BY <1>3, <1>5
<1>9. q \in Seq(Key)
  BY <1>2, <1>4, <1>8, SeqDef
<1>10. Elems(q) = Elems(lru) \ {k}
  <2>1. ASSUME NEW x \in Elems(q) PROVE x \in Elems(lru) \ {k}
    BY <1>1, <1>3, <1>5 DEF Elems, Distinct
  <2>2. ASSUME NEW x \in Elems(lru) \ {k} PROVE x \in Elems(q)
    <3>1. PICK i \in DOMAIN lru : x = lru[i] /\ i # p
      BY <1>1 DEF Elems
    <3>2. PICK j \in 1..n : at(j) = i
      BY <1>7, <3>1
    <3>3. QED
      BY <1>3, <3>1, <3>2 DEF Elems
  <2>3. QED
    BY <2>1, <2>2
<1>11. Distinct(q)
  BY <1>3, <1>5, <1>6 DEF Distinct
<1>12. Recency(q, since)
  BY <1>3, <1>5, <1>6 DEF Recency
<1>13. QED
  BY <1>9, <1>10, <1>11, <1>12 DEF q

\* The eviction loop stops at a place of the list, where there is room.
LEMMA KeptFacts ==
    ASSUME lru \in Seq(Key)
    PROVE  /\ Kept \in 0..Len(lru)
           /\ AtCapacity => Room(Kept)
           /\ ~ AtCapacity => Kept = Len(lru)
<1>1. Len(lru) \in Nat
  OBVIOUS
<1>2. CASE ~ AtCapacity
  BY <1>1, <1>2 DEF Kept
<1>3. CASE AtCapacity
  <2> DEFINE S == {n \in 0..Len(lru) : Room(n)}
  <2>1. 0 \in S
    BY <1>1 DEF Room
  <2>2. S \in SUBSET (0..Len(lru)) /\ S # {}
    BY <2>1
  <2> HIDE DEF S
  <2>3. PICK x \in S : \A y \in S : y <= x
    BY <1>1, <2>2, GreatestExists, Zenon
  <2>4. \E n \in 0..Len(lru) : Room(n) /\ \A m \in 0..Len(lru) : Room(m) => m <= n
    BY <2>3 DEF S
  <2>5. Kept = CHOOSE n \in 0..Len(lru) : Room(n) /\ \A m \in 0..Len(lru) : Room(m) => m <= n
    BY <1>3 DEF Kept
  <2>6. Kept \in 0..Len(lru) /\ Room(Kept)
    BY <2>4, <2>5, Zenon
  <2>7. QED
    BY <1>3, <2>6
<1>4. QED
  BY <1>2, <1>3

-----------------------------------------------------------------------------
(***************************************************************************)
(* The calls: nothing happens to the store.                                *)
(***************************************************************************)
\* The kinds of operations have their own fields.
LEMMA OperationFacts ==
    ASSUME NEW o \in Operation
    PROVE  /\ o # NoOp
           /\ o.kind \in {"get", "put"} =>
                o \in [kind : {"get", "put"}, key : Key, ttl : Nat,
                       at : {"dispatch", "lock"}, now : Nat]
           /\ o.kind = "remove" => o \in [kind : {"remove"}, key : Key, at : {"dispatch", "lock"}]
           /\ o.kind \in {"get", "put", "remove", "clear"}
  BY DEF Operation, NoOp

\* The operation of a thread that is in one.
LEMMA InOperation ==
    ASSUME TypeOK, NEW t \in Thread, op[t] # NoOp
    PROVE  op[t] \in Operation
  BY DEF TypeOK

\* A step that leaves the store and the clock alone.
LEMMA StoreKept ==
    ASSUME IInv, NEW t \in Thread, NEW o, o = NoOp \/ o \in Operation,
           o # NoOp /\ o.kind \in {"get", "put"} => o.now <= clock,
           op' = [op EXCEPT ![t] = o], UNCHANGED <<clock, serving, store>>
    PROVE  IInv'
<1> USE DEF store
<1>1. op' \in [Thread -> Operation \cup {NoOp}]
  BY DEF IInv, TypeOK
<1>2. TypeOK'
  BY <1>1 DEF IInv, TypeOK
<1>3. Timely'
  <2>1. op'[t] = o /\ \A u \in Thread : u # t => op'[u] = op[u]
    BY DEF IInv, TypeOK
  <2>2. QED
    BY <2>1 DEF IInv, Timely
<1>4. ListMatchesMap' /\ Recency(lru, since)'
  BY DEF IInv, ListMatchesMap, Recency
<1>5. QED
  BY <1>2, <1>3, <1>4 DEF IInv

\* The numbers among the constants.
LEMMA ConstantsAreNat ==
    /\ Capacity \in Nat /\ DefaultTtl \in Nat /\ RemoteTtl \in Nat /\ MaxTime \in Nat
    /\ \A ttl \in Ttls : ttl \in Nat
    /\ \A ttl \in Nat : EffectiveTtl(ttl) \in Nat /\ ResolveTtl(ttl) \in Nat
  BY CacheAssumption DEF EffectiveTtl, ResolveTtl

\* A thread that enters an operation of the local cache has read the clock.
LEMMA CallLocalInv ==
    ASSUME IInv, NEW t \in Thread, CallLocal(t)
    PROVE  IInv'
<1>1. clock \in Nat
  BY ConstantsAreNat DEF IInv, TypeOK
<1>2. PICK k \in Key, ttl \in Ttls :
        \E o \in {[kind |-> "get", key |-> k, ttl |-> 0, at |-> "lock", now |-> clock],
                  [kind |-> "put", key |-> k, ttl |-> ttl,
                   at |-> "lock", now |-> clock],
                  [kind |-> "remove", key |-> k, at |-> "lock"],
                  [kind |-> "clear", at |-> "lock"]} :
           op' = [op EXCEPT ![t] = o]
  BY Zenon DEF CallLocal
<1>3. PICK o \in {[kind |-> "get", key |-> k, ttl |-> 0, at |-> "lock", now |-> clock],
                  [kind |-> "put", key |-> k, ttl |-> ttl,
                   at |-> "lock", now |-> clock],
                  [kind |-> "remove", key |-> k, at |-> "lock"],
                  [kind |-> "clear", at |-> "lock"]} :
           op' = [op EXCEPT ![t] = o]
  BY <1>2, Zenon
<1>4. o \in Operation /\ (o.kind \in {"get", "put"} => o.now <= clock)
  BY <1>1, ConstantsAreNat DEF Operation
<1>5. QED
  BY <1>3, <1>4, StoreKept, Zenon DEF CallLocal

\* A thread that calls a RemoteCache has only sent the request.
LEMMA CallRemoteInv ==
    ASSUME IInv, NEW t \in Thread, CallRemote(t)
    PROVE  IInv'
<1>1. clock \in Nat
  BY ConstantsAreNat DEF IInv, TypeOK
<1>2. PICK k \in Key, ttl \in Ttls :
        \E o \in {[kind |-> "get", key |-> k, ttl |-> 0, at |-> "dispatch", now |-> 0],
                  [kind |-> "put", key |-> k, ttl |-> ResolveTtl(ttl),
                   at |-> "dispatch", now |-> 0],
                  [kind |-> "remove", key |-> k, at |-> "dispatch"],
                  [kind |-> "clear", at |-> "dispatch"]} :
           op' = [op EXCEPT ![t] = o]
  BY Zenon DEF CallRemote
<1>3. PICK o \in {[kind |-> "get", key |-> k, ttl |-> 0, at |-> "dispatch", now |-> 0],
                  [kind |-> "put", key |-> k, ttl |-> ResolveTtl(ttl),
                   at |-> "dispatch", now |-> 0],
                  [kind |-> "remove", key |-> k, at |-> "dispatch"],
                  [kind |-> "clear", at |-> "dispatch"]} :
           op' = [op EXCEPT ![t] = o]
  BY <1>2, Zenon
<1>4. o \in Operation /\ (o.kind \in {"get", "put"} => o.now <= clock)
  BY <1>1, ConstantsAreNat DEF Operation
<1>5. QED
  BY <1>3, <1>4, StoreKept, Zenon DEF CallRemote

\* The in-process channel dispatches the request: the store reads the clock there.
LEMMA DispatchInv ==
    ASSUME IInv, NEW t \in Thread, Dispatch(t)
    PROVE  IInv'
<1> DEFINE o == IF op[t].kind \in {"get", "put"}
                THEN [op[t] EXCEPT !.at = "lock", !.now = clock]
                ELSE [op[t] EXCEPT !.at = "lock"]
<1>1. clock \in Nat /\ op[t] \in Operation
  BY ConstantsAreNat, InOperation DEF IInv, TypeOK, Dispatch
<1>2. o \in Operation /\ (o.kind \in {"get", "put"} => o.now <= clock)
  <2>1. CASE op[t].kind \in {"get", "put"}
    <3> DEFINE R == [kind : {"get", "put"}, key : Key, ttl : Nat,
                     at : {"dispatch", "lock"}, now : Nat]
    <3>1. op[t] \in R
      BY <1>1, <2>1, OperationFacts
    <3>2. [op[t] EXCEPT !.at = "lock", !.now = clock] \in R
          /\ [op[t] EXCEPT !.at = "lock", !.now = clock].now = clock
      BY <1>1, <3>1, Zenon
    <3>3. o = [op[t] EXCEPT !.at = "lock", !.now = clock]
      BY <2>1
    <3>4. R \subseteq Operation
      BY DEF Operation
    <3> HIDE DEF o, R
    <3>5. QED
      BY <1>1, <3>2, <3>3, <3>4
  <2>2. CASE op[t].kind \notin {"get", "put"}
    BY <1>1, <2>2, OperationFacts DEF Operation
  <2>3. QED
    BY <2>1, <2>2
<1>3. op' = [op EXCEPT ![t] = o]
  BY DEF Dispatch, IInv, TypeOK
<1>4. QED
  BY <1>2, <1>3, StoreKept, Zenon DEF Dispatch

\* The clock moves on, or the server starts or stops; the store is not touched.
LEMMA TickServeInv ==
    ASSUME IInv, Tick \/ Serve
    PROVE  IInv'
<1> USE DEF store, Tick, Serve
<1>1. clock' \in 0..MaxTime /\ clock \in Nat /\ clock' \in Nat /\ clock <= clock'
  <2>1. clock \in 0..MaxTime
    BY DEF IInv, TypeOK
  <2>2. clock' = clock \/ (clock < MaxTime /\ clock' = clock + 1)
    BY Zenon
  <2>3. QED
    BY <2>1, <2>2, ConstantsAreNat
<1>2. TypeOK'
  <2>1. serving' \in BOOLEAN
    BY Zenon DEF IInv, TypeOK
  <2>2. UNCHANGED <<entries, lru, since, op>>
    OBVIOUS
  <2>3. QED
    BY <1>1, <2>1, <2>2 DEF IInv, TypeOK
<1>3. Timely'
  <2>1. op' = op /\ entries' = entries
    OBVIOUS
  <2>2. \A t \in Thread : op[t] # NoOp /\ op[t].kind \in {"get", "put"} => op[t].now \in Nat
    BY InOperation, OperationFacts DEF IInv
  <2>3. QED
    BY <1>1, <2>1, <2>2 DEF IInv, Timely
<1>4. ListMatchesMap' /\ Recency(lru, since)'
  BY DEF IInv, ListMatchesMap, Recency
<1>5. QED
  BY <1>2, <1>3, <1>4 DEF IInv

-----------------------------------------------------------------------------
(***************************************************************************)
(* The critical sections.                                                  *)
(***************************************************************************)
\* What the list says of the map, with the vocabulary of the list lemmas.
LEMMA ListFacts ==
    ASSUME IInv
    PROVE  /\ lru \in Seq(Key) /\ Distinct(lru) /\ Recency(lru, since)
           /\ Elems(lru) = DOMAIN entries
           /\ IsFiniteSet(DOMAIN entries) /\ DOMAIN entries \in SUBSET Key
           /\ Cardinality(DOMAIN entries) \in Nat
<1>1. lru \in Seq(Key) /\ Distinct(lru) /\ Recency(lru, since) /\ Elems(lru) = DOMAIN entries
  BY DEF IInv, TypeOK, ListMatchesMap, Distinct, Elems
<1>2. DOMAIN entries \in SUBSET Key
  BY DEF IInv, TypeOK
<1>3. IsFiniteSet(DOMAIN entries) /\ Cardinality(DOMAIN entries) \in Nat
  BY <1>2, CacheAssumption, FS_Subset, FS_CardinalityType
<1>4. QED
  BY <1>1, <1>2, <1>3

\* The operation a critical section belongs to.
LEMMA LockedFacts ==
    ASSUME IInv, NEW t \in Thread, Locked(t, "get") \/ Locked(t, "put")
    PROVE  /\ op[t].key \in Key /\ op[t].ttl \in Nat /\ op[t].now \in Nat
           /\ op[t].now <= clock /\ clock \in Nat
<1>1. op[t] # NoOp /\ op[t].kind \in {"get", "put"}
  BY DEF Locked
<1>2. op[t] \in Operation
  BY <1>1, InOperation DEF IInv
<1>3. op[t].key \in Key /\ op[t].ttl \in Nat /\ op[t].now \in Nat
  BY <1>1, <1>2, OperationFacts
<1>4. op[t].now <= clock
  BY <1>1 DEF IInv, Timely
<1>5. clock \in Nat
  BY ConstantsAreNat DEF IInv, TypeOK
<1>6. QED
  BY <1>3, <1>4, <1>5

\* A critical section that leaves behind a good store leaves behind a good state.
LEMMA SectionEnds ==
    ASSUME IInv, NEW t \in Thread, Return(t),
           DOMAIN entries' \in SUBSET Key,
           \A k \in DOMAIN entries' :
              entries'[k] \in Entry /\ entries'[k].expires <= entries'[k].deadline,
           Capacity > 0 => Cardinality(DOMAIN entries') <= Capacity,
           lru' \in Seq(Key), Distinct(lru'), Elems(lru') = DOMAIN entries',
           since' \in [Key -> SUBSET Key], Recency(lru', since')
    PROVE  IInv'
<1> USE DEF Return
<1>1. op' \in [Thread -> Operation \cup {NoOp}]
  BY DEF IInv, TypeOK
<1>2. TypeOK'
  BY <1>1 DEF IInv, TypeOK
<1>3. Timely'
  <2>1. \A u \in Thread : op'[u] # NoOp => op'[u] = op[u]
    BY DEF IInv, TypeOK
  <2>2. QED
    BY <2>1 DEF IInv, Timely
<1>4. ListMatchesMap'
  BY DEF ListMatchesMap, Distinct, Elems
<1>5. QED
  BY <1>2, <1>3, <1>4 DEF IInv

\* Taking a key out of the map and off the list.
LEMMA DropFacts ==
    ASSUME IInv, NEW k, Present(k), entries' = Erase({k}), lru' = Unlist(k), since' = since
    PROVE  /\ DOMAIN entries' \in SUBSET Key
           /\ \A j \in DOMAIN entries' :
                 entries'[j] \in Entry /\ entries'[j].expires <= entries'[j].deadline
           /\ Capacity > 0 => Cardinality(DOMAIN entries') <= Capacity
           /\ lru' \in Seq(Key) /\ Distinct(lru') /\ Elems(lru') = DOMAIN entries'
           /\ since' \in [Key -> SUBSET Key] /\ Recency(lru', since')
<1>1. DOMAIN entries' = DOMAIN entries \ {k} /\ \A j \in DOMAIN entries' : entries'[j] = entries[j]
  BY DEF Erase
<1>2. DOMAIN entries' \in SUBSET DOMAIN entries
  BY <1>1
<1>3. \A j \in DOMAIN entries' :
         entries'[j] \in Entry /\ entries'[j].expires <= entries'[j].deadline
  BY <1>1, Zenon DEF IInv, TypeOK, Timely
<1>4. Capacity > 0 => Cardinality(DOMAIN entries') <= Capacity
  <2>1. Cardinality(DOMAIN entries') <= Cardinality(DOMAIN entries)
        /\ Cardinality(DOMAIN entries') \in Nat
    BY <1>2, ListFacts, FS_Subset, FS_CardinalityType, Zenon
  <2>2. Capacity > 0 => Cardinality(DOMAIN entries) <= Capacity
    BY DEF IInv, TypeOK
  <2>3. Cardinality(DOMAIN entries) \in Nat /\ Capacity \in Nat
    BY ListFacts, ConstantsAreNat
  <2>4. QED
    BY <2>1, <2>2, <2>3
<1>5. lru' \in Seq(Key) /\ Distinct(lru') /\ Elems(lru') = DOMAIN entries' /\ Recency(lru', since')
  BY <1>1, ListFacts, UnlistFacts, Zenon DEF Present
<1>6. QED
  BY <1>1, <1>2, <1>3, <1>4, <1>5, ListFacts, Zenon DEF IInv, TypeOK

\* Get of an absent key changes nothing but the caller.
LEMMA GetMissInv ==
    ASSUME IInv, NEW t \in Thread, GetMiss(t)
    PROVE  IInv'
  BY StoreKept, Zenon DEF GetMiss, Return

\* Get of an expired entry removes it from map and list.
LEMMA GetExpiredInv ==
    ASSUME IInv, NEW t \in Thread, GetExpired(t)
    PROVE  IInv'
  BY DropFacts, SectionEnds, Zenon DEF GetExpired

\* Remove takes a cached key out of map and list.
LEMMA RemoveInv ==
    ASSUME IInv, NEW t \in Thread, Remove(t)
    PROVE  IInv'
<1>1. CASE UNCHANGED <<entries, lru>>
  BY <1>1, StoreKept, Zenon DEF Remove, Return, store
<1>2. CASE Present(op[t].key) /\ entries' = Erase({op[t].key}) /\ lru' = Unlist(op[t].key)
  BY <1>2, DropFacts, SectionEnds, Zenon DEF Remove
<1>3. QED
  BY <1>1, <1>2 DEF Remove

\* Clear empties map and list together.
LEMMA ClearInv ==
    ASSUME IInv, NEW t \in Thread, Clear(t)
    PROVE  IInv'
<1>1. DOMAIN entries' = {} /\ lru' = <<>> /\ since' = since /\ Return(t)
  BY DEF Clear, Erase, IInv, TypeOK
<1>2. Cardinality(DOMAIN entries') = 0
  BY <1>1, FS_EmptySet
<1>3. lru' \in Seq(Key) /\ Distinct(lru') /\ Elems(lru') = {} /\ Recency(lru', since')
  BY <1>1 DEF Distinct, Elems, Recency
<1>4. since' \in [Key -> SUBSET Key]
  BY <1>1 DEF IInv, TypeOK
<1>5. DOMAIN entries' \in SUBSET Key /\ Elems(lru') = DOMAIN entries'
      /\ (Capacity > 0 => Cardinality(DOMAIN entries') <= Capacity)
      /\ \A k \in DOMAIN entries' :
            entries'[k] \in Entry /\ entries'[k].expires <= entries'[k].deadline
  <2>1. DOMAIN entries' \in SUBSET Key /\ Elems(lru') = DOMAIN entries'
    BY <1>1, <1>3
  <2>2. \A k \in DOMAIN entries' :
           entries'[k] \in Entry /\ entries'[k].expires <= entries'[k].deadline
    BY <1>1, Zenon
  <2>3. Capacity > 0 => Cardinality(DOMAIN entries') <= Capacity
    BY <1>2, ConstantsAreNat
  <2>4. QED
    BY <2>1, <2>2, <2>3
<1>6. QED
  BY <1>1, <1>3, <1>4, <1>5, SectionEnds

\* A key used again moves to the front, and every other key has seen its use.
LEMMA RefreshFacts ==
    ASSUME IInv, NEW k, Present(k), lru' = <<k>> \o Unlist(k), Touch(k)
    PROVE  /\ lru' \in Seq(Key) /\ Distinct(lru') /\ Elems(lru') = DOMAIN entries
           /\ since' \in [Key -> SUBSET Key] /\ Recency(lru', since')
<1>1. k \in Key /\ k \in Elems(lru)
  BY ListFacts DEF Present
<1>2. Unlist(k) \in Seq(Key) /\ Elems(Unlist(k)) = Elems(lru) \ {k} /\ Distinct(Unlist(k))
      /\ Recency(Unlist(k), since)
  BY <1>1, ListFacts, UnlistFacts
<1>3. \A x \in Elems(Unlist(k)) : since'[x] = since[x] \cup {k}
  BY <1>2, ListFacts DEF Touch
<1>4. /\ <<k>> \o Unlist(k) \in Seq(Key)
      /\ Elems(<<k>> \o Unlist(k)) = Elems(Unlist(k)) \cup {k}
      /\ Distinct(<<k>> \o Unlist(k))
      /\ Recency(<<k>> \o Unlist(k), since')
  BY <1>1, <1>2, <1>3, PushFacts, Zenon
<1>5. since' \in [Key -> SUBSET Key]
  BY <1>1 DEF IInv, TypeOK, Touch
<1>6. QED
  BY <1>1, <1>2, <1>4, <1>5, ListFacts, Zenon

\* A hit moves its key to the front of the list.
LEMMA GetHitInv ==
    ASSUME IInv, NEW t \in Thread, GetHit(t)
    PROVE  IInv'
<1>1. entries' = entries /\ Return(t)
  BY DEF GetHit
<1>2. lru' \in Seq(Key) /\ Distinct(lru') /\ Elems(lru') = DOMAIN entries
      /\ since' \in [Key -> SUBSET Key] /\ Recency(lru', since')
  BY RefreshFacts, SMTT(30) DEF GetHit
<1>3. DOMAIN entries \in SUBSET Key /\ (Capacity > 0 => Cardinality(DOMAIN entries) <= Capacity)
      /\ \A k \in DOMAIN entries : entries[k] \in Entry /\ entries[k].expires <= entries[k].deadline
  BY DEF IInv, TypeOK, Timely
<1>4. QED
  BY <1>1, <1>2, <1>3, SectionEnds

\* A new entry is one, and its expiry is not after its deadline.
LEMMA NewEntryFacts ==
    ASSUME IInv, NEW t \in Thread, Locked(t, "put")
    PROVE  /\ NewEntry(op[t]) \in Entry
           /\ NewEntry(op[t]).expires <= NewEntry(op[t]).deadline
<1>1. op[t].ttl \in Nat /\ op[t].now \in Nat /\ op[t].now <= clock /\ clock \in Nat
  BY LockedFacts
<1>2. EffectiveTtl(op[t].ttl) \in Nat
  BY <1>1, ConstantsAreNat
<1>3. QED
  BY <1>1, <1>2 DEF NewEntry, Entry

\* Put of a cached key replaces the entry and moves the key to the front.
LEMMA PutPresentInv ==
    ASSUME IInv, NEW t \in Thread, PutPresent(t)
    PROVE  IInv'
<1> DEFINE k == op[t].key
<1>1. Present(k) /\ entries' = [entries EXCEPT ![k] = NewEntry(op[t])] /\ Return(t)
  BY DEF PutPresent
<1>2. lru' \in Seq(Key) /\ Distinct(lru') /\ Elems(lru') = DOMAIN entries
      /\ since' \in [Key -> SUBSET Key] /\ Recency(lru', since')
  BY RefreshFacts, SMTT(30) DEF PutPresent
<1>3. DOMAIN entries' = DOMAIN entries
      /\ \A j \in DOMAIN entries : entries'[j] = IF j = k THEN NewEntry(op[t]) ELSE entries[j]
  BY <1>1, SMTT(30) DEF Present
<1>4. \A j \in DOMAIN entries' :
         entries'[j] \in Entry /\ entries'[j].expires <= entries'[j].deadline
  BY <1>3, NewEntryFacts DEF PutPresent, IInv, TypeOK, Timely
<1>5. DOMAIN entries \in SUBSET Key /\ (Capacity > 0 => Cardinality(DOMAIN entries) <= Capacity)
  BY DEF IInv, TypeOK
<1>6. QED
  BY <1>1, <1>2, <1>3, <1>4, <1>5, SectionEnds, Zenon

\* What is left after the eviction loop: the front of the list, with room for
\* one more key.
LEMMA EvictFacts ==
    ASSUME IInv
    PROVE  /\ SubSeq(lru, 1, Kept) \in Seq(Key)
           /\ Elems(SubSeq(lru, 1, Kept)) = DOMAIN entries \ Suffix(Kept)
           /\ Distinct(SubSeq(lru, 1, Kept))
           /\ Recency(SubSeq(lru, 1, Kept), since)
           /\ Cardinality(DOMAIN entries \ Suffix(Kept)) \in Nat
           /\ Capacity > 0 => Cardinality(DOMAIN entries \ Suffix(Kept)) < Capacity
<1>1. Kept \in 0..Len(lru) /\ (AtCapacity => Room(Kept)) /\ (~ AtCapacity => Kept = Len(lru))
  BY ListFacts, KeptFacts
<1>2. Suffix(Kept) = {lru[i] : i \in (Kept + 1)..Len(lru)}
  BY DEF Suffix
<1>3. /\ SubSeq(lru, 1, Kept) \in Seq(Key)
      /\ Elems(SubSeq(lru, 1, Kept)) = Elems(lru) \ Suffix(Kept)
      /\ Distinct(SubSeq(lru, 1, Kept))
      /\ Recency(SubSeq(lru, 1, Kept), since)
  BY <1>1, <1>2, ListFacts, PrefixFacts
<1> DEFINE D == DOMAIN entries \ Suffix(Kept)
<1>4. IsFiniteSet(D) /\ Cardinality(D) \in Nat /\ Cardinality(D) <= Cardinality(DOMAIN entries)
  <2>1. D \in SUBSET DOMAIN entries
    OBVIOUS
  <2> HIDE DEF D
  <2>2. QED
    BY <2>1, ListFacts, FS_Subset, FS_CardinalityType
<1>5. Capacity > 0 => Cardinality(D) < Capacity
  <2> SUFFICES ASSUME Capacity > 0 PROVE Cardinality(D) < Capacity
    OBVIOUS
  <2>1. CASE AtCapacity /\ Kept = 0
    <3>1. SubSeq(lru, 1, Kept) = <<>>
      BY <2>1, ListFacts
    <3>2. D = {}
      BY <1>3, <3>1, ListFacts DEF Elems
    <3>3. QED
      BY <3>2, FS_EmptySet
  <2>2. CASE AtCapacity /\ Kept # 0
    BY <1>1, <2>2 DEF Room
  <2>3. CASE ~ AtCapacity
    <3>1. Cardinality(DOMAIN entries) < Capacity
      BY <2>3, ListFacts, ConstantsAreNat DEF AtCapacity
    <3>2. QED
      BY <1>4, <3>1, ListFacts, ConstantsAreNat
  <2>4. QED
    BY <2>1, <2>2, <2>3
<1>6. QED
  BY <1>3, <1>4, <1>5, ListFacts

\* Put of a new key evicts the last of the list when the cache is full, then lists the key.
LEMMA PutAbsentInv ==
    ASSUME IInv, NEW t \in Thread, PutAbsent(t)
    PROVE  IInv'
<1> DEFINE k == op[t].key
           front == SubSeq(lru, 1, Kept)
           D == DOMAIN entries \ Suffix(Kept)
<1>1. ~ Present(k) /\ lru' = <<k>> \o front /\ Touch(k) /\ Return(t) /\ Locked(t, "put")
  BY DEF PutAbsent
<1>2. DOMAIN entries' = D \cup {k}
      /\ \A j \in DOMAIN entries' : entries'[j] = IF j = k THEN NewEntry(op[t]) ELSE entries[j]
  BY DEF PutAbsent, Erase
<1>3. k \in Key /\ k \notin D /\ D \in SUBSET DOMAIN entries
  BY <1>1, LockedFacts DEF Present
<1>4. /\ front \in Seq(Key) /\ Elems(front) = D /\ Distinct(front) /\ Recency(front, since)
      /\ Cardinality(D) \in Nat /\ (Capacity > 0 => Cardinality(D) < Capacity)
  BY EvictFacts
<1> HIDE DEF k, front, D
<1>5. \A x \in D : since'[x] = since[x] \cup {k}
  BY <1>1, <1>3, ListFacts DEF Touch
<1>6. lru' \in Seq(Key) /\ Elems(lru') = D \cup {k} /\ Distinct(lru') /\ Recency(lru', since')
  BY <1>1, <1>3, <1>4, <1>5, PushFacts, Zenon
<1>7. since' \in [Key -> SUBSET Key]
  BY <1>1, <1>3 DEF IInv, TypeOK, Touch
<1>8. \A j \in DOMAIN entries' :
         entries'[j] \in Entry /\ entries'[j].expires <= entries'[j].deadline
  <2>1. NewEntry(op[t]) \in Entry /\ NewEntry(op[t]).expires <= NewEntry(op[t]).deadline
    BY <1>1, NewEntryFacts
  <2>2. \A j \in D : entries[j] \in Entry /\ entries[j].expires <= entries[j].deadline
    BY <1>3 DEF IInv, TypeOK, Timely
  <2>3. QED
    BY <1>2, <2>1, <2>2
<1>9. Capacity > 0 => Cardinality(DOMAIN entries') <= Capacity
  <2>1. IsFiniteSet(D)
    BY <1>3, ListFacts, FS_Subset
  <2>2. Cardinality(D \cup {k}) = Cardinality(D) + 1
    BY <1>3, <2>1, FS_AddElement, Zenon
  <2>3. QED
    BY <1>2, <1>4, <2>2, ConstantsAreNat
<1>10. DOMAIN entries' \in SUBSET Key
  BY <1>2, <1>3, ListFacts
<1>11. QED
  BY <1>1, <1>2, <1>6, <1>7, <1>8, <1>9, <1>10, SectionEnds, Zenon

-----------------------------------------------------------------------------
(***************************************************************************)
(* The theorems.                                                           *)
(***************************************************************************)
LEMMA InitInv == Init => IInv
<1> SUFFICES ASSUME Init PROVE IInv
  OBVIOUS
<1>1. DOMAIN entries = {} /\ lru = <<>>
  BY DEF Init
<1>2. Cardinality(DOMAIN entries) = 0
  BY <1>1, FS_EmptySet
<1>3. ListMatchesMap /\ Recency(lru, since)
  BY <1>1 DEF ListMatchesMap, Recency
<1>4. Timely
  BY <1>1 DEF Timely, Init
<1>5. TypeOK
  <2>1. clock \in 0..MaxTime /\ serving \in BOOLEAN /\ lru \in Seq(Key)
    <3>1. clock \in 0..MaxTime
      BY ConstantsAreNat DEF Init
    <3>2. serving \in BOOLEAN
      BY Zenon DEF Init
    <3>3. QED
      BY <1>1, <3>1, <3>2
  <2>2. op \in [Thread -> Operation \cup {NoOp}] /\ since \in [Key -> SUBSET Key]
    BY DEF Init
  <2>3. DOMAIN entries \subseteq Key /\ \A k \in DOMAIN entries : entries[k] \in Entry
    BY <1>1, Zenon
  <2>4. Capacity > 0 => Cardinality(DOMAIN entries) <= Capacity
    BY <1>2, ConstantsAreNat
  <2>5. QED
    BY <2>1, <2>2, <2>3, <2>4 DEF TypeOK
<1>6. QED
  BY <1>3, <1>4, <1>5 DEF IInv

\* Every step of the cache preserves the inductive invariant.
LEMMA StepInv == IInv /\ [Next]_vars => IInv'
<1> SUFFICES ASSUME IInv, [Next]_vars PROVE IInv'
  OBVIOUS
<1>1. CASE Tick \/ Serve
  BY <1>1, TickServeInv
<1>2. ASSUME NEW t \in Thread, CallLocal(t) \/ CallRemote(t) \/ Dispatch(t)
      PROVE  IInv'
  BY <1>2, CallLocalInv, CallRemoteInv, DispatchInv
<1>3. ASSUME NEW t \in Thread, GetMiss(t) \/ GetExpired(t) \/ GetHit(t)
      PROVE  IInv'
  BY <1>3, GetMissInv, GetExpiredInv, GetHitInv
<1>4. ASSUME NEW t \in Thread, PutPresent(t) \/ PutAbsent(t) \/ Remove(t) \/ Clear(t)
      PROVE  IInv'
  BY <1>4, PutPresentInv, PutAbsentInv, RemoveInv, ClearInv, SMTT(30)
<1>5. CASE UNCHANGED vars
  BY <1>5 DEF vars, IInv, TypeOK, ListMatchesMap, Recency, Timely
<1>6. QED
  BY <1>1, <1>2, <1>3, <1>4, <1>5 DEF Next

\* The inductive invariant holds in every reachable state.
THEOREM Invariance == Spec => []IInv
  BY InitInv, StepInv, PTL DEF Spec

\* The store is well typed and never holds more entries than its capacity,
\* whatever operations of whatever threads interleave (LocalCache::Put).
THEOREM CapacityRespected == Spec => []TypeOK
<1>1. IInv => TypeOK
  BY DEF IInv
<1>2. QED
  BY <1>1, Invariance, PTL

\* After every critical section lru_ lists each key of entries_ once, and no
\* other key (LocalCache::Get, Put, Remove and Clear).
THEOREM ListAlwaysMatchesMap == Spec => []ListMatchesMap
<1>1. IInv => ListMatchesMap
  BY DEF IInv
<1>2. QED
  BY <1>1, Invariance, PTL

\* A Put evicts only at capacity, and only keys that every key it keeps has been
\* used after (the eviction loop of LocalCache::Put).
THEOREM EvictionIsLeastRecent == Spec => EvictsLeastRecent
<1>1. IInv =>
         \A t \in Thread : PutAbsent(t) =>
            \A v \in DOMAIN entries \ DOMAIN entries' :
               /\ Capacity > 0 /\ Cardinality(DOMAIN entries) >= Capacity
               /\ \A k \in DOMAIN entries' \cap DOMAIN entries : k \in since[v]
  <2> SUFFICES ASSUME IInv, NEW t \in Thread, PutAbsent(t),
                      NEW v \in DOMAIN entries \ DOMAIN entries'
               PROVE  /\ Capacity > 0 /\ Cardinality(DOMAIN entries) >= Capacity
                      /\ \A k \in DOMAIN entries' \cap DOMAIN entries : k \in since[v]
    OBVIOUS
  <2>1. DOMAIN entries' = (DOMAIN entries \ Suffix(Kept)) \cup {op[t].key}
        /\ op[t].key \notin DOMAIN entries
    BY DEF PutAbsent, Erase, Present
  <2>2. v \in Suffix(Kept)
    BY <2>1
  <2>3. PICK j \in (Kept + 1)..Len(lru) : v = lru[j]
    BY <2>2 DEF Suffix
  <2>4. Kept \in 0..Len(lru) /\ (~ AtCapacity => Kept = Len(lru))
    BY ListFacts, KeptFacts
  <2>5. AtCapacity
    BY <2>3, <2>4, ListFacts
  <2>6. ASSUME NEW k \in DOMAIN entries' \cap DOMAIN entries PROVE k \in since[v]
    <3>1. k \in Elems(lru) /\ k \notin Suffix(Kept)
      BY <2>1, ListFacts
    <3>2. PICK i \in DOMAIN lru : k = lru[i]
      BY <3>1 DEF Elems
    <3>3. i \notin (Kept + 1)..Len(lru)
      BY <3>1, <3>2 DEF Suffix
    <3>4. i < j /\ j \in DOMAIN lru
      BY <2>3, <2>4, <3>2, <3>3, ListFacts
    <3>5. QED
      BY <2>3, <3>2, <3>4, ListFacts DEF Recency
  <2>7. QED
    BY <2>5, <2>6 DEF AtCapacity
<1>2. QED
  BY <1>1, Invariance, PTL DEF EvictsLeastRecent

\* A Get hits only an entry that had not expired when the Get began, although
\* both read the clock before they wait for the mutex (LocalCache::IsExpired).
THEOREM HitsAreFresh == Spec => HitIsFresh
<1>1. IInv =>
         \A t \in Thread : GetHit(t) =>
            LET e == entries[op[t].key] IN e.hasTtl => op[t].now < e.deadline
  <2> SUFFICES ASSUME IInv, NEW t \in Thread, GetHit(t), entries[op[t].key].hasTtl
               PROVE  op[t].now < entries[op[t].key].deadline
    OBVIOUS
  <2> DEFINE e == entries[op[t].key]
  <2>1. Locked(t, "get") /\ Present(op[t].key) /\ ~ IsExpired(e, op[t].now)
    BY DEF GetHit
  <2>2. op[t].now \in Nat
    BY <2>1, LockedFacts, SMTT(30)
  <2>3. e \in Entry /\ e.expires <= e.deadline
    BY <2>1 DEF IInv, TypeOK, Timely, Present
  <2>4. ~ (op[t].now >= e.expires)
    BY <2>1 DEF IsExpired
  <2>5. QED
    BY <2>2, <2>3, <2>4 DEF Entry
<1>2. QED
  BY <1>1, Invariance, PTL DEF HitIsFresh
=============================================================================
