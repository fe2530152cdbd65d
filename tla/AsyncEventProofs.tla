-------------------------- MODULE AsyncEventProofs ---------------------------
(***************************************************************************)
(* Proofs about AsyncEvent, for any number of coroutines and setters: the  *)
(* linked lists and the coroutines on them always agree, a suspended       *)
(* coroutine is on exactly one list, and every step is a step of the       *)
(* atomic event of module Event.                                           *)
(***************************************************************************)
EXTENDS AsyncEvent, SequenceTheorems, TLAPS

\* A waiter that is about to publish itself has linked what it will compare with.
Linked ==
    \A w \in Waiter : pc[w] = "cas" => next[w] = old[w] /\ old[w] # This

\* A coroutine that runs inside a Set() is the only one there, and Set() waits
\* for it.
Hosted ==
    /\ \A w \in Waiter : host[w] \in Setter =>
          spc[host[w]] = "inline" /\ pc[w] \notin {"suspended", "finished"}
    /\ \A v, w \in Waiter : host[v] = host[w] /\ host[w] \in Setter => v = w

-----------------------------------------------------------------------------
(***************************************************************************)
(* The inductive invariant: what ListsAgree and SuspendedOnce say, with    *)
(* the next pointers as an argument, and the two facts above.              *)
(***************************************************************************)
\* `first` and the next pointers nx spell out exactly the sequence seq.
Chain(nx, first, seq) ==
    /\ first = IF seq = <<>> THEN Null ELSE seq[1]
    /\ \A i \in DOMAIN seq :
          nx[seq[i]] = IF i = Len(seq) THEN Null ELSE seq[i + 1]

Distinct(seq) == \A i, j \in DOMAIN seq : seq[i] = seq[j] => i = j

\* The list that hangs off state_, and the rest of the list of the Set() of s.
PublishedOK ==
    /\ state = This => list = <<>>
    /\ state # This => Chain(next, state, list)

WalkOK(s) ==
    /\ spc[s] = "idle" => walk[s] = <<>>
    /\ spc[s] \in {"walk", "resume"} => Chain(next, cur[s], walk[s])
    /\ spc[s] = "resume" => walk[s] # <<>> /\ saved[s] = next[cur[s]]
    /\ spc[s] \in {"inline", "advance"} => Chain(next, saved[s], walk[s])

\* A coroutine is suspended iff it is on one of the lists, and on one only.
OnAList(w) == w \in Elems(list) \/ \E s \in Setter : w \in Elems(walk[s])

Apart ==
    /\ \A w \in Waiter : pc[w] = "suspended" <=> OnAList(w)
    /\ \A s \in Setter : Elems(list) \cap Elems(walk[s]) = {}
    /\ \A s, t \in Setter : s # t => Elems(walk[s]) \cap Elems(walk[t]) = {}
    /\ Distinct(list)
    /\ \A s \in Setter : Distinct(walk[s])

IInv ==
    /\ TypeOK
    /\ PublishedOK
    /\ \A s \in Setter : WalkOK(s)
    /\ Apart
    /\ Linked
    /\ Hosted

\* The invariant says what the model-checked properties say.
LEMMA IInvImplies == IInv => ListsAgree /\ SuspendedOnce
<1>1. IInv => ListsAgree
  BY DEF IInv, ListsAgree, PublishedOK, WalkOK, Chain, Spells
<1>2. IInv => SuspendedOnce
  BY DEF IInv, SuspendedOnce, Apart, OnAList, Distinct
<1>3. QED
  BY <1>1, <1>2

-----------------------------------------------------------------------------
(***************************************************************************)
(* Linked lists.                                                           *)
(***************************************************************************)
\* A chain does not depend on the next pointers of others.
LEMMA ChainKept ==
    ASSUME NEW nx, NEW ny, NEW first, NEW seq \in Seq(Waiter), Chain(nx, first, seq),
           \A x \in Elems(seq) : ny[x] = nx[x]
    PROVE  Chain(ny, first, seq)
  BY DEF Chain, Elems

\* A waiter that points to the head of a chain is the head of a longer one.
LEMMA ChainPush ==
    ASSUME NEW nx, NEW first, NEW seq \in Seq(Waiter), Chain(nx, first, seq),
           NEW w \in Waiter, nx[w] = first
    PROVE  Chain(nx, w, <<w>> \o seq)
<1> DEFINE q == <<w>> \o seq
<1>1. q \in Seq(Waiter) /\ Len(q) = Len(seq) + 1 /\ q[1] = w /\ q # <<>>
  OBVIOUS
<1>2. \A i \in 2 .. Len(q) : q[i] = seq[i - 1]
  OBVIOUS
<1>3. ASSUME NEW i \in DOMAIN q
      PROVE  nx[q[i]] = IF i = Len(q) THEN Null ELSE q[i + 1]
  <2>1. CASE i = 1
    BY <1>1, <1>2, <2>1 DEF Chain
  <2>2. CASE i # 1
    <3>1. i \in 2 .. Len(q) /\ i - 1 \in DOMAIN seq
      BY <1>1, <2>2
    <3>2. q[i] = seq[i - 1] /\ (i # Len(q) => q[i + 1] = seq[i])
      BY <1>1, <1>2, <3>1
    <3>3. nx[seq[i - 1]] = IF i - 1 = Len(seq) THEN Null ELSE seq[i]
      <4>1. (i - 1) + 1 = i
        BY <3>1
      <4>2. QED
        BY <3>1, <4>1 DEF Chain
    <3>4. i - 1 = Len(seq) <=> i = Len(q)
      BY <1>1, <3>1
    <3>5. QED
      BY <3>2, <3>3, <3>4
  <2>3. QED
    BY <2>1, <2>2
<1>4. QED
  BY <1>1, <1>3 DEF Chain

\* Behind the head of a chain is the chain of the rest.
LEMMA ChainTail ==
    ASSUME NEW nx, NEW first, NEW seq \in Seq(Waiter), Chain(nx, first, seq), seq # <<>>
    PROVE  Chain(nx, nx[first], Tail(seq))
<1> DEFINE q == Tail(seq)
<1>1. q \in Seq(Waiter) /\ Len(q) = Len(seq) - 1 /\ \A i \in 1 .. Len(q) : q[i] = seq[i + 1]
  OBVIOUS
<1>2. first = seq[1] /\ nx[seq[1]] = IF Len(seq) = 1 THEN Null ELSE seq[2]
  <2>1. 1 \in DOMAIN seq /\ 1 + 1 = 2
    OBVIOUS
  <2>2. QED
    BY <2>1, Zenon DEF Chain
<1>3. ASSUME NEW i \in DOMAIN q
      PROVE  nx[q[i]] = IF i = Len(q) THEN Null ELSE q[i + 1]
  BY <1>1 DEF Chain
<1>4. nx[first] = IF q = <<>> THEN Null ELSE q[1]
  <2>1. CASE Len(seq) = 1
    <3>1. q = <<>>
      <4> HIDE DEF q
      <4>1. Len(q) = 0
        BY <1>1, <2>1
      <4>2. QED
        BY <1>1, <4>1, EmptySeq
    <3>2. QED
      BY <1>2, <2>1, <3>1
  <2>2. CASE Len(seq) # 1
    <3>1. Len(q) >= 1 /\ q # <<>> /\ q[1] = seq[2]
      BY <1>1, <2>2
    <3>2. QED
      BY <1>2, <2>2, <3>1
  <2>3. QED
    BY <2>1, <2>2
<1>5. QED
  BY <1>3, <1>4 DEF Chain

\* The elements of a list with a new head.
LEMMA PushFacts ==
    ASSUME NEW seq \in Seq(Waiter), Distinct(seq), NEW w \in Waiter, w \notin Elems(seq)
    PROVE  /\ <<w>> \o seq \in Seq(Waiter)
           /\ Elems(<<w>> \o seq) = Elems(seq) \cup {w}
           /\ Distinct(<<w>> \o seq)
<1> DEFINE q == <<w>> \o seq
<1>1. q \in Seq(Waiter) /\ Len(q) = Len(seq) + 1 /\ q[1] = w
  OBVIOUS
<1>2. (\A i \in 2 .. Len(q) : q[i] = seq[i - 1]) /\ (\A i \in 1 .. Len(seq) : q[i + 1] = seq[i])
  OBVIOUS
<1>3. Elems(q) = Elems(seq) \cup {w}
  <2>1. \A i \in DOMAIN q : i = 1 \/ (i - 1 \in DOMAIN seq /\ q[i] = seq[i - 1])
    BY <1>1, <1>2
  <2>2. 1 \in DOMAIN q /\ \A i \in DOMAIN seq : i + 1 \in DOMAIN q /\ q[i + 1] = seq[i]
    BY <1>1, <1>2
  <2>3. ASSUME NEW x \in Elems(q) PROVE x \in Elems(seq) \cup {w}
    BY <1>1, <2>1 DEF Elems
  <2>4. ASSUME NEW x \in Elems(seq) PROVE x \in Elems(q)
    BY <2>2, Zenon DEF Elems
  <2>5. w \in Elems(q)
    BY <1>1, <2>2 DEF Elems
  <2>6. QED
    BY <2>3, <2>4, <2>5
<1>4. Distinct(q)
  BY <1>1, <1>2 DEF Distinct, Elems
<1>5. QED
  BY <1>1, <1>3, <1>4

\* The elements of a list without its head.
LEMMA TailFacts ==
    ASSUME NEW seq \in Seq(Waiter), Distinct(seq), seq # <<>>
    PROVE  /\ seq[1] \in Waiter /\ seq[1] \in Elems(seq)
           /\ Tail(seq) \in Seq(Waiter)
           /\ Elems(Tail(seq)) = Elems(seq) \ {seq[1]}
           /\ Distinct(Tail(seq))
<1> DEFINE q == Tail(seq)
<1>1. q \in Seq(Waiter) /\ Len(q) = Len(seq) - 1 /\ \A i \in 1 .. Len(q) : q[i] = seq[i + 1]
  OBVIOUS
<1>2. seq[1] \in Waiter /\ seq[1] \in Elems(seq)
  BY DEF Elems
<1>3. Elems(q) = Elems(seq) \ {seq[1]}
  <2>1. \A i \in DOMAIN seq : i # 1 => i - 1 \in DOMAIN q /\ q[i - 1] = seq[i]
    BY <1>1
  <2>2. \A i \in DOMAIN q : i + 1 \in DOMAIN seq /\ i + 1 # 1 /\ q[i] = seq[i + 1]
    BY <1>1
  <2>3. QED
    BY <2>1, <2>2 DEF Elems, Distinct
<1>4. Distinct(q)
  BY <1>1 DEF Distinct
<1>5. QED
  BY <1>1, <1>2, <1>3, <1>4

-----------------------------------------------------------------------------
(***************************************************************************)
(* The steps of a coroutine.                                               *)
(***************************************************************************)
\* The elements of a list, and of every list, are waiters.
LEMMA ElemsAreWaiters ==
    ASSUME NEW seq \in Seq(Waiter)
    PROVE  Elems(seq) \subseteq Waiter
  BY DEF Elems

\* A coroutine that neither is suspended nor becomes so may change its own next
\* pointer: no list contains it.
LEMMA OwnStep ==
    ASSUME IInv, NEW w \in Waiter, NEW p, pc[w] # "suspended",
           p \notin {"suspended", "finished"}, pc' = [pc EXCEPT ![w] = p],
           \A v \in Waiter \ {w} : next'[v] = next[v],
           UNCHANGED <<state, host, svars, list>>
    PROVE  PublishedOK' /\ (\A s \in Setter : WalkOK(s)') /\ Apart' /\ Hosted'
<1> USE DEF svars
<1>1. TypeOK /\ Apart
  BY DEF IInv
<1>2. list \in Seq(Waiter) /\ \A s \in Setter : walk[s] \in Seq(Waiter)
  BY <1>1 DEF TypeOK
<1>3. (\A x \in Elems(list) : next'[x] = next[x])
      /\ \A s \in Setter : \A x \in Elems(walk[s]) : next'[x] = next[x]
  BY <1>1, <1>2, ElemsAreWaiters DEF Apart, OnAList
<1>4. PublishedOK'
  BY <1>2, <1>3, ChainKept DEF IInv, PublishedOK
<1>5. ASSUME NEW s \in Setter PROVE WalkOK(s)'
  <2>1. WalkOK(s)
    BY DEF IInv
  <2>2. spc[s] \in {"walk", "resume"} => Chain(next', cur[s], walk[s])
    BY <1>2, <1>3, <2>1, ChainKept DEF WalkOK
  <2>3. spc[s] \in {"inline", "advance"} => Chain(next', saved[s], walk[s])
    BY <1>2, <1>3, <2>1, ChainKept DEF WalkOK
  <2>4. spc[s] = "resume" => saved[s] = next'[cur[s]]
    <3>1. spc[s] = "resume" => cur[s] = walk[s][1] /\ 1 \in DOMAIN walk[s]
      BY <1>2, <2>1 DEF WalkOK, Chain
    <3>2. QED
      BY <1>3, <2>1, <3>1 DEF WalkOK, Elems
  <2>5. QED
    BY <2>1, <2>2, <2>3, <2>4 DEF WalkOK
<1>6. Apart'
  <2>1. \A v \in Waiter : pc'[v] = "suspended" <=> pc[v] = "suspended"
    BY <1>1 DEF TypeOK
  <2>2. QED
    BY <1>1, <2>1 DEF Apart, OnAList
<1>7. Hosted'
  BY <1>1 DEF TypeOK, IInv, Hosted
<1>8. QED
  BY <1>4, <1>5, <1>6, <1>7

\* await_ready: only the waiter's own place changes, whether it goes on or will suspend.
LEMMA AwaitReadyInv ==
    ASSUME IInv, NEW w \in Waiter, AwaitReady(w)
    PROVE  IInv'
<1> USE DEF AwaitReady, svars
<1>1. TypeOK'
  BY BoundsAreNat DEF IInv, TypeOK
<1>2. PublishedOK' /\ (\A s \in Setter : WalkOK(s)') /\ Apart' /\ Hosted'
  <2> DEFINE p == IF state = This THEN "run" ELSE "suspend"
  <2>1. pc' = [pc EXCEPT ![w] = p] /\ p \notin {"suspended", "finished"} /\ pc[w] # "suspended"
    OBVIOUS
  <2> HIDE DEF p
  <2>2. QED
    BY <2>1, OwnStep, Zenon
<1>3. Linked'
  BY DEF IInv, TypeOK, Linked
<1>4. QED
  BY <1>1, <1>2, <1>3 DEF IInv

\* await_suspend's first load of state_: the waiter remembers a value that may be stale.
LEMMA LoadStateInv ==
    ASSUME IInv, NEW w \in Waiter, LoadState(w)
    PROVE  IInv'
<1> USE DEF LoadState, svars
<1>1. TypeOK'
  BY DEF IInv, TypeOK
<1>2. PublishedOK' /\ (\A s \in Setter : WalkOK(s)') /\ Apart' /\ Hosted'
  BY OwnStep, Zenon
<1>3. Linked'
  BY DEF IInv, TypeOK, Linked
<1>4. QED
  BY <1>1, <1>2, <1>3 DEF IInv

\* The loop of await_suspend stores the remembered head in its own, still
\* unpublished, next, or goes on if the event is set.
LEMMA LinkInv ==
    ASSUME IInv, NEW w \in Waiter, Link(w)
    PROVE  IInv'
<1> USE DEF Link, svars
<1>1. TypeOK'
  BY ZenonT(30) DEF IInv, TypeOK
<1>2. PublishedOK' /\ (\A s \in Setter : WalkOK(s)') /\ Apart' /\ Hosted'
  <2>1. CASE old[w] = This
    BY <2>1, OwnStep
  <2>2. CASE old[w] # This
    <3>1. \A v \in Waiter \ {w} : next'[v] = next[v]
      BY <2>2 DEF IInv, TypeOK
    <3>2. QED
      BY <2>2, <3>1, OwnStep
  <2>3. QED
    BY <2>1, <2>2
<1>3. Linked'
  BY DEF IInv, TypeOK, Linked
<1>4. QED
  BY <1>1, <1>2, <1>3 DEF IInv

\* A compare_exchange_weak that fails publishes nothing; the waiter reads state_ again.
LEMMA CasFailsInv ==
    ASSUME IInv, NEW w \in Waiter, CasFails(w)
    PROVE  IInv'
<1> USE DEF CasFails, svars
<1>1. TypeOK'
  BY DEF IInv, TypeOK
<1>2. PublishedOK' /\ (\A s \in Setter : WalkOK(s)') /\ Apart' /\ Hosted'
  BY OwnStep, Zenon
<1>3. Linked'
  BY DEF IInv, TypeOK, Linked
<1>4. QED
  BY <1>1, <1>2, <1>3 DEF IInv

\* A coroutine that gives the control back to the Set() that runs it inline
\* leaves that Set() with the list it had saved.
LEMMA ReturnFacts ==
    ASSUME IInv, NEW w \in Waiter, ReturnToHost(w), NEW p,
           pc' = [pc EXCEPT ![w] = p], UNCHANGED <<next, cur, saved, walk>>
    PROVE  (\A s \in Setter : WalkOK(s)') /\ Hosted'
           /\ host' \in [Waiter -> Setter \cup {Null}]
           /\ spc' \in [Setter -> {"idle", "walk", "resume", "inline", "advance"}]
<1> USE DEF ReturnToHost
<1>1. TypeOK /\ Hosted
  BY DEF IInv
<1>2. ASSUME NEW s \in Setter PROVE WalkOK(s)'
  <2>1. WalkOK(s)
    BY DEF IInv
  <2>2. CASE s = host[w]
    <3>1. spc[s] = "inline" /\ spc'[s] = "advance"
      BY <1>1, <2>2 DEF Hosted
    <3>2. QED
      BY <2>1, <3>1 DEF WalkOK
  <2>3. CASE s # host[w]
    <3>1. spc'[s] = spc[s]
      BY <2>3
    <3>2. QED
      BY <2>1, <3>1 DEF WalkOK
  <2>4. QED
    BY <2>2, <2>3
<1>3. Hosted'
  <2>1. ASSUME NEW v \in Waiter, host'[v] \in Setter
        PROVE  v # w /\ host'[v] = host[v] /\ spc'[host'[v]] = spc[host[v]] /\ pc'[v] = pc[v]
    <3>1. v # w /\ host'[v] = host[v]
      BY <1>1, <2>1, PointersDiffer DEF TypeOK
    <3>2. host[v] # host[w]
      BY <1>1, <2>1, <3>1 DEF Hosted
    <3>3. QED
      BY <1>1, <2>1, <3>1, <3>2 DEF TypeOK
  <2>2. QED
    BY <1>1, <2>1 DEF Hosted
<1>4. host' \in [Waiter -> Setter \cup {Null}]
      /\ spc' \in [Setter -> {"idle", "walk", "resume", "inline", "advance"}]
  BY <1>1 DEF TypeOK
<1>5. QED
  BY <1>2, <1>3, <1>4

\* The successful exchange puts the awaiter in front of the list it has linked to.
LEMMA PublishInv ==
    ASSUME IInv, NEW w \in Waiter, Publish(w)
    PROVE  IInv'
<1> USE DEF Publish
<1>1. TypeOK /\ PublishedOK /\ Apart /\ Linked
  BY DEF IInv
<1>2. (\A s \in Setter : WalkOK(s)') /\ Hosted'
      /\ host' \in [Waiter -> Setter \cup {Null}]
      /\ spc' \in [Setter -> {"idle", "walk", "resume", "inline", "advance"}]
  BY ReturnFacts, Zenon
<1>3. list \in Seq(Waiter) /\ Distinct(list) /\ ~ OnAList(w) /\ w \notin Elems(list)
  BY <1>1 DEF TypeOK, Apart, OnAList
<1>4. list' \in Seq(Waiter) /\ Elems(list') = Elems(list) \cup {w} /\ Distinct(list')
  BY <1>3, PushFacts
<1>5. TypeOK'
  BY <1>1, <1>2, <1>4 DEF TypeOK, Pointer
<1>6. PublishedOK'
  <2>1. state # This /\ next[w] = state /\ Chain(next, state, list)
    BY <1>1 DEF Linked, PublishedOK
  <2>2. Chain(next, w, <<w>> \o list)
    BY <1>3, <2>1, ChainPush
  <2>3. QED
    BY <2>2, PointersDiffer DEF PublishedOK
<1>7. Apart'
  <2>1. \A v \in Waiter : pc'[v] = "suspended" <=> OnAList(v)'
    <3>1. \A v \in Waiter : OnAList(v)' <=> v = w \/ OnAList(v)
      BY <1>4 DEF OnAList
    <3>2. \A v \in Waiter : pc'[v] = "suspended" <=> v = w \/ pc[v] = "suspended"
      BY <1>1 DEF TypeOK
    <3>3. QED
      BY <1>1, <3>1, <3>2 DEF Apart
  <2>2. \A s \in Setter : Elems(list') \cap Elems(walk'[s]) = {}
    BY <1>1, <1>3, <1>4, SMTT(30) DEF Apart, OnAList
  <2>3. QED
    BY <1>1, <1>4, <2>1, <2>2, Zenon DEF Apart
<1>8. Linked'
  BY <1>1 DEF TypeOK, Linked
<1>9. QED
  BY <1>2, <1>5, <1>6, <1>7, <1>8 DEF IInv

\* A waiter that runs to its end returns to the setter that resumed it.
LEMMA FinishInv ==
    ASSUME IInv, NEW w \in Waiter, Finish(w)
    PROVE  IInv'
<1> USE DEF Finish
<1>1. TypeOK /\ PublishedOK /\ Apart /\ Linked
  BY DEF IInv
<1>2. (\A s \in Setter : WalkOK(s)') /\ Hosted'
      /\ host' \in [Waiter -> Setter \cup {Null}]
      /\ spc' \in [Setter -> {"idle", "walk", "resume", "inline", "advance"}]
  BY ReturnFacts, Zenon
<1>3. TypeOK'
  BY <1>1, <1>2 DEF TypeOK
<1>4. PublishedOK'
  BY <1>1 DEF PublishedOK
<1>5. Apart'
  <2>1. \A v \in Waiter : pc'[v] = "suspended" <=> pc[v] = "suspended"
    BY <1>1 DEF TypeOK
  <2>2. QED
    BY <1>1, <2>1 DEF Apart, OnAList
<1>6. Linked'
  BY <1>1 DEF TypeOK, Linked
<1>7. QED
  BY <1>2, <1>3, <1>4, <1>5, <1>6 DEF IInv

-----------------------------------------------------------------------------
(***************************************************************************)
(* The steps of Set and Reset.                                             *)
(***************************************************************************)
LEMMA ExchangeInv ==
    ASSUME IInv, NEW s \in Setter, Exchange(s)
    PROVE  IInv'
<1> USE DEF Exchange, wvars
<1>1. TypeOK /\ PublishedOK /\ Apart /\ Linked /\ Hosted /\ \A t \in Setter : WalkOK(t)
  BY DEF IInv
<1>2. Linked'
  BY <1>1 DEF Linked
<1>3. CASE state = This
  <2>1. TypeOK'
    BY <1>1, <1>3, BoundsAreNat DEF TypeOK, Pointer
  <2>2. PublishedOK'
    BY <1>1, <1>3 DEF PublishedOK
  <2>3. \A t \in Setter : WalkOK(t)'
    BY <1>1, <1>3 DEF WalkOK
  <2>4. Apart' /\ Hosted'
    BY <1>1, <1>3 DEF Apart, OnAList, Hosted
  <2>5. QED
    BY <1>2, <2>1, <2>2, <2>3, <2>4 DEF IInv
<1>4. CASE state # This
  <2>1. TypeOK'
    <3>1. state \in Waiter \cup {Null} /\ list \in Seq(Waiter) /\ <<>> \in Seq(Waiter)
      BY <1>1, <1>4 DEF TypeOK, Pointer
    <3>2. cur' \in [Setter -> Waiter \cup {Null}]
      <4>1. cur \in [Setter -> Waiter \cup {Null}] /\ cur' = [cur EXCEPT ![s] = state]
        BY <1>1, <1>4 DEF TypeOK
      <4>2. QED
        BY <3>1, <4>1
    <3>3. walk' \in [Setter -> Seq(Waiter)]
      <4>1. walk \in [Setter -> Seq(Waiter)] /\ walk' = [walk EXCEPT ![s] = list]
        BY <1>1, <1>4 DEF TypeOK
      <4>2. QED
        BY <3>1, <4>1
    <3>4. spc' \in [Setter -> {"idle", "walk", "resume", "inline", "advance"}]
      <4>1. spc \in [Setter -> {"idle", "walk", "resume", "inline", "advance"}]
            /\ spc' = [spc EXCEPT ![s] = "walk"]
        BY <1>1, <1>4 DEF TypeOK
      <4>2. QED
        BY <4>1
    <3>5. sets' \in [Setter -> 0..MaxSets]
      <4>1. sets \in [Setter -> 0..MaxSets] /\ sets[s] < MaxSets
            /\ sets' = [sets EXCEPT ![s] = sets[s] + 1]
        BY <1>1 DEF TypeOK
      <4>2. QED
        BY <4>1, BoundsAreNat
    <3>6. QED
      BY <1>1, <1>4, <3>1, <3>2, <3>3, <3>4, <3>5, Zenon DEF TypeOK, Pointer
  <2>2. PublishedOK'
    BY <1>4 DEF PublishedOK
  <2>3. walk[s] = <<>> /\ walk'[s] = list /\ list' = <<>>
        /\ \A t \in Setter \ {s} : walk'[t] = walk[t]
    BY <1>1, <1>4 DEF TypeOK, WalkOK
  <2>4. ASSUME NEW t \in Setter PROVE WalkOK(t)'
    <3>1. CASE t = s
      <4>1. spc'[s] = "walk" /\ cur'[s] = state
        BY <1>1, <1>4 DEF TypeOK
      <4>2. QED
        BY <1>1, <1>4, <2>3, <3>1, <4>1 DEF WalkOK, PublishedOK
    <3>2. CASE t # s
      <4>1. spc'[t] = spc[t] /\ cur'[t] = cur[t]
        BY <1>1, <1>4, <3>2 DEF TypeOK
      <4>2. QED
        BY <1>1, <2>3, <3>2, <4>1 DEF WalkOK
    <3>3. QED
      BY <3>1, <3>2
  <2>5. Apart'
    <3>1. Elems(<<>>) = {} /\ Distinct(<<>>)
      BY DEF Elems, Distinct
    <3>2. \A v \in Waiter : OnAList(v)' <=> OnAList(v)
      BY <2>3, <3>1 DEF OnAList
    <3>3. \A t, u \in Setter : t # u => Elems(walk'[t]) \cap Elems(walk'[u]) = {}
      BY <1>1, <2>3 DEF Apart
    <3>4. QED
      BY <1>1, <2>3, <3>1, <3>2, <3>3, Zenon DEF Apart
  <2>6. Hosted'
    BY <1>1, <1>4, ZenonT(60) DEF TypeOK, Hosted
  <2>7. QED
    BY <1>2, <2>1, <2>2, <2>4, <2>5, <2>6 DEF IInv
<1>5. QED
  BY <1>3, <1>4

\* Set() reads the next of the awaiter it is about to resume, before resume().
LEMMA SaveNextInv ==
    ASSUME IInv, NEW s \in Setter, SaveNext(s)
    PROVE  IInv'
<1> USE DEF SaveNext, wvars
<1>1. TypeOK /\ PublishedOK /\ Apart /\ Linked /\ Hosted /\ \A t \in Setter : WalkOK(t)
  BY DEF IInv
<1>2. walk[s] \in Seq(Waiter) /\ Chain(next, cur[s], walk[s])
      /\ (cur[s] = Null <=> walk[s] = <<>>)
  <2>1. walk[s] \in Seq(Waiter) /\ Chain(next, cur[s], walk[s])
    BY <1>1 DEF TypeOK, WalkOK
  <2>2. walk[s] # <<>> => walk[s][1] \in Waiter
    BY <2>1
  <2>3. QED
    BY <2>1, <2>2, PointersDiffer DEF Chain
<1>3. cur[s] # Null => next[cur[s]] \in Waiter \cup {Null}
  <2>1. walk[s] # <<>> => Chain(next, next[cur[s]], Tail(walk[s])) /\ Tail(walk[s]) \in Seq(Waiter)
    BY <1>2, ChainTail
  <2>2. QED
    BY <1>2, <2>1 DEF Chain
<1>4. TypeOK'
  BY <1>1, <1>3, Zenon DEF TypeOK
<1>5. ASSUME NEW t \in Setter PROVE WalkOK(t)'
  <2>1. CASE t = s
    BY <1>1, <1>2, <2>1 DEF WalkOK, TypeOK
  <2>2. CASE t # s
    <3>1. spc'[t] = spc[t] /\ saved'[t] = saved[t]
      BY <1>1, <2>2 DEF TypeOK
    <3>2. QED
      BY <1>1, <3>1 DEF WalkOK
  <2>3. QED
    BY <2>1, <2>2
<1>6. Hosted'
  BY <1>1 DEF TypeOK, Hosted
<1>7. PublishedOK' /\ Apart' /\ Linked'
  BY <1>1, SMTT(30) DEF PublishedOK, Apart, OnAList, Linked
<1>8. QED
  BY <1>4, <1>5, <1>6, <1>7 DEF IInv

\* What Set() resumes: the head of its list, a suspended coroutine.
LEMMA ResumeFacts ==
    ASSUME IInv, NEW s \in Setter, spc[s] = "resume"
    PROVE  /\ walk[s] \in Seq(Waiter) /\ walk[s] # <<>> /\ Distinct(walk[s])
           /\ cur[s] = walk[s][1]
           /\ cur[s] \in Waiter /\ cur[s] \in Elems(walk[s]) /\ pc[cur[s]] = "suspended"
           /\ Chain(next, saved[s], Tail(walk[s]))
           /\ Tail(walk[s]) \in Seq(Waiter)
           /\ Elems(Tail(walk[s])) = Elems(walk[s]) \ {cur[s]}
           /\ Distinct(Tail(walk[s]))
<1>1. walk[s] \in Seq(Waiter) /\ walk[s] # <<>> /\ Distinct(walk[s])
      /\ Chain(next, cur[s], walk[s]) /\ saved[s] = next[cur[s]]
  BY SMTT(30) DEF IInv, TypeOK, Apart, WalkOK
<1>2. cur[s] = walk[s][1]
  BY <1>1 DEF Chain
<1>3. Chain(next, saved[s], Tail(walk[s]))
  BY <1>1, ChainTail
<1>4. cur[s] \in Waiter /\ cur[s] \in Elems(walk[s]) /\ Tail(walk[s]) \in Seq(Waiter)
      /\ Elems(Tail(walk[s])) = Elems(walk[s]) \ {cur[s]} /\ Distinct(Tail(walk[s]))
  BY <1>1, <1>2, TailFacts
<1>5. pc[cur[s]] = "suspended"
  BY <1>4 DEF IInv, Apart, OnAList
<1>6. QED
  BY <1>1, <1>2, <1>3, <1>4, <1>5

\* Set() resumes one awaiter of its detached list, which then runs on the setter's thread.
LEMMA ResumeInv ==
    ASSUME IInv, NEW s \in Setter, Resume(s)
    PROVE  IInv'
<1> USE DEF Resume
<1>1. TypeOK /\ PublishedOK /\ Apart /\ Linked /\ Hosted /\ \A t \in Setter : WalkOK(t)
  BY DEF IInv
<1> DEFINE c == cur[s]
           rest == Tail(walk[s])
<1>2. c \in Waiter /\ c \in Elems(walk[s]) /\ pc[c] = "suspended"
      /\ Chain(next, saved[s], rest) /\ rest \in Seq(Waiter)
      /\ Elems(rest) = Elems(walk[s]) \ {c} /\ Distinct(rest)
  BY ResumeFacts, Zenon
<1>3. pc' = [pc EXCEPT ![c] = "run"] /\ host' = [host EXCEPT ![c] = s]
      /\ walk' = [walk EXCEPT ![s] = rest] /\ spc' = [spc EXCEPT ![s] = "inline"]
  OBVIOUS
<1> HIDE DEF c, rest
<1>4. TypeOK'
  <2>1. pc' \in [Waiter -> {"run", "suspend", "link", "cas", "suspended", "finished"}]
        /\ host' \in [Waiter -> Setter \cup {Null}]
    <3>1. pc \in [Waiter -> {"run", "suspend", "link", "cas", "suspended", "finished"}]
          /\ host \in [Waiter -> Setter \cup {Null}]
      BY <1>1 DEF TypeOK
    <3>2. pc' \in [Waiter -> {"run", "suspend", "link", "cas", "suspended", "finished"}]
      BY <1>3, <3>1, Zenon
    <3>3. host' \in [Waiter -> Setter \cup {Null}]
      BY <1>3, <3>1, Zenon
    <3>4. QED
      BY <3>2, <3>3
  <2>2. walk' \in [Setter -> Seq(Waiter)]
    BY <1>1, <1>2, <1>3, ZenonT(30) DEF TypeOK
  <2>3. spc' \in [Setter -> {"idle", "walk", "resume", "inline", "advance"}]
    BY <1>1, <1>3 DEF TypeOK
  <2>4. QED
    BY <1>1, <2>1, <2>2, <2>3 DEF TypeOK
<1>5. walk'[s] = rest /\ spc'[s] = "inline"
      /\ \A t \in Setter \ {s} : walk'[t] = walk[t] /\ spc'[t] = spc[t]
  BY <1>1, <1>3 DEF TypeOK
<1>6. ASSUME NEW t \in Setter PROVE WalkOK(t)'
  <2>1. CASE t = s
    BY <1>2, <1>5, <2>1, Zenon DEF WalkOK
  <2>2. CASE t # s
    BY <1>1, <1>5, <2>2 DEF WalkOK
  <2>3. QED
    BY <2>1, <2>2
<1>7. Apart'
  <2>1. c \notin Elems(list) /\ \A t \in Setter \ {s} : c \notin Elems(walk[t])
    BY <1>1, <1>2, Zenon DEF Apart
  <2>2. \A v \in Waiter : OnAList(v)' <=> v # c /\ OnAList(v)
    BY <1>2, <1>5, <2>1, ZenonT(30) DEF OnAList
  <2>3. \A v \in Waiter : pc'[v] = "suspended" <=> v # c /\ pc[v] = "suspended"
    BY <1>1, <1>3 DEF TypeOK
  <2>4. \A v \in Waiter : pc'[v] = "suspended" <=> OnAList(v)'
    BY <1>1, <2>2, <2>3 DEF Apart
  <2>5. \A t \in Setter : Elems(walk'[t]) \subseteq Elems(walk[t]) /\ Distinct(walk'[t])
    BY <1>1, <1>2, <1>5, Zenon DEF Apart
  <2>6. list' = list
    OBVIOUS
  <2>7. (\A t \in Setter : Elems(list') \cap Elems(walk'[t]) = {})
        /\ \A t, u \in Setter : t # u => Elems(walk'[t]) \cap Elems(walk'[u]) = {}
    BY <1>1, <2>5, <2>6, Zenon DEF Apart
  <2>8. QED
    BY <1>1, <2>4, <2>5, <2>6, <2>7, SMTT(30) DEF Apart
<1>8. Hosted'
  <2>1. \A v \in Waiter : host[v] # s
    BY <1>1 DEF Hosted
  <2>2. host'[c] = s /\ pc'[c] = "run"
    BY <1>1, <1>2, <1>3 DEF TypeOK
  <2>3. \A v \in Waiter : v # c => host'[v] = host[v] /\ pc'[v] = pc[v]
    BY <1>1, <1>3 DEF TypeOK
  <2>4. QED
    BY <1>1, <1>5, <2>1, <2>2, <2>3 DEF Hosted
<1>9. PublishedOK' /\ Linked'
  BY <1>1, <1>3 DEF TypeOK, PublishedOK, Linked
<1>10. QED
  BY <1>4, <1>6, <1>7, <1>8, <1>9 DEF IInv

\* Back from resume(), Set() goes on with the next it has saved.
LEMMA AdvanceInv ==
    ASSUME IInv, NEW s \in Setter, Advance(s)
    PROVE  IInv'
<1> USE DEF Advance, wvars
<1>1. TypeOK /\ PublishedOK /\ Apart /\ Linked /\ Hosted /\ \A t \in Setter : WalkOK(t)
  BY DEF IInv
<1>2. TypeOK'
  BY <1>1 DEF TypeOK
<1>3. ASSUME NEW t \in Setter PROVE WalkOK(t)'
  <2>1. CASE t = s
    BY <1>1, <2>1 DEF WalkOK, TypeOK
  <2>2. CASE t # s
    <3>1. spc'[t] = spc[t] /\ cur'[t] = cur[t]
      BY <1>1, <2>2 DEF TypeOK
    <3>2. QED
      BY <1>1, <3>1 DEF WalkOK
  <2>3. QED
    BY <2>1, <2>2
<1>4. Hosted'
  BY <1>1 DEF TypeOK, Hosted
<1>5. PublishedOK' /\ Apart' /\ Linked'
  BY <1>1 DEF PublishedOK, Apart, OnAList, Linked
<1>6. QED
  BY <1>2, <1>3, <1>4, <1>5 DEF IInv

\* Reset() unsets the event, with nobody listed.
LEMMA ResetInv ==
    ASSUME IInv, Reset
    PROVE  IInv'
<1> USE DEF Reset, wvars, svars
<1>1. TypeOK'
  BY BoundsAreNat DEF IInv, TypeOK, Pointer
<1>2. PublishedOK'
  BY SMTT(30) DEF IInv, PublishedOK, Chain
<1>3. (\A s \in Setter : WalkOK(s)') /\ Apart' /\ Linked' /\ Hosted'
  BY Zenon DEF IInv, WalkOK, Apart, OnAList, Linked, Hosted
<1>4. QED
  BY <1>1, <1>2, <1>3 DEF IInv

-----------------------------------------------------------------------------
(***************************************************************************)
(* The theorems.                                                           *)
(***************************************************************************)
LEMMA InitInv == Init => IInv
<1> SUFFICES ASSUME Init PROVE IInv
  OBVIOUS
<1> USE DEF Init
<1>1. <<>> \in Seq(Waiter) /\ Elems(<<>>) = {} /\ Distinct(<<>>)
  BY DEF Elems, Distinct
<1>2. TypeOK
  BY <1>1, BoundsAreNat DEF TypeOK, Pointer
<1>3. PublishedOK /\ (\A s \in Setter : WalkOK(s)) /\ Linked
  BY PointersDiffer DEF PublishedOK, WalkOK, Chain, Linked
<1>4. Apart
  BY <1>1 DEF Apart, OnAList
<1>5. Hosted
  BY PointersDiffer DEF Hosted
<1>6. QED
  BY <1>2, <1>3, <1>4, <1>5 DEF IInv

\* Every step of waiters, setters and Reset preserves the inductive invariant.
LEMMA StepInv == IInv /\ [Next]_vars => IInv'
<1> SUFFICES ASSUME IInv, [Next]_vars PROVE IInv'
  OBVIOUS
<1>1. ASSUME NEW w \in Waiter, WaiterStep(w) PROVE IInv'
  BY <1>1, AwaitReadyInv, LoadStateInv, LinkInv, PublishInv, CasFailsInv, FinishInv DEF WaiterStep
<1>2. ASSUME NEW s \in Setter, Exchange(s) \/ SetterStep(s) PROVE IInv'
  BY <1>2, ExchangeInv, SaveNextInv, ResumeInv, AdvanceInv DEF SetterStep
<1>3. CASE Reset
  BY <1>3, ResetInv, SMTT(30)
<1>4. CASE UNCHANGED vars
  BY <1>4 DEF vars, wvars, svars, IInv, TypeOK, PublishedOK, WalkOK, Apart, OnAList, Linked, Hosted
<1>5. QED
  BY <1>1, <1>2, <1>3, <1>4 DEF Next, Quiet

\* The inductive invariant holds in every reachable state.
THEOREM Invariance == Spec => []IInv
  BY InitInv, StepInv, PTL DEF Spec

\* However coroutines suspend, run on, are resumed inline and await again while
\* other threads call Set() and Reset(): the list that hangs off state_ and the
\* rest of every list a Set() walks are exactly the coroutines they should be
\* (AsyncEvent's await_suspend, Set and Reset).
THEOREM ListsAlwaysAgree == Spec => []ListsAgree
  BY Invariance, IInvImplies, PTL

\* No wake-up is lost and none is doubled: a coroutine is suspended iff it is on
\* exactly one list, in exactly one place.
THEOREM SuspendedExactlyOnce == Spec => []SuspendedOnce
  BY Invariance, IInvImplies, PTL

-----------------------------------------------------------------------------
(***************************************************************************)
(* The refinement: a step of the lock-free event is a step of the atomic   *)
(* one, or changes nothing its users can see.                              *)
(***************************************************************************)
Taken == UNION {Elems(walk[s]) : s \in Setter}

\* Nothing happens to the atomic event while a coroutine prepares to suspend or
\* a Set() moves along its list.
LEMMA SilentStep ==
    ASSUME UNCHANGED <<state, list, walk>>
    PROVE  UNCHANGED Atomic!vars
  BY DEF Atomic!vars, Elems

\* The successful compare-exchange is the atomic suspension.
LEMMA PublishRefines ==
    ASSUME IInv, NEW w \in Waiter, Publish(w)
    PROVE  Atomic!Suspend(w)
<1>1. list \in Seq(Waiter) /\ Distinct(list) /\ ~ OnAList(w)
  BY DEF IInv, TypeOK, Apart, Publish
<1>2. w \notin Elems(list) /\ w \notin Taken
  BY <1>1 DEF OnAList, Taken
<1>3. Elems(list') = Elems(list) \cup {w}
  BY <1>1, <1>2, PushFacts DEF Publish
<1>4. state # This /\ state' # This
  BY PointersDiffer DEF IInv, Linked, Publish
<1>5. Taken' = Taken
  BY DEF Taken, Elems, Publish
<1>6. QED
  BY <1>2, <1>3, <1>4, <1>5 DEF Atomic!Suspend, Taken

\* The exchange takes all waiters at once, or finds the event set.
LEMMA ExchangeRefines ==
    ASSUME IInv, NEW s \in Setter, Exchange(s)
    PROVE  Atomic!Set \/ UNCHANGED Atomic!vars
<1>1. CASE state = This
  BY <1>1, SilentStep DEF Exchange
<1>2. CASE state # This
  <2>1. walk[s] = <<>> /\ walk'[s] = list /\ list' = <<>> /\ state' = This
        /\ \A t \in Setter \ {s} : walk'[t] = walk[t]
    BY <1>2 DEF Exchange, IInv, TypeOK, WalkOK
  <2>2. Elems(<<>>) = {}
    BY DEF Elems
  <2>3. Taken' = Taken \cup Elems(list)
    <3>1. ASSUME NEW x PROVE x \in Taken' <=> x \in Taken \/ x \in Elems(list)
      BY <2>1, <2>2 DEF Taken
    <3>2. QED
      BY <3>1
  <2>4. QED
    BY <1>2, <2>1, <2>2, <2>3 DEF Atomic!Set, Taken
<1>3. QED
  BY <1>1, <1>2

\* resume() is the resumption of one of the coroutines that were taken.
LEMMA ResumeRefines ==
    ASSUME IInv, NEW s \in Setter, Resume(s)
    PROVE  cur[s] \in Waiter /\ Atomic!Resume(cur[s])
<1>1. cur[s] \in Waiter /\ cur[s] \in Elems(walk[s])
      /\ Elems(Tail(walk[s])) = Elems(walk[s]) \ {cur[s]}
  BY ResumeFacts, ZenonT(30) DEF Resume
<1>2. walk'[s] = Tail(walk[s]) /\ \A t \in Setter \ {s} : walk'[t] = walk[t]
  BY DEF Resume, IInv, TypeOK
<1>3. \A t \in Setter \ {s} : cur[s] \notin Elems(walk[t])
  BY <1>1 DEF IInv, Apart
<1>4. Taken' = Taken \ {cur[s]}
  <2>1. ASSUME NEW x PROVE x \in Taken' <=> x \in Taken /\ x # cur[s]
    BY <1>1, <1>2, <1>3 DEF Taken
  <2>2. QED
    BY <2>1
<1>5. cur[s] \in Taken
  BY <1>1 DEF Taken
<1>6. state' = state /\ list' = list
  BY DEF Resume
<1>7. QED
  BY <1>1, <1>4, <1>5, <1>6, Zenon DEF Atomic!Resume, Taken, Elems

\* Every step of the lock-free event is a step of the atomic event or a stutter.
LEMMA StepRefines == IInv /\ [Next]_vars => [Atomic!Next]_(Atomic!vars)
<1> SUFFICES ASSUME IInv, [Next]_vars PROVE Atomic!Next \/ UNCHANGED Atomic!vars
  OBVIOUS
<1>1. ASSUME NEW w \in Waiter, WaiterStep(w) PROVE Atomic!Next \/ UNCHANGED Atomic!vars
  <2>1. CASE Publish(w)
    BY <2>1, PublishRefines DEF Atomic!Next
  <2>2. CASE ~ Publish(w)
    <3>1. UNCHANGED <<state, list, walk>>
      BY <1>1, <2>2 DEF WaiterStep, AwaitReady, LoadState, Link, CasFails, Finish, svars
    <3>2. QED
      BY <3>1, SilentStep
  <2>3. QED
    BY <2>1, <2>2
<1>2. ASSUME NEW s \in Setter, Exchange(s) PROVE Atomic!Next \/ UNCHANGED Atomic!vars
  BY <1>2, ExchangeRefines DEF Atomic!Next
<1>3. ASSUME NEW s \in Setter, SetterStep(s) PROVE Atomic!Next \/ UNCHANGED Atomic!vars
  <2>1. CASE Resume(s)
    BY <2>1, ResumeRefines DEF Atomic!Next
  <2>2. CASE ~ Resume(s)
    <3>1. UNCHANGED <<state, list, walk>>
      BY <1>3, <2>2 DEF SetterStep, SaveNext, Advance
    <3>2. QED
      BY <3>1, SilentStep
  <2>3. QED
    BY <2>1, <2>2
<1>4. CASE Reset
  <2>1. state = This /\ state' # This /\ list' = list /\ walk' = walk
    BY <1>4, PointersDiffer DEF Reset, svars
  <2>2. Atomic!Reset
    BY <2>1 DEF Atomic!Reset, Elems
  <2>3. QED
    BY <2>2 DEF Atomic!Next
<1>5. CASE UNCHANGED vars
  <2>1. UNCHANGED <<state, list, walk>>
    BY <1>5 DEF vars, svars
  <2>2. QED
    BY <2>1, SilentStep
<1>6. QED
  BY <1>1, <1>2, <1>3, <1>4, <1>5 DEF Next, Quiet

\* The lock-free AsyncEvent implements the atomic event (the safety part of
\* ImplementsEvent): suspending, the taking of all waiters by Set, each
\* resumption and Reset each happen at one point.
THEOREM RefinesEvent == Spec => Atomic!SafeSpec
<1>1. Init => Atomic!Init
  <2> SUFFICES ASSUME Init PROVE Atomic!Init
    OBVIOUS
  <2>1. state # This /\ list = <<>> /\ \A s \in Setter : walk[s] = <<>>
    BY PointersDiffer DEF Init
  <2>2. Elems(<<>>) = {}
    BY SMTT(30) DEF Elems
  <2>3. Taken = {}
    BY <2>1, <2>2 DEF Taken
  <2>4. QED
    BY <2>1, <2>2, <2>3 DEF Atomic!Init, Taken
<1>2. QED
  BY <1>1, StepRefines, Invariance, PTL DEF Spec, Atomic!SafeSpec
=============================================================================
