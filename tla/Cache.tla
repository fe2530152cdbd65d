-------------------------------- MODULE Cache --------------------------------
(***************************************************************************)
(* cache::LocalCache, a mutex-protected TTL cache with LRU eviction, used   *)
(* by threads directly and through RemoteCache -> InProcChannel ->         *)
(* CacheRpcService.  An operation that needs the time reads the clock       *)
(* before it takes the mutex; its critical section is one step.  Values     *)
(* are abstracted away: an entry is its key and its expiry.                 *)
(***************************************************************************)
EXTENDS Naturals, Sequences, FiniteSets

CONSTANTS Key, Thread,
          Capacity,     \* options_.capacity of the store, 0 = unlimited
          DefaultTtl,   \* options_.default_ttl of the store, 0 = no expiry
          RemoteTtl,    \* options_.default_ttl of the RemoteCache
          Ttls,         \* the ttl arguments of Put
          MaxTime       \* bound on the clock

ASSUME CacheAssumption ==
    /\ IsFiniteSet(Key)
    /\ {Capacity, DefaultTtl, RemoteTtl, MaxTime} \subseteq Nat
    /\ Ttls \subseteq Nat

VARIABLES
    clock,      \* metric::Clock
    serving,    \* the service is in the InProcRegistry
    entries,    \* entries_: the keys present, with has_ttl and expires_at
    lru,        \* lru_, most recently used first
    op,         \* the operation each thread is in
    since       \* history: the keys used since a key was last used

vars == <<clock, serving, entries, lru, op, since>>

NoOp == [kind |-> "none"]

\* An entry; `deadline` (history) is a ttl after the Put took effect.
Entry == [hasTtl : BOOLEAN, expires : Nat, deadline : Nat]

Operation ==
    [kind : {"get", "put"}, key : Key, ttl : Nat, at : {"dispatch", "lock"}, now : Nat]
    \cup [kind : {"remove"}, key : Key, at : {"dispatch", "lock"}]
    \cup [kind : {"clear"}, at : {"dispatch", "lock"}]

\* Type invariant; the store never holds more entries than its capacity.
TypeOK ==
    /\ clock \in 0..MaxTime
    /\ serving \in BOOLEAN
    /\ DOMAIN entries \subseteq Key /\ \A k \in DOMAIN entries : entries[k] \in Entry
    /\ Capacity > 0 => Cardinality(DOMAIN entries) <= Capacity
    /\ lru \in Seq(Key)
    /\ op \in [Thread -> Operation \cup {NoOp}]
    /\ since \in [Key -> SUBSET Key]

Init ==
    /\ clock = 0
    /\ serving = FALSE
    /\ entries = [k \in {} |-> NoOp]
    /\ lru = <<>>
    /\ op = [t \in Thread |-> NoOp]
    /\ since = [k \in Key |-> {}]

-----------------------------------------------------------------------------
store == <<entries, lru, since>>

Tick ==
    /\ clock < MaxTime
    /\ clock' = clock + 1
    /\ UNCHANGED <<serving, store, op>>

\* InProcServer::Start and Stop.  A call that has found the service keeps it.
Serve ==
    /\ serving' = ~serving
    /\ UNCHANGED <<clock, store, op>>

\* ttl > 0 ? ttl : options_.default_ttl, of the store and of RemoteCache.
EffectiveTtl(ttl) == IF ttl > 0 THEN ttl ELSE DefaultTtl
ResolveTtl(ttl) == IF ttl > 0 THEN ttl ELSE RemoteTtl

\* A call of the LocalCache: the clock is read before the mutex is taken.
CallLocal(t) ==
    /\ op[t] = NoOp
    /\ \E k \in Key, ttl \in Ttls :
          \E o \in {[kind |-> "get", key |-> k, ttl |-> 0, at |-> "lock", now |-> clock],
                    [kind |-> "put", key |-> k, ttl |-> ttl,
                     at |-> "lock", now |-> clock],
                    [kind |-> "remove", key |-> k, at |-> "lock"],
                    [kind |-> "clear", at |-> "lock"]} :
             op' = [op EXCEPT ![t] = o]
    /\ UNCHANGED <<clock, serving, store>>

\* A call of the RemoteCache finds the service, or ends with an error: Get
\* returns nothing, Remove FALSE, and Put and Clear are lost.
CallRemote(t) ==
    /\ op[t] = NoOp
    /\ serving
    /\ \E k \in Key, ttl \in Ttls :
          \E o \in {[kind |-> "get", key |-> k, ttl |-> 0, at |-> "dispatch", now |-> 0],
                    [kind |-> "put", key |-> k, ttl |-> ResolveTtl(ttl),
                     at |-> "dispatch", now |-> 0],
                    [kind |-> "remove", key |-> k, at |-> "dispatch"],
                    [kind |-> "clear", at |-> "dispatch"]} :
             op' = [op EXCEPT ![t] = o]
    /\ UNCHANGED <<clock, serving, store>>

\* CacheRpcService::Dispatch enters the store's method.
Dispatch(t) ==
    /\ op[t] # NoOp
    /\ op[t].at = "dispatch"
    /\ op' = [op EXCEPT ![t] = IF @.kind \in {"get", "put"}
                               THEN [@ EXCEPT !.at = "lock", !.now = clock]
                               ELSE [@ EXCEPT !.at = "lock"]]
    /\ UNCHANGED <<clock, serving, store>>

-----------------------------------------------------------------------------
(***************************************************************************)
(* The critical sections.                                                  *)
(***************************************************************************)
Locked(t, kind) == op[t] # NoOp /\ op[t].kind = kind /\ op[t].at = "lock"
Return(t) == op' = [op EXCEPT ![t] = NoOp] /\ UNCHANGED <<clock, serving>>

Present(k) == k \in DOMAIN entries
Erase(ks) == [k \in DOMAIN entries \ ks |-> entries[k]]

\* lru_.remove(k): the other keys stay, in their order.
Unlist(k) ==
    LET stay == {i \in DOMAIN lru : lru[i] # k} IN
    [j \in 1..Cardinality(stay) |->
        lru[CHOOSE i \in stay : Cardinality({m \in stay : m <= i}) = j]]

Touch(k) == since' = [j \in Key |-> IF j = k THEN {} ELSE since[j] \cup {k}]

\* Mutant: an entry is still served at the instant it expires.
IsExpiredLate(e, now) == e.hasTtl /\ now > e.expires

IsExpired(e, now) == e.hasTtl /\ now >= e.expires

GetMiss(t) ==
    /\ Locked(t, "get")
    /\ ~Present(op[t].key)
    /\ Return(t)
    /\ UNCHANGED store

\* Mutant: the expired entry stays in lru_.
GetExpiredLeavesLru(t) ==
    /\ Locked(t, "get")
    /\ LET k == op[t].key IN
       /\ Present(k) /\ IsExpired(entries[k], op[t].now)
       /\ entries' = Erase({k})
    /\ Return(t)
    /\ UNCHANGED <<lru, since>>

GetExpired(t) ==
    /\ Locked(t, "get")
    /\ LET k == op[t].key IN
       /\ Present(k) /\ IsExpired(entries[k], op[t].now)
       /\ lru' = Unlist(k)
       /\ entries' = Erase({k})
    /\ Return(t)
    /\ UNCHANGED since

\* Mutant: a hit does not refresh the LRU position.
GetHitNoRefresh(t) ==
    /\ Locked(t, "get")
    /\ LET k == op[t].key IN
       /\ Present(k) /\ ~IsExpired(entries[k], op[t].now)
       /\ Touch(k)
    /\ Return(t)
    /\ UNCHANGED <<entries, lru>>

GetHit(t) ==
    /\ Locked(t, "get")
    /\ LET k == op[t].key IN
       /\ Present(k) /\ ~IsExpired(entries[k], op[t].now)
       /\ lru' = <<k>> \o Unlist(k)
       /\ Touch(k)
    /\ Return(t)
    /\ UNCHANGED entries

NewEntry(o) ==
    LET ttl == EffectiveTtl(o.ttl) IN
    [hasTtl |-> ttl > 0, expires |-> o.now + ttl,
     deadline |-> clock + ttl]

\* The eviction loop pops from the back of lru_ until there is room: how many
\* keys at the front of lru_ stay.
AtCapacity == Capacity > 0 /\ Cardinality(DOMAIN entries) >= Capacity
Suffix(n) == {lru[i] : i \in (n + 1)..Len(lru)}
Room(n) == n = 0 \/ Cardinality(DOMAIN entries \ Suffix(n)) < Capacity

\* Mutant: the loop stops one entry too early.
KeptTooMany ==
    IF AtCapacity
    THEN CHOOSE n \in 0..Len(lru) :
            /\ n = 0 \/ Cardinality(DOMAIN entries \ Suffix(n)) <= Capacity
            /\ \A m \in 0..Len(lru) :
                  m = 0 \/ Cardinality(DOMAIN entries \ Suffix(m)) <= Capacity => m <= n
    ELSE Len(lru)

Kept ==
    IF AtCapacity
    THEN CHOOSE n \in 0..Len(lru) : Room(n) /\ \A m \in 0..Len(lru) : Room(m) => m <= n
    ELSE Len(lru)

\* Update in place.
PutPresent(t) ==
    /\ Locked(t, "put")
    /\ LET k == op[t].key IN
       /\ Present(k)
       /\ entries' = [entries EXCEPT ![k] = NewEntry(op[t])]
       /\ lru' = <<k>> \o Unlist(k)
       /\ Touch(k)
    /\ Return(t)

PutAbsent(t) ==
    /\ Locked(t, "put")
    /\ LET k == op[t].key
           left == Erase(Suffix(Kept)) IN
       /\ ~Present(k)
       /\ entries' = [j \in DOMAIN left \cup {k} |-> IF j = k THEN NewEntry(op[t]) ELSE left[j]]
       /\ lru' = <<k>> \o SubSeq(lru, 1, Kept)
       /\ Touch(k)
    /\ Return(t)

Remove(t) ==
    /\ Locked(t, "remove")
    /\ LET k == op[t].key IN
       \/ ~Present(k) /\ UNCHANGED <<entries, lru>>
       \/ Present(k) /\ entries' = Erase({k}) /\ lru' = Unlist(k)
    /\ Return(t)
    /\ UNCHANGED since

Clear(t) ==
    /\ Locked(t, "clear")
    /\ entries' = Erase(Key)
    /\ lru' = <<>>
    /\ Return(t)
    /\ UNCHANGED since

Next ==
    \/ Tick \/ Serve
    \/ \E t \in Thread :
          \/ CallLocal(t) \/ CallRemote(t) \/ Dispatch(t)
          \/ GetMiss(t) \/ GetExpired(t) \/ GetHit(t)
          \/ PutPresent(t) \/ PutAbsent(t) \/ Remove(t) \/ Clear(t)

Spec == Init /\ [][Next]_vars

-----------------------------------------------------------------------------
(***************************************************************************)
(* Properties.                                                             *)
(***************************************************************************)

\* entries_ and lru_ agree after every operation of every thread: lru_ holds
\* each key of the map once and no other key.
ListMatchesMap ==
    /\ {lru[i] : i \in DOMAIN lru} = DOMAIN entries
    /\ \A i, j \in DOMAIN lru : lru[i] = lru[j] => i = j

\* A Put evicts only at capacity, and only a key that every key it keeps has
\* been used after.
EvictsLeastRecent ==
    [][\A t \in Thread : PutAbsent(t) =>
          \A v \in DOMAIN entries \ DOMAIN entries' :
             /\ Capacity > 0 /\ Cardinality(DOMAIN entries) >= Capacity
             /\ \A k \in DOMAIN entries' \cap DOMAIN entries : k \in since[v]]_vars

\* A Get hits only an entry that had not expired when the Get began, although
\* Put and Get both read the clock before they wait for the mutex.
HitIsFresh ==
    [][\A t \in Thread : GetHit(t) =>
          LET e == entries[op[t].key] IN e.hasTtl => op[t].now < e.deadline]_vars
=============================================================================
