--------------------------- MODULE CacheLazyEvict ---------------------------
(***************************************************************************)
(* The evicted-bit variant of the cache operations (src/unnamed/part_002,  *)
(* the version spec.md describes): eviction marks a victim evicted and     *)
(* subtracts its size at once, but leaves it in the map until a Load,      *)
(* Delete, Sweep or SweepEvicted removes it; evictIfNeeded does nothing    *)
(* without a memory limit and prefers expired victims.                     *)
(*                                                                         *)
(* State and abstraction are those of module Cache: tbl[k] is the entry    *)
(* id the shard's map holds for k, ent[id] the entry's fields, ptr[p] the  *)
(* pointer goroutine p keeps after an unlock.  The evicted bit of every    *)
(* entry is the set evicted.                                               *)
(***************************************************************************)
EXTENDS Integers, FiniteSets, FiniteSetsExt, Functions

CONSTANTS
    Procs,       \* goroutines calling into the cache
    Keys,        \* keys
    Vals,        \* non-numeric values clients store
    ValLen,      \* ValLen[v]: len(v) in bytes
    KeyLen,      \* len(key) of every key
    NumShards,   \* numShards of New
    ShardOf,     \* ShardOf[k] = hashKey(k) % numShards, shards numbered 1..NumShards
    MaxMemory,   \* maxMemory of New
    TTLs,        \* StoreOptions.TTL values, in clock ticks; 0 means none
    Tokens,      \* cas values clients pass to CompareAndSwap
    Deltas,      \* Increment deltas
    IntWidth,    \* bits of the int64 counter (scaled down; arithmetic wraps)
    MaxCas,      \* bound: no entry's cas is bumped beyond this
    MaxTime,     \* bound: the clock stops here
    NoProc       \* owner of a free lock

ASSUME ValLen \in [Vals -> Nat \ {8}]
ASSUME ShardOf \in [Keys -> 1..NumShards]
ASSUME NoProc \notin Procs
ASSUME Deltas \subseteq -(2^(IntWidth - 1)) .. 2^(IntWidth - 1) - 1

Shards == 1..NumShards
ShardMax == MaxMemory \div NumShards     \* shardMaxMem in New
EntryIds == 1..(Cardinality(Keys) + Cardinality(Procs))
Counters == -(2^(IntWidth - 1)) .. 2^(IntWidth - 1) - 1

\* Mutation: the counter treated as unsigned (uint64 arithmetic).
WrapUnsigned(x) == x % 2^IntWidth

\* int64 addition wraps around in two's complement.
Wrap(x) == ((x + 2^(IntWidth - 1)) % 2^IntWidth) - 2^(IntWidth - 1)

\* Go's integer division truncates toward zero (memUsed may be negative).
GoDiv(a, b) == IF a >= 0 THEN a \div b ELSE -((-a) \div b)

Value == Vals \cup Counters
Len(v) == IF v \in Vals THEN ValLen[v] ELSE 8
BytesToInt64(v) == IF Len(v) = 8 THEN v ELSE 0

VARIABLES
    now,         \* time.Now() in ticks
    tbl,         \* tbl[k]: the entry id the shard's map holds for k, 0 if none
    ent,         \* ent[id]: [key, val, exp, cas] of entry id
    evicted,     \* the ids whose evicted bit is set
    memUsed,     \* memUsed[s] of shard s
    owner,       \* owner[s]: goroutine holding shard s's exclusive lock
    pc,          \* pc[p]: where goroutine p is
    arg,         \* arg[p]: the operation's key, value, expiry, required space, shard
    ptr          \* ptr[p]: the entry pointer p holds, 0 if none

vars == <<now, tbl, ent, evicted, memUsed, owner, pc, arg, ptr>>

Entry == [key : Keys, val : Value, exp : Nat, cas : Nat]
\* The contents of an entry slot that nothing refers to.
Garbage == [key |-> CHOOSE k \in Keys : TRUE, val |-> 0, exp |-> 0, cas |-> 0]
NoArg == [key |-> CHOOSE k \in Keys : TRUE, val |-> 0, exp |-> 0, req |-> 0, shard |-> 1]

Size(key, val) == KeyLen + Len(val) + 24
EntrySize(id) == Size(ent[id].key, ent[id].val)
IsExpired(id) == ent[id].exp > 0 /\ ent[id].exp < now
ExpireAt(ttl) == IF ttl > 0 THEN now + ttl ELSE 0

\* The keys shard s's map holds, evicted entries included (numItems counts them).
ItemsOf(s) == {k \in Keys : ShardOf[k] = s /\ tbl[k] # 0}
SumSizes(ks) == MapThenSumSet(LAMBDA k : EntrySize(tbl[k]), ks)

FreeIds == EntryIds \ (Range(tbl) \cup Range(ptr))
NewId == Min(FreeIds)
CasRoom(k) == IF tbl[k] = 0 THEN TRUE ELSE ent[tbl[k]].cas < MaxCas
KeyShard(p) == ShardOf[arg[p].key]

Init ==
    /\ now = 1
    /\ tbl = [k \in Keys |-> 0]
    /\ ent = [id \in EntryIds |-> Garbage]
    /\ evicted = {}
    /\ memUsed = [s \in Shards |-> 0]
    /\ owner = [s \in Shards |-> NoProc]
    /\ pc = [p \in Procs |-> "idle"]
    /\ arg = [p \in Procs |-> NoArg]
    /\ ptr = [p \in Procs |-> 0]

-----------------------------------------------------------------------------
(* Removing k's entry from the map and its size from memUsed, as Delete,   *)
(* Sweep and SweepEvicted do, whether or not the entry is marked evicted.  *)
Unlink(k) ==
    /\ tbl' = [tbl EXCEPT ![k] = 0]
    /\ memUsed' = [memUsed EXCEPT ![ShardOf[k]] = @ - EntrySize(tbl[k])]

(***************************************************************************)
(* Victim choice for two samples a, b (in either order): exactly one       *)
(* expired goes; otherwise, when both have an expiry (as both expired      *)
(* ones do), the sooner goes, entries[1] on a tie; otherwise rand.Intn.    *)
(***************************************************************************)
TwoRandom(a, b) ==
    LET xa == IsExpired(tbl[a])
        xb == IsExpired(tbl[b])
        ea == ent[tbl[a]].exp
        eb == ent[tbl[b]].exp
    IN  CASE xa # xb           -> IF xa THEN {a} ELSE {b}
          [] ea > 0 /\ eb > 0  -> IF ea < eb THEN {a} ELSE {b}
          [] OTHER             -> {a, b}

\* randomEntries(2) over the map, which still holds the evicted entries.
Victims(s) ==
    IF Cardinality(ItemsOf(s)) <= 2 THEN ItemsOf(s)
    ELSE UNION {TwoRandom(pr[1], pr[2]) :
                   pr \in {q \in ItemsOf(s) \X ItemsOf(s) : q[1] # q[2]}}

\* evictIfNeeded: no limit returns at once; else the loop condition.
NeedEvict(s, req) == ShardMax > 0 /\ memUsed[s] + req > ShardMax /\ ItemsOf(s) # {}

\* Mutation: the victim is marked but its size is not subtracted.
EvictMarkOnly(p) ==
    /\ pc[p] \in {"store", "cas", "incr"}
    /\ NeedEvict(KeyShard(p), arg[p].req)
    /\ \E k \in Victims(KeyShard(p)) : evicted' = evicted \cup {tbl[k]}
    /\ UNCHANGED <<now, tbl, ent, memUsed, owner, pc, arg, ptr>>

(* One round of evictIfNeeded: SetEvicted(true) on the victim, which may   *)
(* already be marked, and its size subtracted; the map is left as it is.   *)
EvictIfNeeded(p) ==
    LET s == KeyShard(p) IN
    /\ pc[p] \in {"store", "cas", "incr"}
    /\ NeedEvict(s, arg[p].req)
    /\ \E k \in Victims(s) :
          /\ evicted' = evicted \cup {tbl[k]}
          /\ memUsed' = [memUsed EXCEPT ![s] = @ - EntrySize(tbl[k])]
    /\ UNCHANGED <<now, tbl, ent, owner, pc, arg, ptr>>

-----------------------------------------------------------------------------
(* Store: the entry is built, the lock taken, eviction asked for the whole *)
(* new entry's size.                                                       *)
StoreBegin(p, k, v, ttl) ==
    /\ pc[p] = "idle"
    /\ owner[ShardOf[k]] = NoProc
    /\ CasRoom(k)
    /\ owner' = [owner EXCEPT ![ShardOf[k]] = p]
    /\ pc' = [pc EXCEPT ![p] = "store"]
    /\ arg' = [arg EXCEPT ![p] = [NoArg EXCEPT !.key = k, !.val = v,
                                   !.exp = ExpireAt(ttl), !.req = Size(k, v)]]
    /\ UNCHANGED <<now, tbl, ent, evicted, memUsed, ptr>>

(* Store after eviction: insert finds the key's entry, evicted or not, and *)
(* rewrites value, expiry and cas in place (the evicted bit is not         *)
(* touched), handing back the old size to subtract; or it links a new,     *)
(* unmarked entry.                                                         *)
StoreFinish(p) ==
    LET k  == arg[p].key
        s  == ShardOf[k]
        id == tbl[k]
        nw == Size(k, arg[p].val)
    IN
    /\ pc[p] = "store"
    /\ ~NeedEvict(s, arg[p].req)
    /\ IF id # 0
       THEN /\ ent' = [ent EXCEPT ![id] = [@ EXCEPT !.val = arg[p].val,
                                           !.exp = arg[p].exp, !.cas = @ + 1]]
            /\ memUsed' = [memUsed EXCEPT ![s] = @ - EntrySize(id) + nw]
            /\ UNCHANGED <<tbl, evicted>>
       ELSE /\ ent' = [ent EXCEPT ![NewId] = [key |-> k, val |-> arg[p].val,
                                              exp |-> arg[p].exp, cas |-> 0]]
            /\ tbl' = [tbl EXCEPT ![k] = NewId]
            /\ evicted' = evicted \ {NewId}
            /\ memUsed' = [memUsed EXCEPT ![s] = @ + nw]
    /\ owner' = [owner EXCEPT ![s] = NoProc]
    /\ pc' = [pc EXCEPT ![p] = "idle"]
    /\ UNCHANGED <<now, arg, ptr>>

(* Load under the read lock: a miss returns; a hit keeps the pointer.      *)
LoadBegin(p, k) ==
    /\ pc[p] = "idle"
    /\ owner[ShardOf[k]] = NoProc
    /\ tbl[k] # 0
    /\ ptr' = [ptr EXCEPT ![p] = tbl[k]]
    /\ pc' = [pc EXCEPT ![p] = "load"]
    /\ arg' = [arg EXCEPT ![p] = [NoArg EXCEPT !.key = k]]
    /\ UNCHANGED <<now, tbl, ent, evicted, memUsed, owner>>

(* Load after the unlock: an evicted or an expired entry is a miss and     *)
(* sends Load on to c.Delete(key); any other is a hit.                     *)
LoadCheck(p) ==
    /\ pc[p] = "load"
    /\ IF ptr[p] \in evicted \/ IsExpired(ptr[p])
       THEN /\ pc' = [pc EXCEPT ![p] = "load_delete"]
            /\ UNCHANGED ptr
       ELSE /\ pc' = [pc EXCEPT ![p] = "idle"]
            /\ ptr' = [ptr EXCEPT ![p] = 0]
    /\ UNCHANGED <<now, tbl, ent, evicted, memUsed, owner, arg>>

(* Delete(key) under the lock: the key's entry, marked or not, is removed  *)
(* and its size subtracted; an absent key returns false.                   *)
DeleteKey(k) ==
    /\ owner[ShardOf[k]] = NoProc
    /\ IF tbl[k] # 0 THEN Unlink(k) ELSE UNCHANGED <<tbl, memUsed>>

LoadDelete(p) ==
    /\ pc[p] = "load_delete"
    /\ DeleteKey(arg[p].key)
    /\ pc' = [pc EXCEPT ![p] = "idle"]
    /\ ptr' = [ptr EXCEPT ![p] = 0]
    /\ UNCHANGED <<now, ent, evicted, owner, arg>>

Delete(p, k) ==
    /\ pc[p] = "idle"
    /\ tbl[k] # 0
    /\ DeleteKey(k)
    /\ UNCHANGED <<now, ent, evicted, owner, pc, arg, ptr>>

(* CompareAndSwap under the lock: absent key or cas mismatch return false; *)
(* otherwise sizeDelta = len(value) - len(existing.value) is computed      *)
(* first and eviction asked for it.                                        *)
CasBegin(p, k, v, tok, ttl) ==
    LET id == tbl[k] IN
    /\ pc[p] = "idle"
    /\ owner[ShardOf[k]] = NoProc
    /\ id # 0
    /\ ent[id].cas = tok
    /\ CasRoom(k)
    /\ owner' = [owner EXCEPT ![ShardOf[k]] = p]
    /\ pc' = [pc EXCEPT ![p] = "cas"]
    /\ ptr' = [ptr EXCEPT ![p] = id]
    /\ arg' = [arg EXCEPT ![p] = [NoArg EXCEPT !.key = k, !.val = v,
                      !.exp = ExpireAt(ttl), !.req = Len(v) - Len(ent[id].val)]]
    /\ UNCHANGED <<now, tbl, ent, evicted, memUsed>>

(* CompareAndSwap after eviction: the held entry gets value, expiry and    *)
(* cas+1, and memUsed moves by sizeDelta.                                  *)
CasFinish(p) ==
    LET id == ptr[p]
        s  == KeyShard(p)
    IN
    /\ pc[p] = "cas"
    /\ ~NeedEvict(s, arg[p].req)
    /\ ent' = [ent EXCEPT ![id] = [@ EXCEPT !.val = arg[p].val,
                                         !.exp = arg[p].exp, !.cas = @ + 1]]
    /\ memUsed' = [memUsed EXCEPT ![s] = @ + arg[p].req]
    /\ owner' = [owner EXCEPT ![s] = NoProc]
    /\ pc' = [pc EXCEPT ![p] = "idle"]
    /\ ptr' = [ptr EXCEPT ![p] = 0]
    /\ UNCHANGED <<now, tbl, evicted, arg>>

(* Increment under the lock: a present entry, evicted or not, is decoded,  *)
(* delta added with wrap-around, re-encoded, cas bumped and the size       *)
(* change added, with no eviction; an absent key evicts for, and inserts,  *)
(* a new 8-byte entry holding delta.                                       *)
IncrBegin(p, k, d) ==
    LET s  == ShardOf[k]
        id == tbl[k]
    IN
    /\ pc[p] = "idle"
    /\ owner[s] = NoProc
    /\ CasRoom(k)
    /\ IF id # 0
       THEN /\ ent' = [ent EXCEPT ![id] = [@ EXCEPT
                          !.val = Wrap(BytesToInt64(ent[id].val) + d), !.cas = @ + 1]]
            /\ memUsed' = [memUsed EXCEPT ![s] = @ + (8 - Len(ent[id].val))]
            /\ UNCHANGED <<owner, pc, arg>>
       ELSE /\ owner' = [owner EXCEPT ![s] = p]
            /\ pc' = [pc EXCEPT ![p] = "incr"]
            /\ arg' = [arg EXCEPT ![p] = [NoArg EXCEPT !.key = k, !.val = d,
                                           !.req = Size(k, d)]]
            /\ UNCHANGED <<ent, memUsed>>
    /\ UNCHANGED <<now, tbl, evicted, ptr>>

IncrFinish(p) ==
    LET k == arg[p].key
        s == ShardOf[k]
    IN
    /\ pc[p] = "incr"
    /\ ~NeedEvict(s, arg[p].req)
    /\ ent' = [ent EXCEPT ![NewId] = [key |-> k, val |-> arg[p].val, exp |-> 0, cas |-> 0]]
    /\ tbl' = [tbl EXCEPT ![k] = NewId]
    /\ evicted' = evicted \ {NewId}
    /\ memUsed' = [memUsed EXCEPT ![s] = @ + arg[p].req]
    /\ owner' = [owner EXCEPT ![s] = NoProc]
    /\ pc' = [pc EXCEPT ![p] = "idle"]
    /\ UNCHANGED <<now, arg, ptr>>

\* The shard a multi-shard walk (Sweep, SweepEvicted, Clear) is at.
WalkShard(p) == IF pc[p] = "idle" THEN 1 ELSE arg[p].shard

\* After shard i, the walk named w goes on to shard i + 1 or returns.
WalkOn(p, w, i) ==
    /\ pc' = [pc EXCEPT ![p] = IF i = NumShards THEN "idle" ELSE w]
    /\ arg' = [arg EXCEPT ![p] = [NoArg EXCEPT !.shard = i + 1]]

(* Sweep, one shard under its lock: every expired entry is deleted and its *)
(* size subtracted, evicted ones included.                                 *)
SweepShard(p) ==
    LET i    == WalkShard(p)
        dead == {k \in ItemsOf(i) : IsExpired(tbl[k])}
    IN
    /\ pc[p] \in {"idle", "sweep"}
    /\ owner[i] = NoProc
    /\ tbl' = [k \in Keys |-> IF k \in dead THEN 0 ELSE tbl[k]]
    /\ memUsed' = [memUsed EXCEPT ![i] = @ - SumSizes(dead)]
    /\ WalkOn(p, "sweep", i)
    /\ UNCHANGED <<now, ent, evicted, owner, ptr>>

(* SweepEvicted, one shard under its lock: when the evicted entries' sizes *)
(* add up to more than memUsed/10, all of them are deleted and their sizes *)
(* subtracted.                                                             *)
SweepEvictedShard(p) ==
    LET i     == WalkShard(p)
        marked == {k \in ItemsOf(i) : tbl[k] \in evicted}
        clean  == SumSizes(marked) > GoDiv(memUsed[i], 10)
    IN
    /\ pc[p] \in {"idle", "sweep_evicted"}
    /\ owner[i] = NoProc
    /\ IF clean
       THEN /\ tbl' = [k \in Keys |-> IF k \in marked THEN 0 ELSE tbl[k]]
            /\ memUsed' = [memUsed EXCEPT ![i] = @ - SumSizes(marked)]
       ELSE UNCHANGED <<tbl, memUsed>>
    /\ WalkOn(p, "sweep_evicted", i)
    /\ UNCHANGED <<now, ent, evicted, owner, ptr>>

(* Clear, one shard under its lock: a fresh map and memUsed stored as 0.   *)
ClearShard(p) ==
    LET i == WalkShard(p) IN
    /\ pc[p] \in {"idle", "clear"}
    /\ owner[i] = NoProc
    /\ tbl' = [k \in Keys |-> IF ShardOf[k] = i THEN 0 ELSE tbl[k]]
    /\ memUsed' = [memUsed EXCEPT ![i] = 0]
    /\ WalkOn(p, "clear", i)
    /\ UNCHANGED <<now, ent, evicted, owner, ptr>>

Tick ==
    /\ now < MaxTime
    /\ now' = now + 1
    /\ UNCHANGED <<tbl, ent, evicted, memUsed, owner, pc, arg, ptr>>

Continue(p) ==
    \/ EvictIfNeeded(p)
    \/ StoreFinish(p)
    \/ LoadCheck(p)
    \/ LoadDelete(p)
    \/ CasFinish(p)
    \/ IncrFinish(p)
    \/ pc[p] = "sweep" /\ SweepShard(p)
    \/ pc[p] = "sweep_evicted" /\ SweepEvictedShard(p)
    \/ pc[p] = "clear" /\ ClearShard(p)

Call(p) ==
    \/ \E k \in Keys, v \in Vals, ttl \in TTLs : StoreBegin(p, k, v, ttl)
    \/ \E k \in Keys : LoadBegin(p, k) \/ Delete(p, k)
    \/ \E k \in Keys, v \in Vals, tok \in Tokens, ttl \in TTLs : CasBegin(p, k, v, tok, ttl)
    \/ \E k \in Keys, d \in Deltas : IncrBegin(p, k, d)
    \/ pc[p] = "idle" /\ SweepShard(p)
    \/ pc[p] = "idle" /\ SweepEvictedShard(p)
    \/ pc[p] = "idle" /\ ClearShard(p)

Next == Tick \/ \E p \in Procs : Call(p) \/ Continue(p)

(* As in Cache: a goroutine waiting inside an operation gets the lock      *)
(* eventually (sync.RWMutex starvation mode).                              *)
Fairness == \A p \in Procs : SF_vars(Continue(p))

Spec == Init /\ [][Next]_vars /\ Fairness

\* Garbage entries, their bits and an idle goroutine's last arguments are dead.
View ==
    <<now, tbl, [id \in EntryIds |-> IF id \in FreeIds THEN Garbage ELSE ent[id]],
      evicted \ FreeIds, memUsed, owner, pc,
      [p \in Procs |-> IF pc[p] = "idle" THEN NoArg ELSE arg[p]], ptr>>

-----------------------------------------------------------------------------
(* Type invariant. *)
TypeOK ==
    /\ now \in 1..MaxTime
    /\ tbl \in [Keys -> {0} \cup EntryIds]
    /\ ent \in [EntryIds -> Entry]
    /\ evicted \subseteq EntryIds
    /\ memUsed \in [Shards -> Int]
    /\ owner \in [Shards -> Procs \cup {NoProc}]
    /\ ptr \in [Procs -> {0} \cup EntryIds]
    /\ \A k \in Keys : tbl[k] # 0 => ent[tbl[k]].key = k

(* Every operation a goroutine has entered returns: each eviction round    *)
(* lowers memUsed, so the loop ends although the map never shrinks.        *)
OpsComplete == \A p \in Procs : pc[p] # "idle" ~> pc[p] = "idle"
=============================================================================
