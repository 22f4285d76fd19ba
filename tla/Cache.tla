------------------------------- MODULE Cache --------------------------------
(***************************************************************************)
(* The sharded cache of src/internal/cache/operations.go with types.go:    *)
(* Store, Load, Delete, CompareAndSwap, Increment, Sweep, Clear and the    *)
(* two-random eviction they share, run by concurrent goroutines.           *)
(*                                                                         *)
(* Each shard's Map is abstracted to tbl[k], the entry a key maps to; the  *)
(* RHMap module checks that the table itself implements such a map.       *)
(* Entries are pointers: ent[id] holds the fields of entry id, and a       *)
(* goroutine that got a pointer from the map (ptr[p]) keeps seeing later   *)
(* in-place writes to it, also after it left the map.  An id that neither  *)
(* the map nor a goroutine refers to is garbage and is reused.             *)
(*                                                                         *)
(* A step that holds the shard's exclusive lock across several steps sets  *)
(* owner[s]; a one-step critical section (Delete, the read-locked lookup   *)
(* of Load, a shard of Sweep or Clear) only requires the lock to be free.  *)
(* Statistics counters (numOps, numHits, ...) are atomic adds that no      *)
(* operation reads, and entry flags are opaque; neither is modelled.       *)
(***************************************************************************)
EXTENDS Integers, FiniteSets, FiniteSetsExt, Functions

CONSTANTS
    Procs,       \* goroutines calling into the cache
    Keys,        \* keys
    Vals,        \* non-numeric values clients store
    ValLen,      \* ValLen[v]: len(v) in bytes
    KeyLen,      \* len(key) of every key
    NumShards,   \* numShards of New
    ShardOf,     \* ShardOf[k] = hashKey(k) % numShards, shards numbered 1..NumShards
    MaxMemory,   \* maxMemory of New (0: the banner's "unlimited")
    TTLs,        \* StoreOptions.TTL values, in clock ticks; 0 means none
    Tokens,      \* cas values clients pass to CompareAndSwap
    Deltas,      \* Increment deltas
    IntWidth,    \* bits of the int64 counter (scaled down; arithmetic wraps)
    MaxCas,      \* bound: no entry's cas is bumped beyond this
    MaxTime,     \* bound: the clock stops here
    NoProc       \* owner of a free lock

ASSUME ValLen \in [Vals -> Nat \ {8}]
ASSUME ShardOf \in [Keys -> 1..NumShards]
ASSUME NoProc \notin Procs
ASSUME Deltas \subseteq -(2^(IntWidth - 1)) .. 2^(IntWidth - 1) - 1

Shards == 1..NumShards
ShardMax == MaxMemory \div NumShards     \* shardMaxMem in New
EntryIds == 1..(Cardinality(Keys) + Cardinality(Procs))
Counters == -(2^(IntWidth - 1)) .. 2^(IntWidth - 1) - 1

\* Mutation: the counter treated as unsigned (uint64 arithmetic).
WrapUnsigned(x) == x % 2^IntWidth

\* int64 addition wraps around in two's complement.
Wrap(x) == ((x + 2^(IntWidth - 1)) % 2^IntWidth) - 2^(IntWidth - 1)

\* A value is a client string (Vals) or the 8-byte big-endian encoding of an
\* integer written by Increment, represented by the integer it encodes.
Value == Vals \cup Counters
Len(v) == IF v \in Vals THEN ValLen[v] ELSE 8

\* bytesToInt64: 0 unless the value is exactly 8 bytes long.
BytesToInt64(v) == IF Len(v) = 8 THEN v ELSE 0

VARIABLES
    now,         \* time.Now() in ticks
    tbl,         \* tbl[k]: the entry id the shard's map holds for k, 0 if none
    ent,         \* ent[id]: [key, val, exp, cas] of entry id
    memUsed,     \* memUsed[s] of shard s
    owner,       \* owner[s]: goroutine holding shard s's exclusive lock
    pc,          \* pc[p]: where goroutine p is
    arg,         \* arg[p]: the operation's key, value, expiry, required space, shard
    ptr          \* ptr[p]: the entry pointer p holds, 0 if none

vars == <<now, tbl, ent, memUsed, owner, pc, arg, ptr>>

Entry == [key : Keys, val : Value, exp : Nat, cas : Nat]
\* The contents of an entry slot that nothing refers to.
Garbage == [key |-> CHOOSE k \in Keys : TRUE, val |-> 0, exp |-> 0, cas |-> 0]
NoArg == [key |-> CHOOSE k \in Keys : TRUE, val |-> 0, exp |-> 0, req |-> 0, shard |-> 1]

\* Entry.Size(): len(key) + len(value) + 24.
Size(key, val) == KeyLen + Len(val) + 24
EntrySize(id) == Size(ent[id].key, ent[id].val)

\* Entry.IsExpired(): expireAt > 0 && expireAt < time.Now().
IsExpired(id) == ent[id].exp > 0 /\ ent[id].exp < now
ExpireAt(ttl) == IF ttl > 0 THEN now + ttl ELSE 0

ItemsOf(s) == {k \in Keys : ShardOf[k] = s /\ tbl[k] # 0}
LiveMem(s) == MapThenSumSet(LAMBDA k : EntrySize(tbl[k]), ItemsOf(s))

FreeIds == EntryIds \ (Range(tbl) \cup Range(ptr))
NewId == Min(FreeIds)

\* Room for one more cas bump on k's entry (bounds the model).
CasRoom(k) == IF tbl[k] = 0 THEN TRUE ELSE ent[tbl[k]].cas < MaxCas

KeyShard(p) == ShardOf[arg[p].key]

Init ==
    /\ now = 1
    /\ tbl = [k \in Keys |-> 0]
    /\ ent = [id \in EntryIds |-> Garbage]
    /\ memUsed = [s \in Shards |-> 0]
    /\ owner = [s \in Shards |-> NoProc]
    /\ pc = [p \in Procs |-> "idle"]
    /\ arg = [p \in Procs |-> NoArg]
    /\ ptr = [p \in Procs |-> 0]

-----------------------------------------------------------------------------
(* Removing k's entry from its shard's map and its size from memUsed, as   *)
(* Delete, Sweep and eviction do.                                          *)
Unlink(k) ==
    /\ tbl' = [tbl EXCEPT ![k] = 0]
    /\ memUsed' = [memUsed EXCEPT ![ShardOf[k]] = @ - EntrySize(tbl[k])]

(***************************************************************************)
(* randomEntries(2) walks the buckets with stride numItems/2 + 1: with at  *)
(* most two items it returns only the first in bucket order, otherwise two *)
(* distinct ones.  Bucket order depends on the hashes, so which entries    *)
(* come back is left open.  Of two samples that both have a TTL, the one   *)
(* expiring first goes (entries[1] on a tie); otherwise rand.Intn picks.   *)
(***************************************************************************)
TwoRandom(a, b) ==
    LET ea == ent[tbl[a]].exp
        eb == ent[tbl[b]].exp
    IN  IF ea > 0 /\ eb > 0 THEN IF ea < eb THEN {a} ELSE {b} ELSE {a, b}

Victims(s) ==
    IF Cardinality(ItemsOf(s)) <= 2 THEN ItemsOf(s)
    ELSE UNION {TwoRandom(pr[1], pr[2]) :
                   pr \in {q \in ItemsOf(s) \X ItemsOf(s) : q[1] # q[2]}}

\* evictIfNeeded's loop condition.
NeedEvict(s, req) == memUsed[s] + req > ShardMax /\ ItemsOf(s) # {}

\* Mutation: the round's delete finds nothing (a wrong key or hash), so the
\* loop spins with the lock held.
EvictNothing(p) ==
    /\ pc[p] \in {"store", "cas", "incr"}
    /\ NeedEvict(KeyShard(p), arg[p].req)
    /\ UNCHANGED vars

(***************************************************************************)
(* One round of evictIfNeeded, run by a goroutine that holds the shard's   *)
(* lock inside Store, CompareAndSwap or Increment: the victim is deleted   *)
(* from the map and its size subtracted (numEvicted is a statistic).       *)
(***************************************************************************)
EvictIfNeeded(p) ==
    LET s == KeyShard(p) IN
    /\ pc[p] \in {"store", "cas", "incr"}
    /\ NeedEvict(s, arg[p].req)
    /\ \E k \in Victims(s) : Unlink(k)
    /\ UNCHANGED <<now, ent, owner, pc, arg, ptr>>

-----------------------------------------------------------------------------
(* Store: the entry is built (expiry from time.Now() + TTL), the lock      *)
(* taken, and evictIfNeeded asked for the whole new entry's size.          *)
StoreBegin(p, k, v, ttl) ==
    /\ pc[p] = "idle"
    /\ owner[ShardOf[k]] = NoProc
    /\ CasRoom(k)
    /\ owner' = [owner EXCEPT ![ShardOf[k]] = p]
    /\ pc' = [pc EXCEPT ![p] = "store"]
    /\ arg' = [arg EXCEPT ![p] = [NoArg EXCEPT !.key = k, !.val = v,
                                   !.exp = ExpireAt(ttl), !.req = Size(k, v)]]
    /\ UNCHANGED <<now, tbl, ent, memUsed, ptr>>

\* Mutation: the old entry's size is not subtracted when insert replaces it.
StoreFinishKeepsOld(p) ==
    LET k  == arg[p].key
        s  == ShardOf[k]
        id == tbl[k]
    IN
    /\ pc[p] = "store"
    /\ ~NeedEvict(s, arg[p].req)
    /\ IF id # 0
       THEN /\ ent' = [ent EXCEPT ![id] = [@ EXCEPT !.val = arg[p].val,
                                           !.exp = arg[p].exp, !.cas = @ + 1]]
            /\ UNCHANGED tbl
       ELSE /\ ent' = [ent EXCEPT ![NewId] = [key |-> k, val |-> arg[p].val,
                                              exp |-> arg[p].exp, cas |-> 0]]
            /\ tbl' = [tbl EXCEPT ![k] = NewId]
    /\ memUsed' = [memUsed EXCEPT ![s] = @ + Size(k, arg[p].val)]
    /\ owner' = [owner EXCEPT ![s] = NoProc]
    /\ pc' = [pc EXCEPT ![p] = "idle"]
    /\ UNCHANGED <<now, arg, ptr>>

(* Store after eviction: insert either rewrites the present entry in place *)
(* (value, expiry, cas+1) and hands back the old size, or links a new      *)
(* entry with cas = opts.CAS = 0; memUsed moves by new - old size.         *)
StoreFinish(p) ==
    LET k  == arg[p].key
        s  == ShardOf[k]
        id == tbl[k]
        nw == Size(k, arg[p].val)
    IN
    /\ pc[p] = "store"
    /\ ~NeedEvict(s, arg[p].req)
    /\ IF id # 0
       THEN /\ ent' = [ent EXCEPT ![id] = [@ EXCEPT !.val = arg[p].val,
                                           !.exp = arg[p].exp, !.cas = @ + 1]]
            /\ memUsed' = [memUsed EXCEPT ![s] = @ - EntrySize(id) + nw]
            /\ UNCHANGED tbl
       ELSE /\ ent' = [ent EXCEPT ![NewId] = [key |-> k, val |-> arg[p].val,
                                              exp |-> arg[p].exp, cas |-> 0]]
            /\ tbl' = [tbl EXCEPT ![k] = NewId]
            /\ memUsed' = [memUsed EXCEPT ![s] = @ + nw]
    /\ owner' = [owner EXCEPT ![s] = NoProc]
    /\ pc' = [pc EXCEPT ![p] = "idle"]
    /\ UNCHANGED <<now, arg, ptr>>

(* Load, under the read lock: a miss returns at once; a hit keeps the      *)
(* entry pointer and releases the lock.                                    *)
LoadBegin(p, k) ==
    /\ pc[p] = "idle"
    /\ owner[ShardOf[k]] = NoProc
    /\ tbl[k] # 0
    /\ ptr' = [ptr EXCEPT ![p] = tbl[k]]
    /\ pc' = [pc EXCEPT ![p] = "load"]
    /\ arg' = [arg EXCEPT ![p] = [NoArg EXCEPT !.key = k]]
    /\ UNCHANGED <<now, tbl, ent, memUsed, owner>>

(* Load, after the unlock: the held entry is checked for expiry now; an    *)
(* expired one sends Load on to c.Delete(key), a live one is a hit.        *)
LoadCheck(p) ==
    /\ pc[p] = "load"
    /\ IF IsExpired(ptr[p])
       THEN /\ pc' = [pc EXCEPT ![p] = "load_delete"]
            /\ UNCHANGED ptr
       ELSE /\ pc' = [pc EXCEPT ![p] = "idle"]
            /\ ptr' = [ptr EXCEPT ![p] = 0]
    /\ UNCHANGED <<now, tbl, ent, memUsed, owner, arg>>

(* Delete(key) under the exclusive lock: whatever entry the key maps to    *)
(* now is unlinked; an absent key returns false.                           *)
DeleteKey(k) ==
    /\ owner[ShardOf[k]] = NoProc
    /\ IF tbl[k] # 0 THEN Unlink(k) ELSE UNCHANGED <<tbl, memUsed>>

LoadDelete(p) ==
    /\ pc[p] = "load_delete"
    /\ DeleteKey(arg[p].key)
    /\ pc' = [pc EXCEPT ![p] = "idle"]
    /\ ptr' = [ptr EXCEPT ![p] = 0]
    /\ UNCHANGED <<now, ent, owner, arg>>

Delete(p, k) ==
    /\ pc[p] = "idle"
    /\ tbl[k] # 0
    /\ DeleteKey(k)
    /\ UNCHANGED <<now, ent, owner, pc, arg, ptr>>

(* CompareAndSwap under the lock: absent key or cas mismatch return false; *)
(* otherwise evictIfNeeded is asked for new size - existing size.          *)
CasBegin(p, k, v, tok, ttl) ==
    LET id == tbl[k] IN
    /\ pc[p] = "idle"
    /\ owner[ShardOf[k]] = NoProc
    /\ id # 0
    /\ ent[id].cas = tok
    /\ CasRoom(k)
    /\ owner' = [owner EXCEPT ![ShardOf[k]] = p]
    /\ pc' = [pc EXCEPT ![p] = "cas"]
    /\ ptr' = [ptr EXCEPT ![p] = id]
    /\ arg' = [arg EXCEPT ![p] = [NoArg EXCEPT !.key = k, !.val = v,
                      !.exp = ExpireAt(ttl), !.req = Size(k, v) - EntrySize(id)]]
    /\ UNCHANGED <<now, tbl, ent, memUsed>>

(* CompareAndSwap after eviction: the existing entry (still held, even if  *)
(* eviction unlinked it) gets value, expiry and cas+1; memUsed then moves  *)
(* by entry.Size() - existing.Size(), computed after existing.value was    *)
(* overwritten.                                                            *)
CasFinish(p) ==
    LET id  == ptr[p]
        s   == KeyShard(p)
        upd == [ent[id] EXCEPT !.val = arg[p].val, !.exp = arg[p].exp, !.cas = @ + 1]
    IN
    /\ pc[p] = "cas"
    /\ ~NeedEvict(s, arg[p].req)
    /\ ent' = [ent EXCEPT ![id] = upd]
    /\ memUsed' = [memUsed EXCEPT ![s] = @ + (Size(arg[p].key, arg[p].val)
                                              - Size(upd.key, upd.val))]
    /\ owner' = [owner EXCEPT ![s] = NoProc]
    /\ pc' = [pc EXCEPT ![p] = "idle"]
    /\ ptr' = [ptr EXCEPT ![p] = 0]
    /\ UNCHANGED <<now, tbl, arg>>

(* Increment under the lock.  A present entry's value is decoded (0 unless *)
(* 8 bytes), delta added with wrap-around, re-encoded, cas bumped and the  *)
(* size change added, with no eviction.  An absent key goes on to evict    *)
(* for, and insert, a new 8-byte entry holding delta.                      *)
IncrBegin(p, k, d) ==
    LET s  == ShardOf[k]
        id == tbl[k]
    IN
    /\ pc[p] = "idle"
    /\ owner[s] = NoProc
    /\ CasRoom(k)
    /\ IF id # 0
       THEN /\ ent' = [ent EXCEPT ![id] = [@ EXCEPT
                          !.val = Wrap(BytesToInt64(ent[id].val) + d), !.cas = @ + 1]]
            /\ memUsed' = [memUsed EXCEPT ![s] = @ + (8 - Len(ent[id].val))]
            /\ UNCHANGED <<owner, pc, arg>>
       ELSE /\ owner' = [owner EXCEPT ![s] = p]
            /\ pc' = [pc EXCEPT ![p] = "incr"]
            /\ arg' = [arg EXCEPT ![p] = [NoArg EXCEPT !.key = k, !.val = d,
                                           !.req = Size(k, d)]]
            /\ UNCHANGED <<ent, memUsed>>
    /\ UNCHANGED <<now, tbl, ptr>>

IncrFinish(p) ==
    LET k == arg[p].key
        s == ShardOf[k]
    IN
    /\ pc[p] = "incr"
    /\ ~NeedEvict(s, arg[p].req)
    /\ ent' = [ent EXCEPT ![NewId] = [key |-> k, val |-> arg[p].val, exp |-> 0, cas |-> 0]]
    /\ tbl' = [tbl EXCEPT ![k] = NewId]
    /\ memUsed' = [memUsed EXCEPT ![s] = @ + arg[p].req]
    /\ owner' = [owner EXCEPT ![s] = NoProc]
    /\ pc' = [pc EXCEPT ![p] = "idle"]
    /\ UNCHANGED <<now, arg, ptr>>

(* Sweep visits the shards in order, each under its lock: every expired   *)
(* entry found by iter is deleted and its size subtracted.                 *)
SweepShard(p) ==
    LET i   == IF pc[p] = "idle" THEN 1 ELSE arg[p].shard
        dead == {k \in ItemsOf(i) : IsExpired(tbl[k])}
    IN
    /\ pc[p] \in {"idle", "sweep"}
    /\ owner[i] = NoProc
    /\ tbl' = [k \in Keys |-> IF k \in dead THEN 0 ELSE tbl[k]]
    /\ memUsed' = [memUsed EXCEPT ![i] = @ - MapThenSumSet(LAMBDA k : EntrySize(tbl[k]), dead)]
    /\ pc' = [pc EXCEPT ![p] = IF i = NumShards THEN "idle" ELSE "sweep"]
    /\ arg' = [arg EXCEPT ![p] = [NoArg EXCEPT !.shard = i + 1]]
    /\ UNCHANGED <<now, ent, owner, ptr>>

(* Clear visits the shards in order, each under its lock: a fresh map and  *)
(* memUsed stored as 0.                                                    *)
ClearShard(p) ==
    LET i == IF pc[p] = "idle" THEN 1 ELSE arg[p].shard IN
    /\ pc[p] \in {"idle", "clear"}
    /\ owner[i] = NoProc
    /\ tbl' = [k \in Keys |-> IF ShardOf[k] = i THEN 0 ELSE tbl[k]]
    /\ memUsed' = [memUsed EXCEPT ![i] = 0]
    /\ pc' = [pc EXCEPT ![p] = IF i = NumShards THEN "idle" ELSE "clear"]
    /\ arg' = [arg EXCEPT ![p] = [NoArg EXCEPT !.shard = i + 1]]
    /\ UNCHANGED <<now, ent, owner, ptr>>

Tick ==
    /\ now < MaxTime
    /\ now' = now + 1
    /\ UNCHANGED <<tbl, ent, memUsed, owner, pc, arg, ptr>>

(* The steps a goroutine takes once it is inside an operation. *)
Continue(p) ==
    \/ EvictIfNeeded(p)
    \/ StoreFinish(p)
    \/ LoadCheck(p)
    \/ LoadDelete(p)
    \/ CasFinish(p)
    \/ IncrFinish(p)
    \/ pc[p] = "sweep" /\ SweepShard(p)
    \/ pc[p] = "clear" /\ ClearShard(p)

(* A call a client may make when the goroutine is idle. *)
Call(p) ==
    \/ \E k \in Keys, v \in Vals, ttl \in TTLs : StoreBegin(p, k, v, ttl)
    \/ \E k \in Keys : LoadBegin(p, k) \/ Delete(p, k)
    \/ \E k \in Keys, v \in Vals, tok \in Tokens, ttl \in TTLs : CasBegin(p, k, v, tok, ttl)
    \/ \E k \in Keys, d \in Deltas : IncrBegin(p, k, d)
    \/ pc[p] = "idle" /\ SweepShard(p)
    \/ pc[p] = "idle" /\ ClearShard(p)

Next == Tick \/ \E p \in Procs : Call(p) \/ Continue(p)

(* Every goroutine inside an operation keeps running: Go's sync.RWMutex    *)
(* hands a contended lock to every waiter eventually (starvation mode), so *)
(* the steps that wait for a lock are strongly fair.                       *)
Fairness == \A p \in Procs : SF_vars(Continue(p))

Spec == Init /\ [][Next]_vars /\ Fairness

(* What distinguishes two states: an entry no map and no goroutine refers *)
(* to is garbage, and an idle goroutine's last arguments are dead; both    *)
(* are overwritten before they are read again.                             *)
View ==
    <<now, tbl, [id \in EntryIds |-> IF id \in FreeIds THEN Garbage ELSE ent[id]],
      memUsed, owner, pc,
      [p \in Procs |-> IF pc[p] = "idle" THEN NoArg ELSE arg[p]], ptr>>

-----------------------------------------------------------------------------
(* Type invariant. *)
TypeOK ==
    /\ now \in 1..MaxTime
    /\ tbl \in [Keys -> {0} \cup EntryIds]
    /\ ent \in [EntryIds -> Entry]
    /\ memUsed \in [Shards -> Int]
    /\ owner \in [Shards -> Procs \cup {NoProc}]
    /\ pc \in [Procs -> {"idle", "store", "load", "load_delete", "cas", "incr", "sweep", "clear"}]
    /\ ptr \in [Procs -> {0} \cup EntryIds]
    /\ \A k \in Keys : tbl[k] # 0 => ent[tbl[k]].key = k

(* memUsed of every shard equals the summed Size() of the entries its map  *)
(* holds (spec 4.2): each Store over a present key, eviction round,        *)
(* Increment, Sweep, Clear and the Delete that Load issues must move it by *)
(* exactly the size of what it adds or removes.                            *)
MemAccounting == \A s \in Shards : memUsed[s] = LiveMem(s)

(* A cache built with maxMemory 0 ("Max Memory: unlimited" in the startup  *)
(* banner; spec 4.3 evicts only when shard.max_memory > 0) never evicts.   *)
NoEvictionWhenUnlimited ==
    [][ShardMax = 0 => \A p \in Procs : ~EvictIfNeeded(p)]_vars

(* The Delete that Load issues for an expired entry removes only an        *)
(* expired entry: an entry stored after Load read the key is not lost      *)
(* (spec 8: concurrent Store/Load/Delete never corrupt state).             *)
LoadExpiryRemovesOnlyExpired ==
    [][\A p \in Procs :
         (pc[p] = "load_delete" /\ pc'[p] = "idle") =>
             LET k == arg[p].key IN tbl[k] = 0 \/ IsExpired(tbl[k])
      ]_vars

(* Every operation a goroutine has entered returns: eviction rounds end,   *)
(* and every lock taken is released on every path.                         *)
OpsComplete == \A p \in Procs : pc[p] # "idle" ~> pc[p] = "idle"
=============================================================================
