------------------------------ MODULE Handlers ------------------------------
(***************************************************************************)
(* The command handlers of the four protocols (src/internal/protocol/      *)
(* memcache.go, redis.go; the HTTP and Postgres handlers of part_004 and   *)
(* part_005): one goroutine per connection, each command a sequence of     *)
(* cache calls with nothing held between them.  A client has one command   *)
(* outstanding at a time, on a connection of any protocol in Proto[c]: no  *)
(* handler keeps cache state across commands, and a cas unique read on one *)
(* connection may be sent on another.                                      *)
(*                                                                         *)
(* Each cache call is one atomic step here: the steps inside a call, and   *)
(* the race between Load's unlock and its Delete, are module Cache's       *)
(* subject.  What this module keeps is what the handlers do between calls: *)
(* the entry pointer Load returned, used after the lock is gone, and a     *)
(* decision taken on one call's result and acted on by the next.           *)
(*                                                                         *)
(* Entries are pointers as in Cache: tbl[k] is the entry id k maps to,     *)
(* ent[id] its fields, and an id no map and no goroutine refers to is      *)
(* reused.  Values are abstracted to what Increment can tell apart: a      *)
(* client string (Text, never 8 bytes long) or an 8-byte integer.  Memory  *)
(* use is left out: with Unlimited (maxMemory 0, the default) every        *)
(* evictIfNeeded empties the shard, because memUsed + required > 0 while   *)
(* any entry is left; otherwise the limit is taken to be out of reach and  *)
(* nothing is evicted.                                                     *)
(***************************************************************************)
EXTENDS Integers, FiniteSets, FiniteSetsExt, Functions

CONSTANTS
    Clients,     \* connection goroutines
    Proto,       \* Proto[c]: the protocols client c's connections speak
    Keys,        \* keys
    NumShards,   \* numShards of New
    ShardOf,     \* ShardOf[k] = hashKey(k) % numShards
    Unlimited,   \* TRUE: maxMemory 0; FALSE: a limit never reached
    TTLs,        \* exptime / EX seconds, in clock ticks; 0 means none
    Deltas,      \* positive incr/decr, INCRBY/DECRBY amounts
    IntWidth,    \* bits of the int64 counter (scaled down; arithmetic wraps)
    MaxCas,      \* bound: no entry's cas is bumped beyond this
    MaxTime,     \* bound: the clock stops here
    NoKey,       \* no key
    Text         \* any client string; none is 8 bytes long

ASSUME Proto \in [Clients -> SUBSET {"memcache", "redis", "http", "postgres"}]
ASSUME ShardOf \in [Keys -> 1..NumShards]
ASSUME Unlimited \in BOOLEAN
ASSUME NoKey \notin Keys
ASSUME Deltas \subseteq 1..2^(IntWidth - 1) - 1

Counters == -(2^(IntWidth - 1)) .. 2^(IntWidth - 1) - 1

\* Mutation: the counter read back as unsigned.
WrapUnsigned(x) == x % 2^IntWidth
Wrap(x) == ((x + 2^(IntWidth - 1)) % 2^IntWidth) - 2^(IntWidth - 1)

\* bytesToInt64: a client string is not 8 bytes long and decodes to 0.
BytesToInt64(v) == IF v = Text THEN 0 ELSE v

EntryIds == 1..(Cardinality(Keys) + Cardinality(Clients))

VARIABLES
    now,         \* time.Now() in ticks
    tbl,         \* tbl[k]: the entry id k's shard maps it to, 0 if none
    ent,         \* ent[id]: [key, val, exp, cas] of entry id
    pc,          \* pc[c]: where connection c's handler is
    loc,         \* loc[c]: the command's key, ttl, mode and entry pointer
    fetched,     \* fetched[c]: the key of c's last gets, NoKey if none
    tok,         \* tok[c]: the cas unique that gets returned to client c
    stale,       \* ghost: fetched[c] was written or removed since the gets
    reply,       \* reply[c]: what c's handler last wrote
    walk,        \* walk[c]: the shard c's Iterate is at, and the keys found
    held,        \* ghost: keys live in every state since c's Iterate began
    ever         \* ghost: keys live in some state since c's Iterate began

vars == <<now, tbl, ent, pc, loc, fetched, tok, stale, reply, walk, held, ever>>

Entry == [key : Keys, val : {Text} \cup Counters, exp : Nat, cas : Nat]
Garbage == [key |-> CHOOSE k \in Keys : TRUE, val |-> 0, exp |-> 0, cas |-> 0]
\* A command's key, TTL and mode, and the entry pointer and cas it read.
NoLoc == [key |-> NoKey, ttl |-> 0, mode |-> "", ptr |-> 0, cas |-> 0]
NoWalk == [shard |-> 0, found |-> {}]

IsExpired(id) == ent[id].exp > 0 /\ ent[id].exp < now
ExpireAt(ttl) == IF ttl > 0 THEN now + ttl ELSE 0
FreeIds == EntryIds \ (Range(tbl) \cup {loc[c].ptr : c \in Clients})
NewId == Min(FreeIds)
\* Room for every goroutine to bump k's cas once more (bounds the model).
CasRoom(k) == IF tbl[k] = 0 THEN TRUE ELSE ent[tbl[k]].cas + Cardinality(Clients) <= MaxCas

\* Client c's gets of a key in K is now stale.
Marked(K) == [c \in Clients |-> stale[c] \/ fetched[c] \in K]

-----------------------------------------------------------------------------
(* The cache calls, each one atomic step (operations.go).  Each defines    *)
(* tbl' and ent'; the keys it writes or removes are named beside it.       *)

\* Load: a live entry is a hit; an expired one is deleted and a miss.
LoadHit(k) == tbl[k] # 0 /\ ~IsExpired(tbl[k])
LoadW(k) == IF tbl[k] # 0 /\ IsExpired(tbl[k]) THEN {k} ELSE {}
LoadOp(k) == tbl' = [j \in Keys |-> IF j \in LoadW(k) THEN 0 ELSE tbl[j]]

\* The keys a Load would hit.
Live == {k \in Keys : LoadHit(k)}

\* Mutation: the callback is also given expired entries.
IterShardKeepsExpired(s) == {k \in Keys : ShardOf[k] = s /\ tbl[k] # 0}

\* Iterate's loop over one shard under its read lock: every entry the map
\* holds except the expired ones, which are skipped and left in place.
IterShard(s) == {k \in Keys : ShardOf[k] = s /\ tbl[k] # 0 /\ ~IsExpired(tbl[k])}

\* The keys evictIfNeeded removes before a write to k's shard.
Evicted(k) ==
    IF Unlimited THEN {j \in Keys : ShardOf[j] = ShardOf[k] /\ tbl[j] # 0} ELSE {}
AfterEvict(k) == [j \in Keys |-> IF j \in Evicted(k) THEN 0 ELSE tbl[j]]
StoreW(k) == Evicted(k) \cup {k}

\* Store: evict, then insert rewrites a present entry in place (cas+1) or
\* links a new one with cas opts.CAS = 0.
StoreOp(k, v, exp) ==
    LET t == AfterEvict(k) IN
    IF t[k] # 0
    THEN /\ ent' = [ent EXCEPT ![t[k]] = [@ EXCEPT !.val = v, !.exp = exp, !.cas = @ + 1]]
         /\ tbl' = t
    ELSE /\ ent' = [ent EXCEPT ![NewId] = [key |-> k, val |-> v, exp |-> exp, cas |-> 0]]
         /\ tbl' = [t EXCEPT ![k] = NewId]

\* Delete: unlinks whatever k maps to.
DeleteOp(k) == tbl' = [tbl EXCEPT ![k] = 0]
DeleteW(k) == IF tbl[k] # 0 THEN {k} ELSE {}

\* CompareAndSwap's test: present, and cas equal to the one given.
CasMatches(k, t) == tbl[k] # 0 /\ ent[tbl[k]].cas = t

\* CompareAndSwap on a match: evict, then overwrite the existing entry,
\* which eviction may have unlinked already.
CasOp(k, exp) ==
    /\ ent' = [ent EXCEPT ![tbl[k]] = [@ EXCEPT !.val = Text, !.exp = exp, !.cas = @ + 1]]
    /\ tbl' = AfterEvict(k)

\* Increment: a present entry's value decoded, delta added, cas bumped,
\* with no expiry test and no eviction; an absent key evicts and links delta.
IncrResult(k, d) == IF tbl[k] # 0 THEN Wrap(BytesToInt64(ent[tbl[k]].val) + d) ELSE d
IncrW(k) == IF tbl[k] # 0 THEN {k} ELSE StoreW(k)
IncrOp(k, d) ==
    IF tbl[k] # 0
    THEN /\ ent' = [ent EXCEPT ![tbl[k]] = [@ EXCEPT !.val = IncrResult(k, d), !.cas = @ + 1]]
         /\ UNCHANGED tbl
    ELSE /\ ent' = [ent EXCEPT ![NewId] = [key |-> k, val |-> d, exp |-> 0, cas |-> 0]]
         /\ tbl' = [AfterEvict(k) EXCEPT ![k] = NewId]

Init ==
    /\ now = 1
    /\ tbl = [k \in Keys |-> 0]
    /\ ent = [id \in EntryIds |-> Garbage]
    /\ pc = [c \in Clients |-> "idle"]
    /\ loc = [c \in Clients |-> NoLoc]
    /\ fetched = [c \in Clients |-> NoKey]
    /\ tok = [c \in Clients |-> 0]
    /\ stale = [c \in Clients |-> FALSE]
    /\ reply = [c \in Clients |-> "none"]
    /\ walk = [c \in Clients |-> NoWalk]
    /\ held = [c \in Clients |-> {}]
    /\ ever = [c \in Clients |-> {}]

\* The handler writes reply r and waits for the next command.
Finish(c, r) ==
    /\ pc' = [pc EXCEPT ![c] = "idle"]
    /\ loc' = [loc EXCEPT ![c] = NoLoc]
    /\ reply' = [reply EXCEPT ![c] = r]

\* Client c's handler of protocol p waits for a command.
Idle(c, p) == pc[c] = "idle" /\ p \in Proto[c]

\* A first step that Loads k: a hit goes on to step pcNext holding the
\* entry pointer, a miss writes r.
LoadThen(c, k, ttl, mode, pcNext, r) ==
    /\ LoadOp(k)
    /\ IF LoadHit(k)
       THEN /\ pc' = [pc EXCEPT ![c] = pcNext]
            /\ loc' = [loc EXCEPT ![c] = [key |-> k, ttl |-> ttl, mode |-> mode,
                                          ptr |-> tbl[k], cas |-> ent[tbl[k]].cas]]
            /\ UNCHANGED reply
       ELSE Finish(c, r)

-----------------------------------------------------------------------------
(* The command shapes the four handlers share, each by the cache calls it *)
(* makes.  p is the protocol; the other arguments are its replies.         *)

\* A Load whose hit is copied out of the entry: one step.
Read(c, k, p, hit, miss) ==
    /\ Idle(c, p)
    /\ LoadOp(k)
    /\ stale' = Marked(LoadW(k))
    /\ reply' = [reply EXCEPT ![c] = IF LoadHit(k) THEN hit ELSE miss]
    /\ UNCHANGED <<now, ent, pc, loc, fetched, tok>>

\* A Store with no test first.
Put(c, k, ttl, p, r) ==
    /\ Idle(c, p)
    /\ CasRoom(k)
    /\ StoreOp(k, Text, ExpireAt(ttl))
    /\ stale' = Marked(StoreW(k))
    /\ reply' = [reply EXCEPT ![c] = r]
    /\ UNCHANGED <<now, pc, loc, fetched, tok>>

\* A Delete, answered by whether it unlinked something.
Del(c, k, p, yes, no) ==
    /\ Idle(c, p)
    /\ DeleteOp(k)
    /\ stale' = Marked(DeleteW(k))
    /\ reply' = [reply EXCEPT ![c] = IF tbl[k] # 0 THEN yes ELSE no]
    /\ UNCHANGED <<now, ent, pc, loc, fetched, tok>>

\* A Load that decides whether a Store follows: "add"/"NX" need a miss,
\* "replace"/"XX"/"update" a hit, "set" neither; a failed test writes no.
CondLoad(c, k, ttl, mode, p, pcNext, no) ==
    /\ Idle(c, p)
    /\ CasRoom(k)
    /\ LoadOp(k)
    /\ stale' = Marked(LoadW(k))
    /\ IF \/ mode \in {"add", "NX"} /\ LoadHit(k)
          \/ mode \in {"replace", "XX", "update"} /\ ~LoadHit(k)
       THEN Finish(c, no)
       ELSE /\ pc' = [pc EXCEPT ![c] = pcNext]
            /\ loc' = [loc EXCEPT ![c] = [NoLoc EXCEPT !.key = k, !.ttl = ttl, !.mode = mode]]
            /\ UNCHANGED reply
    /\ UNCHANGED <<now, ent, fetched, tok>>

\* The Store a command at pcAt goes on to, with expiry exp, and reply r.
StoreFrom(c, pcAt, exp, r) ==
    /\ pc[c] = pcAt
    /\ StoreOp(loc[c].key, Text, exp)
    /\ stale' = Marked(StoreW(loc[c].key))
    /\ Finish(c, r)
    /\ UNCHANGED <<now, fetched, tok>>

\* A Load whose hit's cas is read back to the client: the client's later
\* cas refers to this read of k.
GetsLoad(c, k, p, pcNext, miss) ==
    /\ Idle(c, p)
    /\ LoadThen(c, k, 0, "", pcNext, miss)
    /\ fetched' = [fetched EXCEPT ![c] = IF LoadHit(k) THEN k ELSE @]
    /\ stale' = [Marked(LoadW(k)) EXCEPT ![c] = IF LoadHit(k) THEN FALSE ELSE @]
    /\ UNCHANGED <<now, ent, tok>>

\* entry.CAS(), read from the pointer after the unlock.
TokenFrom(c, pcAt, r) ==
    /\ pc[c] = pcAt
    /\ tok' = [tok EXCEPT ![c] = ent[loc[c].ptr].cas]
    /\ Finish(c, r)
    /\ UNCHANGED <<now, tbl, ent, fetched, stale>>

\* CompareAndSwap of the client's last fetched key with the cas it read;
\* absent and mismatch both come back (false, nil).
CasCmd(c, ttl, p, yes, no) ==
    LET k == fetched[c] IN
    /\ Idle(c, p)
    /\ k # NoKey
    /\ CasRoom(k)
    /\ IF CasMatches(k, tok[c])
       THEN /\ CasOp(k, ExpireAt(ttl))
            /\ reply' = [reply EXCEPT ![c] = yes]
       ELSE /\ UNCHANGED <<tbl, ent>>
            /\ reply' = [reply EXCEPT ![c] = no]
    /\ stale' = [Marked(IF CasMatches(k, tok[c]) THEN StoreW(k) ELSE {}) EXCEPT ![c] = FALSE]
    /\ fetched' = [fetched EXCEPT ![c] = NoKey]
    /\ UNCHANGED <<now, pc, loc, tok>>

\* An Increment by delta; the caller writes the result.
IncrCmd(c, k, delta, p) ==
    /\ Idle(c, p)
    /\ CasRoom(k)
    /\ IncrOp(k, delta)
    /\ stale' = Marked(IncrW(k))
    /\ UNCHANGED <<now, fetched, tok>>

\* SetExpireAt(exp) on the held entry.
ExpireFrom(c, pcAt, exp, r) ==
    /\ pc[c] = pcAt
    /\ ent' = [ent EXCEPT ![loc[c].ptr].exp = exp]
    /\ Finish(c, r)
    /\ UNCHANGED <<now, tbl, fetched, tok, stale>>

\* Iterate: the callback collects every key it is given (KEYS with the
\* pattern "*", and the keyless SELECT of a table holding every key); the
\* walk takes each shard's read lock in turn, from shard 1.
IterBegin(c, p) ==
    /\ Idle(c, p)
    /\ pc' = [pc EXCEPT ![c] = "iterate"]
    /\ walk' = [walk EXCEPT ![c] = [shard |-> 1, found |-> {}]]
    /\ UNCHANGED <<now, tbl, ent, loc, fetched, tok, stale, reply>>

\* One shard's loop; after the last shard the collected keys are written.
IterStep(c) ==
    LET s == walk[c].shard
        f == walk[c].found \cup IterShard(s)
    IN
    /\ pc[c] = "iterate"
    /\ IF s = NumShards
       THEN /\ Finish(c, f)
            /\ walk' = [walk EXCEPT ![c] = NoWalk]
       ELSE /\ walk' = [walk EXCEPT ![c] = [shard |-> s + 1, found |-> f]]
            /\ UNCHANGED <<pc, loc, reply>>
    /\ UNCHANGED <<now, tbl, ent, fetched, tok, stale>>

-----------------------------------------------------------------------------
(* memcache.go *)

\* get: one Load per key; a hit's value is written from the entry.
McGet(c, k) == Read(c, k, "memcache", "VALUE", "END")

\* gets: the Load, then the VALUE line with the entry's cas.
McGetsLoad(c, k) == GetsLoad(c, k, "memcache", "gets", "END")
McGetsValue(c) == TokenFrom(c, "gets", "VALUE")

\* set/add/replace: Load the key; add of a present or replace of an absent
\* key writes NOT_STORED, anything else goes on to Store.
McStoreLoad(c, k, ttl, mode) == CondLoad(c, k, ttl, mode, "memcache", "mc_store", "NOT_STORED")
McStore(c) == StoreFrom(c, "mc_store", ExpireAt(loc[c].ttl), "STORED")

\* cas with the unique of the client's last gets: EXISTS on absent or
\* mismatch.
McCas(c, ttl) == CasCmd(c, ttl, "memcache", "STORED", "EXISTS")

\* append/prepend: Load, a miss writes NOT_STORED; then the held value and
\* the data concatenated are Stored with the entry's flags and no TTL.
McAppendLoad(c, k) ==
    /\ Idle(c, "memcache")
    /\ CasRoom(k)
    /\ LoadThen(c, k, 0, "", "mc_append", "NOT_STORED")
    /\ stale' = Marked(LoadW(k))
    /\ UNCHANGED <<now, ent, fetched, tok>>
McAppendStore(c) == StoreFrom(c, "mc_append", 0, "STORED")

McDelete(c, k) == Del(c, k, "memcache", "DELETED", "NOT_FOUND")

\* incr/decr: Increment by +-delta (it never fails, so NOT_FOUND is never
\* written); a negative result goes on to Store "0".
McIncr(c, k, d, up) ==
    LET delta == IF up THEN d ELSE -d
        nv    == IncrResult(k, delta)
    IN
    /\ IncrCmd(c, k, delta, "memcache")
    /\ IF nv < 0
       THEN /\ pc' = [pc EXCEPT ![c] = "mc_zero"]
            /\ loc' = [loc EXCEPT ![c] = [NoLoc EXCEPT !.key = k, !.ptr = tbl'[k],
                                                        !.cas = ent'[tbl'[k]].cas]]
            /\ UNCHANGED reply
       ELSE Finish(c, nv)

\* Store(key, "0", nil): the text "0", no TTL.
McZero(c) == StoreFrom(c, "mc_zero", 0, 0)

\* touch: Load, a miss writes NOT_FOUND; then SetExpireAt on the held
\* entry: now + exptime, or 0.
McTouchLoad(c, k, ttl) ==
    /\ Idle(c, "memcache")
    /\ LoadThen(c, k, ttl, "", "mc_touch", "NOT_FOUND")
    /\ stale' = Marked(LoadW(k))
    /\ UNCHANGED <<now, ent, fetched, tok>>
McTouchSet(c) == ExpireFrom(c, "mc_touch", ExpireAt(loc[c].ttl), "TOUCHED")

\* flush_all and FLUSHALL: Clear empties every shard.
FlushAll(c) ==
    /\ \E p \in {"memcache", "redis"} : Idle(c, p)
    /\ tbl' = [k \in Keys |-> 0]
    /\ stale' = Marked(Keys)
    /\ reply' = [reply EXCEPT ![c] = "OK"]
    /\ UNCHANGED <<now, ent, pc, loc, fetched, tok>>

-----------------------------------------------------------------------------
(* redis.go, after the AUTH gate *)

RGet(c, k) == Read(c, k, "redis", "BULK", "NIL")

\* SET without NX/XX: Store at once.
RSet(c, k, ttl) == Put(c, k, ttl, "redis", "OK")

\* SET ... NX / XX: Load while scanning the options; NX of a present or XX
\* of an absent key writes nil, anything else goes on to Store.
RSetLoad(c, k, ttl, cond) == CondLoad(c, k, ttl, cond, "redis", "r_set", "NIL")
RSetStore(c) == StoreFrom(c, "r_set", ExpireAt(loc[c].ttl), "OK")

RDel(c, k) == Del(c, k, "redis", 1, 0)

\* INCR, DECR, INCRBY, DECRBY: Increment by +-delta.
RIncr(c, k, d, up) ==
    LET delta == IF up THEN d ELSE -d IN
    /\ IncrCmd(c, k, delta, "redis")
    /\ reply' = [reply EXCEPT ![c] = IncrResult(k, delta)]
    /\ UNCHANGED <<pc, loc>>

\* EXPIRE: Load, a miss writes 0; then SetExpireAt(now + seconds), and 1.
RExpireLoad(c, k, secs) ==
    /\ Idle(c, "redis")
    /\ LoadThen(c, k, secs, "", "r_expire", 0)
    /\ stale' = Marked(LoadW(k))
    /\ UNCHANGED <<now, ent, fetched, tok>>
RExpireSet(c) == ExpireFrom(c, "r_expire", now + loc[c].ttl, 1)

\* EXISTS and MGET of one key: a Load each.
RExists(c, k) == Read(c, k, "redis", 1, 0)
RMGet(c, k) == Read(c, k, "redis", "BULK", "NIL")

\* MSET k v j w: a Store of k, then a Store of j, with no TTL.
RMSet(c, k, j) ==
    /\ Idle(c, "redis")
    /\ CasRoom(k) /\ CasRoom(j)
    /\ StoreOp(k, Text, 0)
    /\ stale' = Marked(StoreW(k))
    /\ pc' = [pc EXCEPT ![c] = "r_mset"]
    /\ loc' = [loc EXCEPT ![c] = [NoLoc EXCEPT !.key = j]]
    /\ UNCHANGED <<now, fetched, tok, reply>>
RMSetNext(c) == StoreFrom(c, "r_mset", 0, "OK")

\* TTL: Load, -2 on a miss; -1 without expiry, else the seconds left,
\* floored at 0.  ExpireAt is read from the pointer after the unlock.
RTTL(c, k) ==
    /\ Idle(c, "redis")
    /\ LoadOp(k)
    /\ stale' = Marked(LoadW(k))
    /\ reply' = [reply EXCEPT ![c] =
                    IF ~LoadHit(k) THEN -2
                    ELSE IF ent[tbl[k]].exp = 0 THEN -1
                    ELSE Max({ent[tbl[k]].exp - now, 0})]
    /\ UNCHANGED <<now, ent, pc, loc, fetched, tok>>

\* KEYS *: Iterate.
RKeys(c) == IterBegin(c, "redis")

-----------------------------------------------------------------------------
(* The HTTP handler (part_004), after the bearer check; the key is the    *)
(* path.                                                                   *)

\* GET: Load, then the value with X-CAS: entry.CAS() read after the unlock.
HGetLoad(c, k) == GetsLoad(c, k, "http", "h_get", 404)
HGetValue(c) == TokenFrom(c, "h_get", 200)

\* HEAD: Load, headers only.
HHead(c, k) == Read(c, k, "http", 200, 404)

\* PUT/POST without X-CAS: Store with the X-TTL seconds.
HSet(c, k, ttl) == Put(c, k, ttl, "http", 201)

\* PUT/POST with X-CAS (the value the client's GET returned):
\* CompareAndSwap, 409 on absent or mismatch.
HCas(c, ttl) == CasCmd(c, ttl, "http", 200, 409)

HDelete(c, k) == Del(c, k, "http", 200, 404)

\* GET /keys: Iterate with the pattern "*".
HKeys(c) == IterBegin(c, "http")

-----------------------------------------------------------------------------
(* The Postgres handler (part_005): simple queries on table:key.           *)

\* SELECT ... WHERE key = ...: Load.
PgSelect(c, k) == Read(c, k, "postgres", "SELECT 1", "SELECT 0")

\* INSERT: Store with nil options, present or not.
PgInsert(c, k) == Put(c, k, 0, "postgres", "INSERT 0 1")

\* UPDATE: Load; a miss writes UPDATE 0, a hit goes on to Store the new
\* value with the entry's flags and no TTL.
PgUpdateLoad(c, k) == CondLoad(c, k, 0, "update", "postgres", "pg_update", "UPDATE 0")
PgUpdateStore(c) == StoreFrom(c, "pg_update", 0, "UPDATE 1")

PgDelete(c, k) == Del(c, k, "postgres", "DELETE 1", "DELETE 0")

\* SELECT * FROM t: Iterate, a DataRow for each key with the prefix t:.
PgSelectAll(c) == IterBegin(c, "postgres")

-----------------------------------------------------------------------------
Tick ==
    /\ now < MaxTime
    /\ now' = now + 1
    /\ UNCHANGED <<tbl, ent, pc, loc, fetched, tok, stale, reply>>

(* A command a client may send when its handler waits for one. *)
Call(c) ==
    \/ \E k \in Keys :
          \/ McGet(c, k) \/ McGetsLoad(c, k) \/ McAppendLoad(c, k) \/ McDelete(c, k)
          \/ RGet(c, k) \/ RDel(c, k) \/ RExists(c, k) \/ RMGet(c, k) \/ RTTL(c, k)
          \/ \E j \in Keys : RMSet(c, k, j)
          \/ HGetLoad(c, k) \/ HHead(c, k) \/ HDelete(c, k)
          \/ PgSelect(c, k) \/ PgInsert(c, k) \/ PgUpdateLoad(c, k) \/ PgDelete(c, k)
          \/ \E ttl \in TTLs :
                \/ \E mode \in {"set", "add", "replace"} : McStoreLoad(c, k, ttl, mode)
                \/ McTouchLoad(c, k, ttl) \/ RExpireLoad(c, k, ttl) \/ RSet(c, k, ttl)
                \/ \E cond \in {"NX", "XX"} : RSetLoad(c, k, ttl, cond)
                \/ HSet(c, k, ttl)
          \/ \E d \in Deltas, up \in BOOLEAN : McIncr(c, k, d, up) \/ RIncr(c, k, d, up)
    \/ \E ttl \in TTLs : McCas(c, ttl) \/ HCas(c, ttl)
    \/ FlushAll(c)

(* The handler's next step inside a command. *)
Continue(c) ==
    \/ McGetsValue(c) \/ McStore(c) \/ McAppendStore(c) \/ McZero(c) \/ McTouchSet(c)
    \/ RSetStore(c) \/ RExpireSet(c) \/ RMSetNext(c) \/ HGetValue(c) \/ PgUpdateStore(c)

(* A walk over the shards: KEYS, GET /keys and a keyless SELECT. *)
Scan(c) == RKeys(c) \/ HKeys(c) \/ PgSelectAll(c) \/ IterStep(c)

(* The ghosts follow every step: held keeps the keys live in every state  *)
(* since c's walk began, ever those live in some state, the state before  *)
(* its first step included.                                                *)
Track ==
    LET walking(c) == pc'[c] = "iterate"
        began(c)   == pc[c] # "iterate"
    IN
    /\ held' = [c \in Clients |-> IF ~walking(c) THEN {}
                                  ELSE (IF began(c) THEN Live ELSE held[c]) \cap Live']
    /\ ever' = [c \in Clients |-> IF ~walking(c) THEN {}
                                  ELSE (IF began(c) THEN Live ELSE ever[c]) \cup Live']

Next ==
    /\ \/ /\ Tick \/ \E c \in Clients : Call(c) \/ Continue(c)
          /\ UNCHANGED walk
       \/ \E c \in Clients : Scan(c)
    /\ Track

Spec == Init /\ [][Next]_vars

(* Garbage entries, the token and the stale bit of a client with no gets  *)
(* outstanding are dead, and the reply is output only: none of them tells *)
(* two states apart.                                                       *)
View ==
    <<now, tbl, [id \in EntryIds |-> IF id \in FreeIds THEN Garbage ELSE ent[id]],
      pc, loc, fetched, [c \in Clients |-> IF fetched[c] = NoKey THEN 0 ELSE tok[c]],
      [c \in Clients |-> fetched[c] # NoKey /\ stale[c]],
      walk, held, ever>>

-----------------------------------------------------------------------------
(* Type invariant. *)
TypeOK ==
    /\ now \in 1..MaxTime
    /\ tbl \in [Keys -> {0} \cup EntryIds]
    /\ ent \in [EntryIds -> Entry]
    /\ pc \in [Clients -> {"idle", "gets", "mc_store", "mc_append", "mc_zero",
                           "mc_touch", "r_set", "r_expire", "r_mset", "h_get", "pg_update",
                           "iterate"}]
    /\ fetched \in [Clients -> Keys \cup {NoKey}]
    /\ tok \in [Clients -> Nat]
    /\ stale \in [Clients -> BOOLEAN]
    /\ walk \in [Clients -> [shard : 0..NumShards, found : SUBSET Keys]]
    /\ \A k \in Keys : tbl[k] # 0 => ent[tbl[k]].key = k

(* Every command that reads and then writes acts as if it were atomic:    *)
(* its write acts on what its read saw.  memcache add and SET NX store     *)
(* only while the key is absent (or expired); replace, SET XX and Postgres *)
(* UPDATE only while it is present.  append/prepend, and decr's Store of  *)
(* "0", write a value computed from the entry they read, so that entry     *)
(* must still be the key's, unwritten.  touch and EXPIRE must set the      *)
(* expiry of the key's entry, not of one it no longer maps to.  A memcache *)
(* cas, or an HTTP PUT with X-CAS, with the unique of an earlier gets or   *)
(* GET succeeds only if the item was not written or removed since that    *)
(* read (the cas unique is a version: spec 3, "cas strictly increases").   *)
(* The handlers read with one cache call and write with another, so a     *)
(* write by another client in between breaks each of these; a new entry    *)
(* starts again at cas 0, so a key deleted, or evicted, and stored again   *)
(* matches an old unique.                                                  *)
ReadThenWriteAtomic ==
    [][\A c \in Clients :
         LET k    == loc[c].key
             done == pc'[c] = "idle"
         IN
         /\ (pc[c] \in {"mc_store", "r_set", "pg_update"} /\ done) =>
               /\ loc[c].mode \in {"add", "NX"} => ~LoadHit(k)
               /\ loc[c].mode \in {"replace", "XX", "update"} => LoadHit(k)
         /\ (pc[c] \in {"mc_append", "mc_zero"} /\ done) =>
               tbl[k] = loc[c].ptr /\ ent[loc[c].ptr].cas = loc[c].cas
         /\ (pc[c] \in {"mc_touch", "r_expire"} /\ done) => tbl[k] = loc[c].ptr
         /\ (fetched[c] # NoKey /\ fetched'[c] = NoKey /\ CasMatches(fetched[c], tok[c]))
               => ~stale[c]
      ]_vars

(* KEYS, GET /keys and a keyless SELECT hold one shard's read lock at a   *)
(* time, so their answer is no snapshot; what the walk does promise is     *)
(* that it answers every key live throughout the command, and only keys   *)
(* that were live at some moment during it.  A walk that hands expired    *)
(* entries to the callback, skips a shard, or keeps what it found in an   *)
(* earlier command breaks it; a key stored or deleted in a shard already *)
(* passed, or expiring, does not.                                          *)
IterateSeesStable ==
    [][\A c \in Clients :
         (pc[c] = "iterate" /\ pc'[c] = "idle") =>
            /\ held[c] \cap Live' \subseteq reply'[c]
            /\ reply'[c] \subseteq ever[c] \cup Live'
      ]_vars
=============================================================================
