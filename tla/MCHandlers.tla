------------------------------ MODULE MCHandlers ----------------------------
(***************************************************************************)
(* Model-checking instance of Handlers: two clients on one cache.         *)
(***************************************************************************)
EXTENDS Handlers, TLC

CONSTANTS c1, c2, k1, k2

\* c1 speaks memcache and HTTP, c2 Redis and Postgres.
MixedProto == c1 :> {"memcache", "http"} @@ c2 :> {"redis", "postgres"}

\* Both clients speak memcache only.
MemcacheOnly == c1 :> {"memcache"} @@ c2 :> {"memcache"}

\* One shard holding both keys.
OneShard == k1 :> 1 @@ k2 :> 1

\* A single key.
OneKey == k1 :> 1

\* One key, on the first of two shards: a walk reads it at its first step
\* and writes its answer a step later, so other clients' writes, deletes and
\* expiry fall between the read and the answer.
KeyOnFirst == k1 :> 1

\* Each key on a shard of its own.
SplitShards == k1 :> 1 @@ k2 :> 2
=============================================================================
