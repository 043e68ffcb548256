------------------------------ MODULE UrlCache ------------------------------
(***************************************************************************)
(* The URL entries of app/cache.py: "url:cache:{short_code}" -> {id, url}, *)
(* with a time to live.  Every helper may meet a RedisError, which it      *)
(* swallows: a read then answers None, a write is skipped.  Redis runs     *)
(* without persistence and with --maxmemory-policy allkeys-lru             *)
(* (docker-compose.yml), so it may lose any of its keys at any time.       *)
(*                                                                         *)
(* Keys are the strings of requests and rows, compared byte by byte: Redis *)
(* does not collate as MySQL does.                                         *)
(***************************************************************************)
EXTENDS UrlStore

CONSTANTS
  TTL,          \* settings.redis_ttl_seconds, in ticks of the clock
  MaxTime       \* bound: the last tick of the model

ASSUME CacheAssumption == TTL \in Nat \ {0} /\ MaxTime \in Nat

VARIABLES
  cache,        \* short code -> [id, url, deadline], Null for an absent key
  now           \* the clock of the hosts

Entry == [id : Ids, url : LongUrls, deadline : Nat]

\* The entry Redis would answer for a code: absent once its TTL has run out.
Live(code) == cache[code] # Null /\ now < cache[code].deadline

\* SETEX in set_cached_url(): value and deadline in one command.
SetEx(code, url_id, long_url) ==
  cache' = [cache EXCEPT ![code] =
              [id |-> url_id, url |-> long_url, deadline |-> now + TTL]]

\* set_cached_url(): the write, or its RedisError swallowed.
SetCachedUrl(code, url_id, long_url) ==
  SetEx(code, url_id, long_url) \/ UNCHANGED cache

\* delete_cached_url(): the same.
DeleteCachedUrl(code) ==
  cache' = [cache EXCEPT ![code] = Null] \/ UNCHANGED cache

\* Redis drops a key: eviction under memory pressure, or one of the keys a
\* restart loses.
LoseKey(code) == cache[code] # Null /\ cache' = [cache EXCEPT ![code] = Null]

Tick == now < MaxTime /\ now' = now + 1

CacheInit == cache = [code \in Codes |-> Null] /\ now = 0
=============================================================================
