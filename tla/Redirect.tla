------------------------------ MODULE Redirect ------------------------------
(***************************************************************************)
(* GET /{short_code}: redirect_url() in app/routers/url.py, with the       *)
(* cache-aside lookup of app/cache.py, the click counter of app/crud.py    *)
(* and the click event of app/publisher.py; and what GET /stats tells of   *)
(* the counter.  The POST requests that fill the table and the cache are   *)
(* module Shorten; UrlService puts the two together.                       *)
(*                                                                         *)
(* One action per round trip to Redis, MySQL or RabbitMQ.  What becomes of *)
(* the latency sample is module LatencyMetrics.                            *)
(***************************************************************************)
EXTENDS UrlCache, FiniteSets

CONSTANT Gets   \* the GET requests

VARIABLES
  get,          \* GET request -> the state of its handler
  clicks,       \* id -> click_count of its row
  events        \* the click events RabbitMQ has accepted

GetPcs == {"idle", "lookup", "select", "evict", "setex", "record", "count",
           "reload", "publish", "reply", "done", "crashed"}

GetState == [pc     : GetPcs,
             code   : OrNull(Codes),       \* short_code, the path
             x_cache: {"HIT", "MISS"},     \* MISS until the lookup answers
             url_id : OrNull(Ids),         \* cached["id"], url_obj.id
             url    : OrNull(LongUrls),    \* cached["url"], url_obj.long_url
             at     : Nat,                 \* when the request came in
             status : {0, 307, 404, 410, 500},
             end    : {"before", "at", "past"}]
             \* How far it had got with its click when it ended: before the
             \* UPDATE, at it, or past it.  History, which no guard reads.

Event == [click : Gets, short_code : Codes, long_url : LongUrls]

redirectVars == <<cache, get, clicks, events>>
mysqlVars    == <<urls, next_id, clicks>>

-----------------------------------------------------------------------------
Goto(g, to) == get' = [get EXCEPT ![g].pc = to]

Stage(pc) == CASE pc \in {"reload", "publish", "reply"} -> "past"
               [] pc = "count" -> "at"
               [] OTHER -> "before"

End(g, to, status) ==
  get' = [get EXCEPT ![g] = [@ EXCEPT !.pc = to, !.status = status,
                                      !.end = Stage(get[g].pc)]]

Answer(g, status) == End(g, "done", status)

\* Continue with what the cache or the table said of the code.
Found(g, to, x_cache, id, url) ==
  get' = [get EXCEPT ![g] = [@ EXCEPT !.pc = to, !.x_cache = x_cache,
                                      !.url_id = id, !.url = url]]

ReceiveGet(g) ==
  /\ get[g].pc = "idle"
  /\ \E code \in Codes :
       get' = [get EXCEPT ![g] = [@ EXCEPT !.pc = "lookup", !.code = code,
                                           !.at = now]]
  /\ UNCHANGED <<mysqlVars, cache, events>>

\* get_cached_url(): the live entry, or None on a miss or a RedisError.
\* Nothing on the hit path looks at expires_at.
LookupCache(g) ==
  LET code == get[g].code
  IN  /\ get[g].pc = "lookup"
      /\ \/ /\ Live(code)
            /\ Found(g, "record", "HIT", cache[code].id, cache[code].url)
         \/ Goto(g, "select")
      /\ UNCHANGED <<mysqlVars, cache, events>>

\* Mutant: no expiry check on the miss path.
SelectRow_NoExpiry(g) ==
  LET found == RowsByShortCode(get[g].code)
  IN  /\ get[g].pc = "select"
      /\ \/ found = {} /\ Answer(g, 404)
         \/ \E row \in found : Found(g, "setex", "MISS", row.id, row.long_url)
      /\ UNCHANGED <<mysqlVars, cache, events>>

\* Mutant: an unknown code is looked up again until it appears.
SelectRow_Waits(g) ==
  LET found == RowsByShortCode(get[g].code)
  IN  /\ get[g].pc = "select"
      /\ \/ found = {} /\ Goto(g, "lookup")
         \/ \E row \in found : Found(g, "setex", "MISS", row.id, row.long_url)
      /\ UNCHANGED <<mysqlVars, cache, events>>

\* get_url_by_short_code(), the 404, and the expiry check, which reads the
\* clock right after the SELECT.
SelectRow(g) ==
  LET found == RowsByShortCode(get[g].code)
  IN  /\ get[g].pc = "select"
      /\ \/ found = {} /\ Answer(g, 404)
         \/ \E row \in found :
              LET expired == row.expires_at # Null /\ row.expires_at < now
              IN  Found(g, IF expired THEN "evict" ELSE "setex", "MISS",
                        row.id, row.long_url)
      /\ UNCHANGED <<mysqlVars, cache, events>>

\* Mutant: the click is counted, and then there is the 410.
EvictExpired_Counts(g) ==
  /\ get[g].pc = "evict"
  /\ DeleteCachedUrl(get[g].code)
  /\ clicks' = [clicks EXCEPT ![get[g].url_id] = @ + 1]
  /\ Answer(g, 410)
  /\ UNCHANGED <<urls, next_id, events>>

\* delete_cached_url(), then 410.
EvictExpired(g) ==
  /\ get[g].pc = "evict"
  /\ DeleteCachedUrl(get[g].code)
  /\ Answer(g, 410)
  /\ UNCHANGED <<mysqlVars, events>>

\* Mutant: the cached payload has no id.
PopulateCache_NoId(g) ==
  /\ get[g].pc = "setex"
  /\ SetCachedUrl(get[g].code, Null, get[g].url)
  /\ Goto(g, "record")
  /\ UNCHANGED <<mysqlVars, events>>

\* Mutant: the cached id is decoded from the code of the request.
PopulateCache_Decodes(g) ==
  /\ get[g].pc = "setex"
  /\ \E id \in Ids : /\ Encode(id) = get[g].code
                     /\ SetCachedUrl(get[g].code, id, get[g].url)
  /\ Goto(g, "record")
  /\ UNCHANGED <<mysqlVars, events>>

\* Lazy loading: the entry goes under the code of the request, which need
\* not be the code of the row letter for letter.
PopulateCache(g) ==
  /\ get[g].pc = "setex"
  /\ SetCachedUrl(get[g].code, get[g].url_id, get[g].url)
  /\ Goto(g, "record")
  /\ UNCHANGED <<mysqlVars, events>>

\* record_latency(), whose RedisErrors end there.
RecordLatency(g) ==
  /\ get[g].pc = "record"
  /\ Goto(g, "count")
  /\ UNCHANGED <<mysqlVars, cache, events>>

\* Mutant: a hit is served without counting.
CountClick_SkipsHits(g) ==
  /\ get[g].pc = "count"
  /\ IF get[g].x_cache = "HIT" THEN UNCHANGED clicks
     ELSE clicks' = [clicks EXCEPT ![get[g].url_id] = @ + 1]
  /\ Goto(g, IF get[g].x_cache = "HIT" THEN "publish" ELSE "reload")
  /\ UNCHANGED <<urls, next_id, cache, events>>

\* Mutant: a failed UPDATE is logged and the redirect goes on.
CountClick_Swallows(g) ==
  /\ get[g].pc = "count"
  /\ \/ clicks' = [clicks EXCEPT ![get[g].url_id] = @ + 1]
     \/ UNCHANGED clicks
  /\ Goto(g, IF get[g].x_cache = "HIT" THEN "publish" ELSE "reload")
  /\ UNCHANGED <<urls, next_id, cache, events>>

\* increment_click_count(): one UPDATE and its COMMIT.  The commit expires
\* url_obj, so the miss path reads the row again for its long_url.
CountClick(g) ==
  /\ get[g].pc = "count"
  /\ clicks' = [clicks EXCEPT ![get[g].url_id] = @ + 1]
  /\ Goto(g, IF get[g].x_cache = "HIT" THEN "publish" ELSE "reload")
  /\ UNCHANGED <<urls, next_id, cache, events>>

ReloadRow(g) ==
  /\ get[g].pc = "reload"
  /\ \E row \in urls : /\ row.id = get[g].url_id
                       /\ Found(g, "publish", "MISS", row.id, row.long_url)
  /\ UNCHANGED <<mysqlVars, cache, events>>

\* publish_click_event(): queued, or its AMQPError swallowed.
Publish(g) ==
  /\ get[g].pc = "publish"
  /\ \/ events' = events \cup {[click |-> g, short_code |-> get[g].code,
                                long_url |-> get[g].url]}
     \/ UNCHANGED events
  /\ Goto(g, "reply")
  /\ UNCHANGED <<mysqlVars, cache>>

RedirectClient(g) ==
  /\ get[g].pc = "reply"
  /\ Answer(g, 307)
  /\ UNCHANGED <<mysqlVars, cache, events>>

-----------------------------------------------------------------------------
\* A round trip to MySQL fails: 500.  A commit whose answer is lost has
\* counted the click nevertheless.
GetDbError(g) ==
  /\ get[g].pc \in {"select", "count", "reload"}
  /\ \/ UNCHANGED clicks
     \/ /\ get[g].pc = "count"
        /\ clicks' = [clicks EXCEPT ![get[g].url_id] = @ + 1]
  /\ Answer(g, 500)
  /\ UNCHANGED <<urls, next_id, cache, events>>

\* publish_click_event() catches AMQPError only: what else connecting to the
\* broker raises (an unresolvable host name) leaves the handler.
PublishRaises(g) ==
  /\ get[g].pc = "publish"
  /\ Answer(g, 500)
  /\ UNCHANGED <<mysqlVars, cache, events>>

CrashGet(g) ==
  /\ get[g].pc \notin {"idle", "done", "crashed"}
  /\ End(g, "crashed", 0)
  /\ UNCHANGED <<mysqlVars, cache, events>>

-----------------------------------------------------------------------------
\* get_stats(): one SELECT, past the cache; no answer is its 404.
GetStats(code) ==
  {[short_code |-> row.short_code, long_url |-> row.long_url,
    click_count |-> clicks[row.id], expires_at |-> row.expires_at] :
     row \in RowsByShortCode(code)}

-----------------------------------------------------------------------------
RedirectInit ==
  /\ get = [g \in Gets |-> [pc |-> "idle", code |-> Null, x_cache |-> "MISS",
                            url_id |-> Null, url |-> Null, at |-> 0,
                            status |-> 0, end |-> "before"]]
  /\ clicks = [id \in Ids |-> 0]
  /\ events = {}

HandleGet(g) ==
  \/ LookupCache(g) \/ SelectRow(g) \/ EvictExpired(g) \/ PopulateCache(g)
  \/ RecordLatency(g) \/ CountClick(g) \/ ReloadRow(g)
  \/ Publish(g) \/ RedirectClient(g)

GetStep(g) ==
  ReceiveGet(g) \/ HandleGet(g) \/ GetDbError(g) \/ PublishRaises(g) \/ CrashGet(g)

RedirectTypeOK ==
  /\ get \in [Gets -> GetState]
  /\ clicks \in [Ids -> Nat]
  /\ events \subseteq Event
=============================================================================
