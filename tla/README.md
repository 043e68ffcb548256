# Verification of the distributed URL shortener

TLA+ specifications of the URL shortener in `src/`: the API service
(`app/`, FastAPI with four uvicorn processes of threads) and the analytics
worker (`worker/`), over MySQL, Redis, RabbitMQ and MongoDB. The modules model
the code of this repository; the four servers are modelled from how that code
uses them. TLC checks small instances; TLAPS proves every safety property that the
passing runs check, and both refinements, for every value of the constants.

    tlc -workers 2 -config MCShorten.cfg MCShorten     # check an instance
    tlapm ShortenProofs.tla                            # check the proofs

## 1. The system

| Component | State | Operations | Talks to |
|---|---|---|---|
| Base62 encoder (`app/encoder.py`) | none | `encode`, `decode` | called by `crud.py` |
| `urls` table (`app/models.py`, `app/crud.py`) | rows, AUTO_INCREMENT, unique indexes on `short_code` and `url_hash`, `click_count` | lookups by code and by hash, insert-flush-update-commit, increment | MySQL |
| Sessions (`app/database.py`) | a pool per process, a session per request | open; roll back and close when the request ends | MySQL |
| URL cache (`app/cache.py`) | `url:cache:{code}` with a TTL | get, set, delete, all swallowing `RedisError` | Redis (no persistence, allkeys-lru) |
| `POST /shorten` (`routers/url.py`, `crud.py`) | the handler's ORM object | idempotency check, insert, encode, commit, cache, 201 | limiter, MySQL, Redis |
| `GET /{short_code}` (`routers/url.py`) | the handler's locals | lookup, miss path, 404, 410, cache, latency, count, event, 307 | Redis, MySQL, publisher |
| Rate limiter (`limiter.py`, `dependencies.py`) | one sorted set of timestamps per address, with an EXPIRE | Lua script, fail-open, 429 | Redis |
| Publisher (`publisher.py`) | one connection per thread | publish, reset on `AMQPError` | RabbitMQ |
| Worker (`worker/consumer.py`) | the message in hand | deliver, insert, ACK, two NACKs, SIGTERM | RabbitMQ, MongoDB |
| Latency metrics (`cache.py`, `routers/metrics.py`) | two capped lists | LPUSH+LTRIM, two LRANGEs, percentiles, hit rate | Redis |
| `GET /stats/{short_code}` (`routers/url.py`) | none | one SELECT by code | MySQL |
| Startup (`main.py`, `models.py`) | the schema: table and unique indexes | `create_all()` in each process | MySQL |
| Schemas, configuration, containers, dashboard, load test | - | - | - |

What is hard here. Every request runs in a thread of one of several processes,
so any two handlers interleave between their calls to MySQL, Redis and RabbitMQ,
and no lock but those of MySQL's indexes and Redis's single thread orders them.
Every such call may fail; some failures leave the handler (MySQL), some are
swallowed (Redis, most of RabbitMQ), and an answer may be lost after the work
was done. Redis forgets at will. Time stamps are taken in one process and used in
another. Messages are redelivered while the worker that had them is still at it.

What makes each part correct:

* shortening: one code per URL and one URL per code *as the database compares
  them*, a 201 that describes a committed row, no committed row without its code;
* redirecting: to the URL the code was created for, no 404 after a 201, counted
  whenever its UPDATE was answered and never without one, never an expired URL,
  always an answer;
* limiting: no more than the limit pass in a window, no undeserved 429,
  fail-open that does no harm later;
* analytics: at-least-once from the broker's disk to MongoDB, duplicates from
  redelivery alone, a bad message blocks nobody;
* metrics: the lists stay bounded, keep the newest samples, and the figures mean
  what they say;
* startup: racing processes all end up serving, over a schema with both unique
  indexes, on which everything above rests.

`PROJECT.json` lists every component with its status, and the hazards of the
code at the lines where they bite with the properties that would catch them.

## 2. The modules

| Module | Models | Extends |
|---|---|---|
| `Base62` | `encode()` and `decode()` over a parametric alphabet; the collation MySQL compares codes with | |
| `UrlStore` | the `urls` table and its two lookups | `Base62` |
| `UrlCache` | the Redis entries, TTL, swallowed errors, lost keys; the clock | `UrlStore` |
| `Shorten` | concurrent `POST /shorten` handlers | `UrlCache` |
| `UrlDirectory` | what `POST /shorten` promises (abstract) | |
| `Redirect` | concurrent `GET /{short_code}` handlers; what `/stats` answers | `UrlCache` |
| `UrlService` | both kinds of handler, the clock and a forgetful Redis together | `Shorten`, `Redirect` |
| `RateLimiter` | the sliding window | |
| `Analytics` | publisher threads, queue, workers, MongoDB | |
| `ClickLog` | what the pipeline promises of one click (abstract) | |
| `LatencyMetrics` | latency samples and `/metrics/latency` | |
| `Startup` | `create_all()` raced by the processes, with early requests | `UrlStore` |
| `ShortenProofs`, `RateLimiterProofs`, `StartupProofs`, `AnalyticsProofs`, `LatencyMetricsProofs` | theorems | the module they name |
| `UrlDirectoryProofs` | that `POST /shorten` implements `UrlDirectory` | `ShortenProofs` |
| `UrlServiceProofs` | theorems about both handlers together | `UrlService`, `UrlDirectoryProofs` |
| `Base62Proofs` | theorems about `encode()` and `decode()` | `MCShorten`, `ShortenProofs` |
| `MCShorten`, `MCUrlService`, `MCRateLimiter`, `MCAnalytics`, `MCLatencyMetrics`, `MCStartup` | the instances TLC checks | |

### Data

A long URL is a model value and stands for its SHA-256 `url_hash` too: the hash is
taken to be injective. A short code is the sequence of the alphabet positions of
its characters. The width matters, because the column is `String(10)`, and so
does the case of letters: `short_code` has no collation of its own and the
`mysql:8.0` service sets none, so the unique index and the lookup compare with
`utf8mb4_0900_ai_ci`. `Collate` is that comparison. Redis compares bytes. That two
spellings are one code to MySQL and two keys to Redis runs through the modules.

### POST /shorten (`Shorten`)

One action per round trip, `post[p].pc` naming the next one:

| Action | Code |
|---|---|
| `ReceivePost` | the request, past validation and the limiter |
| `SelectByHash` | `get_url_by_hash()`, `crud.py:73` |
| `IssueInsert`, `FlushGranted`, `FlushDuplicate` | `db.flush()`: the id is taken (and burnt), then the INSERT enters the `url_hash` index, waits for an open transaction that holds the hash, or fails |
| `UpdateShortCode` | `encode(id)` and the UPDATE that `db.commit()` flushes: granted, waiting, duplicate, or too wide for the column |
| `Commit`, `Refresh` | `db.commit()`, `db.refresh()` |
| `CacheNew`, `Reply` | `set_cached_url()`, the 201 |
| `DbError`, `Crash` | a failing round trip (500, rolled back); a dying process |

An uncommitted row is the ORM object of a handler whose `pc` is `"update"` or
`"commit"`; a rollback is simply that object's end. A commit whose answer is lost
is `DbError` at `"refresh"`.

### GET /{short_code} (`Redirect`, `UrlService`)

`LookupCache` (hit, miss or error), `SelectRow` (404, expiry check), `EvictExpired`
(410), `PopulateCache`, `RecordLatency`, `CountClick`, `ReloadRow` (the commit
expires the ORM object, so `url_obj.long_url` reads it again on the miss path),
`Publish`, `RedirectClient`; `GetDbError`, `PublishRaises` (an exception that is no
`AMQPError` leaves the handler) and `CrashGet`. The request may spell the code of a
row with letters of the other case. `RecordLatency` is a step without effect here:
what becomes of the sample is `LatencyMetrics`. `GetStats` is the single SELECT of
`/stats`, an operator of the state since nothing happens between its reads.
`UrlService` composes the two handlers, adds the clock and `RedisLosesKey`. The field
`end` of a handler is history: when it ended (with an answer or in a crash), had it got
to its UPDATE, and had the UPDATE been answered? No guard reads it; `Past` and `Reached`
bound `click_count` with it.

### Rate limiter (`RateLimiter`)

A request takes its timestamp (`Stamp`) and the script runs later (`Check`), as one
atomic step: ZREMRANGEBYSCORE, ZADD, EXPIRE, ZCARD. Between the two others may
overtake it, by at most `MaxDelay` ticks. `FailOpen` is a `RedisError`: the request
passes, and its command may still be under way (`LateScript`). `LoseKey` is a Redis
that restarts or evicts. `counted` is history: the requests Redis has recorded under
a key it has not lost since; no guard reads it.

### Analytics (`Analytics`)

Publisher: `GetChannel` hands out the thread's connection without I/O when there is
one; `BasicPublish` returns once bytes are written, whether or not the broker is
there to read them; `PublishFails` is the caught `AMQPError` and
`_reset_connection()`; `HeartbeatMissed` is the broker closing an idle connection,
of which pika knows nothing. Broker: arrival order, `ready`, `unacked`, `journal`
(on disk), the redelivered flag, restarts. Worker: `Deliver` (prefetch 1),
`InsertOne`, `Malformed`, `NoObject`, `MongoError`, `Answer` (ACK and both NACKs),
`Disconnected`, and the faults `AnswerLost`, `LoseConnection`, `CrashWorker`,
`Sigterm`. What the worker works on (`msg`) and what the broker thinks it holds
(`unacked`) are separate, so a worker can go on with a message another one has got.
Messages of other producers are no events; those in `odd` parse as JSON but are no
object. `process_message()` raises `AttributeError` on them (`consumer.py:148`), which
the last handler requeues, although the docstring drops "bad JSON or schema error"
because "requeueing would loop forever" (`consumer.py:182-188`).

### Latency metrics (`LatencyMetrics`)

`LPush` and `LTrim` are the two commands of `record_latency()`, of several redirects
at once; `RecordFails` is the `RedisError`, or the end of the process, before either;
`LoseList` is Redis losing a list. `ReadHits` and `ReadMisses` are the two LRANGEs of
the report, `ReadFails` a `RedisError` at either. `Stats`, `Pct` and `Index` are
`_compute_stats()`; `Sorted` is its `sorted()`, by what it returns: the samples,
rearranged, in ascending order. `pushed` is history: the samples since the list was last lost;
no guard reads it, nor `lost`, nor `report.from` and `report.to` (how many samples had
been recorded when the report began and when it ended).

### Startup (`Startup`)

`create_all()` is three kinds of statement, each committed by MySQL by itself:
`CheckTable` (`has_table()`), `CreateTable` or `TableExists` (error 1050, of which the
process dies), and `CreateIndex` or `DuplicateRows` (error 1062) for the columns
declared with `unique=True, index=True`, in any order: `table.indexes` is a set.
`Restart` is the supervisor of `uvicorn --workers 4`, `Crash` a process that dies or a
statement that fails. A process that finds the table serves at once. Requests are
reduced to what meets the schema: `Select`, `Insert` (with its COMMIT) and `EndPost`;
`Shorten` has their detail. `cut` is history: somebody stopped between CREATE TABLE and
its last index. In that case the code never creates the missing index, however often
it starts: `create_all()` looks for tables, not for indexes, although `main.py:5` calls
it idempotent. Early requests can bring that about by themselves: two of them insert
one URL, and CREATE UNIQUE INDEX fails on the rows.

### The abstract specifications (`UrlDirectory`, `ClickLog`)

A map from URLs to codes that hands every URL at most one code for ever, never a
code to two URLs, answers with what the map holds, announces "created" to one
client at most, and may refuse anyone. `Shorten` implements it under the mapping at
its end: a URL is in the directory from the commit of its row on.

`ClickLog` is one click: RabbitMQ has it in memory, then on disk; it lets go of what is
on disk only once it is stored, takes nothing twice, and a second document comes only
after a redelivery. `Analytics` implements it for each click by itself
(`ImplementsClickLog`, whose two conjuncts are the initial condition and the steps of
`Log(c)!Spec` for all clicks `c`: one step of the broker may move several clicks).

## 3. What TLC checks

| Run | Distinct states | Shows |
|---|---|---|
| `shorten` | 158 thousand | three racing POSTs for two URLs: one durable code per URL, no code for two URLs, created once, no half-built row, cache agrees with the table, everyone answered, refinement of `UrlDirectory`; the codes of the ids to come decode to them |
| `service_gets` | 2.0 million (reduced by symmetry) | two GETs racing a POST, the clock and a Redis that loses keys: `click_count` has every click whose UPDATE was answered and none that did not get that far, `/stats` tells of each, events match redirects, the cache agrees with the table, the miss path honours the expiry |
| `service_posts` | 101 thousand | a GET racing two POSTs: the redirect goes home, a 201 is never followed by a 404, every GET is answered |
| `limiter` | 1.6 million (reduced by symmetry) | four requests of two addresses, overtaking, failing open, executing late: nothing is forgotten early, the limit holds over `Window - MaxDelay`, every 429 is deserved |
| `analytics` | 258 thousand | a click and a message that is no event, two workers, three faults: nothing on disk is lost, duplicates are redeliveries, what is on disk gets stored, refinement of `ClickLog` |
| `metrics` | 517 thousand (reduced by symmetry) | four redirects and a report: lists bounded, newest samples kept, percentiles are percentiles, the hit rate errs on the low side only |
| `startup` | 135 thousand | three processes, two POSTs, two crashes: everyone serves, no index is missing unless its creator was stopped, a complete schema is sound |
| `repeat_post`, `code_collision`, `expired_redirect`, `exact_window`, `sigterm` | violated | the findings below |

Bounds, and why they are enough.

* `shorten`: base 4 (two digits, one letter per case, padding to width 1), ids to
  5, starting at 1 or 2, a column of width 1. Ids 2 and 3 are then one letter in
  its two cases (the collision of ids 10 and 36 in the code) and id 4 is too wide for
  the column. Two URLs and three requests are the least with a duplicate URL and a
  third party; the argument of the proof is about pairs of handlers. The clock
  stands still: no POST reads it.
  `EncoderRoundTrip` looks at the ids the table hands out next, up to codes of three
  characters.
* `service_gets`: one URL, expiries at ticks 0 and 1 of a clock that goes to 2, and
  a TTL of 1: rows expire, cache entries run out and are written again, before
  or after any step. `service_posts` has two URLs (and hence two codes that differ in
  case only) and no expiry.
* `limiter`: limit 2, window 3, delay 1, ticks to 4: four requests exceed the
  limit, windows slide and the key expires and comes back.
* `analytics`: `MaxFaults = 3` lets a message be redelivered while its first worker
  is still at work on it, and the second worker die in turn. One click suffices for
  properties that speak of each click by itself; the message that is no event may
  stand before or after it in the queue, and may or may not parse (both initial
  states are checked).
* `metrics`: lists of two samples, of two latencies, and four redirects: a list may
  outgrow its bound by two before it is cut, or be cut twice in a row.
* `startup`: three processes are one that creates, one that loses the race for the
  table and one that serves meanwhile. With one digit and one letter per case, ids 1
  and 2 share a code, so two POSTs can violate either index. Two crashes stop a
  creator and whoever comes after it.

`analytics` and `sigterm` turn deadlock checking off: with every event published
and every message settled, or all workers stopped, the pipeline is quiet. In the
other modules the end is an explicit step (`PostsAnswered`, `AllAnswered`,
`AllDecided`, `Quiet`), so a deadlock among handlers would be found.

Fairness. Weak fairness for each handler's own steps (`HandlePost`, `HandleGet`):
a thread that can go on will. None for arrivals, errors, crashes, the clock or
Redis, so nothing is owed to luck. In `Analytics`: weak fairness for a worker's own
steps and for the restart of a worker that died (`restart: unless-stopped` restarts
that one, not one told to stop), and strong fairness for `InsertOne`, which says
that MongoDB does not fail for ever; the docstring of `consumer.py` promises
storage "when it recovers". Nothing is assumed of the publisher: `JournaledIsStored`
starts at the broker's disk. It excepts clicks that arrived behind a message that is
JSON but no object: with such a message first in the queue, every worker may be
busy with it for ever. In `Startup`: weak fairness for each process (its statements,
and its restart by the supervisor) and for the end of each request (`get_db()`
closes the session), none for arrivals and crashes.

Every property of a passing run has a mutant in `PROJECT.json`: a plausible bug of
the mapped code that breaks that property in that run. The mutants are operators
named after the definition they replace, and nothing else uses them.

## 4. Where code and documentation disagree

Each is a run in which TLC finds the sentence violated by what the code does.

1. `repeat_post` - "POST /shorten with the same URL must return the same short
   code" (`crud.py:9`). Two concurrent requests for a new URL both find no row; the
   second INSERT is a duplicate and its client gets a 500 (`crud.py:82`).
2. `code_collision` - "guaranteed uniqueness. No collision-resolution strategy
   needed" (`encoder.py:9-10`), "zero collision risk" (`README.md:166`). Ids 10 and
   36 are `00000A` and `00000a`, equal under the column's collation: the later
   request fails (`models.py:38`). No code is ever shared, though
   (`CodesNeverShared`, proved).
3. `expired_redirect` - "Returns 404 if not found, 410 if expired"
   (`README.md:138`). A cache hit never looks at `expires_at` (`url.py:146`).
4. `exact_window` - "the count is always over exactly the last window_seconds"
   (`limiter.py:14-16`). The timestamp is taken before the script runs
   (`limiter.py:146`), and the script counts the records that are left when it does.
   In TLC's shortest trace (limit 2, window 2) two requests are stamped and run at 0,
   which sets the key's EXPIRE to 2; a third is stamped at 1 and runs at 2, finds no
   key, counts itself alone and passes: three in one window, although the scripts run
   in the order of their timestamps. A script with a later timestamp that runs first
   may evict the same records. What does hold is `WindowLimit`, over a window shorter
   by the longest delay.
5. `sigterm` - "in-flight message is ACK'd before shutdown" (`consumer.py:64`).
   The signal handler closes the connection in the middle of whatever
   `on_message()` does; the message is redelivered, though it may be stored.

## 5. What is proved

All theorems are for every value of the constants that satisfies the named
assumptions of the modules (`AlphabetAssumption`, `StoreAssumption`,
`NullAssumption`, `CacheAssumption`, `ShortenAssumption`; `LimiterAssumption`;
`StartupAssumption`; `AnalyticsAssumption`; `MetricsAssumption`). These say that
counts are natural numbers, that `Null` is none of the values it is added to (None
is neither a code nor a number), that the first id is an id, that the requests of
the limiter and the redirects of the metrics are finitely many, that the service has
a process, that no click is another producer's message, and that percents are
percents. `MaxId` bounds the ids, `MaxTime` the instants at which `WindowLimit` looks;
both are arbitrary.

**`ShortenProofs`**: `ShortenOneCodePerUrl`, `ShortenCodesNeverShared`,
`ShortenRepliesDurable`, `ShortenCreatedOnce`, `ShortenNoHalfBuiltRow`,
`ShortenCacheMatchesTable`, `ShortenTypeCorrect`. None of these properties is
inductive: that two clients of a URL have one code says nothing of the
transactions under way. The invariant `IInv` adds

* `Table` - committed rows carry the code of an id already handed out, and share
  neither URL nor code (as collated);
* `Sound(h)` - what one handler's state says of the table: its uncommitted row has
  a fresh id; once it is in the `url_hash` index no committed row has its URL; once
  it is in the `short_code` index none has its code; a handler past its commit
  holds a committed row of its client's URL;
* `Apart(h, k)` - of two handlers: different uncommitted ids, different URLs
  once both are in the one index, different codes once in the other, and not both
  creators of one URL.

The proof has one lemma per action. Most move one handler and leave the table alone,
and go through `LocalMove`; `Commit` turns `Apart` into `Table`, and the
duplicate checks of `FlushGranted` and `UpdateShortCode` establish what `Sound`
and `Apart` say. The proof uses no property of `Encode`: uniqueness of codes
comes from the index, not from the encoding, which is what finding 2 shows from the
other side. `CacheMatchesTable` has its own step: entries are written from
committed rows, and rows are never deleted.

**`RateLimiterProofs`**: `LimiterTypeOK`, `LimiterNoEarlyEviction`,
`LimiterWindowLimit`, `LimiterNoSpuriousRejection`. The invariant says that
verdicts are given once, that members of a sorted set are stamped requests of its
address, that timestamps lie in the past, and (`RecordsKept`) that a recorded
request stays in its sorted set, and the key alive, until a whole window has passed
since its timestamp. For the limit: suppose more than `Limit` requests stamped
within `Window - MaxDelay` ticks have passed. The one whose script ran last ran at
most `MaxDelay` after its timestamp, so all the others were still recorded and
within its window when it counted; it counted more than `Limit` and was not let
pass.

**`StartupProofs`**: `StartupCompleteSchemaIsSound` and
`StartupServingSchemaIsComplete`. The first follows from `IndexesHold`: every index
that is there, complete schema or not, is respected by the rows; CREATE INDEX looks at
the rows, and each INSERT at the indexes. This is what `Shorten` assumes of its
table. For the second, `OneCreator` says that CREATE TABLE succeeds once, that only
the process that sent it creates indexes, and that as long as nobody was stopped
half-way what is missing is exactly what that process still has to do; when everybody
serves it has nothing left.

**`AnalyticsProofs`**: `AnalyticsJournaledNotLost`,
`AnalyticsDuplicatesAreRedeliveries`, `AnalyticsTypeCorrect` and
`AnalyticsImplementsClickLog`, for any numbers of clicks, threads, workers and faults.
The invariant `IInv` adds

* `PublishedOnce` - an event is with one thread at most, and nobody knows a message
  that has not arrived;
* `OnePlace` - a message is in the queue or unsettled with one worker, as the broker
  sees it;
* `Holding` - what an attached worker works on is what the broker has given it, so
  that its answer settles the right message; it acknowledges only what is stored and
  drops only what is no event;
* `StoredOnce` - a click that was never redelivered is in one pair of hands, and once it
  is stored nobody will store it again.

`JournaledNotLost` is not inductive without `Holding` (an acknowledgement of a click
other than the one stored would lose it), nor `DuplicatesAreRedeliveries` without
`StoredOnce` (a worker may still be at work on what another one was given). The
refinement has one lemma per step of the log (`LogStores`, `LogSettles`, ...), each
saying what must hold of one click for the pipeline's step to be that step, and one
per kind of action of the pipeline, which shows that it does.

**`UrlDirectoryProofs`**: `ShortenImplementsDirectory`, the refinement under the
mapping at the end of `Shorten`. `View` is the mapping of one handler's state, so that
a step of one handler moves one entry of `call`; the lemmas `AbsAsk`, `AbsRegister`,
`AbsAnswer` and `AbsRefuse` say which changes are steps of the directory, and one
lemma per action shows which of them it is, or that nothing shows. `Commit` registers
the URL: that it was not in the directory and its code is nobody's is `Sound`, that
the table still gives every other URL its code is `Table`. `Reply` answers with what
the directory holds *now*, which is the row of the reply because rows only come; that
"created" is announced once is `Apart`.

**`UrlServiceProofs`**: `RedirectsGoHome`, `ServiceCacheMatchesTable`,
`FreshReadsAreFresh`, `ClicksAreCounted`, `StatsTellAll`, `EventsOfRedirects`,
`WritesAreRead` (an action property), `ServiceTypeCorrect` and
`ServiceImplementsDirectory`, for any numbers of POSTs, GETs, URLs and ticks. The
invariant `ServiceInv` is that of `ShortenProofs` with

* `Knows(h)` - a handler that has found something holds the id and the URL of the one
  row of its code, from whichever source; on the miss path that row had not expired
  when the request came in. It needs `CacheMatchesTable` (a hit is as good as a
  SELECT) and that rows neither change nor go;
* `Counts` - finitely many requests have come in, and `click_count` lies between the
  handlers whose UPDATE was answered (`Past`) and those that got as far as the UPDATE
  (`Reached`), the ones that have ended included. The two differ by the handlers that
  ended at their UPDATE: whether it took effect is not known, so no equation holds;
* `Published` - an event is the only one of its handler, which is past the publish,
  and hence in `Past`: that bounds the events by the clicks.

`WritesAreRead` follows from it at the two steps that answer 404: a 201 means a
committed row of the code, hence the SELECT that finds none found none. For
`ServiceImplementsDirectory` everything but a POST's own step leaves the table's rows
and the POST handlers alone.

**`LatencyMetricsProofs`**: `LatencySamplesBounded`, `LatencyNewestKept`,
`LatencyHitRate`, `LatencyPercentiles`, `LatencyTypeCorrect`. The two about the lists
are inductive as they stand (a list is a prefix of `pushed`, longer than its bound by
the redirects that have not cut it yet); `ReportTrue` adds what a report has read as
long as nothing was lost or cut: the hits of its beginning and the misses of its end.
That is a rate of no single moment (a hit and then a miss recorded between the two
LRANGEs give 0 of 1), but one that is never above the rate at either end, counts
all redirects recorded before the report and none recorded after it, and is exact when
none came in between: `HitRateErrsLow`. For the percentiles, sorting has to exist: the least length of a list that
cannot be sorted is not 0, and any longer list is sorted by taking out a largest
element; then `Index` is in range and ascending in the percent, so the figures are.

**`StartupProofs`** also proves `StartupTypeCorrect`; for it a handler about to insert
has a URL.

**`Base62Proofs`**: `EncoderExact`, `EncodeInjective`, `ShortenRoundTrip` and
`LettersCollide`:
`decode(encode(id)) = id` for every natural number, every alphabet and every width, and
a code has `MIN_LENGTH` characters exactly until ids reach `BASE` to that power.
`encode()` and `decode()` are recursive functions, and the library's induction and
recursion theorems take operators, which the provers cannot instantiate. The module
does with sets and functions instead: `Induction` is complete induction over the
members of a set (from the well-foundedness of `<`), `Recursion` says that a
recursion on numbers whose step is a *function* defines a function. With these
`DigitsAre` and `DecodeIs` unfold the two loops; `DigitsRead` (decoding the digits of n,
after zeros, comes to n) goes by induction on n through `n \div BASE`, and
`DigitsCount` by induction on the number of digits. Together with
`ShortenCodesNeverShared` this separates the two reasons for uniqueness: the encoding
makes codes differ as strings, the index makes them differ as the collation compares.
`LettersCollide` says that it has to: in every alphabet with letters, the ids of one
letter in its two cases have different codes that are equal under the collation.

Only model-checked: liveness (`EveryPostAnswered`, `EveryGetAnswered`,
`JournaledIsStored`, `SchemaCompleted`, `EveryWorkerServes`), which needs ENABLED and is
out of the prover's reach; and the refutations behind the five findings, of which only
the collision of codes has a theorem.

## 6. What is assumed, and what is left out

* InnoDB: a row of an open transaction is invisible to other readers, and an equal
  entry of a unique index makes a writer wait. A deadlock that InnoDB resolves by a
  victim, a lock wait timeout, a lost connection and an exhausted pool are all
  `DbError`. A reader's snapshot is taken when its SELECT runs, the first of its
  transaction.
* Redis: commands are atomic; the cache and the limiter lose any key at any time.
* RabbitMQ: messages are persistent and reach the disk some time after arriving;
  the queue keeps arrival order, also for messages that come back.
* The script of a request runs at most `MaxDelay` after its timestamp. Nothing in
  the code enforces this but the one-second timeouts of `limiter.py`; it
  only matters to `WindowLimit`, whose window shrinks with it.
* Clocks of processes agree: all API processes run in one container. No two requests
  of an address fall on one nanosecond (the member of the sorted set,
  `limiter.py:148`).
* MySQL commits each DDL statement by itself; CREATE INDEX waits for transactions that
  have read the table, and fails on duplicate rows. A statement that outlives its
  client is the same statement before the crash.
* uvicorn's supervisor starts a child that ended again, whatever ended it.

Not modelled, and why:

* response bodies and headers, `created_at`, logging: nothing in the system reads them.
  Two of them disagree with their documentation: the `X-RateLimit-*` headers are
  set on the injected response, which the `HTTPException(429)` replaces, so a 429 goes
  without them and without `Retry-After` (`dependencies.py:29`, `url.py:21-25`);
* validation of payloads and settings (`schemas.py`, `config.py`): no state. A time zone
  in `expires_at` is dropped by the naive column; the model's expiries are what the
  column holds;
* the connection pools: an exhausted pool is a failing round trip;
* MongoDB's indexes and the worker's start-up failures: a start that fails is a start
  that has not happened yet;
* the publisher's promise of the disk journal before the publish returns
  (`publisher.py:17-20`): modelled (`BasicPublish` returns without a confirm), and
  plainly false of the code; every property of the pipeline starts at the disk;
* that a 410 stays a 410: false of the code already by the cache hits of finding 3;
* the dashboard, the load test, and the containers but for their restart policies and
  options: no part of the service's state.

## 7. Plan

Done: `Base62`, `UrlStore`, `UrlCache`, `Shorten` with `UrlDirectory`, `Redirect`,
`UrlService`, `RateLimiter`, `Analytics` with `ClickLog`, `LatencyMetrics`, `Startup`;
proofs about each of them, with every safety property of the passing runs and both
refinements.

To model, should it become worthwhile: `UrlService` and `Analytics` in one module, to
relate documents to `click_count`; the two are joined by the events of
`EventsAreRedirects` now.
