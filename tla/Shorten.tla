------------------------------ MODULE Shorten -------------------------------
(***************************************************************************)
(* POST /shorten: shorten_url() in app/routers/url.py over                 *)
(* create_short_url() in app/crud.py, as concurrent handlers in the thread *)
(* pools of several uvicorn processes, against MySQL (InnoDB) and Redis.   *)
(*                                                                         *)
(* One action per round trip to MySQL or Redis.  A handler keeps its ORM   *)
(* object in url_obj; while pc is "update" or "commit" that object is also *)
(* the uncommitted row of its open transaction, whose entries in the two   *)
(* unique indexes make other writers of the same value wait.               *)
(***************************************************************************)
EXTENDS UrlCache

CONSTANTS
  Posts,        \* the POST requests
  FirstIds      \* where AUTO_INCREMENT may stand: a rolled back INSERT
                \* burns its id, so the table may be empty and the next id
                \* not 1

ASSUME ShortenAssumption == FirstIds \subseteq Ids

VARIABLE post   \* POST request -> the state of its handler

PostPcs  == {"idle", "select", "insert", "flush", "update", "commit",
             "refresh", "setex", "reply", "done", "crashed"}
Statuses == {0, 201, 500}                        \* 0: not answered
Causes   == {"none", "url_hash", "short_code", "too_long", "database"}

PostState == [pc         : PostPcs,
              long_url   : OrNull(LongUrls),     \* payload.url
              expires_at : OrNull(Expiries),     \* payload.expires_at
              url_obj    : OrNull(Row),
              created    : BOOLEAN,
              status     : Statuses,
              cause      : Causes]               \* what raised, for 500

shortenVars == <<urls, next_id, cache, post>>

-----------------------------------------------------------------------------
\* The handlers that hold an uncommitted row with this url_hash, and those
\* whose uncommitted short_code the index cannot tell from `code`.
HashHolders(url) ==
  {q \in Posts : /\ post[q].pc \in {"update", "commit"}
                 /\ post[q].long_url = url}
CodeHolders(code) ==
  {q \in Posts : /\ post[q].pc = "commit"
                 /\ Collate(post[q].url_obj.short_code) = Collate(code)}

Step(p, from, to) ==
  /\ post[p].pc = from
  /\ post' = [post EXCEPT ![p].pc = to]

\* An exception leaves the handler: get_db() closes the session, which rolls
\* the open transaction back, and FastAPI answers 500.
Raise(p, cause) ==
  post' = [post EXCEPT ![p] = [@ EXCEPT !.pc = "done", !.url_obj = Null,
                                        !.status = 500, !.cause = cause]]

ReceivePost(p) ==
  /\ post[p].pc = "idle"
  /\ \E url \in LongUrls, expires_at \in OrNull(Expiries) :
       post' = [post EXCEPT ![p] = [@ EXCEPT !.pc = "select", !.long_url = url,
                                             !.expires_at = expires_at]]
  /\ UNCHANGED <<urls, next_id, cache>>

\* Mutant: the existing record is returned as a new one.
SelectByHash_Created(p) ==
  LET found == RowsByHash(post[p].long_url)
  IN  /\ post[p].pc = "select"
      /\ \/ \E row \in found :
              post' = [post EXCEPT ![p] = [@ EXCEPT !.pc = "setex",
                                                    !.url_obj = row,
                                                    !.created = TRUE]]
         \/ found = {} /\ Step(p, "select", "insert")
      /\ UNCHANGED <<urls, next_id, cache>>

\* get_url_by_hash(): the idempotency check.
SelectByHash(p) ==
  LET found == RowsByHash(post[p].long_url)
  IN  /\ post[p].pc = "select"
      /\ \/ \E row \in found :
              post' = [post EXCEPT ![p] = [@ EXCEPT !.pc = "setex",
                                                    !.url_obj = row]]
         \/ found = {} /\ Step(p, "select", "insert")
      /\ UNCHANGED <<urls, next_id, cache>>

\* Mutant: no db.flush(), so that the id is not known when it is encoded.
IssueInsert_NoFlush(p) ==
  /\ post[p].pc = "insert"
  /\ next_id \in Ids
  /\ post' = [post EXCEPT ![p] =
                [@ EXCEPT !.pc = "flush",
                          !.url_obj = [id         |-> Null,
                                       short_code |-> Null,
                                       long_url   |-> post[p].long_url,
                                       expires_at |-> post[p].expires_at]]]
  /\ next_id' = next_id + 1
  /\ UNCHANGED <<urls, cache>>

\* db.flush() sends the INSERT; InnoDB takes the AUTO_INCREMENT value before
\* it looks at the indexes, and does not give it back.
IssueInsert(p) ==
  /\ post[p].pc = "insert"
  /\ next_id \in Ids
  /\ post' = [post EXCEPT ![p] =
                [@ EXCEPT !.pc = "flush",
                          !.url_obj = [id         |-> next_id,
                                       short_code |-> Null,
                                       long_url   |-> post[p].long_url,
                                       expires_at |-> post[p].expires_at]]]
  /\ next_id' = next_id + 1
  /\ UNCHANGED <<urls, cache>>

\* Mutant: url_hash declared without unique=True.
FlushGranted_NotUnique(p) ==
  /\ Step(p, "flush", "update")
  /\ UNCHANGED <<urls, next_id, cache>>

\* Mutant: commit() in the place of the first flush().
FlushGranted_Commits(p) ==
  /\ Step(p, "flush", "update")
  /\ RowsByHash(post[p].long_url) = {}
  /\ HashHolders(post[p].long_url) = {}
  /\ urls' = urls \cup {post[p].url_obj}
  /\ UNCHANGED <<next_id, cache>>

\* The INSERT enters the url_hash index: no other row with this hash, nor a
\* transaction that holds one.
FlushGranted(p) ==
  /\ Step(p, "flush", "update")
  /\ RowsByHash(post[p].long_url) = {}
  /\ HashHolders(post[p].long_url) = {}
  /\ UNCHANGED <<urls, next_id, cache>>

\* Mutant: the INSERT is tried again, without looking for the other row.
FlushDuplicate_Retry(p) ==
  /\ Step(p, "flush", "insert")
  /\ RowsByHash(post[p].long_url) # {}
  /\ UNCHANGED <<urls, next_id, cache>>

\* The INSERT finds the hash in a committed row: IntegrityError, which no
\* code of the request catches.
FlushDuplicate(p) ==
  /\ post[p].pc = "flush"
  /\ RowsByHash(post[p].long_url) # {}
  /\ Raise(p, "url_hash")
  /\ UNCHANGED <<urls, next_id, cache>>

\* Mutant: short_code declared without unique=True.
UpdateShortCode_NotUnique(p) ==
  LET code == Encode(post[p].url_obj.id)
  IN  /\ post[p].pc = "update"
      /\ post' = [post EXCEPT ![p] = [@ EXCEPT !.pc = "commit",
                                        !.url_obj.short_code = code]]
      /\ UNCHANGED <<urls, next_id, cache>>

\* Mutant: the cache is filled before the transaction commits.
UpdateShortCode_Caches(p) ==
  LET code == Encode(post[p].url_obj.id)
  IN  /\ post[p].pc = "update"
      /\ RowsByShortCode(code) = {}
      /\ CodeHolders(code) = {}
      /\ post' = [post EXCEPT ![p] = [@ EXCEPT !.pc = "commit",
                                        !.url_obj.short_code = code]]
      /\ SetCachedUrl(code, post[p].url_obj.id, post[p].long_url)
      /\ UNCHANGED <<urls, next_id>>

\* short_code = encode(id); db.commit() first flushes the UPDATE, which waits
\* for a transaction that holds the code, fails on a committed one, and in
\* strict mode refuses a value wider than the column.
UpdateShortCode(p) ==
  LET code == Encode(post[p].url_obj.id)
  IN  /\ post[p].pc = "update"
      /\ \/ Len(code) > MaxCodeLen /\ Raise(p, "too_long")
         \/ /\ Len(code) <= MaxCodeLen
            /\ RowsByShortCode(code) # {}
            /\ Raise(p, "short_code")
         \/ /\ Len(code) <= MaxCodeLen
            /\ RowsByShortCode(code) = {}
            /\ CodeHolders(code) = {}
            /\ post' = [post EXCEPT ![p] = [@ EXCEPT !.pc = "commit",
                                              !.url_obj.short_code = code]]
      /\ UNCHANGED <<urls, next_id, cache>>

\* Mutant: the transaction is flushed and never committed.
Commit_Forgotten(p) ==
  /\ post[p].pc = "commit"
  /\ post' = [post EXCEPT ![p] = [@ EXCEPT !.pc = "setex", !.created = TRUE]]
  /\ UNCHANGED <<urls, next_id, cache>>

Commit(p) ==
  /\ Step(p, "commit", "refresh")
  /\ urls' = urls \cup {post[p].url_obj}
  /\ UNCHANGED <<next_id, cache>>

\* db.refresh(url_obj) reads the row back; create_short_url() returns True.
Refresh(p) ==
  /\ post[p].pc = "refresh"
  /\ \E row \in urls :
       /\ row.id = post[p].url_obj.id
       /\ post' = [post EXCEPT ![p] = [@ EXCEPT !.pc = "setex",
                                                !.url_obj = row,
                                                !.created = TRUE]]
  /\ UNCHANGED <<urls, next_id, cache>>

\* The eager cache write, then the 201 built from url_obj.
CacheNew(p) ==
  /\ Step(p, "setex", "reply")
  /\ LET row == post[p].url_obj
     IN  SetCachedUrl(row.short_code, row.id, row.long_url)
  /\ UNCHANGED <<urls, next_id>>

Reply(p) ==
  /\ post[p].pc = "reply"
  /\ post' = [post EXCEPT ![p] = [@ EXCEPT !.pc = "done", !.status = 201]]
  /\ UNCHANGED <<urls, next_id, cache>>

-----------------------------------------------------------------------------
\* Any round trip to MySQL may fail: connection lost, no pooled connection
\* within pool_timeout, lock wait timeout, deadlock victim.  At "refresh" the
\* row is committed already, which is also how a commit whose answer is lost
\* looks to the handler.
DbError(p) ==
  /\ post[p].pc \in {"select", "insert", "flush", "update", "commit", "refresh"}
  /\ Raise(p, "database")
  /\ UNCHANGED <<urls, next_id, cache>>

\* The process dies with the request: MySQL rolls the transaction back, and
\* the client sees its connection close.
Crash(p) ==
  /\ post[p].pc \notin {"idle", "done", "crashed"}
  /\ post' = [post EXCEPT ![p] = [@ EXCEPT !.pc = "crashed", !.url_obj = Null]]
  /\ UNCHANGED <<urls, next_id, cache>>

-----------------------------------------------------------------------------
StoreInit == urls = {} /\ next_id \in FirstIds

PostInit ==
  post = [p \in Posts |->
            [pc |-> "idle", long_url |-> Null, expires_at |-> Null,
             url_obj |-> Null, created |-> FALSE, status |-> 0,
             cause |-> "none"]]

\* What the handler does by itself, which the thread running it will get to.
HandlePost(p) ==
  \/ SelectByHash(p) \/ IssueInsert(p) \/ FlushGranted(p) \/ FlushDuplicate(p)
  \/ UpdateShortCode(p) \/ Commit(p) \/ Refresh(p) \/ CacheNew(p) \/ Reply(p)

PostStep(p) == ReceivePost(p) \/ HandlePost(p) \/ DbError(p) \/ Crash(p)

PostsAnswered ==
  /\ \A p \in Posts : post[p].pc \in {"done", "crashed"}
  /\ UNCHANGED <<shortenVars, now>>

ShortenInit == StoreInit /\ CacheInit /\ PostInit
ShortenNext == (\E p \in Posts : PostStep(p) /\ UNCHANGED now) \/ PostsAnswered
ShortenSpec ==
  /\ ShortenInit
  /\ [][ShortenNext]_<<shortenVars, now>>
  /\ \A p \in Posts : WF_<<shortenVars, now>>(HandlePost(p) /\ UNCHANGED now)

-----------------------------------------------------------------------------
\* Every variable of the module keeps its type: rows and ORM objects have the
\* columns of the urls table, and AUTO_INCREMENT stays within its bound.
ShortenTypeOK ==
  /\ urls \subseteq Row
  /\ next_id \in 1..(MaxId + 1)
  /\ cache \in [Codes -> OrNull(Entry)]
  /\ now \in 0..MaxTime
  /\ post \in [Posts -> PostState]

Created(p) == post[p].status = 201

\* What the short_code index compares.
SameCode(a, b) == Collate(a) = Collate(b)

\* "Idempotent: submitting the same URL twice returns the same short code"
\* (url.py, shorten_url): however the handlers interleave, fail and crash,
\* any two 201s for one URL carry one code.
OneCodePerUrl ==
  \A p, q \in Posts :
    Created(p) /\ Created(q) /\ post[p].long_url = post[q].long_url
      => post[p].url_obj.short_code = post[q].url_obj.short_code

\* No two URLs are ever answered with codes that the redirect's lookup cannot
\* tell apart (models.py: short_code is UNIQUE; crud.py: encode(id)).
CodesNeverShared ==
  \A p, q \in Posts :
    (/\ Created(p) /\ Created(q)
     /\ SameCode(post[p].url_obj.short_code, post[q].url_obj.short_code))
    => post[p].long_url = post[q].long_url

\* A 201 is never ahead of the database: the row it describes is committed
\* and stays so, and it is the row of the URL the client sent
\* (create_short_url() answers after db.commit(), or from a committed row).
ReplyIsDurable ==
  \A p \in Posts :
    Created(p) => /\ post[p].url_obj \in urls
                  /\ post[p].url_obj.long_url = post[p].long_url

\* At most one client is told that its request created the record
\* (crud.py, create_short_url: created=True means a new record).
CreatedOnce ==
  \A p, q \in Posts :
    (/\ Created(p) /\ post[p].created
     /\ Created(q) /\ post[q].created
     /\ post[p].long_url = post[q].long_url)
    => p = q

\* "There is no observable intermediate state with short_code = NULL"
\* (crud.py): every committed row carries the code of its id, whatever
\* failed between the INSERT and the COMMIT.
NoHalfBuiltRow == \A row \in urls : row.short_code = Encode(row.id)

\* What Redis holds under a code is what the table says of that code: an
\* entry exists for a committed row only, with that row's id and URL
\* (cache.py; the cache is filled by POST after its commit and by GET).
CacheMatchesTable ==
  \A code \in Codes :
    cache[code] # Null =>
      \E row \in RowsByShortCode(code) :
        row.id = cache[code].id /\ row.long_url = cache[code].url

\* A client that was not cut off by a crash gets an answer: no set of
\* handlers waits on one another's index entries for ever.
EveryPostAnswered ==
  \A p \in Posts :
    (post[p].pc = "select") ~> (post[p].pc = "crashed" \/ post[p].status # 0)

\* "POST /shorten with the same URL must return the same short code"
\* (crud.py:9): once some client has its 201 for a URL, a request for that
\* URL whose database calls worked is answered 201 too.
RepeatPostSucceeds ==
  \A p, q \in Posts :
    (/\ Created(q) /\ post[p].long_url = post[q].long_url
     /\ post[p].pc = "done" /\ post[p].cause # "database")
    => Created(p)

\* "Auto-increment IDs are monotonically increasing -> guaranteed uniqueness.
\* No collision-resolution strategy needed" (encoder.py:9-10): no request
\* fails because the code of its id is taken.
CodeCollisionFree == \A p \in Posts : post[p].cause # "short_code"

-----------------------------------------------------------------------------
\* The refinement mapping: a URL is in the directory from the moment its row
\* is committed; a failed or crashed handler has refused its client.
CodeOf(url) ==
  IF RowsByHash(url) = {} THEN Null
  ELSE (CHOOSE row \in urls : row.long_url = url).short_code

CallState(p) ==
  CASE post[p].pc = "idle"  -> "idle"
    [] post[p].status = 201 -> "answered"
    [] post[p].status = 500 \/ post[p].pc = "crashed" -> "refused"
    [] OTHER                -> "asked"

CallOf(p) ==
  [state   |-> CallState(p),
   url     |-> post[p].long_url,
   code    |-> IF CallState(p) = "answered" THEN post[p].url_obj.short_code
               ELSE Null,
   created |-> CallState(p) = "answered" /\ post[p].created]

Directory ==
  INSTANCE UrlDirectory
    WITH Clients <- Posts, Urls <- LongUrls, ShortCodes <- Codes,
         Same <- SameCode, Nothing <- Null,
         directory <- [url \in LongUrls |-> CodeOf(url)],
         call <- [p \in Posts |-> CallOf(p)]

\* POST /shorten, with its two-step INSERT, its index waits, failures and
\* crashes, implements the directory that hands every URL one code.
ImplementsDirectory == Directory!Spec
=============================================================================
