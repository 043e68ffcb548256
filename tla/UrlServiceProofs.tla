-------------------------- MODULE UrlServiceProofs --------------------------
(***************************************************************************)
(* Theorems about the URL service for any numbers of POST and GET          *)
(* requests, URLs, ids and ticks of the clock.  The argument: a handler of *)
(* the redirect that has found something holds the id and the URL of the   *)
(* one row of its code (Knows), wherever it found them, because the cache  *)
(* agrees with a table whose rows only come; and every click_count is      *)
(* bracketed by the handlers whose UPDATE was answered and those that got  *)
(* as far as the UPDATE, the ones that have ended included (Counts).       *)
(***************************************************************************)
EXTENDS UrlService, UrlDirectoryProofs, FiniteSetTheorems

Serving(h) ==
  \/ h.pc \in {"setex", "record", "count", "reload", "publish", "reply"}
  \/ h.status = 307

\* What the state of one handler of the redirect says of the table.
Knows(h) ==
  /\ h.pc # "idle" => h.code \in Codes
  /\ h.at <= now
  /\ h.status # 0 => h.pc = "done"
  /\ h.pc \notin {"done", "crashed"} => h.end = "before"
  /\ h.status = 307 => h.end = "past"
  /\ h.pc \in {"idle", "lookup", "select"} => h.url_id = Null
  /\ h.pc = "evict" \/ Serving(h) => h.url_id # Null
  /\ h.url_id # Null =>
       \E row \in RowsByShortCode(h.code) :
         row.id = h.url_id /\ row.long_url = h.url
  /\ h.pc = "reload" => h.x_cache = "MISS"
  /\ Serving(h) /\ h.x_cache = "MISS" =>
       \A row \in RowsByShortCode(h.code) :
         row.expires_at = Null \/ row.expires_at >= h.at

\* The handlers that have come in.
Busy == {g \in Gets : get[g].pc # "idle"}

HasEvent(g) == \E e \in events : e.click = g

Counts ==
  /\ IsFiniteSet(Busy)
  /\ ClicksCountRedirects

\* A handler that has its event behind itself.
Announced(h) ==
  \/ h.pc = "reply"
  \/ h.end = "past" /\ (h.pc = "crashed" \/ h.status = 307)

\* An event is the only one of its redirect, which has it behind itself.
Published ==
  \A e \in events :
    /\ Announced(get[e.click])
    /\ e.long_url = get[e.click].url
    /\ get[e.click].url_id # Null
    /\ \A f \in events : e.click = f.click => e = f

ServiceInv ==
  /\ IInv
  /\ RedirectTypeOK
  /\ CacheMatchesTable
  /\ \A g \in Gets : Knows(get[g])
  /\ Published
  /\ Counts
-----------------------------------------------------------------------------
(* The states the actions write.                                           *)

\* The sets of values as sets of their own: the provers do better when they
\* stay unexpanded.
XCaches     == {"HIT", "MISS"}
GetStatuses == {0, 307, 404, 410, 500}
Stages      == {"before", "at", "past"}

LEMMA GetStateSets ==
  GetState = [pc : GetPcs, code : OrNull(Codes), x_cache : XCaches,
                 url_id : OrNull(Ids), url : OrNull(LongUrls), at : Nat,
                 status : GetStatuses, end : Stages]
  BY DEF GetState, XCaches, GetStatuses, Stages

LEMMA StageType == \A pc : Stage(pc) \in Stages
  BY DEF Stage, Stages

LEMMA MovedState ==
  ASSUME NEW h \in GetState, NEW to \in GetPcs
  PROVE  LET x == [h EXCEPT !.pc = to]
         IN  /\ x \in GetState
             /\ x.pc = to /\ x.status = h.status /\ x.code = h.code /\ x.at = h.at
             /\ x.url_id = h.url_id /\ x.url = h.url /\ x.x_cache = h.x_cache
             /\ x.end = h.end
  BY DEF GetState

\* The fields of a committed row.
LEMMA RowFields ==
  ASSUME ServiceInv, NEW row \in urls
  PROVE  /\ row \in Row /\ row.id \in Ids /\ row.long_url \in LongUrls
         /\ row.short_code \in Codes /\ row.short_code # Null
  <1>1. row \in Row /\ row.short_code = Encode(row.id)
    BY DEF ServiceInv, IInv, ShortenTypeOK, Table
  <1>2. row.id \in Ids /\ row.long_url \in LongUrls
    BY <1>1 DEF Row
  <1>3. row.short_code \in Codes
    BY <1>1, <1>2 DEF Codes
  <1> QED BY <1>1, <1>2, <1>3, NullAssumption

\* A code has one row at most, in any spelling.
LEMMA RowOfCode ==
  ASSUME Table, NEW code, NEW other, SameCode(code, other),
         NEW r \in RowsByShortCode(code), NEW s \in RowsByShortCode(other)
  PROVE  r = s
  BY DEF Table, RowsByShortCode, SameCode

\* Ids are handed out once.
LEMMA RowById ==
  ASSUME ServiceInv, NEW r \in urls, NEW s \in urls, r.id = s.id
  PROVE  r = s
  BY DEF ServiceInv, IInv, Table, SameCode

LEMMA OneGet ==
  ASSUME ServiceInv, NEW g \in Gets
  PROVE  get[g] \in GetState /\ Knows(get[g])
  BY DEF ServiceInv, RedirectTypeOK

\* A request that has something to count by has come in.
LEMMA CountersAreBusy ==
  ASSUME \A g \in Gets : Knows(get[g]), NEW id \in Ids
  PROVE  Past(id) \subseteq Busy /\ Reached(id) \subseteq Busy
  <1>1. id # Null
    BY NullAssumption
  <1>2. ASSUME NEW g \in Gets, get[g].pc = "idle"
        PROVE  get[g].url_id = Null
    BY <1>2 DEF Knows
  <1> QED BY <1>1, <1>2 DEF Past, Reached, Busy

\* A table, and POST handlers, that stay as they are keep the invariant of
\* POST /shorten, whatever becomes of the cache and the clock.
LEMMA PostsStay ==
  ASSUME IInv, UNCHANGED <<urls, next_id, post>>,
         cache' \in [Codes -> OrNull(Entry)], now' \in 0..MaxTime
  PROVE  IInv'
  BY DEF IInv, ShortenTypeOK, Table, Sound, Apart, Writing, HoldsUrl, Creator

\* One handler of the redirect moves; what its new state must be is up to the
\* action.
LEMMA GetMove ==
  ASSUME ServiceInv, NEW g \in Gets, NEW x \in GetState,
         get' = [get EXCEPT ![g] = x],
         UNCHANGED <<urls, next_id, now, post>>,
         cache' \in [Codes -> OrNull(Entry)], CacheMatchesTable',
         clicks' \in [Ids -> Nat], events' \subseteq Event,
         Knows(x), Published', Counts'
  PROVE  ServiceInv'
  <1>1. IInv'
    BY PostsStay DEF ServiceInv, IInv, ShortenTypeOK
  <1>2. RedirectTypeOK'
    BY DEF ServiceInv, RedirectTypeOK
  <1>3. \A q \in Gets : Knows(get'[q])
    BY DEF ServiceInv, RedirectTypeOK
  <1>4. (\A q \in Gets : Knows(get[q]))'
    BY <1>3 DEF Knows, Serving, RowsByShortCode
  <1> QED BY <1>1, <1>2, <1>4 DEF ServiceInv

\* The handlers that have come in stay finitely many.
LEMMA BusyMove ==
  ASSUME ServiceInv, NEW g \in Gets, NEW x \in GetState,
         get' = [get EXCEPT ![g] = x]
  PROVE  IsFiniteSet(Busy')
  <1>1. Busy' \subseteq Busy \cup {g}
    BY DEF Busy, ServiceInv, RedirectTypeOK
  <1>2. IsFiniteSet(Busy \cup {g})
    BY FS_AddElement DEF ServiceInv, Counts, ClicksCountRedirects
  <1> QED BY <1>1, <1>2, FS_Subset

\* A handler moves that neither counts nor publishes, and keeps what it shows
\* of the click it has counted.
LEMMA QuietMove ==
  ASSUME ServiceInv, NEW g \in Gets, NEW x \in GetState,
         get' = [get EXCEPT ![g] = x],
         UNCHANGED <<urls, next_id, now, post, clicks, events>>,
         cache' \in [Codes -> OrNull(Entry)], CacheMatchesTable',
         Knows(x),
         PastCount(x) => PastCount(get[g]) /\ x.url_id = get[g].url_id,
         HasEvent(g) => /\ x.url_id = get[g].url_id /\ x.url = get[g].url
                        /\ Announced(x),
         ReachedCount(get[g]) => ReachedCount(x) /\ x.url_id = get[g].url_id
  PROVE  ServiceInv'
  <1>1. /\ get'[g] = x
        /\ \A q \in Gets : q # g => get'[q] = get[q]
    BY DEF ServiceInv, RedirectTypeOK
  <1>2. Published'
    <2> SUFFICES ASSUME NEW e \in events
                 PROVE  /\ Announced(get'[e.click])
                        /\ e.long_url = get'[e.click].url
                        /\ get'[e.click].url_id # Null
                        /\ \A f \in events : e.click = f.click => e = f
      BY DEF Published, Announced
    <2>1. e.click \in Gets
      BY DEF ServiceInv, RedirectTypeOK, Event
    <2>2. CASE e.click = g
      BY <1>1, <2>2 DEF ServiceInv, Published, HasEvent
    <2>3. CASE e.click # g
      BY <1>1, <2>1, <2>3 DEF ServiceInv, Published
    <2> QED BY <2>2, <2>3
  <1>3. Counts'
    <2>1. IsFiniteSet(Busy')
      BY BusyMove
    <2>2. ASSUME NEW id \in Ids
          PROVE  /\ Cardinality(Past(id)') <= clicks[id]
                 /\ clicks[id] <= Cardinality(Reached(id)')
      <3>1. Past(id)' \subseteq Past(id)
        BY <1>1 DEF Past, PastCount
      <3>2. Reached(id) \subseteq Reached(id)'
        BY <1>1 DEF Reached, ReachedCount, PastCount
      <3>3. Reached(id)' \subseteq Busy'
        <4> SUFFICES ASSUME NEW q \in Reached(id)', get'[q].pc = "idle" PROVE FALSE
          BY DEF Reached, Busy
        <4>1. get'[q].url_id = id /\ id # Null
          BY NullAssumption DEF Reached
        <4>2. Knows(get'[q])
          BY <1>1 DEF Reached, ServiceInv
        <4> QED BY <4>1, <4>2 DEF Knows
      <3>4. IsFiniteSet(Past(id)) /\ IsFiniteSet(Reached(id)')
        BY <2>1, <3>3, CountersAreBusy, FS_Subset DEF ServiceInv, Counts
      <3>5. /\ Cardinality(Past(id)') <= Cardinality(Past(id))
            /\ Cardinality(Reached(id)) <= Cardinality(Reached(id)')
        BY <3>1, <3>2, <3>4, FS_Subset
      <3>6. /\ Cardinality(Past(id)) \in Nat /\ Cardinality(Past(id)') \in Nat
            /\ Cardinality(Reached(id)) \in Nat
            /\ Cardinality(Reached(id)') \in Nat
        BY <3>1, <3>2, <3>4, FS_Subset, FS_CardinalityType
      <3>7. clicks[id] \in Nat
        BY DEF ServiceInv, RedirectTypeOK
      <3> QED BY <3>5, <3>6, <3>7 DEF ServiceInv, Counts, ClicksCountRedirects
    <2> QED BY <2>1, <2>2 DEF Counts, ClicksCountRedirects
  <1> QED BY <1>2, <1>3, GetMove DEF ServiceInv, RedirectTypeOK

\* A finite set grows by one element at most.
LEMMA OneMore ==
  ASSUME NEW S, IsFiniteSet(S), NEW e, NEW T, T \subseteq S \cup {e}
  PROVE  Cardinality(T) \in 0..(Cardinality(S) + 1)
  <1>1. IsFiniteSet(S \cup {e})
    BY FS_AddElement
  <1>2. Cardinality(S \cup {e}) <= Cardinality(S) + 1
    <2>1. Cardinality(S) \in Nat
      BY FS_CardinalityType
    <2>2. CASE e \in S
      BY <2>1, <2>2, FS_AddElement
    <2>3. CASE e \notin S
      BY <2>1, <2>3, FS_AddElement
    <2> QED BY <2>2, <2>3
  <1>3. IsFiniteSet(T) /\ Cardinality(T) <= Cardinality(S \cup {e})
    BY <1>1, FS_Subset
  <1>4. Cardinality(T) \in Nat /\ Cardinality(S) \in Nat /\ Cardinality(S \cup {e}) \in Nat
    BY <1>1, <1>3, FS_CardinalityType
  <1> QED BY <1>2, <1>3, <1>4

\* A handler counts the click: the counter of its row goes up by one, and so
\* does what is known of the row's handlers.
LEMMA CountMove ==
  ASSUME ServiceInv, NEW g \in Gets, NEW x \in GetState,
         get' = [get EXCEPT ![g] = x],
         UNCHANGED <<urls, next_id, now, post, cache, events>>,
         get[g].pc = "count",
         clicks' = [clicks EXCEPT ![get[g].url_id] = @ + 1],
         Knows(x), x.url_id = get[g].url_id,
         ReachedCount(x)
  PROVE  ServiceInv'
  <1> DEFINE k == get[g].url_id
  <1>1. /\ get'[g] = x
        /\ \A q \in Gets : q # g => get'[q] = get[q]
    BY DEF ServiceInv, RedirectTypeOK
  <1>2. get[g] \in GetState /\ Knows(get[g])
    BY OneGet
  <1>3. k \in Ids
    BY <1>2 DEF Knows, Serving, GetState, OrNull
  <1>4. ~HasEvent(g)
    BY <1>2 DEF ServiceInv, Published, HasEvent, Announced, Knows
  <1>5. clicks' \in [Ids -> Nat]
    BY <1>3 DEF ServiceInv, RedirectTypeOK
  <1>6. Published'
    <2> SUFFICES ASSUME NEW e \in events
                 PROVE  /\ Announced(get'[e.click])
                        /\ e.long_url = get'[e.click].url
                        /\ get'[e.click].url_id # Null
                        /\ \A f \in events : e.click = f.click => e = f
      BY DEF Published, Announced
    <2>1. e.click \in Gets /\ e.click # g
      BY <1>4 DEF ServiceInv, RedirectTypeOK, Event, HasEvent
    <2> QED BY <1>1, <2>1 DEF ServiceInv, Published
  <1>7. Counts'
    <2>1. IsFiniteSet(Busy')
      BY BusyMove
    <2>2. ASSUME NEW id \in Ids, id # k
          PROVE  /\ Cardinality(Past(id)') <= clicks'[id]
                 /\ clicks'[id] <= Cardinality(Reached(id)')
      <3>1. Past(id)' = Past(id) /\ Reached(id)' = Reached(id)
        BY <1>1, <2>2 DEF Past, Reached, PastCount, ReachedCount
      <3>2. clicks'[id] = clicks[id]
        BY <2>2 DEF ServiceInv, RedirectTypeOK
      <3> QED BY <3>1, <3>2 DEF ServiceInv, Counts, ClicksCountRedirects
    <2>3. ASSUME NEW id \in Ids, id = k
          PROVE  /\ Cardinality(Past(id)') <= clicks'[id]
                 /\ clicks'[id] <= Cardinality(Reached(id)')
      <3>1. Past(id)' \subseteq Past(id) \cup {g}
        BY <1>1, <2>3 DEF Past, PastCount
      <3>2. Reached(id)' = Reached(id) \cup {g} /\ g \notin Reached(id)
        BY <1>1, <1>2, <2>3 DEF Reached, ReachedCount, PastCount, Knows
      <3>3. IsFiniteSet(Past(id)) /\ IsFiniteSet(Reached(id))
        BY CountersAreBusy, FS_Subset DEF ServiceInv, Counts
      <3>4. Cardinality(Past(id)) \in Nat /\ Cardinality(Reached(id)) \in Nat
        BY <3>3, FS_CardinalityType
      <3>5. Cardinality(Past(id)') \in 0..(Cardinality(Past(id)) + 1)
        BY <3>1, <3>3, OneMore
      <3>6. Cardinality(Reached(id)') = Cardinality(Reached(id)) + 1
        BY <3>2, <3>3, FS_AddElement
      <3>7. clicks[id] \in Nat /\ clicks'[id] = clicks[id] + 1
        BY <2>3 DEF ServiceInv, RedirectTypeOK
      <3>8. /\ Cardinality(Past(id)) <= clicks[id]
            /\ clicks[id] <= Cardinality(Reached(id))
        BY DEF ServiceInv, Counts, ClicksCountRedirects
      <3> QED BY <3>4, <3>5, <3>6, <3>7, <3>8
    <2> QED BY <2>1, <2>2, <2>3 DEF Counts, ClicksCountRedirects
  <1>8. cache' \in [Codes -> OrNull(Entry)] /\ CacheMatchesTable'
    BY DEF ServiceInv, IInv, ShortenTypeOK, CacheMatchesTable, RowsByShortCode
  <1> QED BY <1>5, <1>6, <1>7, <1>8, GetMove DEF ServiceInv, RedirectTypeOK

\* A handler that has counted its click publishes it.
LEMMA EventMove ==
  ASSUME ServiceInv, NEW g \in Gets, NEW x \in GetState, NEW e \in Event,
         get' = [get EXCEPT ![g] = x],
         UNCHANGED <<urls, next_id, now, post, cache, clicks>>,
         get[g].pc = "publish",
         e.click = g, e.long_url = x.url,
         events' = events \cup {e},
         Knows(x), x.url_id = get[g].url_id, x.pc = "reply", x.end = get[g].end
  PROVE  ServiceInv'
  <1>1. /\ get'[g] = x
        /\ \A q \in Gets : q # g => get'[q] = get[q]
    BY DEF ServiceInv, RedirectTypeOK
  <1>2. get[g] \in GetState /\ Knows(get[g])
    BY OneGet
  <1>3. ~HasEvent(g)
    BY <1>2 DEF ServiceInv, Published, HasEvent, Announced, Knows
  <1>4. Published'
    <2> SUFFICES ASSUME NEW d \in events'
                 PROVE  /\ Announced(get'[d.click])
                        /\ d.long_url = get'[d.click].url
                        /\ get'[d.click].url_id # Null
                        /\ \A f \in events' : d.click = f.click => d = f
      BY DEF Published, Announced
    <2>1. CASE d = e
      <3>1. Announced(x)
        BY DEF Announced
      <3>2. get'[d.click] = x
        BY <1>1, <2>1
      <3>3. \A f \in events' : f.click = g => f = e
        BY <1>3 DEF HasEvent
      <3>4. x.url_id # Null
        BY DEF Knows, Serving
      <3> QED BY <2>1, <3>1, <3>2, <3>3, <3>4
    <2>2. CASE d \in events
      <3>1. d.click \in Gets /\ d.click # g
        BY <1>3, <2>2 DEF ServiceInv, RedirectTypeOK, Event, HasEvent
      <3> QED BY <1>1, <2>2, <3>1 DEF ServiceInv, Published
    <2> QED BY <2>1, <2>2
  <1>5. Counts'
    <2>1. IsFiniteSet(Busy')
      BY BusyMove
    <2>2. ASSUME NEW id \in Ids
          PROVE  Past(id)' = Past(id) /\ Reached(id)' = Reached(id)
      BY <1>1, <1>2 DEF Past, Reached, PastCount, ReachedCount, Knows
    <2> QED BY <2>1, <2>2 DEF ServiceInv, Counts, ClicksCountRedirects
  <1>6. cache' \in [Codes -> OrNull(Entry)] /\ CacheMatchesTable'
    BY DEF ServiceInv, IInv, ShortenTypeOK, CacheMatchesTable, RowsByShortCode
  <1>7. events' \subseteq Event
    BY DEF ServiceInv, RedirectTypeOK
  <1> QED BY <1>4, <1>5, <1>6, <1>7, GetMove DEF ServiceInv, RedirectTypeOK
-----------------------------------------------------------------------------
(* The actions of the redirect.                                            *)

\* What the actions need of the cache they leave alone, and of the one they
\* write an entry or an absent key to.
LEMMA CacheStays ==
  ASSUME ServiceInv, UNCHANGED <<urls, cache>>
  PROVE  cache' \in [Codes -> OrNull(Entry)] /\ CacheMatchesTable'
  BY DEF ServiceInv, IInv, ShortenTypeOK, CacheMatchesTable, RowsByShortCode

LEMMA CacheWrite ==
  ASSUME ServiceInv, UNCHANGED urls, NEW code \in Codes, NEW entry \in OrNull(Entry),
         cache' = [cache EXCEPT ![code] = entry],
         entry # Null => \E row \in RowsByShortCode(code) :
                           row.id = entry.id /\ row.long_url = entry.url
  PROVE  cache' \in [Codes -> OrNull(Entry)] /\ CacheMatchesTable'
  <1>1. cache \in [Codes -> OrNull(Entry)]
    BY DEF ServiceInv, IInv, ShortenTypeOK
  <1>2. cache' \in [Codes -> OrNull(Entry)]
    BY <1>1
  <1>3. ASSUME NEW other \in Codes, cache'[other] # Null
        PROVE  \E row \in RowsByShortCode(other) :
                 row.id = cache'[other].id /\ row.long_url = cache'[other].url
    <2>1. CASE other = code
      BY <1>1, <1>3, <2>1
    <2>2. CASE other # code
      BY <1>1, <1>3, <2>2 DEF ServiceInv, CacheMatchesTable
    <2> QED BY <2>1, <2>2
  <1>4. CacheMatchesTable'
    BY <1>3 DEF CacheMatchesTable, RowsByShortCode
  <1> QED BY <1>2, <1>4

\* A handler that only moves on with what it has.
LEMMA GotoInv ==
  ASSUME ServiceInv, NEW g \in Gets, NEW to \in GetPcs,
         Goto(g, to), UNCHANGED <<urls, next_id, now, post, clicks, events>>,
         cache' \in [Codes -> OrNull(Entry)], CacheMatchesTable',
         \/ get[g].pc = "lookup" /\ to = "select"
         \/ get[g].pc = "setex" /\ to = "record"
         \/ get[g].pc = "record" /\ to = "count"
         \/ get[g].pc = "publish" /\ to = "reply"
  PROVE  ServiceInv'
  <1> DEFINE x == [get[g] EXCEPT !.pc = to]
  <1>1. get[g] \in GetState /\ Knows(get[g])
    BY OneGet
  <1>2. /\ x \in GetState
        /\ x.pc = to /\ x.status = get[g].status /\ x.code = get[g].code
        /\ x.at = get[g].at /\ x.url_id = get[g].url_id /\ x.url = get[g].url
        /\ x.x_cache = get[g].x_cache /\ x.end = get[g].end
    BY <1>1, MovedState
  <1>3. get' = [get EXCEPT ![g] = x]
    BY DEF Goto
  <1>4. ~HasEvent(g)
    BY <1>1 DEF HasEvent, ServiceInv, Published, Announced, Knows
  <1> HIDE DEF x
  <1>5. Serving(x) => Serving(get[g])
    BY <1>1, <1>2 DEF Serving, Knows
  <1>6. Knows(x)
    BY <1>1, <1>2, <1>5 DEF Knows
  <1>7. /\ PastCount(x) => PastCount(get[g])
        /\ ReachedCount(get[g]) => ReachedCount(x)
    BY <1>1, <1>2 DEF Knows, PastCount, ReachedCount
  <1> QED BY <1>2, <1>3, <1>4, <1>6, <1>7, QuietMove

\* A handler that ends, with an answer or in a crash, keeps how far it had got
\* with its click.
LEMMA StageOf ==
  ASSUME ServiceInv, NEW g \in Gets, get[g].pc \notin {"idle", "done", "crashed"},
         NEW x, x.pc \in {"done", "crashed"}, x.end = Stage(get[g].pc)
  PROVE  /\ PastCount(x) <=> PastCount(get[g])
         /\ ReachedCount(x) <=> ReachedCount(get[g]) \/ get[g].pc = "count"
         /\ get[g].pc = "reply" => x.end = "past"
  <1>1. get[g].end = "before"
    BY OneGet DEF Knows
  <1> QED BY <1>1 DEF PastCount, ReachedCount, Stage

LEMMA EndInv ==
  ASSUME ServiceInv, NEW g \in Gets,
         NEW to \in {"done", "crashed"}, NEW status \in GetStatuses,
         End(g, to, status), UNCHANGED <<urls, next_id, now, post, clicks, events>>,
         cache' \in [Codes -> OrNull(Entry)], CacheMatchesTable',
         get[g].pc \notin {"idle", "done", "crashed"},
         status = 307 => get[g].pc = "reply",
         to = "crashed" => status = 0,
         to = "done" /\ get[g].pc = "reply" => status = 307
  PROVE  ServiceInv'
  <1> DEFINE stage == Stage(get[g].pc)
             x == [get[g] EXCEPT !.pc = to, !.status = status, !.end = stage]
  <1>1. get[g] \in GetState /\ Knows(get[g])
    BY OneGet
  <1>2. get' = [get EXCEPT ![g] = x]
    BY DEF End
  <1>3. stage \in Stages /\ stage = Stage(get[g].pc)
    BY StageType
  <1> HIDE DEF stage
  <1>4. /\ x \in GetState
        /\ x.pc = to /\ x.status = status /\ x.code = get[g].code
        /\ x.at = get[g].at /\ x.url_id = get[g].url_id /\ x.url = get[g].url
        /\ x.x_cache = get[g].x_cache /\ x.end = stage
    <2>1. to \in GetPcs
      BY DEF GetPcs
    <2> QED BY <1>1, <1>3, <2>1, GetStateSets
  <1>5. HasEvent(g) => get[g].pc = "reply"
    BY <1>1 DEF HasEvent, ServiceInv, Published, Announced, Knows
  <1> HIDE DEF x
  <1>6. /\ PastCount(x) <=> PastCount(get[g])
        /\ ReachedCount(x) <=> ReachedCount(get[g]) \/ get[g].pc = "count"
        /\ get[g].pc = "reply" => x.end = "past"
    BY <1>3, <1>4, StageOf
  <1>7. Serving(x) => Serving(get[g])
    BY <1>1, <1>4 DEF Serving, Knows
  <1>8. Knows(x)
    BY <1>1, <1>4, <1>6, <1>7 DEF Knows
  <1>9. HasEvent(g) => Announced(x)
    BY <1>4, <1>5, <1>6 DEF Announced
  <1> QED BY <1>2, <1>4, <1>6, <1>8, <1>9, QuietMove

LEMMA AnswerInv ==
  ASSUME ServiceInv, NEW g \in Gets, NEW status \in {307, 404, 410, 500},
         Answer(g, status), UNCHANGED <<urls, next_id, now, post, clicks, events>>,
         cache' \in [Codes -> OrNull(Entry)], CacheMatchesTable',
         get[g].pc \notin {"idle", "done", "crashed"},
         status = 307 <=> get[g].pc = "reply"
  PROVE  ServiceInv'
  <1>1. status \in GetStatuses /\ End(g, "done", status)
    BY DEF GetStatuses, Answer
  <1> QED BY <1>1, EndInv

\* A handler that goes on with a row of its code.
LEMMA FoundInv ==
  ASSUME ServiceInv, NEW g \in Gets, NEW to \in GetPcs, NEW x_cache \in {"HIT", "MISS"},
         NEW row \in RowsByShortCode(get[g].code),
         Found(g, to, x_cache, row.id, row.long_url),
         UNCHANGED <<urls, next_id, now, post, cache, clicks, events>>,
         \/ get[g].pc = "lookup" /\ to = "record" /\ x_cache = "HIT"
         \/ get[g].pc = "select" /\ to = "evict"
         \/ /\ get[g].pc = "select" /\ to = "setex"
            /\ row.expires_at = Null \/ row.expires_at >= now
         \/ /\ get[g].pc = "reload" /\ to = "publish"
            /\ get[g].url_id = row.id /\ get[g].x_cache = x_cache
  PROVE  ServiceInv'
  <1> DEFINE x == [get[g] EXCEPT !.pc = to, !.x_cache = x_cache,
                                 !.url_id = row.id, !.url = row.long_url]
  <1>1. get[g] \in GetState /\ Knows(get[g])
    BY OneGet
  <1>2. row \in urls /\ row.id \in Ids /\ row.long_url \in LongUrls
    BY RowFields DEF RowsByShortCode
  <1>3. /\ x \in GetState
        /\ x.pc = to /\ x.status = get[g].status /\ x.code = get[g].code
        /\ x.at = get[g].at /\ x.url_id = row.id /\ x.url = row.long_url
        /\ x.x_cache = x_cache /\ x.end = get[g].end
    <2>1. /\ x_cache \in XCaches /\ row.id \in OrNull(Ids)
          /\ row.long_url \in OrNull(LongUrls)
      BY <1>2 DEF XCaches, OrNull
    <2> QED BY <1>1, <2>1, GetStateSets
  <1>4. get' = [get EXCEPT ![g] = x]
    BY DEF Found
  <1>5. ~HasEvent(g)
    BY <1>1 DEF HasEvent, ServiceInv, Published, Announced, Knows
  <1>6. row.id # Null
    BY <1>2, NullAssumption
  <1>7. \A r \in RowsByShortCode(get[g].code) : r = row
    BY RowOfCode DEF ServiceInv, IInv, SameCode
  <1> HIDE DEF x
  <1>8. get[g].at <= now /\ get[g].at \in Nat /\ now \in Nat
    BY <1>1 DEF Knows, GetState, ServiceInv, IInv, ShortenTypeOK
  <1>9. to = "setex" => \A r \in RowsByShortCode(get[g].code) :
                          r.expires_at = Null \/ r.expires_at >= get[g].at
    <2> SUFFICES ASSUME to = "setex", row.expires_at # Null
                 PROVE  row.expires_at >= get[g].at
      BY <1>7
    <2>1. row.expires_at \in Nat
      BY <1>2, StoreAssumption DEF ServiceInv, IInv, ShortenTypeOK, Row, OrNull
    <2> QED BY <1>8, <2>1
  <1>10. Knows(x)
    BY <1>1, <1>3, <1>6, <1>7, <1>9 DEF Knows, Serving
  <1>11. /\ PastCount(x) => PastCount(get[g]) /\ x.url_id = get[g].url_id
         /\ ReachedCount(get[g]) => ReachedCount(x) /\ x.url_id = get[g].url_id
    BY <1>1, <1>3 DEF Knows, PastCount, ReachedCount
  <1>12. cache' \in [Codes -> OrNull(Entry)] /\ CacheMatchesTable'
    BY CacheStays
  <1> QED BY <1>3, <1>4, <1>5, <1>10, <1>11, <1>12, QuietMove

LEMMA ReceiveGetInv ==
  ASSUME ServiceInv, NEW g \in Gets, ReceiveGet(g), UNCHANGED <<now, post>>
  PROVE  ServiceInv'
  <1>1. get[g] \in GetState /\ Knows(get[g]) /\ get[g].pc = "idle"
    BY OneGet DEF ReceiveGet
  <1>2. PICK code \in Codes :
          get' = [get EXCEPT ![g] = [@ EXCEPT !.pc = "lookup", !.code = code, !.at = now]]
    BY DEF ReceiveGet
  <1> DEFINE x == [get[g] EXCEPT !.pc = "lookup", !.code = code, !.at = now]
  <1>3. now \in Nat
    BY CacheAssumption DEF ServiceInv, IInv, ShortenTypeOK
  <1>4. /\ x \in GetState
        /\ x.pc = "lookup" /\ x.status = get[g].status /\ x.code = code /\ x.at = now
        /\ x.url_id = get[g].url_id /\ x.url = get[g].url
        /\ x.x_cache = get[g].x_cache /\ x.end = get[g].end
    <2>1. "lookup" \in GetPcs /\ code \in OrNull(Codes)
      BY DEF GetPcs, OrNull
    <2> QED BY <1>1, <1>3, <2>1, GetStateSets
  <1>5. get' = [get EXCEPT ![g] = x]
    BY <1>2
  <1>6. ~HasEvent(g)
    BY <1>1 DEF HasEvent, ServiceInv, Published, Announced, Knows
  <1> HIDE DEF x
  <1>7. Knows(x)
    BY <1>1, <1>3, <1>4 DEF Knows, Serving
  <1>8. ~PastCount(x) /\ ~ReachedCount(get[g])
    BY <1>1, <1>4 DEF Knows, PastCount, ReachedCount
  <1>9. UNCHANGED <<urls, next_id, now, post, clicks, events, cache>>
    BY DEF ReceiveGet, mysqlVars
  <1>10. cache' \in [Codes -> OrNull(Entry)] /\ CacheMatchesTable'
    BY <1>9, CacheStays
  <1> QED BY <1>4, <1>5, <1>6, <1>7, <1>8, <1>9, <1>10, QuietMove

LEMMA LookupCacheInv ==
  ASSUME ServiceInv, NEW g \in Gets, LookupCache(g), UNCHANGED <<now, post>>
  PROVE  ServiceInv'
  <1>1. UNCHANGED <<urls, next_id, now, post, clicks, events, cache>>
    BY DEF LookupCache, mysqlVars
  <1>2. cache' \in [Codes -> OrNull(Entry)] /\ CacheMatchesTable'
    BY <1>1, CacheStays
  <1>3. get[g].pc = "lookup" /\ get[g].code \in Codes
    BY OneGet DEF LookupCache, Knows
  <1>4. CASE /\ Live(get[g].code)
             /\ Found(g, "record", "HIT", cache[get[g].code].id, cache[get[g].code].url)
    <2>1. PICK row \in RowsByShortCode(get[g].code) :
            row.id = cache[get[g].code].id /\ row.long_url = cache[get[g].code].url
      BY <1>3, <1>4 DEF ServiceInv, CacheMatchesTable, Live
    <2>2. "record" \in GetPcs /\ Found(g, "record", "HIT", row.id, row.long_url)
      BY <1>4, <2>1 DEF GetPcs
    <2> QED BY <1>1, <1>3, <2>1, <2>2, FoundInv
  <1>5. CASE Goto(g, "select")
    <2>1. "select" \in GetPcs
      BY DEF GetPcs
    <2> QED BY <1>1, <1>2, <1>3, <1>5, <2>1, GotoInv
  <1> QED BY <1>4, <1>5 DEF LookupCache

LEMMA SelectRowInv ==
  ASSUME ServiceInv, NEW g \in Gets, SelectRow(g), UNCHANGED <<now, post>>
  PROVE  ServiceInv'
  <1>1. UNCHANGED <<urls, next_id, now, post, clicks, events, cache>>
    BY DEF SelectRow, mysqlVars
  <1>2. cache' \in [Codes -> OrNull(Entry)] /\ CacheMatchesTable'
    BY <1>1, CacheStays
  <1>3. get[g].pc = "select"
    BY DEF SelectRow
  <1>4. CASE Answer(g, 404)
    BY <1>1, <1>2, <1>3, <1>4, AnswerInv
  <1>5. ASSUME NEW row \in RowsByShortCode(get[g].code),
               LET expired == row.expires_at # Null /\ row.expires_at < now
               IN  Found(g, IF expired THEN "evict" ELSE "setex", "MISS",
                         row.id, row.long_url)
        PROVE  ServiceInv'
    <2> DEFINE expired == row.expires_at # Null /\ row.expires_at < now
    <2>1. "evict" \in GetPcs /\ "setex" \in GetPcs
      BY DEF GetPcs
    <2>2. CASE expired
      BY <1>1, <1>3, <1>5, <2>1, <2>2, FoundInv
    <2>3. CASE ~expired
      <3>1. row.expires_at = Null \/ row.expires_at >= now
        <4>1. row \in Row
          BY DEF ServiceInv, IInv, ShortenTypeOK, RowsByShortCode
        <4>2. row.expires_at # Null => row.expires_at \in Nat
          BY <4>1, StoreAssumption DEF Row, OrNull
        <4>3. now \in Nat
          BY CacheAssumption DEF ServiceInv, IInv, ShortenTypeOK
        <4> QED BY <2>3, <4>2, <4>3
      <3>2. Found(g, "setex", "MISS", row.id, row.long_url)
        BY <1>5, <2>3
      <3> QED BY <1>1, <1>3, <2>1, <3>1, <3>2, FoundInv
    <2> QED BY <2>2, <2>3
  <1> QED BY <1>4, <1>5 DEF SelectRow

LEMMA EvictExpiredInv ==
  ASSUME ServiceInv, NEW g \in Gets, EvictExpired(g), UNCHANGED <<now, post>>
  PROVE  ServiceInv'
  <1>1. UNCHANGED <<urls, next_id, now, post, clicks, events>>
    BY DEF EvictExpired, mysqlVars
  <1>2. get[g].pc = "evict" /\ get[g].code \in Codes
    BY OneGet DEF EvictExpired, Knows
  <1>3. cache' \in [Codes -> OrNull(Entry)] /\ CacheMatchesTable'
    <2>1. CASE cache' = [cache EXCEPT ![get[g].code] = Null]
      <3>1. Null \in OrNull(Entry)
        BY DEF OrNull
      <3> QED BY <1>1, <1>2, <2>1, <3>1, CacheWrite
    <2>2. CASE UNCHANGED cache
      BY <1>1, <2>2, CacheStays
    <2> QED BY <2>1, <2>2 DEF EvictExpired, DeleteCachedUrl
  <1>4. Answer(g, 410)
    BY DEF EvictExpired
  <1> QED BY <1>1, <1>2, <1>3, <1>4, AnswerInv

LEMMA PopulateCacheInv ==
  ASSUME ServiceInv, NEW g \in Gets, PopulateCache(g), UNCHANGED <<now, post>>
  PROVE  ServiceInv'
  <1>1. UNCHANGED <<urls, next_id, now, post, clicks, events>>
    BY DEF PopulateCache, mysqlVars
  <1>2. get[g].pc = "setex" /\ get[g].code \in Codes /\ "record" \in GetPcs
    BY OneGet DEF PopulateCache, Knows, GetPcs
  <1> DEFINE entry == [id |-> get[g].url_id, url |-> get[g].url, deadline |-> now + TTL]
  <1>3. PICK row \in RowsByShortCode(get[g].code) :
          row.id = get[g].url_id /\ row.long_url = get[g].url
    BY <1>2, OneGet DEF Knows, Serving
  <1>4. now + TTL \in Nat
    BY CacheAssumption DEF ServiceInv, IInv, ShortenTypeOK
  <1>5. entry \in OrNull(Entry)
    BY <1>3, <1>4, RowFields DEF Entry, OrNull, RowsByShortCode
  <1>6. cache' \in [Codes -> OrNull(Entry)] /\ CacheMatchesTable'
    <2>1. entry.id = row.id /\ entry.url = row.long_url
      BY <1>3
    <2>2. cache' = [cache EXCEPT ![get[g].code] = entry] \/ UNCHANGED cache
      BY DEF PopulateCache, SetCachedUrl, SetEx
    <2> HIDE DEF entry
    <2>3. CASE cache' = [cache EXCEPT ![get[g].code] = entry]
      BY <1>1, <1>2, <1>3, <1>5, <2>1, <2>3, CacheWrite
    <2>4. CASE UNCHANGED cache
      BY <1>1, <2>4, CacheStays
    <2> QED BY <2>2, <2>3, <2>4
  <1>7. Goto(g, "record")
    BY DEF PopulateCache
  <1> QED BY <1>1, <1>2, <1>6, <1>7, GotoInv

LEMMA RecordLatencyInv ==
  ASSUME ServiceInv, NEW g \in Gets, RecordLatency(g), UNCHANGED <<now, post>>
  PROVE  ServiceInv'
  <1>1. UNCHANGED <<urls, next_id, now, post, clicks, events, cache>>
    BY DEF RecordLatency, mysqlVars
  <1>2. get[g].pc = "record" /\ Goto(g, "count") /\ "count" \in GetPcs
    BY DEF RecordLatency, GetPcs
  <1> QED BY <1>1, <1>2, CacheStays, GotoInv

LEMMA CountClickInv ==
  ASSUME ServiceInv, NEW g \in Gets, CountClick(g), UNCHANGED <<now, post>>
  PROVE  ServiceInv'
  <1> DEFINE to == IF get[g].x_cache = "HIT" THEN "publish" ELSE "reload"
             x  == [get[g] EXCEPT !.pc = to]
  <1>1. get[g] \in GetState /\ Knows(get[g]) /\ get[g].pc = "count"
    BY OneGet DEF CountClick
  <1>2. to \in GetPcs /\ to \in {"publish", "reload"}
    BY DEF GetPcs
  <1>3. get[g].x_cache # "HIT" => get[g].x_cache = "MISS"
    BY <1>1 DEF GetState
  <1>4. to = "reload" => get[g].x_cache = "MISS"
    BY <1>3
  <1>5. get' = [get EXCEPT ![g] = x]
    BY DEF CountClick, Goto
  <1> HIDE DEF to
  <1>6. /\ x \in GetState
        /\ x.pc = to /\ x.status = get[g].status /\ x.code = get[g].code
        /\ x.at = get[g].at /\ x.url_id = get[g].url_id /\ x.url = get[g].url
        /\ x.x_cache = get[g].x_cache /\ x.end = get[g].end
    BY <1>1, <1>2, MovedState
  <1> HIDE DEF x
  <1>7. Knows(x)
    BY <1>1, <1>2, <1>4, <1>6 DEF Knows, Serving
  <1>8. ReachedCount(x)
    BY <1>2, <1>6 DEF ReachedCount, PastCount
  <1>9. /\ UNCHANGED <<urls, next_id, now, post, cache, events>>
        /\ clicks' = [clicks EXCEPT ![get[g].url_id] = @ + 1]
    BY DEF CountClick
  <1> QED BY <1>1, <1>5, <1>6, <1>7, <1>8, <1>9, CountMove

LEMMA ReloadRowInv ==
  ASSUME ServiceInv, NEW g \in Gets, ReloadRow(g), UNCHANGED <<now, post>>
  PROVE  ServiceInv'
  <1>1. UNCHANGED <<urls, next_id, now, post, clicks, events, cache>>
    BY DEF ReloadRow, mysqlVars
  <1>2. get[g].pc = "reload" /\ get[g].x_cache = "MISS" /\ "publish" \in GetPcs
    BY OneGet DEF ReloadRow, Knows, GetPcs
  <1>3. PICK row \in urls : /\ row.id = get[g].url_id
                            /\ Found(g, "publish", "MISS", row.id, row.long_url)
    BY DEF ReloadRow
  <1>4. row \in RowsByShortCode(get[g].code)
    <2>1. PICK r \in RowsByShortCode(get[g].code) : r.id = get[g].url_id
      BY <1>2, OneGet DEF Knows, Serving
    <2>2. r = row
      BY <1>3, <2>1, RowById DEF RowsByShortCode
    <2> QED BY <2>1, <2>2
  <1> QED BY <1>1, <1>2, <1>3, <1>4, FoundInv

LEMMA PublishInv ==
  ASSUME ServiceInv, NEW g \in Gets, Publish(g), UNCHANGED <<now, post>>
  PROVE  ServiceInv'
  <1> DEFINE e == [click |-> g, short_code |-> get[g].code, long_url |-> get[g].url]
             x == [get[g] EXCEPT !.pc = "reply"]
  <1>1. UNCHANGED <<urls, next_id, now, post, clicks, cache>>
    BY DEF Publish, mysqlVars
  <1>2. /\ get[g].pc = "publish" /\ Goto(g, "reply") /\ "reply" \in GetPcs
        /\ get[g] \in GetState /\ Knows(get[g])
    BY OneGet DEF Publish, GetPcs
  <1>3. CASE UNCHANGED events
    BY <1>1, <1>2, <1>3, CacheStays, GotoInv
  <1>4. CASE events' = events \cup {e}
    <2>1. PICK row \in RowsByShortCode(get[g].code) : row.long_url = get[g].url
      BY <1>2 DEF Knows, Serving
    <2>2. e \in Event
      BY <1>2, <2>1, RowFields DEF Event, Knows, RowsByShortCode
    <2>3. /\ x \in GetState
          /\ x.pc = "reply" /\ x.status = get[g].status /\ x.code = get[g].code
          /\ x.at = get[g].at /\ x.url_id = get[g].url_id /\ x.url = get[g].url
          /\ x.x_cache = get[g].x_cache /\ x.end = get[g].end
      BY <1>2, MovedState
    <2>4. get' = [get EXCEPT ![g] = x]
      BY <1>2 DEF Goto
    <2>5. e.click = g /\ e.long_url = x.url
      BY <2>3
    <2> HIDE DEF e, x
    <2>6. Knows(x)
      BY <1>2, <2>3 DEF Knows, Serving
    <2> QED BY <1>1, <1>2, <1>4, <2>2, <2>3, <2>4, <2>5, <2>6, EventMove
  <1> QED BY <1>3, <1>4 DEF Publish

LEMMA RedirectClientInv ==
  ASSUME ServiceInv, NEW g \in Gets, RedirectClient(g), UNCHANGED <<now, post>>
  PROVE  ServiceInv'
  <1>1. UNCHANGED <<urls, next_id, now, post, clicks, events, cache>>
    BY DEF RedirectClient, mysqlVars
  <1>2. get[g].pc = "reply" /\ Answer(g, 307)
    BY DEF RedirectClient
  <1> QED BY <1>1, <1>2, CacheStays, AnswerInv

LEMMA PublishRaisesInv ==
  ASSUME ServiceInv, NEW g \in Gets, PublishRaises(g), UNCHANGED <<now, post>>
  PROVE  ServiceInv'
  <1>1. UNCHANGED <<urls, next_id, now, post, clicks, events, cache>>
    BY DEF PublishRaises, mysqlVars
  <1>2. get[g].pc = "publish" /\ Answer(g, 500)
    BY DEF PublishRaises
  <1> QED BY <1>1, <1>2, CacheStays, AnswerInv

LEMMA CrashGetInv ==
  ASSUME ServiceInv, NEW g \in Gets, CrashGet(g), UNCHANGED <<now, post>>
  PROVE  ServiceInv'
  <1>1. UNCHANGED <<urls, next_id, now, post, clicks, events, cache>>
    BY DEF CrashGet, mysqlVars
  <1>2. /\ get[g].pc \notin {"idle", "done", "crashed"} /\ End(g, "crashed", 0)
        /\ 0 \in GetStatuses
    BY DEF CrashGet, GetStatuses
  <1> QED BY <1>1, <1>2, CacheStays, EndInv

\* An UPDATE that fails, but whose COMMIT took effect all the same.
LEMMA CountedInVain ==
  ASSUME ServiceInv, NEW g \in Gets, NEW status \in {404, 410, 500},
         Answer(g, status),
         UNCHANGED <<urls, next_id, now, post, cache, events>>,
         get[g].pc = "count",
         clicks' = [clicks EXCEPT ![get[g].url_id] = @ + 1]
  PROVE  ServiceInv'
  <1> DEFINE stage == Stage(get[g].pc)
             x == [get[g] EXCEPT !.pc = "done", !.status = status, !.end = stage]
  <1>1. get[g] \in GetState /\ Knows(get[g])
    BY OneGet
  <1>2. get' = [get EXCEPT ![g] = x]
    BY DEF Answer, End
  <1>3. stage \in Stages /\ stage = Stage(get[g].pc)
    BY StageType
  <1> HIDE DEF stage
  <1>4. /\ x \in GetState
        /\ x.pc = "done" /\ x.status = status /\ x.code = get[g].code
        /\ x.at = get[g].at /\ x.url_id = get[g].url_id /\ x.url = get[g].url
        /\ x.x_cache = get[g].x_cache /\ x.end = stage
    <2>1. "done" \in GetPcs /\ status \in GetStatuses
      BY DEF GetPcs, GetStatuses
    <2> QED BY <1>1, <1>3, <2>1, GetStateSets
  <1> HIDE DEF x
  <1>5. Knows(x)
    BY <1>1, <1>4 DEF Knows, Serving
  <1>6. ReachedCount(x)
    BY <1>3, <1>4, StageOf
  <1> QED BY <1>2, <1>4, <1>5, <1>6, CountMove

LEMMA GetDbErrorInv ==
  ASSUME ServiceInv, NEW g \in Gets, GetDbError(g), UNCHANGED <<now, post>>
  PROVE  ServiceInv'
  <1>1. UNCHANGED <<urls, next_id, now, post, cache, events>>
    BY DEF GetDbError
  <1>2. get[g].pc \in {"select", "count", "reload"} /\ Answer(g, 500)
    BY DEF GetDbError
  <1>3. CASE UNCHANGED clicks
    BY <1>1, <1>2, <1>3, CacheStays, AnswerInv
  <1>4. CASE /\ get[g].pc = "count"
             /\ clicks' = [clicks EXCEPT ![get[g].url_id] = @ + 1]
    BY <1>1, <1>2, <1>4, CountedInVain
  <1> QED BY <1>3, <1>4 DEF GetDbError
-----------------------------------------------------------------------------
(* The steps of the others: POST requests, the clock and Redis.            *)

\* What a handler knows stays true while rows only come and time only passes,
\* since the row it has found stays the only one of its code.
LEMMA KnowsStays ==
  ASSUME ServiceInv, IInv', urls \subseteq urls', now <= now', UNCHANGED get
  PROVE  (\A g \in Gets : Knows(get[g]))'
  <1> SUFFICES ASSUME NEW g \in Gets
               PROVE  Knows(get[g])'
    OBVIOUS
  <1> DEFINE h == get[g]
  <1>1. get'[g] = h /\ Knows(h) /\ h \in GetState
    BY OneGet
  <1>2. RowsByShortCode(h.code) \subseteq RowsByShortCode(h.code)'
    BY <1>1 DEF RowsByShortCode
  <1>3. h.at <= now'
    BY <1>1, CacheAssumption
       DEF Knows, GetState, ServiceInv, IInv, ShortenTypeOK
  <1>4. ASSUME Serving(h)
        PROVE  RowsByShortCode(h.code)' = RowsByShortCode(h.code)
    <2>1. PICK row \in RowsByShortCode(h.code) : TRUE
      BY <1>1, <1>4 DEF Knows
    <2>2. ASSUME NEW r \in RowsByShortCode(h.code)' PROVE r = row
      <3>1. r \in urls' /\ Collate(r.short_code) = Collate(h.code)
        BY <1>1, <2>2 DEF RowsByShortCode
      <3>2. row \in urls' /\ Collate(row.short_code) = Collate(h.code)
        BY <2>1 DEF RowsByShortCode
      <3> QED BY <3>1, <3>2 DEF IInv, Table, SameCode
    <2> QED BY <1>2, <2>1, <2>2
  <1> QED BY <1>1, <1>2, <1>3, <1>4 DEF Knows, Serving

\* The redirect's own part of the invariant does not look at anything else.
LEMMA CountsStay ==
  ASSUME ServiceInv, UNCHANGED <<get, clicks, events>>
  PROVE  RedirectTypeOK' /\ Published' /\ Counts'
  <1>1. RedirectTypeOK' /\ Published'
    BY DEF ServiceInv, RedirectTypeOK, Published
  <1>2. Busy' = Busy
    BY DEF Busy
  <1>3. \A id \in Ids : Past(id)' = Past(id) /\ Reached(id)' = Reached(id)
    BY DEF Past, Reached
  <1>4. Counts'
    BY <1>2, <1>3 DEF ServiceInv, Counts, ClicksCountRedirects
  <1> QED BY <1>1, <1>4

LEMMA PostRequestInv ==
  ASSUME ServiceInv, NEW p \in Posts, PostRequest(p)
  PROVE  ServiceInv'
  <1>1. UNCHANGED <<now, get, clicks, events>>
    BY DEF PostRequest
  <1>2. [ShortenNext]_<<shortenVars, now>>
    BY DEF PostRequest, ShortenNext
  <1>3. IInv' /\ CacheMatchesTable'
    BY <1>2, NextIInv, CacheStep DEF ServiceInv
  <1>4. urls \subseteq urls'
    BY DEF PostRequest, PostStep, HandlePost, ReceivePost, SelectByHash,
           IssueInsert, FlushGranted, FlushDuplicate, UpdateShortCode, Commit,
           Refresh, CacheNew, Reply, DbError, Crash
  <1>5. now <= now'
    BY <1>1, CacheAssumption DEF ServiceInv, IInv, ShortenTypeOK
  <1>6. (\A g \in Gets : Knows(get[g]))'
    BY <1>1, <1>3, <1>4, <1>5, KnowsStays
  <1> QED BY <1>1, <1>3, <1>6, CountsStay DEF ServiceInv

LEMMA PassTimeInv ==
  ASSUME ServiceInv, PassTime
  PROVE  ServiceInv'
  <1>1. UNCHANGED <<urls, next_id, post, cache, get, clicks, events>>
    BY DEF PassTime, shortenVars, redirectVars
  <1>2. now' \in 0..MaxTime /\ now <= now'
    BY CacheAssumption DEF PassTime, Tick, ServiceInv, IInv, ShortenTypeOK
  <1>3. cache' \in [Codes -> OrNull(Entry)] /\ CacheMatchesTable'
    BY <1>1, CacheStays
  <1>4. IInv'
    BY <1>1, <1>2, <1>3, PostsStay DEF ServiceInv
  <1>5. (\A g \in Gets : Knows(get[g]))'
    BY <1>1, <1>2, <1>4, KnowsStays
  <1> QED BY <1>1, <1>3, <1>4, <1>5, CountsStay DEF ServiceInv

LEMMA RedisLosesKeyInv ==
  ASSUME ServiceInv, RedisLosesKey
  PROVE  ServiceInv'
  <1>1. UNCHANGED <<urls, next_id, now, post, get, clicks, events>>
    BY DEF RedisLosesKey
  <1>2. PICK code \in Codes : cache' = [cache EXCEPT ![code] = Null]
    BY DEF RedisLosesKey, LoseKey
  <1>3. cache' \in [Codes -> OrNull(Entry)] /\ CacheMatchesTable'
    <2>1. Null \in OrNull(Entry)
      BY DEF OrNull
    <2> QED BY <1>1, <1>2, <2>1, CacheWrite
  <1>4. now' \in 0..MaxTime /\ now <= now'
    BY <1>1, CacheAssumption DEF ServiceInv, IInv, ShortenTypeOK
  <1>5. IInv'
    BY <1>1, <1>3, <1>4, PostsStay DEF ServiceInv
  <1>6. (\A g \in Gets : Knows(get[g]))'
    BY <1>1, <1>4, <1>5, KnowsStays
  <1> QED BY <1>1, <1>3, <1>5, <1>6, CountsStay DEF ServiceInv

LEMMA ServiceStutterInv ==
  ASSUME ServiceInv, UNCHANGED serviceVars
  PROVE  ServiceInv'
  <1>1. UNCHANGED <<urls, next_id, now, post, cache, get, clicks, events>>
    BY DEF serviceVars
  <1>2. cache' \in [Codes -> OrNull(Entry)] /\ CacheMatchesTable'
    BY <1>1, CacheStays
  <1>3. now' \in 0..MaxTime /\ now <= now'
    BY <1>1, CacheAssumption DEF ServiceInv, IInv, ShortenTypeOK
  <1>4. IInv'
    BY <1>1, <1>2, <1>3, PostsStay DEF ServiceInv
  <1>5. (\A g \in Gets : Knows(get[g]))'
    BY <1>1, <1>3, <1>4, KnowsStays
  <1> QED BY <1>1, <1>2, <1>4, <1>5, CountsStay DEF ServiceInv

-----------------------------------------------------------------------------
LEMMA ServiceStart == Init => ServiceInv
  <1> SUFFICES ASSUME Init PROVE ServiceInv
    OBVIOUS
  <1> DEFINE idle == [pc |-> "idle", code |-> Null, x_cache |-> "MISS",
                      url_id |-> Null, url |-> Null, at |-> 0, status |-> 0,
                      end |-> "before"]
  <1>1. IInv /\ CacheMatchesTable
    BY InitIInv, CacheStart DEF Init
  <1>2. get = [g \in Gets |-> idle] /\ clicks = [id \in Ids |-> 0] /\ events = {}
    BY DEF Init, RedirectInit
  <1>3. idle \in GetState
    BY DEF GetState, GetPcs, OrNull
  <1>4. RedirectTypeOK
    BY <1>2, <1>3 DEF RedirectTypeOK
  <1>5. Knows(idle)
    BY CacheAssumption DEF Knows, Serving, Init, ShortenInit, CacheInit
  <1>6. Published
    BY <1>2 DEF Published
  <1>7. Counts
    <2>1. Busy = {}
      BY <1>2 DEF Busy
    <2>2. ASSUME NEW id \in Ids
          PROVE  Past(id) = {} /\ Reached(id) = {} /\ clicks[id] = 0
      BY <1>2, NullAssumption DEF Past, Reached
    <2> QED BY <2>1, <2>2, FS_EmptySet DEF Counts, ClicksCountRedirects
  <1> HIDE DEF idle
  <1> QED BY <1>1, <1>2, <1>4, <1>5, <1>6, <1>7 DEF ServiceInv

LEMMA ServiceNext == ServiceInv /\ [Next]_serviceVars => ServiceInv'
  <1> SUFFICES ASSUME ServiceInv, [Next]_serviceVars PROVE ServiceInv'
    OBVIOUS
  <1>1. ASSUME NEW p \in Posts, PostRequest(p) PROVE ServiceInv'
    BY <1>1, PostRequestInv
  <1>2. ASSUME NEW g \in Gets, GetStep(g), UNCHANGED <<now, post>> PROVE ServiceInv'
    <2>1. CASE ReceiveGet(g) BY <1>2, <2>1, ReceiveGetInv
    <2>2. CASE LookupCache(g) BY <1>2, <2>2, LookupCacheInv
    <2>3. CASE SelectRow(g) BY <1>2, <2>3, SelectRowInv
    <2>4. CASE EvictExpired(g) BY <1>2, <2>4, EvictExpiredInv
    <2>5. CASE PopulateCache(g) BY <1>2, <2>5, PopulateCacheInv
    <2>6. CASE RecordLatency(g) BY <1>2, <2>6, RecordLatencyInv
    <2>7. CASE CountClick(g) BY <1>2, <2>7, CountClickInv
    <2>8. CASE ReloadRow(g) BY <1>2, <2>8, ReloadRowInv
    <2>9. CASE Publish(g) BY <1>2, <2>9, PublishInv
    <2>10. CASE RedirectClient(g) BY <1>2, <2>10, RedirectClientInv
    <2>11. CASE GetDbError(g) BY <1>2, <2>11, GetDbErrorInv
    <2>12. CASE PublishRaises(g) BY <1>2, <2>12, PublishRaisesInv
    <2>13. CASE CrashGet(g) BY <1>2, <2>13, CrashGetInv
    <2> QED BY <1>2, <2>1, <2>2, <2>3, <2>4, <2>5, <2>6, <2>7, <2>8, <2>9,
               <2>10, <2>11, <2>12, <2>13 DEF GetStep, HandleGet
  <1>3. CASE PassTime
    BY <1>3, PassTimeInv
  <1>4. CASE RedisLosesKey
    BY <1>4, RedisLosesKeyInv
  <1>5. CASE AllAnswered \/ UNCHANGED serviceVars
    BY <1>5, ServiceStutterInv DEF AllAnswered
  <1> QED BY <1>1, <1>2, <1>3, <1>4, <1>5 DEF Next, GetRequest

\* The invariant holds throughout, however POST and GET requests, the clock,
\* a Redis that loses keys and failures interleave (url.py, redirect_url and
\* shorten_url; crud.py, increment_click_count; publisher.py).
THEOREM ServiceInvariant == Spec => []ServiceInv
  BY ServiceStart, ServiceNext, PTL DEF Spec
-----------------------------------------------------------------------------
\* Every variable of the service keeps its type (models.py, cache.py,
\* publisher.py: columns, cache entry and event), for all its handlers.
THEOREM ServiceTypeCorrect == Spec => []TypeOK
  <1>1. ServiceInv => TypeOK
    BY DEF ServiceInv, IInv, TypeOK
  <1> QED BY <1>1, ServiceInvariant, PTL

\* What Redis holds is what the table says, whoever fills it: POST under the
\* code of the row, GET under the spelling of its client (url.py, cache.py).
THEOREM ServiceCacheMatchesTable == Spec => []CacheMatchesTable
  <1>1. ServiceInv => CacheMatchesTable
    BY DEF ServiceInv
  <1> QED BY <1>1, ServiceInvariant, PTL

\* A redirect goes to the URL of the one row of its code, by whatever way the
\* handler came to it (url.py, redirect_url).
THEOREM RedirectsGoHome == Spec => []RedirectGoesHome
  <1>1. ServiceInv => RedirectGoesHome
    BY DEF ServiceInv, Knows, Serving, RedirectGoesHome, Redirected
  <1> QED BY <1>1, ServiceInvariant, PTL

\* A redirect that the table answered is to a URL that had not expired when
\* the request came in (url.py, redirect_url, the check after the SELECT).
THEOREM FreshReadsAreFresh == Spec => []FreshReadsHonourExpiry
  <1>1. ServiceInv => FreshReadsHonourExpiry
    BY DEF ServiceInv, Knows, Serving, FreshReadsHonourExpiry, Redirected
  <1> QED BY <1>1, ServiceInvariant, PTL

\* click_count is at least the number of requests whose UPDATE was answered,
\* whatever became of them later, and at most the number of requests that got
\* as far as the UPDATE: nothing that ended before it, no 404 and no 410, is
\* counted (crud.py, increment_click_count).
THEOREM ClicksAreCounted == Spec => []ClicksCountRedirects
  <1>1. ServiceInv => ClicksCountRedirects
    BY DEF ServiceInv, Counts
  <1> QED BY <1>1, ServiceInvariant, PTL

\* What the counter counts is finite, and bounds what a client has seen.
LEMMA SentAreCounted ==
  ASSUME ServiceInv, NEW id \in Ids,
         NEW sent, sent \subseteq Past(id)
  PROVE  /\ IsFiniteSet(sent) /\ Cardinality(sent) <= clicks[id]
  <1>1. IsFiniteSet(Past(id))
    BY CountersAreBusy, FS_Subset DEF ServiceInv, Counts
  <1>2. IsFiniteSet(sent) /\ Cardinality(sent) <= Cardinality(Past(id))
    BY <1>1, FS_Subset
  <1>3. /\ Cardinality(sent) \in Nat /\ Cardinality(Past(id)) \in Nat
        /\ clicks[id] \in Nat
    BY <1>1, <1>2, FS_CardinalityType DEF ServiceInv, RedirectTypeOK
  <1> QED BY <1>2, <1>3 DEF ServiceInv, Counts, ClicksCountRedirects

\* /stats of a code, in either spelling, tells of the URL every answered
\* redirect went to and of no fewer clicks (url.py, get_stats).
THEOREM StatsTellAll == Spec => []StatsTellOfEveryClick
  <1>1. ASSUME ServiceInv, NEW code \in Codes,
               NEW one \in {g \in Gets : Redirected(g) /\ SameCode(get[g].code, code)}
        PROVE  \E stats \in GetStats(code) :
                 /\ Cardinality({g \in Gets : Redirected(g) /\ SameCode(get[g].code, code)})
                      <= stats.click_count
                 /\ \A g \in {q \in Gets : Redirected(q) /\ SameCode(get[q].code, code)} :
                      get[g].url = stats.long_url
    <2> DEFINE sent == {g \in Gets : Redirected(g) /\ SameCode(get[g].code, code)}
    <2>1. PICK row \in RowsByShortCode(get[one].code) : TRUE
      BY <1>1 DEF ServiceInv, Knows, Serving, Redirected
    <2>2. row \in RowsByShortCode(code) /\ row \in urls /\ row.id \in Ids
      BY <1>1, <2>1, RowFields DEF RowsByShortCode, SameCode
    <2>3. ASSUME NEW g \in sent
          PROVE  get[g].url_id = row.id /\ get[g].url = row.long_url
      <3>1. PICK r \in RowsByShortCode(get[g].code) :
              r.id = get[g].url_id /\ r.long_url = get[g].url
        BY <1>1 DEF ServiceInv, Knows, Serving, Redirected
      <3>2. r = row
        BY <1>1, <2>2, <3>1, RowOfCode DEF ServiceInv, IInv
      <3> QED BY <3>1, <3>2
    <2>4. sent \subseteq Past(row.id)
      BY <1>1, <2>3 DEF Past, PastCount, Redirected, ServiceInv, Knows
    <2>5. Cardinality(sent) <= clicks[row.id]
      <3> HIDE DEF sent
      <3> QED BY <1>1, <2>2, <2>4, SentAreCounted
    <2> DEFINE stats == [short_code |-> row.short_code, long_url |-> row.long_url,
                         click_count |-> clicks[row.id], expires_at |-> row.expires_at]
    <2>6. stats \in GetStats(code)
      BY <2>2 DEF GetStats
    <2>7. stats.click_count = clicks[row.id] /\ stats.long_url = row.long_url
      OBVIOUS
    <2> HIDE DEF stats
    <2> QED BY <2>3, <2>5, <2>6, <2>7
  <1>2. ServiceInv => StatsTellOfEveryClick
    BY <1>1 DEF StatsTellOfEveryClick
  <1> QED BY <1>2, ServiceInvariant, PTL

\* An analytics event names the URL of a redirect that is being sent or was,
\* and there are never more of them than clicks (publisher.py, called after
\* increment_click_count).
THEOREM EventsOfRedirects == Spec => []EventsAreRedirects
  <1>1. ASSUME ServiceInv, NEW id \in Ids
        PROVE  Cardinality({e \in events : get[e.click].url_id = id}) <= clicks[id]
    <2> DEFINE ofId == {e \in events : get[e.click].url_id = id}
               f    == [e \in ofId |-> e.click]
    <2>1. ASSUME NEW e \in ofId PROVE e.click \in Past(id)
      BY <1>1 DEF Past, PastCount, Published, Announced, ServiceInv, RedirectTypeOK, Event
    <2>2. f \in Injection(ofId, Past(id))
      <3>1. \A e, d \in ofId : e.click = d.click => e = d
        BY <1>1 DEF ServiceInv, Published
      <3> HIDE DEF ofId
      <3>2. f \in [ofId -> Past(id)]
        BY <2>1
      <3>3. \A e, d \in ofId : f[e] = f[d] => e = d
        BY <3>1
      <3> QED BY <3>2, <3>3 DEF Injection, IsInjective
    <2> HIDE DEF ofId, f
    <2>3. IsFiniteSet(Past(id)) /\ Cardinality(Past(id)) <= clicks[id]
      BY <1>1, SentAreCounted
    <2>4. IsFiniteSet(ofId) /\ Cardinality(ofId) <= Cardinality(Past(id))
      BY <2>2, <2>3, FS_Injection
    <2>5. /\ Cardinality(ofId) \in Nat /\ Cardinality(Past(id)) \in Nat
          /\ clicks[id] \in Nat
      BY <1>1, <2>3, <2>4, FS_CardinalityType DEF ServiceInv, RedirectTypeOK
    <2>6. Cardinality(ofId) <= clicks[id]
      BY <2>3, <2>4, <2>5
    <2> QED BY <2>6 DEF ofId
  <1>2. ServiceInv => EventsAreRedirects
    BY <1>1 DEF EventsAreRedirects, ServiceInv, Published, Announced, Redirected
  <1> QED BY <1>2, ServiceInvariant, PTL

\* Who is told 404, was told so by the table.
LEMMA GotoStatus ==
  ASSUME ServiceInv, NEW q \in Gets, NEW g \in Gets, NEW to, Goto(q, to)
  PROVE  get'[g].status = get[g].status
  <1>1. get \in [Gets -> GetState]
    BY DEF ServiceInv, RedirectTypeOK
  <1>2. CASE g = q
    <2>1. get'[g] = [get[g] EXCEPT !.pc = to]
      BY <1>1, <1>2 DEF Goto
    <2>2. get[g] \in GetState
      BY <1>1
    <2> QED BY <2>1, <2>2 DEF GetState
  <1>3. CASE g # q
    BY <1>1, <1>3 DEF Goto
  <1> QED BY <1>2, <1>3

LEMMA FoundStatus ==
  ASSUME ServiceInv, NEW q \in Gets, NEW g \in Gets,
         NEW to, NEW x_cache, NEW id, NEW url, Found(q, to, x_cache, id, url)
  PROVE  get'[g].status = get[g].status
  <1>1. get \in [Gets -> GetState]
    BY DEF ServiceInv, RedirectTypeOK
  <1>2. CASE g = q
    <2>1. get'[g] = [get[g] EXCEPT !.pc = to, !.x_cache = x_cache,
                                   !.url_id = id, !.url = url]
      BY <1>1, <1>2 DEF Found
    <2>2. get[g] \in GetState
      BY <1>1
    <2> QED BY <2>1, <2>2 DEF GetState
  <1>3. CASE g # q
    BY <1>1, <1>3 DEF Found
  <1> QED BY <1>2, <1>3

LEMMA EndStatus ==
  ASSUME ServiceInv, NEW q \in Gets, NEW g \in Gets,
         NEW to \in {"done", "crashed"}, NEW status \in GetStatuses,
         End(q, to, status)
  PROVE  /\ g = q => get'[g].status = status
         /\ g # q => get'[g].status = get[g].status
  <1>1. get \in [Gets -> GetState]
    BY DEF ServiceInv, RedirectTypeOK
  <1>2. CASE g = q
    <2> DEFINE stage == Stage(get[g].pc)
    <2>1. get'[g] = [get[g] EXCEPT !.pc = to, !.status = status, !.end = stage]
      BY <1>1, <1>2 DEF End
    <2>2. get[g] \in GetState /\ stage \in Stages
      BY <1>1, StageType
    <2>3. to \in GetPcs
      BY DEF GetPcs
    <2> HIDE DEF stage
    <2> QED BY <1>2, <2>1, <2>2, <2>3, GetStateSets
  <1>3. CASE g # q
    BY <1>1, <1>3 DEF End
  <1> QED BY <1>2, <1>3

LEMMA AnswerStatus ==
  ASSUME ServiceInv, NEW q \in Gets, NEW g \in Gets,
         NEW status \in {307, 404, 410, 500}, Answer(q, status)
  PROVE  /\ g = q => get'[g].status = status
         /\ g # q => get'[g].status = get[g].status
  <1>1. status \in GetStatuses /\ End(q, "done", status)
    BY DEF GetStatuses, Answer
  <1> QED BY <1>1, EndStatus

LEMMA TableTells404 ==
  ASSUME ServiceInv, NEW q \in Gets, GetStep(q),
         NEW g \in Gets, get[g].status = 0, get'[g].status = 404
  PROVE  RowsByShortCode(get[g].code) = {}
  <1>1. CASE ReceiveGet(q)
    <2>1. PICK code \in Codes :
            get' = [get EXCEPT ![q] = [@ EXCEPT !.pc = "lookup", !.code = code,
                                                !.at = now]]
      BY <1>1 DEF ReceiveGet
    <2>2. get[q] \in GetState /\ get \in [Gets -> GetState]
      BY DEF ServiceInv, RedirectTypeOK
    <2>3. get'[q] = [get[q] EXCEPT !.pc = "lookup", !.code = code, !.at = now]
      BY <2>1, <2>2
    <2>4. get'[q].status = get[q].status
      BY <2>2, <2>3 DEF GetState
    <2>5. g # q => get'[g] = get[g]
      BY <2>1, <2>2
    <2> QED BY <2>4, <2>5
  <1>2. CASE LookupCache(q)
    BY <1>2, GotoStatus, FoundStatus DEF LookupCache
  <1>3. CASE SelectRow(q)
    <2>1. CASE RowsByShortCode(get[q].code) = {} /\ Answer(q, 404)
      BY <2>1, AnswerStatus
    <2>2. CASE \E row \in RowsByShortCode(get[q].code) :
                 LET expired == row.expires_at # Null /\ row.expires_at < now
                 IN  Found(q, IF expired THEN "evict" ELSE "setex", "MISS",
                           row.id, row.long_url)
      BY <2>2, FoundStatus
    <2> QED BY <1>3, <2>1, <2>2 DEF SelectRow
  <1>4. CASE EvictExpired(q)
    BY <1>4, AnswerStatus DEF EvictExpired
  <1>5. CASE PopulateCache(q) \/ RecordLatency(q) \/ Publish(q)
    BY <1>5, GotoStatus DEF PopulateCache, RecordLatency, Publish
  <1>6. CASE CountClick(q)
    <2>1. PICK to : Goto(q, to)
      BY <1>6 DEF CountClick
    <2> QED BY <2>1, GotoStatus
  <1>7. CASE ReloadRow(q)
    BY <1>7, FoundStatus DEF ReloadRow
  <1>8. CASE RedirectClient(q)
    BY <1>8, AnswerStatus DEF RedirectClient
  <1>9. CASE GetDbError(q) \/ PublishRaises(q)
    BY <1>9, AnswerStatus DEF GetDbError, PublishRaises
  <1>10. CASE CrashGet(q)
    <2>1. End(q, "crashed", 0) /\ 0 \in GetStatuses
      BY <1>10 DEF CrashGet, GetStatuses
    <2> QED BY <2>1, EndStatus
  <1> QED BY <1>1, <1>2, <1>3, <1>4, <1>5, <1>6, <1>7, <1>8, <1>9, <1>10
          DEF GetStep, HandleGet

\* No GET that comes after a 201 for its code is told 404 (create_short_url()
\* commits before it answers; redirect_url() asks the table last).
THEOREM WritesAreRead == Spec => ReadYourWrites
  <1>1. ASSUME ServiceInv, [Next]_serviceVars,
               NEW g \in Gets, get[g].status = 0, get'[g].status = 404,
               NEW p \in Posts, Created(p),
               SameCode(post[p].url_obj.short_code, get[g].code)
        PROVE  FALSE
    <2>1. PICK q \in Gets : GetStep(q)
      BY <1>1 DEF Next, PostRequest, PassTime, RedisLosesKey, AllAnswered,
                  serviceVars, redirectVars, GetRequest
    <2>2. RowsByShortCode(get[g].code) = {}
      BY <1>1, <2>1, TableTells404
    <2>3. post[p].url_obj \in urls
      BY <1>1 DEF ServiceInv, IInv, Sound, Created
    <2>4. post[p].url_obj \in RowsByShortCode(get[g].code)
      BY <1>1, <2>3, RowFields DEF RowsByShortCode, SameCode
    <2> QED BY <2>2, <2>4
  <1>2. ServiceInv /\ [Next]_serviceVars =>
          [\A g \in Gets :
             get[g].status = 0 /\ get'[g].status = 404 =>
               \A p \in Posts :
                 Created(p) => ~SameCode(post[p].url_obj.short_code, get[g].code)]_serviceVars
    BY <1>1
  <1> QED BY <1>2, ServiceInvariant, PTL DEF Spec, ReadYourWrites

-----------------------------------------------------------------------------
\* Redirects, the clock and Redis change no row (the click counts are kept
\* apart) and no handler of POST /shorten.
LEMMA OthersLeavePosts ==
  [Next]_serviceVars /\ ~(\E p \in Posts : PostRequest(p)) => UNCHANGED <<urls, post>>
  <1> SUFFICES ASSUME [Next]_serviceVars, ~(\E p \in Posts : PostRequest(p))
               PROVE  UNCHANGED <<urls, post>>
    OBVIOUS
  <1>1. ASSUME NEW g \in Gets, GetRequest(g) PROVE UNCHANGED <<urls, post>>
    BY <1>1 DEF GetRequest, GetStep, HandleGet, mysqlVars, ReceiveGet,
                LookupCache, SelectRow, EvictExpired, PopulateCache,
                RecordLatency, CountClick, ReloadRow, Publish, RedirectClient,
                GetDbError, PublishRaises, CrashGet
  <1>2. CASE PassTime
    BY <1>2 DEF PassTime, shortenVars
  <1>3. CASE RedisLosesKey
    BY <1>3 DEF RedisLosesKey
  <1>4. CASE AllAnswered \/ UNCHANGED serviceVars
    BY <1>4 DEF AllAnswered, serviceVars
  <1> QED BY <1>1, <1>2, <1>3, <1>4 DEF Next

\* What POST /shorten promises on its own it promises inside the service too,
\* with redirects filling and evicting the cache, time passing and Redis
\* losing keys: the whole service implements the directory (url.py, both
\* handlers; crud.py).
THEOREM ServiceImplementsDirectory == Spec => ImplementsDirectory
  <1>1. Init => Directory!Init
    BY DirectoryStart DEF Init
  <1>2. ServiceInv /\ ServiceInv' /\ [Next]_serviceVars
          => [Directory!Next]_<<[url \in LongUrls |-> CodeOf(url)],
                                [p \in Posts |-> CallOf(p)]>>
    <2> SUFFICES ASSUME ServiceInv, ServiceInv', [Next]_serviceVars
                 PROVE  [Directory!Next]_<<Dir, Calls>>
      BY DEF Dir, Calls
    <2>1. IInv /\ IInv'
      BY DEF ServiceInv
    <2>2. CASE \E p \in Posts : PostRequest(p)
      <3>1. [ShortenNext]_<<shortenVars, now>>
        BY <2>2 DEF PostRequest, ShortenNext
      <3> QED BY <2>1, <3>1, DirectoryStep
    <2>3. CASE ~(\E p \in Posts : PostRequest(p))
      <3>1. urls' = urls /\ post' = post
        BY <2>3, OthersLeavePosts
      <3>2. Calls' = Calls
        BY <3>1, CallIsView DEF Calls
      <3> QED BY <3>1, <3>2, DirectorySame
    <2> QED BY <2>2, <2>3
  <1> QED BY <1>1, <1>2, ServiceInvariant, PTL
          DEF Spec, ImplementsDirectory, Directory!Spec
=============================================================================
