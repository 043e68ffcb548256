---------------------------- MODULE ShortenProofs ---------------------------
(***************************************************************************)
(* Shorten for any number of requests, URLs and ids.  The argument: the    *)
(* two unique indexes make the transactions of one URL, and those of one   *)
(* code, exclusive from the moment they enter the index (Apart), so that a *)
(* committed row is the only one of its URL, its code and its id (Table);  *)
(* and a client is answered from a committed row (Sound).                  *)
(***************************************************************************)
EXTENDS Shorten, TLAPS

\* The committed rows: each has the code of an id that was handed out, and
\* shares neither its URL nor its code, as the indexes compare them.
Table ==
  /\ \A row \in urls : row.short_code = Encode(row.id) /\ row.id < next_id
  /\ \A r, s \in urls : r.long_url = s.long_url => r = s
  /\ \A r, s \in urls : SameCode(r.short_code, s.short_code) => r = s

\* Handler states with an ORM object that is not committed; those whose row
\* is in the url_hash index; those that created a committed row.
Writing(h)  == h.pc \in {"flush", "update", "commit"}
HoldsUrl(h) == h.pc \in {"update", "commit"}
Creator(h)  == h.pc = "refresh" \/ h.created

\* What the state of one handler says of the table.
Sound(h) ==
  /\ h.pc \notin {"idle", "done", "crashed"} => h.long_url \in LongUrls
  /\ Writing(h) => /\ h.url_obj \in Row
                   /\ h.url_obj.long_url = h.long_url
                   /\ h.url_obj.id < next_id
                   /\ \A row \in urls : row.id # h.url_obj.id
  /\ HoldsUrl(h) => \A row \in urls : row.long_url # h.long_url
  /\ h.pc = "commit" =>
       /\ h.url_obj.short_code = Encode(h.url_obj.id)
       /\ \A row \in urls : ~SameCode(row.short_code, h.url_obj.short_code)
  /\ h.pc \in {"refresh", "setex", "reply"} \/ h.status = 201 =>
       h.url_obj \in urls /\ h.url_obj.long_url = h.long_url
  /\ h.pc = "idle" => ~h.created /\ h.long_url = Null
  /\ h.status # 0 => h.pc = "done"
  /\ Creator(h) => \E row \in urls : row.long_url = h.long_url

\* What the states of two handlers say of each other.
Apart(h, k) ==
  /\ Writing(h) /\ Writing(k) => h.url_obj.id # k.url_obj.id
  /\ HoldsUrl(h) /\ HoldsUrl(k) => h.long_url # k.long_url
  /\ h.pc = "commit" /\ k.pc = "commit" =>
       ~SameCode(h.url_obj.short_code, k.url_obj.short_code)
  /\ Creator(h) /\ Creator(k) => h.long_url # k.long_url

IInv ==
  /\ ShortenTypeOK
  /\ Table
  /\ \A q \in Posts : Sound(post[q])
  /\ \A q, r \in Posts : q # r => Apart(post[q], post[r])

-----------------------------------------------------------------------------
\* Apart does not say which handler is which.
LEMMA ApartSymmetric ==
  ASSUME NEW h, NEW k, Apart(h, k)
  PROVE  Apart(k, h)
  <1>1. \A a, b : SameCode(a, b) => SameCode(b, a)
    BY DEF SameCode
  <1> QED BY <1>1 DEF Apart

\* A handler that moves and leaves the table alone keeps the invariant if its
\* new state is of the type, true of the table, and apart from the others.
LEMMA LocalMove ==
  ASSUME IInv, NEW p \in Posts, NEW x \in PostState,
         post' = [post EXCEPT ![p] = x],
         UNCHANGED <<urls, next_id, now>>,
         cache' \in [Codes -> OrNull(Entry)],
         Sound(x),
         \A q \in Posts : q # p => Apart(x, post[q])
  PROVE  IInv'
  <1>1. /\ post' \in [Posts -> PostState]
        /\ post'[p] = x
        /\ \A q \in Posts : q # p => post'[q] = post[q]
    BY DEF IInv, ShortenTypeOK
  <1>2. ShortenTypeOK'
    BY <1>1 DEF IInv, ShortenTypeOK
  <1>3. Table'
    BY DEF IInv, Table
  <1>4. \A q \in Posts : Sound(post'[q])
    BY <1>1 DEF IInv
  <1>5. (\A q \in Posts : Sound(post[q]))'
    BY <1>4 DEF Sound
  <1>6. (\A q, r \in Posts : q # r => Apart(post[q], post[r]))'
    <2> SUFFICES ASSUME NEW q \in Posts, NEW r \in Posts, q # r
                 PROVE  Apart(post'[q], post'[r])
      BY DEF Apart, Writing, HoldsUrl, Creator, SameCode
    <2>1. CASE q = p
      BY <1>1, <2>1
    <2>2. CASE r = p
      BY <1>1, <2>2, ApartSymmetric
    <2>3. CASE q # p /\ r # p
      BY <1>1, <2>3 DEF IInv
    <2> QED BY <2>1, <2>2, <2>3
  <1> QED BY <1>2, <1>3, <1>5, <1>6 DEF IInv

\* The invariant holds initially.
LEMMA InitIInv == ShortenInit => IInv
  <1> SUFFICES ASSUME ShortenInit PROVE IInv
    OBVIOUS
  <1> USE StoreAssumption, CacheAssumption, ShortenAssumption
  <1> DEFINE idle == [pc |-> "idle", long_url |-> Null, expires_at |-> Null,
                      url_obj |-> Null, created |-> FALSE, status |-> 0,
                      cause |-> "none"]
  <1>1. post = [p \in Posts |-> idle]
    BY DEF ShortenInit, PostInit
  <1>2. "idle" \in PostPcs /\ 0 \in Statuses /\ "none" \in Causes
    BY DEF PostPcs, Statuses, Causes
  <1>3. Null \in OrNull(LongUrls) /\ Null \in OrNull(Expiries) /\ Null \in OrNull(Row)
    BY DEF OrNull
  <1>4. idle \in PostState
    BY <1>2, <1>3 DEF PostState
  <1>5. ShortenTypeOK
    <2>1. urls \subseteq Row
      BY DEF ShortenInit, StoreInit
    <2>2. next_id \in 1..(MaxId + 1)
      BY DEF ShortenInit, StoreInit, Ids
    <2>3. cache \in [Codes -> OrNull(Entry)] /\ now \in 0..MaxTime
      BY DEF ShortenInit, CacheInit, OrNull
    <2> QED BY <1>1, <1>4, <2>1, <2>2, <2>3 DEF ShortenTypeOK
  <1>6. Table
    BY DEF ShortenInit, StoreInit, Table
  <1>7. Sound(idle)
    BY DEF Sound, Writing, HoldsUrl, Creator
  <1>8. Apart(idle, idle)
    BY DEF Apart, Writing, HoldsUrl, Creator
  <1> HIDE DEF idle
  <1> QED BY <1>1, <1>5, <1>6, <1>7, <1>8 DEF IInv

-----------------------------------------------------------------------------
\* The types of the values the actions write, as facts of their own: the
\* provers do better when the sets of PostState stay unexpanded.
LEMMA PcValues ==
  /\ {"idle", "select", "insert", "flush", "update", "commit", "refresh",
      "setex", "reply", "done", "crashed"} \subseteq PostPcs
  /\ {0, 201, 500} \subseteq Statuses
  /\ {"none", "url_hash", "short_code", "too_long", "database"} \subseteq Causes
  /\ Null \in OrNull(Row) /\ Null \in OrNull(Codes)
  BY DEF PostPcs, Statuses, Causes, OrNull

\* What the invariant says of the handler that moves.
LEMMA OneHandler ==
  ASSUME IInv, NEW p \in Posts
  PROVE  /\ post[p] \in PostState
         /\ Sound(post[p])
         /\ \A q \in Posts : q # p => /\ post[q] \in PostState
                                      /\ Sound(post[q])
                                      /\ Apart(post[p], post[q])
         /\ cache \in [Codes -> OrNull(Entry)]
  BY DEF IInv, ShortenTypeOK

\* A handler that becomes a state with nothing uncommitted, and neither the
\* creator of a row nor in possession of one, is apart from all others.
LEMMA QuietApart ==
  ASSUME NEW x, NEW h, NEW k, Apart(h, k),
         ~Writing(x), x.pc # "commit",
         Creator(x) => Creator(h), x.long_url = h.long_url
  PROVE  Apart(x, k)
  BY DEF Apart, Writing, HoldsUrl

LEMMA ReceivePostInv ==
  ASSUME IInv, NEW p \in Posts, ReceivePost(p), UNCHANGED now
  PROVE  IInv'
  <1>0. post[p] \in PostState /\ Sound(post[p])
    BY OneHandler
  <1>1. PICK url \in LongUrls, e \in OrNull(Expiries) :
          post' = [post EXCEPT ![p] = [@ EXCEPT !.pc = "select",
                                 !.long_url = url, !.expires_at = e]]
    BY DEF ReceivePost
  <1> DEFINE x == [post[p] EXCEPT !.pc = "select", !.long_url = url,
                                  !.expires_at = e]
  <1>2. url \in OrNull(LongUrls) /\ "select" \in PostPcs
    BY PcValues DEF OrNull
  <1>3. x \in PostState
    BY <1>0, <1>2 DEF PostState
  <1>4. post[p].pc = "idle" /\ UNCHANGED <<urls, next_id, cache>>
    BY DEF ReceivePost
  <1>5. /\ x.pc = "select" /\ x.long_url = url /\ x.status = post[p].status
        /\ x.created = post[p].created
    BY <1>0 DEF PostState
  <1>6. ~x.created /\ x.status = 0
    BY <1>0, <1>4, <1>5 DEF Sound
  <1>7. Sound(x)
    BY <1>5, <1>6 DEF Sound, Writing, HoldsUrl, Creator
  <1>8. \A q \in Posts : q # p => Apart(x, post[q])
    BY <1>5, <1>6 DEF Apart, Writing, HoldsUrl, Creator
  <1> HIDE DEF x
  <1>9. post' = [post EXCEPT ![p] = x]
    BY <1>1 DEF x
  <1> QED BY <1>3, <1>4, <1>7, <1>8, <1>9, OneHandler, LocalMove

\* An exception leaves the handler.
LEMMA RaiseInv ==
  ASSUME IInv, NEW p \in Posts, NEW cause \in Causes, Raise(p, cause),
         post[p].pc \notin {"idle", "done", "crashed"},
         UNCHANGED <<urls, next_id, cache, now>>
  PROVE  IInv'
  <1>0. post[p] \in PostState /\ Sound(post[p])
    BY OneHandler
  <1> DEFINE x == [post[p] EXCEPT !.pc = "done", !.url_obj = Null,
                                  !.status = 500, !.cause = cause]
  <1>2. "done" \in PostPcs /\ 500 \in Statuses /\ Null \in OrNull(Row)
    BY PcValues
  <1>3. x \in PostState
    <2> DEFINE h1 == [post[p] EXCEPT !.pc = "done"]
               h2 == [h1 EXCEPT !.url_obj = Null]
               h3 == [h2 EXCEPT !.status = 500]
    <2>1. x = [h3 EXCEPT !.cause = cause]
      OBVIOUS
    <2>2. h1 \in PostState
      BY <1>0, <1>2 DEF PostState
    <2> HIDE DEF x, h1
    <2>3. h2 \in PostState
      BY <1>2, <2>2 DEF PostState
    <2> HIDE DEF h2
    <2>4. h3 \in PostState
      BY <1>2, <2>3 DEF PostState
    <2> HIDE DEF h3
    <2> QED BY <2>1, <2>4 DEF PostState
  <1>5. /\ x.pc = "done" /\ x.long_url = post[p].long_url /\ x.status = 500
        /\ x.created = post[p].created
    BY <1>0 DEF PostState
  <1>6. Creator(x) => Creator(post[p])
    BY <1>5 DEF Creator
  <1>7. Sound(x)
    BY <1>0, <1>5, <1>6 DEF Sound, Writing, HoldsUrl
  <1>8. ~Writing(x) /\ x.pc # "commit"
    BY <1>5 DEF Writing
  <1> HIDE DEF x
  <1>9. \A q \in Posts : q # p => Apart(x, post[q])
    BY <1>5, <1>6, <1>8, OneHandler, QuietApart
  <1>10. post' = [post EXCEPT ![p] = x]
    BY DEF x, Raise
  <1> QED BY <1>3, <1>7, <1>9, <1>10, OneHandler, LocalMove

LEMMA CrashInv ==
  ASSUME IInv, NEW p \in Posts, Crash(p), UNCHANGED now
  PROVE  IInv'
  <1>0. post[p] \in PostState /\ Sound(post[p])
    BY OneHandler
  <1> DEFINE x == [post[p] EXCEPT !.pc = "crashed", !.url_obj = Null]
  <1>2. "crashed" \in PostPcs /\ Null \in OrNull(Row)
    BY PcValues
  <1>3. x \in PostState
    BY <1>0, <1>2 DEF PostState
  <1>4. post[p].pc \notin {"idle", "done", "crashed"} /\ UNCHANGED <<urls, next_id, cache>>
    BY DEF Crash
  <1>5. /\ x.pc = "crashed" /\ x.long_url = post[p].long_url
        /\ x.status = post[p].status /\ x.created = post[p].created
    BY <1>0 DEF PostState
  <1>6. Creator(x) => Creator(post[p])
    BY <1>5 DEF Creator
  <1>7. x.status = 0
    BY <1>0, <1>4, <1>5 DEF Sound
  <1>8. Sound(x)
    BY <1>0, <1>5, <1>6, <1>7 DEF Sound, Writing, HoldsUrl
  <1>9. \A q \in Posts : q # p => Apart(x, post[q])
    BY <1>5, <1>6, OneHandler, QuietApart DEF Writing
  <1> HIDE DEF x
  <1>10. post' = [post EXCEPT ![p] = x]
    BY DEF x, Crash
  <1> QED BY <1>3, <1>4, <1>8, <1>9, <1>10, OneHandler, LocalMove

LEMMA DbErrorInv ==
  ASSUME IInv, NEW p \in Posts, DbError(p), UNCHANGED now
  PROVE  IInv'
  <1>1. "database" \in Causes
    BY PcValues
  <1>2. /\ Raise(p, "database") /\ UNCHANGED <<urls, next_id, cache>>
        /\ post[p].pc \notin {"idle", "done", "crashed"}
    BY DEF DbError
  <1> QED BY <1>1, <1>2, RaiseInv

LEMMA FlushDuplicateInv ==
  ASSUME IInv, NEW p \in Posts, FlushDuplicate(p), UNCHANGED now
  PROVE  IInv'
  <1>1. "url_hash" \in Causes
    BY PcValues
  <1>2. /\ Raise(p, "url_hash") /\ UNCHANGED <<urls, next_id, cache>>
        /\ post[p].pc \notin {"idle", "done", "crashed"}
    BY DEF FlushDuplicate
  <1> QED BY <1>1, <1>2, RaiseInv

\* An existing record is a committed one; it is not announced as created.
LEMMA SelectByHashInv ==
  ASSUME IInv, NEW p \in Posts, SelectByHash(p), UNCHANGED now
  PROVE  IInv'
  <1>0. post[p] \in PostState /\ Sound(post[p]) /\ post[p].pc = "select"
    BY OneHandler DEF SelectByHash
  <1>1. UNCHANGED <<urls, next_id, cache>>
    BY DEF SelectByHash
  <1>2. ASSUME NEW row \in RowsByHash(post[p].long_url),
               post' = [post EXCEPT ![p] = [@ EXCEPT !.pc = "setex",
                                                     !.url_obj = row]]
        PROVE  IInv'
    <2> DEFINE x == [post[p] EXCEPT !.pc = "setex", !.url_obj = row]
    <2>1. row \in urls /\ row.long_url = post[p].long_url
      BY DEF RowsByHash
    <2>2. row \in OrNull(Row) /\ "setex" \in PostPcs
      BY <2>1, PcValues DEF IInv, ShortenTypeOK, OrNull
    <2>3. x \in PostState
      BY <1>0, <2>2 DEF PostState
    <2>4. /\ x.pc = "setex" /\ x.long_url = post[p].long_url /\ x.url_obj = row
          /\ x.status = post[p].status /\ x.created = post[p].created
      BY <1>0 DEF PostState
    <2>5. Creator(x) => Creator(post[p])
      BY <2>4 DEF Creator
    <2>6. x.status = 0 /\ x.long_url \in LongUrls
      BY <1>0, <2>4 DEF Sound
    <2>7. Sound(x)
      BY <1>0, <2>1, <2>4, <2>5, <2>6 DEF Sound, Writing, HoldsUrl
    <2>8. ~Writing(x) /\ x.pc # "commit"
      BY <2>4 DEF Writing
    <2>9. post' = [post EXCEPT ![p] = x]
      BY <1>2
    <2> HIDE DEF x
    <2>10. \A q \in Posts : q # p => Apart(x, post[q])
      BY <2>4, <2>5, <2>8, OneHandler, QuietApart
    <2> QED BY <1>1, <2>3, <2>7, <2>9, <2>10, OneHandler, LocalMove
  <1>3. ASSUME Step(p, "select", "insert")
        PROVE  IInv'
    <2> DEFINE x == [post[p] EXCEPT !.pc = "insert"]
    <2>2. "insert" \in PostPcs
      BY PcValues
    <2>3. x \in PostState
      BY <1>0, <2>2 DEF PostState
    <2>4. /\ x.pc = "insert" /\ x.long_url = post[p].long_url
          /\ x.status = post[p].status /\ x.created = post[p].created
      BY <1>0 DEF PostState
    <2>5. Creator(x) => Creator(post[p])
      BY <2>4 DEF Creator
    <2>6. x.status = 0 /\ x.long_url \in LongUrls
      BY <1>0, <2>4 DEF Sound
    <2>7. Sound(x)
      BY <1>0, <2>4, <2>5, <2>6 DEF Sound, Writing, HoldsUrl
    <2>8. ~Writing(x) /\ x.pc # "commit"
      BY <2>4 DEF Writing
    <2>9. post' = [post EXCEPT ![p] = x]
      BY <1>3 DEF Step
    <2> HIDE DEF x
    <2>10. \A q \in Posts : q # p => Apart(x, post[q])
      BY <2>4, <2>5, <2>8, OneHandler, QuietApart
    <2> QED BY <1>1, <2>3, <2>7, <2>9, <2>10, OneHandler, LocalMove
  <1> QED BY <1>2, <1>3 DEF SelectByHash

\* The row enters the url_hash index: no committed row, and no other
\* uncommitted one, has its URL.
LEMMA FlushGrantedInv ==
  ASSUME IInv, NEW p \in Posts, FlushGranted(p), UNCHANGED now
  PROVE  IInv'
  <1>0. post[p] \in PostState /\ Sound(post[p]) /\ post[p].pc = "flush"
    BY OneHandler DEF FlushGranted, Step
  <1>1. UNCHANGED <<urls, next_id, cache>>
    BY DEF FlushGranted
  <1> DEFINE x == [post[p] EXCEPT !.pc = "update"]
  <1>2. "update" \in PostPcs
    BY PcValues
  <1>3. x \in PostState
    BY <1>0, <1>2 DEF PostState
  <1>4. /\ x.pc = "update" /\ x.long_url = post[p].long_url
        /\ x.url_obj = post[p].url_obj
        /\ x.status = post[p].status /\ x.created = post[p].created
    BY <1>0 DEF PostState
  <1>5. Creator(x) => Creator(post[p])
    BY <1>4 DEF Creator
  <1>6. Writing(post[p]) /\ Writing(x) /\ x.status = 0 /\ x.long_url \in LongUrls
    BY <1>0, <1>4 DEF Sound, Writing
  <1>7. \A row \in urls : row.long_url # x.long_url
    BY <1>4 DEF FlushGranted, RowsByHash
  <1>8. \A q \in Posts : HoldsUrl(post[q]) => post[q].long_url # x.long_url
    BY <1>4 DEF FlushGranted, HashHolders, HoldsUrl
  <1>9. post' = [post EXCEPT ![p] = x]
    BY DEF FlushGranted, Step
  <1> HIDE DEF x
  <1>10. Sound(x)
    BY <1>0, <1>4, <1>5, <1>6, <1>7 DEF Sound
  <1>11. \A q \in Posts : q # p => Apart(x, post[q])
    BY <1>4, <1>5, <1>6, <1>8, OneHandler DEF Apart
  <1> QED BY <1>1, <1>3, <1>9, <1>10, <1>11, OneHandler, LocalMove

\* The row enters the short_code index: no committed row, and no other
\* uncommitted one, has its code.
LEMMA UpdateShortCodeInv ==
  ASSUME IInv, NEW p \in Posts, UpdateShortCode(p), UNCHANGED now
  PROVE  IInv'
  <1> DEFINE code == Encode(post[p].url_obj.id)
  <1>0. post[p] \in PostState /\ Sound(post[p]) /\ post[p].pc = "update"
    BY OneHandler DEF UpdateShortCode
  <1>1. UNCHANGED <<urls, next_id, cache>>
    BY DEF UpdateShortCode
  <1>2. "too_long" \in Causes /\ "short_code" \in Causes
    BY PcValues
  <1>3. CASE Raise(p, "too_long") \/ Raise(p, "short_code")
    BY <1>0, <1>1, <1>2, <1>3, RaiseInv
  <1>4. ASSUME RowsByShortCode(code) = {}, CodeHolders(code) = {},
               post' = [post EXCEPT ![p] = [@ EXCEPT !.pc = "commit",
                                              !.url_obj.short_code = code]]
        PROVE  IInv'
    <2> DEFINE obj == [post[p].url_obj EXCEPT !.short_code = code]
               x == [post[p] EXCEPT !.pc = "commit", !.url_obj = obj]
    <2>1. post[p].url_obj \in Row /\ Writing(post[p]) /\ HoldsUrl(post[p])
      BY <1>0 DEF Sound, Writing, HoldsUrl
    <2>2. post[p].url_obj.id \in Ids
      BY <2>1 DEF Row
    <2>3. code \in Codes /\ code \in OrNull(Codes)
      BY <2>2 DEF Codes, OrNull
    <2> HIDE DEF code
    <2>4. /\ obj \in Row /\ obj.short_code = code
          /\ obj.id = post[p].url_obj.id
          /\ obj.long_url = post[p].url_obj.long_url
      BY <2>1, <2>3 DEF Row
    <2>5. post' = [post EXCEPT ![p] = x]
      BY <1>4
    <2> HIDE DEF obj
    <2>6. obj \in OrNull(Row) /\ "commit" \in PostPcs
      BY <2>4, PcValues DEF OrNull
    <2>7. x \in PostState
      BY <1>0, <2>6 DEF PostState
    <2>8. /\ x.pc = "commit" /\ x.long_url = post[p].long_url /\ x.url_obj = obj
          /\ x.status = post[p].status /\ x.created = post[p].created
      BY <1>0 DEF PostState
    <2>9. Creator(x) => Creator(post[p])
      BY <2>8 DEF Creator
    <2>10. Writing(x) /\ HoldsUrl(x) /\ x.status = 0 /\ x.long_url \in LongUrls
      BY <1>0, <2>8 DEF Sound, Writing, HoldsUrl
    <2>11. \A row \in urls : ~SameCode(row.short_code, code)
      <3> SUFFICES ASSUME NEW row \in urls, SameCode(row.short_code, code)
                   PROVE  FALSE
        OBVIOUS
      <3>1. row.id \in Ids /\ row.short_code = Encode(row.id)
        BY DEF IInv, ShortenTypeOK, Table, Row
      <3>2. row.short_code # Null
        BY <3>1, NullAssumption DEF Codes
      <3> QED BY <1>4, <3>2 DEF RowsByShortCode, SameCode
    <2>12. \A q \in Posts : post[q].pc = "commit" =>
                              ~SameCode(code, post[q].url_obj.short_code)
      BY <1>4 DEF CodeHolders, SameCode
    <2> HIDE DEF x
    <2>13. x.url_obj.short_code = Encode(x.url_obj.id)
      BY <2>4, <2>8 DEF code
    <2>14. Sound(x)
      BY <1>0, <2>1, <2>4, <2>8, <2>9, <2>10, <2>11, <2>13 DEF Sound
    <2>15. \A q \in Posts : q # p => Apart(x, post[q])
      BY <2>1, <2>4, <2>8, <2>9, <2>10, <2>12, OneHandler DEF Apart
    <2> QED BY <1>1, <2>5, <2>7, <2>14, <2>15, OneHandler, LocalMove
  <1> QED BY <1>3, <1>4 DEF UpdateShortCode

\* A new row takes an id beyond every id handed out before.
LEMMA IssueInsertInv ==
  ASSUME IInv, NEW p \in Posts, IssueInsert(p), UNCHANGED now
  PROVE  IInv'
  <1> DEFINE row == [id         |-> next_id,
                     short_code |-> Null,
                     long_url   |-> post[p].long_url,
                     expires_at |-> post[p].expires_at]
             x == [post[p] EXCEPT !.pc = "flush", !.url_obj = row]
  <1>0. post[p] \in PostState /\ Sound(post[p]) /\ post[p].pc = "insert"
    BY OneHandler DEF IssueInsert
  <1>1. next_id \in Ids /\ next_id' = next_id + 1 /\ UNCHANGED <<urls, cache>>
    BY DEF IssueInsert
  <1>2. /\ post[p].long_url \in LongUrls /\ post[p].status = 0
        /\ post[p].expires_at \in OrNull(Expiries) /\ Null \in OrNull(Codes)
    BY <1>0, PcValues DEF Sound, PostState
  <1>3. row \in Row /\ row.id = next_id /\ row.long_url = post[p].long_url
    BY <1>1, <1>2 DEF Row
  <1>4. post' = [post EXCEPT ![p] = x]
    BY DEF IssueInsert
  <1> HIDE DEF row
  <1>5. row \in OrNull(Row) /\ "flush" \in PostPcs
    BY <1>3, PcValues DEF OrNull
  <1>6. x \in PostState
    BY <1>0, <1>5 DEF PostState
  <1>7. /\ x.pc = "flush" /\ x.long_url = post[p].long_url /\ x.url_obj = row
        /\ x.status = post[p].status /\ x.created = post[p].created
    BY <1>0 DEF PostState
  <1>8. Creator(x) => Creator(post[p])
    BY <1>7 DEF Creator
  <1> HIDE DEF x
  <1>9. ~HoldsUrl(x) /\ x.pc # "commit"
    BY <1>7 DEF HoldsUrl
  <1>10. /\ post' \in [Posts -> PostState]
         /\ post'[p] = x
         /\ \A q \in Posts : q # p => post'[q] = post[q]
    BY <1>4, <1>6 DEF IInv, ShortenTypeOK
  <1>11. /\ next_id \in Nat /\ next_id' \in 1..(MaxId + 1) /\ next_id < next_id'
         /\ \A id \in Ids : id < next_id => id < next_id'
    BY <1>1, StoreAssumption DEF Ids
  <1>12. ShortenTypeOK'
    BY <1>1, <1>10, <1>11 DEF IInv, ShortenTypeOK
  <1>13. Table'
    BY <1>1, <1>11 DEF IInv, Table, ShortenTypeOK, Row
  <1>14. \A q \in Posts : q # p /\ Writing(post[q]) =>
                          post[q].url_obj.id \in Ids /\ post[q].url_obj.id < next_id
    BY OneHandler DEF Sound, Row
  <1>15. (\A q \in Posts : Sound(post[q]))'
    <2> SUFFICES ASSUME NEW q \in Posts PROVE Sound(post[q])'
      OBVIOUS
    <2>1. CASE q = p
      <3>1. \A r \in urls : r.id # next_id
        BY <1>11 DEF IInv, Table, ShortenTypeOK, Row, Ids
      <3>2. Creator(x) => \E r \in urls : r.long_url = x.long_url
        BY <1>0, <1>7, <1>8 DEF Sound
      <3>3. \A r \in urls' : r.id # x.url_obj.id
        BY <1>1, <1>3, <1>7, <3>1
      <3>4. x.url_obj \in Row /\ x.url_obj.long_url = x.long_url /\ x.url_obj.id < next_id'
        BY <1>3, <1>7, <1>11
      <3> QED BY <1>1, <1>2, <1>7, <1>9, <1>10, <2>1, <3>2, <3>3, <3>4
              DEF Sound, Creator, Writing, HoldsUrl
    <2>2. CASE q # p
      <3>1. Writing(post[q]) => post[q].url_obj.id < next_id'
        BY <1>11, <1>14, <2>2
      <3> QED BY <1>1, <1>10, <2>2, <3>1, OneHandler
              DEF Sound, Creator, Writing, HoldsUrl
    <2> QED BY <2>1, <2>2
  <1>16. \A q \in Posts : q # p => Apart(x, post[q])
    <2> SUFFICES ASSUME NEW q \in Posts, q # p PROVE Apart(x, post[q])
      OBVIOUS
    <2>1. Writing(post[q]) => x.url_obj.id # post[q].url_obj.id
      BY <1>1, <1>3, <1>7, <1>14 DEF Ids
    <2> QED BY <1>7, <1>8, <1>9, <2>1, OneHandler DEF Apart
  <1>17. (\A q, r \in Posts : q # r => Apart(post[q], post[r]))'
    <2> SUFFICES ASSUME NEW q \in Posts, NEW r \in Posts, q # r
                 PROVE  Apart(post'[q], post'[r])
      BY DEF Apart, Writing, HoldsUrl, Creator, SameCode
    <2> QED BY <1>10, <1>16, ApartSymmetric DEF IInv
  <1> QED BY <1>12, <1>13, <1>15, <1>17 DEF IInv

\* The row becomes a committed one.  It was apart from every committed row,
\* and from every uncommitted one.
LEMMA CommitInv ==
  ASSUME IInv, NEW p \in Posts, Commit(p), UNCHANGED now
  PROVE  IInv'
  <1> DEFINE row == post[p].url_obj
             x == [post[p] EXCEPT !.pc = "refresh"]
  <1>0. post[p] \in PostState /\ Sound(post[p]) /\ post[p].pc = "commit"
    BY OneHandler DEF Commit, Step
  <1>1. urls' = urls \cup {row} /\ UNCHANGED <<next_id, cache>>
    BY DEF Commit
  <1>2. post' = [post EXCEPT ![p] = x]
    BY DEF Commit, Step
  <1>3. /\ row \in Row /\ row.id < next_id /\ row.short_code = Encode(row.id)
        /\ row.long_url = post[p].long_url
        /\ \A s \in urls : /\ s.id # row.id
                           /\ s.long_url # row.long_url
                           /\ ~SameCode(s.short_code, row.short_code)
    BY <1>0 DEF Sound, Writing, HoldsUrl
  <1>4. post[p].long_url \in LongUrls /\ post[p].status = 0
    BY <1>0 DEF Sound
  <1>5. "refresh" \in PostPcs
    BY PcValues
  <1>6. x \in PostState
    BY <1>0, <1>5 DEF PostState
  <1>7. /\ x.pc = "refresh" /\ x.long_url = post[p].long_url
        /\ x.url_obj = row /\ x.status = post[p].status
    BY <1>0 DEF PostState
  <1>8. \A q \in Posts : q # p =>
          /\ Writing(post[q]) => row.id # post[q].url_obj.id
          /\ HoldsUrl(post[q]) => row.long_url # post[q].long_url
          /\ post[q].pc = "commit" => ~SameCode(row.short_code, post[q].url_obj.short_code)
    BY <1>0, <1>3, OneHandler DEF Apart, Writing, HoldsUrl
  <1> HIDE DEF row, x
  <1>9. /\ post' \in [Posts -> PostState]
        /\ post'[p] = x
        /\ \A q \in Posts : q # p => post'[q] = post[q]
    BY <1>2, <1>6 DEF IInv, ShortenTypeOK
  <1>10. ShortenTypeOK'
    BY <1>1, <1>3, <1>9 DEF IInv, ShortenTypeOK
  <1>11. Table'
    <2>1. \A s \in urls : ~SameCode(row.short_code, s.short_code)
      BY <1>3 DEF SameCode
    <2> QED BY <1>1, <1>3, <2>1 DEF IInv, Table
  <1>12. (\A q \in Posts : Sound(post[q]))'
    <2> SUFFICES ASSUME NEW q \in Posts PROVE Sound(post[q])'
      OBVIOUS
    <2>1. CASE q = p
      <3>1. ~Writing(x) /\ ~HoldsUrl(x)
        BY <1>7 DEF Writing, HoldsUrl
      <3>2. row \in urls' /\ row.long_url = x.long_url
        BY <1>1, <1>3, <1>7
      <3> QED BY <1>4, <1>7, <1>9, <2>1, <3>1, <3>2
              DEF Sound, Writing, HoldsUrl, Creator
    <2>2. CASE q # p
      <3> QED BY <1>1, <1>8, <1>9, <2>2, OneHandler
              DEF Sound, Writing, HoldsUrl, Creator
    <2> QED BY <2>1, <2>2
  <1>13. \A q \in Posts : q # p => Apart(x, post[q])
    <2> SUFFICES ASSUME NEW q \in Posts, q # p PROVE Apart(x, post[q])
      OBVIOUS
    <2>1. Creator(post[q]) => post[q].long_url # x.long_url
      BY <1>3, <1>7, OneHandler DEF Sound
    <2> QED BY <1>7, <2>1 DEF Apart, Writing, HoldsUrl
  <1>14. (\A q, r \in Posts : q # r => Apart(post[q], post[r]))'
    <2> SUFFICES ASSUME NEW q \in Posts, NEW r \in Posts, q # r
                 PROVE  Apart(post'[q], post'[r])
      BY DEF Apart, Writing, HoldsUrl, Creator, SameCode
    <2> QED BY <1>9, <1>13, ApartSymmetric DEF IInv
  <1> QED BY <1>10, <1>11, <1>12, <1>14 DEF IInv

\* The row read back is the row committed: ids are unique, because codes are.
LEMMA RefreshInv ==
  ASSUME IInv, NEW p \in Posts, Refresh(p), UNCHANGED now
  PROVE  IInv'
  <1>0. post[p] \in PostState /\ Sound(post[p]) /\ post[p].pc = "refresh"
    BY OneHandler DEF Refresh
  <1>1. UNCHANGED <<urls, next_id, cache>>
    BY DEF Refresh
  <1>2. PICK row \in urls :
          /\ row.id = post[p].url_obj.id
          /\ post' = [post EXCEPT ![p] = [@ EXCEPT !.pc = "setex",
                                                   !.url_obj = row,
                                                   !.created = TRUE]]
    BY DEF Refresh
  <1> DEFINE x == [post[p] EXCEPT !.pc = "setex", !.url_obj = row,
                                  !.created = TRUE]
  <1>3. row = post[p].url_obj
    BY <1>0, <1>2 DEF Sound, IInv, Table, SameCode
  <1>4. row \in OrNull(Row) /\ "setex" \in PostPcs
    BY <1>2, PcValues DEF IInv, ShortenTypeOK, OrNull
  <1>5. x \in PostState
    BY <1>0, <1>4 DEF PostState
  <1>6. /\ x.pc = "setex" /\ x.long_url = post[p].long_url /\ x.url_obj = row
        /\ x.status = post[p].status
    BY <1>0 DEF PostState
  <1>7. Creator(post[p])
    BY <1>0 DEF Creator
  <1>8. post' = [post EXCEPT ![p] = x]
    BY <1>2
  <1> HIDE DEF x
  <1>9. ~Writing(x) /\ ~HoldsUrl(x) /\ x.pc # "commit"
    BY <1>6 DEF Writing, HoldsUrl
  <1>10. Sound(x)
    BY <1>0, <1>2, <1>3, <1>6, <1>7, <1>9 DEF Sound
  <1>11. \A q \in Posts : q # p => Apart(x, post[q])
    BY <1>6, <1>7, <1>9, OneHandler, QuietApart
  <1> QED BY <1>1, <1>5, <1>8, <1>10, <1>11, OneHandler, LocalMove

\* What a handler writes to the cache is a committed row under its own code.
LEMMA CacheNewWrites ==
  ASSUME IInv, NEW p \in Posts, CacheNew(p)
  PROVE  LET row == post[p].url_obj
             entry == [id |-> row.id, url |-> row.long_url, deadline |-> now + TTL]
         IN  /\ row \in urls
             /\ row \in Row
             /\ row.short_code = Encode(row.id)
             /\ row.short_code \in Codes
             /\ entry \in Entry
             /\ \/ cache' = [cache EXCEPT ![row.short_code] = entry]
                \/ cache' = cache
  <1> DEFINE row == post[p].url_obj
             entry == [id |-> row.id, url |-> row.long_url, deadline |-> now + TTL]
  <1>1. row \in urls
    BY OneHandler DEF CacheNew, Step, Sound
  <1>2. row \in Row /\ row.short_code = Encode(row.id)
    BY <1>1 DEF IInv, ShortenTypeOK, Table
  <1>3. row.short_code \in Codes
    BY <1>2 DEF Row, Codes
  <1>4. now + TTL \in Nat
    BY CacheAssumption DEF IInv, ShortenTypeOK
  <1>5. entry \in Entry
    BY <1>2, <1>4 DEF Entry, Row
  <1>6. cache' = [cache EXCEPT ![row.short_code] = entry] \/ cache' = cache
    BY DEF CacheNew, SetCachedUrl, SetEx
  <1> QED BY <1>1, <1>2, <1>3, <1>5, <1>6

LEMMA CacheNewInv ==
  ASSUME IInv, NEW p \in Posts, CacheNew(p), UNCHANGED now
  PROVE  IInv'
  <1> DEFINE x == [post[p] EXCEPT !.pc = "reply"]
  <1>0. post[p] \in PostState /\ Sound(post[p]) /\ post[p].pc = "setex"
    BY OneHandler DEF CacheNew, Step
  <1>1. UNCHANGED <<urls, next_id>>
    BY DEF CacheNew
  <1>2. cache' \in [Codes -> OrNull(Entry)]
    BY CacheNewWrites, OneHandler DEF OrNull
  <1>3. "reply" \in PostPcs
    BY PcValues
  <1>4. x \in PostState
    BY <1>0, <1>3 DEF PostState
  <1>5. /\ x.pc = "reply" /\ x.long_url = post[p].long_url
        /\ x.url_obj = post[p].url_obj
        /\ x.status = post[p].status /\ x.created = post[p].created
    BY <1>0 DEF PostState
  <1>6. Creator(x) => Creator(post[p])
    BY <1>5 DEF Creator
  <1>7. post' = [post EXCEPT ![p] = x]
    BY DEF CacheNew, Step
  <1> HIDE DEF x
  <1>8. ~Writing(x) /\ ~HoldsUrl(x) /\ x.pc # "commit"
    BY <1>5 DEF Writing, HoldsUrl
  <1>9. Sound(x)
    BY <1>0, <1>5, <1>6, <1>8 DEF Sound
  <1>10. \A q \in Posts : q # p => Apart(x, post[q])
    BY <1>5, <1>6, <1>8, OneHandler, QuietApart
  <1> QED BY <1>1, <1>2, <1>4, <1>7, <1>9, <1>10, LocalMove

LEMMA ReplyInv ==
  ASSUME IInv, NEW p \in Posts, Reply(p), UNCHANGED now
  PROVE  IInv'
  <1> DEFINE x == [post[p] EXCEPT !.pc = "done", !.status = 201]
  <1>0. post[p] \in PostState /\ Sound(post[p]) /\ post[p].pc = "reply"
    BY OneHandler DEF Reply
  <1>1. UNCHANGED <<urls, next_id, cache>>
    BY DEF Reply
  <1>2. "done" \in PostPcs /\ 201 \in Statuses
    BY PcValues
  <1>3. x \in PostState
    BY <1>0, <1>2 DEF PostState
  <1>4. /\ x.pc = "done" /\ x.long_url = post[p].long_url
        /\ x.url_obj = post[p].url_obj
        /\ x.status = 201 /\ x.created = post[p].created
    BY <1>0 DEF PostState
  <1>5. Creator(x) => Creator(post[p])
    BY <1>4 DEF Creator
  <1>6. post' = [post EXCEPT ![p] = x]
    BY DEF Reply
  <1> HIDE DEF x
  <1>7. ~Writing(x) /\ ~HoldsUrl(x) /\ x.pc # "commit"
    BY <1>4 DEF Writing, HoldsUrl
  <1>8. Sound(x)
    BY <1>0, <1>4, <1>5, <1>7 DEF Sound
  <1>9. \A q \in Posts : q # p => Apart(x, post[q])
    BY <1>4, <1>5, <1>7, OneHandler, QuietApart
  <1> QED BY <1>1, <1>3, <1>6, <1>8, <1>9, OneHandler, LocalMove

-----------------------------------------------------------------------------
LEMMA StutterInv ==
  ASSUME IInv, UNCHANGED <<shortenVars, now>>
  PROVE  IInv'
  <1>1. UNCHANGED <<urls, next_id, cache, post, now>>
    BY DEF shortenVars
  <1> QED BY <1>1 DEF IInv, ShortenTypeOK, Table, Sound, Apart, Writing,
                      HoldsUrl, Creator

\* Every step of POST /shorten keeps the invariant.
LEMMA NextIInv == IInv /\ [ShortenNext]_<<shortenVars, now>> => IInv'
  <1> SUFFICES ASSUME IInv, [ShortenNext]_<<shortenVars, now>> PROVE IInv'
    OBVIOUS
  <1>1. ASSUME NEW p \in Posts, PostStep(p), UNCHANGED now PROVE IInv'
    <2>1. CASE ReceivePost(p) BY <1>1, <2>1, ReceivePostInv
    <2>2. CASE SelectByHash(p) BY <1>1, <2>2, SelectByHashInv
    <2>3. CASE IssueInsert(p) BY <1>1, <2>3, IssueInsertInv
    <2>4. CASE FlushGranted(p) BY <1>1, <2>4, FlushGrantedInv
    <2>5. CASE FlushDuplicate(p) BY <1>1, <2>5, FlushDuplicateInv
    <2>6. CASE UpdateShortCode(p) BY <1>1, <2>6, UpdateShortCodeInv
    <2>7. CASE Commit(p) BY <1>1, <2>7, CommitInv
    <2>8. CASE Refresh(p) BY <1>1, <2>8, RefreshInv
    <2>9. CASE CacheNew(p) BY <1>1, <2>9, CacheNewInv
    <2>10. CASE Reply(p) BY <1>1, <2>10, ReplyInv
    <2>11. CASE DbError(p) BY <1>1, <2>11, DbErrorInv
    <2>12. CASE Crash(p) BY <1>1, <2>12, CrashInv
    <2> QED BY <1>1, <2>1, <2>2, <2>3, <2>4, <2>5, <2>6, <2>7, <2>8, <2>9,
               <2>10, <2>11, <2>12 DEF PostStep, HandlePost
  <1>2. CASE PostsAnswered
    BY <1>2, StutterInv DEF PostsAnswered
  <1>3. CASE UNCHANGED <<shortenVars, now>>
    BY <1>3, StutterInv
  <1> QED BY <1>1, <1>2, <1>3 DEF ShortenNext

\* The invariant holds throughout: the table, every handler and every two
\* handlers agree as Table, Sound and Apart say (crud.py, create_short_url,
\* under the two unique indexes of models.py).
THEOREM ShortenInvariant == ShortenSpec => []IInv
  BY InitIInv, NextIInv, PTL DEF ShortenSpec

-----------------------------------------------------------------------------
\* Type correctness, for any number of requests, URLs and ids: what the
\* handlers write to MySQL and Redis has the columns of the table (models.py)
\* and the fields of the cache entry (cache.py).
THEOREM ShortenTypeCorrect == ShortenSpec => []ShortenTypeOK
  <1>1. IInv => ShortenTypeOK
    BY DEF IInv
  <1> QED BY <1>1, ShortenInvariant, PTL

\* A 201 describes a committed row of the URL the client sent (crud.py answers
\* after db.commit(), or from a row it found).
THEOREM ShortenRepliesDurable == ShortenSpec => []ReplyIsDurable
  <1>1. IInv => ReplyIsDurable
    BY DEF IInv, Sound, ReplyIsDurable, Created
  <1> QED BY <1>1, ShortenInvariant, PTL

\* Every client of one URL is given one code (url.py, shorten_url).
THEOREM ShortenOneCodePerUrl == ShortenSpec => []OneCodePerUrl
  <1>1. IInv => OneCodePerUrl
    BY DEF IInv, Table, Sound, OneCodePerUrl, Created
  <1> QED BY <1>1, ShortenInvariant, PTL

\* Clients of different URLs are given codes that the lookup of the redirect
\* can tell apart, although ids alone do not see to it (models.py:
\* short_code is UNIQUE under the column's collation).
THEOREM ShortenCodesNeverShared == ShortenSpec => []CodesNeverShared
  <1>1. IInv => CodesNeverShared
    BY DEF IInv, Table, Sound, CodesNeverShared, Created
  <1> QED BY <1>1, ShortenInvariant, PTL

\* One client at most is told that it created the record of a URL (crud.py,
\* the second component create_short_url returns).
THEOREM ShortenCreatedOnce == ShortenSpec => []CreatedOnce
  <1>1. IInv => CreatedOnce
    BY DEF IInv, Apart, Creator, CreatedOnce, Created
  <1> QED BY <1>1, ShortenInvariant, PTL

\* No row is committed without its code (crud.py: "no observable intermediate
\* state with short_code = NULL").
THEOREM ShortenNoHalfBuiltRow == ShortenSpec => []NoHalfBuiltRow
  <1>1. IInv => NoHalfBuiltRow
    BY DEF IInv, Table, NoHalfBuiltRow
  <1> QED BY <1>1, ShortenInvariant, PTL

-----------------------------------------------------------------------------
LEMMA CacheStart == ShortenInit => CacheMatchesTable
  BY DEF ShortenInit, CacheInit, CacheMatchesTable

\* Rows only come, and an entry is written for a committed row.
LEMMA CacheStep ==
  IInv /\ CacheMatchesTable /\ [ShortenNext]_<<shortenVars, now>>
    => CacheMatchesTable'
  <1> SUFFICES ASSUME IInv, CacheMatchesTable, [ShortenNext]_<<shortenVars, now>>
               PROVE  CacheMatchesTable'
    OBVIOUS
  <1>1. urls \subseteq urls' /\ (cache' = cache \/ \E p \in Posts : CacheNew(p))
    BY DEF ShortenNext, PostStep, HandlePost, PostsAnswered, shortenVars,
           ReceivePost, SelectByHash, IssueInsert, FlushGranted, FlushDuplicate,
           UpdateShortCode, Commit, Refresh, CacheNew, Reply, DbError, Crash
  <1>2. CASE cache' = cache
    BY <1>1, <1>2 DEF CacheMatchesTable, RowsByShortCode
  <1>3. ASSUME NEW p \in Posts, CacheNew(p) PROVE CacheMatchesTable'
    <2> DEFINE row == post[p].url_obj
               entry == [id |-> row.id, url |-> row.long_url, deadline |-> now + TTL]
    <2>1. /\ row \in urls /\ row.short_code \in Codes
          /\ cache' = [cache EXCEPT ![row.short_code] = entry] \/ cache' = cache
      BY <1>3, CacheNewWrites
    <2>2. entry.id = row.id /\ entry.url = row.long_url
      OBVIOUS
    <2> HIDE DEF row, entry
    <2>3. CASE cache' = [cache EXCEPT ![row.short_code] = entry]
      <3> SUFFICES ASSUME NEW code \in Codes, cache'[code] # Null
                   PROVE  \E r \in urls' :
                            /\ r.short_code # Null
                            /\ Collate(r.short_code) = Collate(code)
                            /\ r.id = cache'[code].id
                            /\ r.long_url = cache'[code].url
        BY DEF CacheMatchesTable, RowsByShortCode
      <3>1. CASE code = row.short_code
        <4>1. cache'[code] = entry
          BY <2>1, <2>3, <3>1 DEF IInv, ShortenTypeOK
        <4> QED BY <1>1, <2>1, <2>2, <3>1, <4>1, NullAssumption
      <3>2. CASE code # row.short_code
        <4>1. cache'[code] = cache[code]
          BY <2>1, <2>3, <3>2 DEF IInv, ShortenTypeOK
        <4> QED BY <1>1, <4>1 DEF CacheMatchesTable, RowsByShortCode
      <3> QED BY <3>1, <3>2
    <2> QED BY <1>2, <2>1, <2>3
  <1> QED BY <1>1, <1>2, <1>3

\* What Redis holds is what the table says (url.py writes the cache after the
\* commit, under the code of the committed row).
THEOREM ShortenCacheMatchesTable == ShortenSpec => []CacheMatchesTable
  BY CacheStart, CacheStep, ShortenInvariant, PTL DEF ShortenSpec
=============================================================================
