------------------------- MODULE UrlDirectoryProofs -------------------------
(***************************************************************************)
(* POST /shorten (module Shorten) implements UrlDirectory, for any number  *)
(* of requests, URLs and ids.  The argument: the commit registers the URL, *)
(* which the two unique indexes keep new and its code distinct; the 201    *)
(* answers with the code of a committed row; an exception or a crash       *)
(* refuses the client; nothing else shows.                                 *)
(***************************************************************************)
EXTENDS ShortenProofs

\* A handler at work, and one that will never answer.
Asking(h)  == h.pc # "idle" /\ h.pc # "crashed" /\ h.status = 0
Refused(h) == h.status = 500 \/ h.pc = "crashed"

\* The refinement mapping of module Shorten, by name.
Dir   == [url \in LongUrls |-> CodeOf(url)]
Calls == [p \in Posts |-> CallOf(p)]

Call(state, url, code, created) ==
  [state |-> state, url |-> url, code |-> code, created |-> created]

\* What the mapping makes of one handler.
ViewState(h) ==
  CASE h.pc = "idle"  -> "idle"
    [] h.status = 201 -> "answered"
    [] h.status = 500 \/ h.pc = "crashed" -> "refused"
    [] OTHER          -> "asked"
View(h) ==
  Call(ViewState(h), h.long_url,
       IF ViewState(h) = "answered" THEN h.url_obj.short_code ELSE Null,
       ViewState(h) = "answered" /\ h.created)

\* What the mapping relies on: a handler that has a status is done.
Orderly(h) == (h.status # 0 => h.pc = "done") /\ h.created \in BOOLEAN

\* The four states of a call are four kinds of handler states.
LEMMA ViewIs ==
  ASSUME NEW h, Orderly(h)
  PROVE  /\ h.pc = "idle" => View(h) = Call("idle", h.long_url, Null, FALSE)
         /\ Asking(h) => View(h) = Call("asked", h.long_url, Null, FALSE)
         /\ Refused(h) => View(h) = Call("refused", h.long_url, Null, FALSE)
         /\ h.status = 201 => View(h) = Call("answered", h.long_url,
                                            h.url_obj.short_code, h.created)
  <1>1. /\ h.pc = "idle" => ViewState(h) = "idle"
        /\ Asking(h) => ViewState(h) = "asked"
        /\ Refused(h) => ViewState(h) = "refused"
        /\ h.status = 201 => ViewState(h) = "answered"
    BY DEF Orderly, ViewState, Asking, Refused
  <1>2. ASSUME NEW state, ViewState(h) = state, state # "answered"
        PROVE  View(h) = Call(state, h.long_url, Null, FALSE)
    BY <1>2 DEF View
  <1>3. ASSUME ViewState(h) = "answered"
        PROVE  View(h) = Call("answered", h.long_url, h.url_obj.short_code, h.created)
    BY <1>3 DEF View, Orderly
  <1> QED BY <1>1, <1>2, <1>3

\* The mapping looks at one handler, before a step and after it.
LEMMA CallIsView ==
  ASSUME NEW p
  PROVE  CallOf(p) = View(post[p]) /\ CallOf(p)' = View(post'[p])
  <1>1. CallState(p) = ViewState(post[p]) /\ CallState(p)' = ViewState(post'[p])
    BY DEF CallState, ViewState
  <1> QED BY <1>1 DEF CallOf, View, Call

\* Every handler is orderly.
LEMMA AllOrderly ==
  IInv => \A q \in Posts : Orderly(post[q])
  BY DEF IInv, ShortenTypeOK, PostState, Sound, Orderly

\* A step of one handler changes its call only.
LEMMA Moved ==
  ASSUME IInv, IInv', NEW p \in Posts, NEW x, post' = [post EXCEPT ![p] = x]
  PROVE  /\ Orderly(post[p]) /\ Orderly(x)
         /\ CallOf(p) = View(post[p]) /\ CallOf(p)' = View(x)
         /\ \A q \in Posts : q # p => CallOf(q)' = CallOf(q)
  <1>1. /\ post'[p] = x
        /\ \A q \in Posts : q # p => post'[q] = post[q]
    BY DEF IInv, ShortenTypeOK
  <1>2. (\A q \in Posts : Orderly(post[q])) /\ \A q \in Posts : Orderly(post'[q])
    <2>1. (\A q \in Posts : Orderly(post[q]))'
      BY DEF IInv, ShortenTypeOK, PostState, Sound, Orderly
    <2> QED BY <2>1, AllOrderly DEF Orderly
  <1> QED BY <1>1, <1>2, CallIsView

\* The code a table gives a URL, when a URL has one row at most.
CodeIn(table, url) ==
  IF {row \in table : row.long_url = url} = {} THEN Null
  ELSE (CHOOSE row \in table : row.long_url = url).short_code

\* That is what the mapping makes of the committed rows, before and after.
LEMMA CodeOfIsIn ==
  ASSUME NEW url
  PROVE  CodeOf(url) = CodeIn(urls, url) /\ CodeOf(url)' = CodeIn(urls', url)
  BY DEF CodeOf, CodeIn, RowsByHash

\* It is the code of the URL's row, and Null without one.
LEMMA CodeInTable ==
  ASSUME NEW table, NEW url,
         \A r, s \in table : r.long_url = s.long_url => r = s
  PROVE  /\ \A row \in table : row.long_url = url => CodeIn(table, url) = row.short_code
         /\ (\A row \in table : row.long_url # url) => CodeIn(table, url) = Null
         /\ CodeIn(table, url) # Null => \E row \in table : row.long_url = url
  <1>1. ASSUME NEW row \in table, row.long_url = url
        PROVE  CodeIn(table, url) = row.short_code
    <2> DEFINE s == CHOOSE s \in table : s.long_url = url
    <2>1. s \in table /\ s.long_url = url
      BY <1>1
    <2>2. s = row
      BY <1>1, <2>1
    <2>3. row \in {r \in table : r.long_url = url}
      BY <1>1
    <2> QED BY <2>2, <2>3 DEF CodeIn
  <1>2. (\A row \in table : row.long_url # url) => CodeIn(table, url) = Null
    BY DEF CodeIn
  <1> QED BY <1>1, <1>2

\* A URL has one committed row at most, before a step and after it.
LEMMA OneRow ==
  /\ IInv => \A r, s \in urls : r.long_url = s.long_url => r = s
  /\ IInv' => \A r, s \in urls' : r.long_url = s.long_url => r = s
  BY DEF IInv, Table

\* A URL is registered once its row is committed.
LEMMA Registered ==
  ASSUME IInv, NEW url
  PROVE  /\ \A row \in urls : row.long_url = url => CodeOf(url) = row.short_code
         /\ (\A row \in urls : row.long_url # url) => CodeOf(url) = Null
         /\ CodeOf(url) # Null => \E row \in urls : row.long_url = url
  BY OneRow, CodeOfIsIn, CodeInTable

\* The directory changes with the table only.
LEMMA DirectorySame ==
  ASSUME urls' = urls
  PROVE  Dir' = Dir
  BY DEF Dir, CodeOf, RowsByHash

-----------------------------------------------------------------------------
\* The four actions of UrlDirectory, in terms of the mapping.
LEMMA AbsAsk ==
  ASSUME NEW p \in Posts, NEW url \in LongUrls,
         CallOf(p) = Call("idle", Null, Null, FALSE),
         CallOf(p)' = Call("asked", url, Null, FALSE),
         \A q \in Posts : q # p => CallOf(q)' = CallOf(q),
         Dir' = Dir
  PROVE  Directory!Next
  <1>1. Calls' = [Calls EXCEPT ![p] = Call("asked", url, Null, FALSE)]
    BY DEF Calls
  <1>2. Calls[p] = Call("idle", Null, Null, FALSE)
    BY DEF Calls
  <1>3. Call("asked", url, Null, FALSE) =
         [Call("idle", Null, Null, FALSE) EXCEPT !.state = "asked", !.url = url]
    <2> DEFINE idle == "idle"
               asked == "asked"
               no == FALSE
    <2> HIDE DEF idle, asked, no
    <2>1. [[state |-> idle, url |-> Null, code |-> Null, created |-> no]
             EXCEPT !.state = asked]
            = [state |-> asked, url |-> Null, code |-> Null, created |-> no]
      OBVIOUS
    <2>2. [[state |-> asked, url |-> Null, code |-> Null, created |-> no]
             EXCEPT !.url = url]
            = [state |-> asked, url |-> url, code |-> Null, created |-> no]
      OBVIOUS
    <2>3. [[Call(idle, Null, Null, no) EXCEPT !.state = asked] EXCEPT !.url = url]
            = Call(asked, url, Null, no)
      BY <2>1, <2>2 DEF Call
    <2> QED BY <2>3 DEF idle, asked, no
  <1>4. Calls' = [Calls EXCEPT ![p].state = "asked", ![p].url = url]
    BY <1>1, <1>2, <1>3 DEF Calls
  <1>5. Calls[p].state = "idle"
    BY <1>2 DEF Call
  <1>6. Directory!Ask(p)
    BY <1>4, <1>5 DEF Directory!Ask, Calls, Dir
  <1> QED BY <1>6 DEF Directory!Next

\* A client is refused.
LEMMA AbsRefuse ==
  ASSUME NEW p \in Posts, NEW url,
         CallOf(p) = Call("asked", url, Null, FALSE),
         CallOf(p)' = Call("refused", url, Null, FALSE),
         \A q \in Posts : q # p => CallOf(q)' = CallOf(q),
         Dir' = Dir
  PROVE  Directory!Next
  <1>1. Calls' = [Calls EXCEPT ![p] = Call("refused", url, Null, FALSE)]
    BY DEF Calls
  <1>2. Calls[p] = Call("asked", url, Null, FALSE)
    BY DEF Calls
  <1>3. Call("refused", url, Null, FALSE) =
         [Call("asked", url, Null, FALSE) EXCEPT !.state = "refused"]
    <2> DEFINE asked == "asked"
               refused == "refused"
               no == FALSE
    <2> HIDE DEF asked, refused, no
    <2>1. [[state |-> asked, url |-> url, code |-> Null, created |-> no]
             EXCEPT !.state = refused]
            = [state |-> refused, url |-> url, code |-> Null, created |-> no]
      OBVIOUS
    <2> QED BY <2>1 DEF Call, asked, refused, no
  <1>4. Calls' = [Calls EXCEPT ![p].state = "refused"]
    BY <1>1, <1>2, <1>3 DEF Calls
  <1>5. Calls[p].state = "asked"
    BY <1>2 DEF Call
  <1>6. Directory!Refuse(p)
    BY <1>4, <1>5 DEF Directory!Refuse, Calls, Dir
  <1> QED BY <1>6 DEF Directory!Next

\* A client is answered.
LEMMA AbsAnswer ==
  ASSUME NEW p \in Posts, NEW url \in LongUrls, NEW created \in BOOLEAN,
         CallOf(p) = Call("asked", url, Null, FALSE),
         CodeOf(url) # Null,
         CallOf(p)' = Call("answered", url, CodeOf(url), created),
         created => \A d \in Posts : CallOf(d).url = url => ~CallOf(d).created,
         \A q \in Posts : q # p => CallOf(q)' = CallOf(q),
         Dir' = Dir
  PROVE  Directory!Next
  <1>1. Calls' = [Calls EXCEPT ![p] = Call("answered", url, CodeOf(url), created)]
    BY DEF Calls
  <1>2. Calls[p] = Call("asked", url, Null, FALSE) /\ Dir[url] = CodeOf(url)
    BY DEF Calls, Dir
  <1>3. Calls[p].state = "asked" /\ Calls[p].url = url
    BY <1>2 DEF Call
  <1>4. created => \A d \in Posts : Calls[d].url = Calls[p].url => ~Calls[d].created
    BY <1>3 DEF Calls
  <1>5. Calls' = [Calls EXCEPT ![p] = [state |-> "answered", url |-> @.url,
                                      code |-> Dir[@.url], created |-> created]]
    BY <1>1, <1>2, <1>3 DEF Call
  <1>6. Directory!Answer(p, created)
    BY <1>2, <1>3, <1>4, <1>5 DEF Directory!Answer, Calls, Dir
  <1> QED BY <1>6 DEF Directory!Next

\* A URL is registered.
LEMMA AbsRegister ==
  ASSUME NEW url \in LongUrls, NEW code \in Codes,
         CodeOf(url) = Null,
         \A u \in LongUrls : CodeOf(u) # Null => ~SameCode(CodeOf(u), code),
         CodeOf(url)' = code,
         \A u \in LongUrls : u # url => CodeOf(u)' = CodeOf(u),
         \A q \in Posts : CallOf(q)' = CallOf(q)
  PROVE  Directory!Next
  <1>1. Dir' = [Dir EXCEPT ![url] = code]
    BY DEF Dir
  <1>2. Calls' = Calls
    BY DEF Calls
  <1>3. Dir[url] = Null /\ \A u \in LongUrls : Dir[u] # Null => ~SameCode(Dir[u], code)
    BY DEF Dir
  <1>4. Directory!Register(url, code)
    BY <1>1, <1>2, <1>3 DEF Directory!Register, Calls, Dir
  <1> QED BY <1>4 DEF Directory!Next

-----------------------------------------------------------------------------
\* The steps of a handler.  One that stays at work does not show.
LEMMA SilentStep ==
  ASSUME IInv, IInv', NEW p \in Posts, NEW x, post' = [post EXCEPT ![p] = x],
         urls' = urls, Asking(post[p]), Asking(x), x.long_url = post[p].long_url
  PROVE  UNCHANGED <<Dir, Calls>>
  <1>1. CallOf(p)' = CallOf(p) /\ \A q \in Posts : q # p => CallOf(q)' = CallOf(q)
    BY Moved, ViewIs
  <1>2. Calls' = Calls
    BY <1>1 DEF Calls
  <1> QED BY <1>2, DirectorySame

\* The same, for a handler that only moves on.
LEMMA PcStep ==
  ASSUME IInv, IInv', NEW p \in Posts, NEW from, NEW to, Step(p, from, to), urls' = urls,
         post[p] \in PostState, Asking(post[p]), to \notin {"idle", "crashed"}
  PROVE  UNCHANGED <<Dir, Calls>>
  <1> DEFINE x == [post[p] EXCEPT !.pc = to]
  <1>1. x.pc = to /\ x.long_url = post[p].long_url /\ x.status = post[p].status
    BY DEF PostState
  <1>2. post' = [post EXCEPT ![p] = x]
    BY DEF Step
  <1> HIDE DEF x
  <1> QED BY <1>1, <1>2, SilentStep DEF Asking

\* One that ends without an answer refuses its client.
LEMMA RefusedStep ==
  ASSUME IInv, IInv', NEW p \in Posts, NEW x, post' = [post EXCEPT ![p] = x],
         urls' = urls, Asking(post[p]), Refused(x), x.long_url = post[p].long_url
  PROVE  Directory!Next
  <1>1. /\ CallOf(p) = Call("asked", post[p].long_url, Null, FALSE)
        /\ CallOf(p)' = Call("refused", post[p].long_url, Null, FALSE)
        /\ \A q \in Posts : q # p => CallOf(q)' = CallOf(q)
    BY Moved, ViewIs
  <1> QED BY <1>1, DirectorySame, AbsRefuse

\* What is at work has not answered.
LEMMA AtWork ==
  ASSUME IInv, NEW p \in Posts, post[p].pc \notin {"idle", "done", "crashed"}
  PROVE  post[p] \in PostState /\ Asking(post[p]) /\ post[p].long_url \in LongUrls
  BY OneHandler DEF Sound, Asking

\* An exception refuses the client (the 500 of FastAPI).
LEMMA RaiseStep ==
  ASSUME IInv, IInv', NEW p \in Posts, NEW cause, Raise(p, cause), urls' = urls,
         post[p].pc \notin {"idle", "done", "crashed"}
  PROVE  Directory!Next
  <1> DEFINE x == [post[p] EXCEPT !.pc = "done", !.url_obj = Null,
                                  !.status = 500, !.cause = cause]
  <1>1. post[p] \in PostState /\ Asking(post[p])
    BY AtWork
  <1>2. x.status = 500 /\ x.long_url = post[p].long_url
    BY <1>1 DEF PostState
  <1>3. post' = [post EXCEPT ![p] = x]
    BY DEF Raise
  <1> HIDE DEF x
  <1> QED BY <1>1, <1>2, <1>3, RefusedStep DEF Refused

\* So does the end of the process.
LEMMA CrashStep ==
  ASSUME IInv, IInv', NEW p \in Posts, Crash(p)
  PROVE  Directory!Next
  <1> DEFINE x == [post[p] EXCEPT !.pc = "crashed", !.url_obj = Null]
  <1>1. post[p] \in PostState /\ Asking(post[p])
    BY AtWork DEF Crash
  <1>2. x.pc = "crashed" /\ x.long_url = post[p].long_url
    BY <1>1 DEF PostState
  <1>3. post' = [post EXCEPT ![p] = x] /\ urls' = urls
    BY DEF Crash
  <1> HIDE DEF x
  <1> QED BY <1>1, <1>2, <1>3, RefusedStep DEF Refused

\* A request asks.
LEMMA ReceiveStep ==
  ASSUME IInv, IInv', NEW p \in Posts, ReceivePost(p)
  PROVE  Directory!Next
  <1>1. PICK url \in LongUrls, e \in OrNull(Expiries) :
          post' = [post EXCEPT ![p] = [@ EXCEPT !.pc = "select",
                                 !.long_url = url, !.expires_at = e]]
    BY DEF ReceivePost
  <1> DEFINE x == [post[p] EXCEPT !.pc = "select", !.long_url = url,
                                  !.expires_at = e]
  <1>2. post[p].pc = "idle" /\ urls' = urls
    BY DEF ReceivePost
  <1>3. post[p] \in PostState /\ post[p].status = 0 /\ post[p].long_url = Null
    BY <1>2, OneHandler DEF Sound
  <1>4. x.pc = "select" /\ x.long_url = url /\ x.status = 0
    BY <1>3 DEF PostState
  <1>5. post' = [post EXCEPT ![p] = x]
    BY <1>1
  <1> HIDE DEF x
  <1>6. Asking(x)
    BY <1>4 DEF Asking
  <1>7. /\ CallOf(p) = Call("idle", Null, Null, FALSE)
        /\ CallOf(p)' = Call("asked", url, Null, FALSE)
        /\ \A q \in Posts : q # p => CallOf(q)' = CallOf(q)
    BY <1>2, <1>3, <1>4, <1>5, <1>6, Moved, ViewIs
  <1> QED BY <1>2, <1>7, DirectorySame, AbsAsk

\* Whether the URL has a row or not, nothing shows yet.
LEMMA SelectStep ==
  ASSUME IInv, IInv', NEW p \in Posts, SelectByHash(p)
  PROVE  UNCHANGED <<Dir, Calls>>
  <1>1. post[p] \in PostState /\ Asking(post[p]) /\ urls' = urls
    BY AtWork DEF SelectByHash
  <1>2. ASSUME NEW row, post' = [post EXCEPT ![p] = [@ EXCEPT !.pc = "setex",
                                                              !.url_obj = row]]
        PROVE  UNCHANGED <<Dir, Calls>>
    <2> DEFINE x == [post[p] EXCEPT !.pc = "setex", !.url_obj = row]
    <2>1. x.pc = "setex" /\ x.long_url = post[p].long_url /\ x.status = post[p].status
      BY <1>1 DEF PostState
    <2>2. post' = [post EXCEPT ![p] = x]
      BY <1>2
    <2> HIDE DEF x
    <2> QED BY <1>1, <2>1, <2>2, SilentStep DEF Asking
  <1>3. ASSUME Step(p, "select", "insert")
        PROVE  UNCHANGED <<Dir, Calls>>
    BY <1>1, <1>3, PcStep
  <1> QED BY <1>2, <1>3 DEF SelectByHash

\* Nor of an uncommitted row.
LEMMA InsertStep ==
  ASSUME IInv, IInv', NEW p \in Posts, IssueInsert(p)
  PROVE  UNCHANGED <<Dir, Calls>>
  <1>1. post[p] \in PostState /\ Asking(post[p]) /\ urls' = urls
    BY AtWork DEF IssueInsert
  <1> DEFINE row == [id         |-> next_id,
                     short_code |-> Null,
                     long_url   |-> post[p].long_url,
                     expires_at |-> post[p].expires_at]
             x == [post[p] EXCEPT !.pc = "flush", !.url_obj = row]
  <1>2. post' = [post EXCEPT ![p] = x]
    BY DEF IssueInsert
  <1> HIDE DEF row
  <1>3. x.pc = "flush" /\ x.long_url = post[p].long_url /\ x.status = post[p].status
    BY <1>1 DEF PostState
  <1> HIDE DEF x
  <1> QED BY <1>1, <1>2, <1>3, SilentStep DEF Asking

\* Its code is refused by the index, or does not show yet.
LEMMA UpdateStep ==
  ASSUME IInv, IInv', NEW p \in Posts, UpdateShortCode(p)
  PROVE  Directory!Next \/ UNCHANGED <<Dir, Calls>>
  <1>1. /\ post[p] \in PostState /\ Asking(post[p]) /\ urls' = urls
        /\ post[p].pc \notin {"idle", "done", "crashed"}
    BY AtWork DEF UpdateShortCode
  <1> DEFINE code == Encode(post[p].url_obj.id)
             x == [post[p] EXCEPT !.pc = "commit", !.url_obj.short_code = code]
  <1>2. \/ Raise(p, "too_long") \/ Raise(p, "short_code")
        \/ post' = [post EXCEPT ![p] = x]
    BY DEF UpdateShortCode
  <1> HIDE DEF code
  <1>3. x.pc = "commit" /\ x.long_url = post[p].long_url /\ x.status = post[p].status
    BY <1>1 DEF PostState
  <1> HIDE DEF x
  <1>4. CASE post' = [post EXCEPT ![p] = x]
    BY <1>1, <1>3, <1>4, SilentStep DEF Asking
  <1>5. ASSUME NEW cause, Raise(p, cause) PROVE Directory!Next
    BY <1>1, <1>5, RaiseStep
  <1> QED BY <1>2, <1>4, <1>5

\* Nor does the second look at the row.
LEMMA RefreshStep ==
  ASSUME IInv, IInv', NEW p \in Posts, Refresh(p)
  PROVE  UNCHANGED <<Dir, Calls>>
  <1>1. post[p] \in PostState /\ Asking(post[p]) /\ urls' = urls
    BY AtWork DEF Refresh
  <1>2. PICK row \in urls :
          post' = [post EXCEPT ![p] = [@ EXCEPT !.pc = "setex",
                                                !.url_obj = row,
                                                !.created = TRUE]]
    BY DEF Refresh
  <1> DEFINE x == [post[p] EXCEPT !.pc = "setex", !.url_obj = row,
                                  !.created = TRUE]
  <1>3. x.pc = "setex" /\ x.long_url = post[p].long_url /\ x.status = post[p].status
    BY <1>1 DEF PostState
  <1>4. post' = [post EXCEPT ![p] = x]
    BY <1>2
  <1> HIDE DEF x
  <1> QED BY <1>1, <1>3, <1>4, SilentStep DEF Asking

\* The commit registers the URL.
LEMMA CommitStep ==
  ASSUME IInv, IInv', NEW p \in Posts, Commit(p)
  PROVE  Directory!Next
  <1> DEFINE row == post[p].url_obj
             x == [post[p] EXCEPT !.pc = "refresh"]
  <1>1. /\ post[p] \in PostState /\ Asking(post[p]) /\ post[p].pc = "commit"
        /\ Sound(post[p])
    BY AtWork, OneHandler DEF Commit, Step
  <1>2. urls' = urls \cup {row} /\ post' = [post EXCEPT ![p] = x]
    BY DEF Commit, Step
  <1>3. x.pc = "refresh" /\ x.long_url = post[p].long_url /\ x.status = post[p].status
    BY <1>1 DEF PostState
  <1> HIDE DEF x
  <1>4. \A q \in Posts : CallOf(q)' = CallOf(q)
    <2>1. /\ Orderly(post[p]) /\ Orderly(x)
          /\ CallOf(p) = View(post[p]) /\ CallOf(p)' = View(x)
          /\ \A q \in Posts : q # p => CallOf(q)' = CallOf(q)
      BY <1>2, Moved
    <2>2. Asking(x)
      BY <1>1, <1>3 DEF Asking
    <2>3. View(x) = Call("asked", x.long_url, Null, FALSE)
      BY <2>1, <2>2, ViewIs
    <2>4. View(post[p]) = Call("asked", post[p].long_url, Null, FALSE)
      BY <1>1, <2>1, ViewIs
    <2> QED BY <1>3, <2>1, <2>3, <2>4
  <1>5. /\ row \in Row /\ row.long_url = post[p].long_url
        /\ row.short_code = Encode(row.id)
        /\ \A r \in urls : r.long_url # row.long_url
        /\ \A r \in urls : ~SameCode(r.short_code, row.short_code)
    BY <1>1 DEF Sound, Writing, HoldsUrl
  <1>6. row.long_url \in LongUrls /\ row.short_code \in Codes
    BY <1>5 DEF Row, Codes
  <1> HIDE DEF row
  <1>7. PICK url \in LongUrls, code \in Codes :
          url = row.long_url /\ code = row.short_code
    BY <1>6
  <1>8. CodeOf(url) = Null
    BY <1>5, <1>7, Registered
  <1>9. \A u \in LongUrls : CodeOf(u) # Null => ~SameCode(CodeOf(u), code)
    BY <1>5, <1>7, Registered
  <1>10. CodeOf(url)' = code
    BY <1>2, <1>7, OneRow, CodeOfIsIn, CodeInTable
  <1>11. ASSUME NEW u \in LongUrls, u # url
         PROVE  CodeOf(u)' = CodeOf(u)
    <2>1. CASE \A r \in urls : r.long_url # u
      <3>1. \A r \in urls' : r.long_url # u
        BY <1>2, <1>7, <1>11, <2>1
      <3> QED BY <2>1, <3>1, OneRow, CodeOfIsIn, CodeInTable
    <2>2. ASSUME NEW r \in urls, r.long_url = u
          PROVE  CodeOf(u)' = CodeOf(u)
      <3>1. r \in urls'
        BY <1>2
      <3> QED BY <2>2, <3>1, OneRow, CodeOfIsIn, CodeInTable
    <2> QED BY <2>1, <2>2
  <1> QED BY <1>4, <1>8, <1>9, <1>10, <1>11, AbsRegister

\* A 201 is the directory's answer.
LEMMA ReplyStep ==
  ASSUME IInv, IInv', NEW p \in Posts, Reply(p)
  PROVE  Directory!Next
  <1> DEFINE x == [post[p] EXCEPT !.pc = "done", !.status = 201]
  <1>1. /\ post[p] \in PostState /\ Asking(post[p]) /\ post[p].pc = "reply"
        /\ post[p].long_url \in LongUrls /\ Sound(post[p])
    BY AtWork, OneHandler DEF Reply
  <1>2. post' = [post EXCEPT ![p] = x] /\ urls' = urls
    BY DEF Reply
  <1>3. /\ x.status = 201 /\ x.long_url = post[p].long_url
        /\ x.created = post[p].created /\ x.url_obj = post[p].url_obj
    BY <1>1 DEF PostState
  <1> HIDE DEF x
  <1>4. PICK url \in LongUrls, created \in BOOLEAN :
          url = post[p].long_url /\ created = post[p].created
    BY <1>1 DEF PostState
  <1>5. post[p].url_obj \in urls /\ post[p].url_obj.long_url = url
    BY <1>1, <1>4 DEF Sound
  <1>6. CodeOf(url) = post[p].url_obj.short_code
    BY <1>5, Registered
  <1>7. CodeOf(url) # Null
    <2>1. post[p].url_obj.short_code \in Codes
      BY <1>5 DEF IInv, ShortenTypeOK, Table, Row, Codes
    <2> QED BY <1>6, <2>1, NullAssumption
  <1>8. /\ CallOf(p) = Call("asked", url, Null, FALSE)
        /\ CallOf(p)' = Call("answered", url, CodeOf(url), created)
        /\ \A q \in Posts : q # p => CallOf(q)' = CallOf(q)
    <2>1. /\ Orderly(post[p]) /\ Orderly(x)
          /\ CallOf(p) = View(post[p]) /\ CallOf(p)' = View(x)
          /\ \A q \in Posts : q # p => CallOf(q)' = CallOf(q)
      BY <1>2, Moved
    <2>2. View(post[p]) = Call("asked", url, Null, FALSE)
      BY <1>1, <1>4, <2>1, ViewIs
    <2>3. View(x) = Call("answered", x.long_url, x.url_obj.short_code, x.created)
      BY <1>3, <2>1, ViewIs
    <2>4. x.long_url = url /\ x.url_obj.short_code = CodeOf(url) /\ x.created = created
      BY <1>3, <1>4, <1>6
    <2>5. View(x) = Call("answered", url, CodeOf(url), created)
      BY <2>3, <2>4
    <2> QED BY <2>1, <2>2, <2>5
  <1>9. ASSUME created, NEW d \in Posts, CallOf(d).url = url
        PROVE  ~CallOf(d).created
    <2>1. CASE d = p
      BY <1>8, <2>1 DEF Call
    <2>2. CASE d # p
      <3>1. CallOf(d).url = post[d].long_url
        BY CallIsView DEF View, Call
      <3>2. Apart(post[p], post[d])
        BY <2>2, OneHandler
      <3>3. ~post[d].created
        BY <1>4, <1>9, <3>1, <3>2 DEF Apart, Creator
      <3> QED BY <3>3 DEF CallOf
    <2> QED BY <2>1, <2>2
  <1> QED BY <1>2, <1>4, <1>7, <1>8, <1>9, DirectorySame, AbsAnswer

-----------------------------------------------------------------------------
\* An empty table is an empty directory.
LEMMA DirectoryStart == ShortenInit => Directory!Init
  <1> SUFFICES ASSUME ShortenInit PROVE Directory!Init
    OBVIOUS
  <1>1. \A url : CodeOf(url) = Null
    BY DEF ShortenInit, StoreInit, CodeOf, RowsByHash
  <1>2. ASSUME NEW p \in Posts
        PROVE  CallOf(p) = [state |-> "idle", url |-> Null,
                            code |-> Null, created |-> FALSE]
    <2>1. /\ post[p].pc = "idle" /\ post[p].long_url = Null
          /\ post[p].status = 0 /\ post[p].created = FALSE
      BY DEF ShortenInit, PostInit
    <2>2. View(post[p]) = Call("idle", Null, Null, FALSE)
      BY <2>1, ViewIs DEF Orderly
    <2> QED BY <2>2, CallIsView DEF Call
  <1> QED BY <1>1, <1>2 DEF Directory!Init

\* Every step of POST /shorten is a step of the directory, or does not show.
LEMMA DirectoryStep ==
  IInv /\ IInv' /\ [ShortenNext]_<<shortenVars, now>>
    => [Directory!Next]_<<Dir, Calls>>
  <1> SUFFICES ASSUME IInv, IInv', [ShortenNext]_<<shortenVars, now>>
               PROVE  Directory!Next \/ UNCHANGED <<Dir, Calls>>
    OBVIOUS
  <1>1. ASSUME NEW p \in Posts, PostStep(p)
        PROVE  Directory!Next \/ UNCHANGED <<Dir, Calls>>
    <2>1. CASE ReceivePost(p) BY <2>1, ReceiveStep
    <2>2. CASE SelectByHash(p) BY <2>2, SelectStep
    <2>3. CASE IssueInsert(p) BY <2>3, InsertStep
    <2>4. CASE FlushGranted(p)
      <3>1. Step(p, "flush", "update") /\ urls' = urls
        BY <2>4 DEF FlushGranted
      <3>2. post[p] \in PostState /\ Asking(post[p])
        BY <3>1, AtWork DEF Step
      <3> QED BY <3>1, <3>2, PcStep
    <2>5. CASE FlushDuplicate(p)
      BY <2>5, RaiseStep DEF FlushDuplicate
    <2>6. CASE UpdateShortCode(p) BY <2>6, UpdateStep
    <2>7. CASE Commit(p) BY <2>7, CommitStep
    <2>8. CASE Refresh(p) BY <2>8, RefreshStep
    <2>9. CASE CacheNew(p)
      <3>1. Step(p, "setex", "reply") /\ urls' = urls
        BY <2>9 DEF CacheNew
      <3>2. post[p] \in PostState /\ Asking(post[p])
        BY <3>1, AtWork DEF Step
      <3> QED BY <3>1, <3>2, PcStep
    <2>10. CASE Reply(p) BY <2>10, ReplyStep
    <2>11. CASE DbError(p)
      BY <2>11, RaiseStep DEF DbError
    <2>12. CASE Crash(p) BY <2>12, CrashStep
    <2> QED BY <1>1, <2>1, <2>2, <2>3, <2>4, <2>5, <2>6, <2>7, <2>8, <2>9,
               <2>10, <2>11, <2>12 DEF PostStep, HandlePost
  <1>2. CASE PostsAnswered \/ UNCHANGED <<shortenVars, now>>
    <2>1. urls' = urls /\ post' = post
      BY <1>2 DEF PostsAnswered, shortenVars
    <2>2. Calls' = Calls
      BY <2>1, CallIsView DEF Calls
    <2> QED BY <2>1, <2>2, DirectorySame
  <1> QED BY <1>1, <1>2 DEF ShortenNext

\* POST /shorten, with its two-step INSERT, its index waits, failures and
\* crashes, implements the directory that gives every URL one code and one
\* client the creation of it (crud.py, create_short_url; url.py, shorten_url).
THEOREM ShortenImplementsDirectory == ShortenSpec => ImplementsDirectory
  <1>1. IInv /\ IInv' /\ [ShortenNext]_<<shortenVars, now>>
          => [Directory!Next]_<<[url \in LongUrls |-> CodeOf(url)],
                                [p \in Posts |-> CallOf(p)]>>
    BY DirectoryStep DEF Dir, Calls
  <1> QED BY <1>1, DirectoryStart, ShortenInvariant, PTL
          DEF ShortenSpec, ImplementsDirectory, Directory!Spec
=============================================================================
