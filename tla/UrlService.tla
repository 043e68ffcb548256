----------------------------- MODULE UrlService -----------------------------
(***************************************************************************)
(* The URL service: POST /shorten (Shorten) and GET /{short_code}          *)
(* (Redirect) handlers over one table, one cache and one clock, with a     *)
(* Redis that may lose keys at any moment.                                 *)
(***************************************************************************)
EXTENDS Shorten, Redirect

serviceVars == <<urls, next_id, cache, now, post, get, clicks, events>>

PostRequest(p) ==
  PostStep(p) /\ UNCHANGED <<now, get, clicks, events>>

GetRequest(g) == GetStep(g) /\ UNCHANGED <<now, post>>

PassTime == Tick /\ UNCHANGED <<shortenVars, redirectVars>>

RedisLosesKey ==
  /\ \E code \in Codes : LoseKey(code)
  /\ UNCHANGED <<urls, next_id, now, post, get, clicks, events>>

AllAnswered ==
  /\ \A p \in Posts : post[p].pc \in {"done", "crashed"}
  /\ \A g \in Gets  : get[g].pc \in {"done", "crashed"}
  /\ UNCHANGED serviceVars

Init == ShortenInit /\ RedirectInit

Next ==
  \/ \E p \in Posts : PostRequest(p)
  \/ \E g \in Gets : GetRequest(g)
  \/ PassTime
  \/ RedisLosesKey
  \/ AllAnswered

Spec ==
  /\ Init /\ [][Next]_serviceVars
  /\ \A p \in Posts :
       WF_serviceVars(HandlePost(p) /\ UNCHANGED <<now, get, clicks, events>>)
  /\ \A g \in Gets : WF_serviceVars(HandleGet(g) /\ UNCHANGED <<now, post>>)

-----------------------------------------------------------------------------
\* Every variable of the service keeps its type.
TypeOK == ShortenTypeOK /\ RedirectTypeOK

Redirected(g) == get[g].status = 307

\* What a handler is known to have done: its UPDATE was answered; it got as
\* far as the UPDATE.
PastCount(h)    == h.pc \in {"reload", "publish", "reply"} \/ h.end = "past"
ReachedCount(h) == PastCount(h) \/ h.end = "at"

Past(id)    == {g \in Gets : get[g].url_id = id /\ PastCount(get[g])}
Reached(id) == {g \in Gets : get[g].url_id = id /\ ReachedCount(get[g])}

\* A redirect goes where the code was created for, whether the cache or the
\* table answered, whoever filled the cache and under whichever spelling of
\* the code (redirect_url(), steps 1 to 3).
RedirectGoesHome ==
  \A g \in Gets :
    Redirected(g) => \E row \in RowsByShortCode(get[g].code) :
                       row.long_url = get[g].url /\ row.id = get[g].url_id

\* click_count is neither lost nor doubled under concurrent redirects
\* (crud.py, increment_click_count: "a SQL-level UPDATE (not a
\* read-modify-write)"): it counts every request whose UPDATE was answered,
\* also one that crashed later or was told 500 because the broker's name
\* could not be resolved, and it counts no request that did not get as far as
\* the UPDATE: no 404, no 410, nothing that failed or crashed before.  In
\* between are the requests that ended at the UPDATE, which may have counted.
ClicksCountRedirects ==
  \A id \in Ids : /\ Cardinality(Past(id)) <= clicks[id]
                  /\ clicks[id] <= Cardinality(Reached(id))

\* /stats tells of every click (url.py, get_stats: "Stats always come from
\* MySQL (source of truth), not the cache"): whoever asks for a code, in
\* either spelling, is told of the URL its clients were redirected to, and of
\* no fewer clicks than redirects were answered for the code.
StatsTellOfEveryClick ==
  \A code \in Codes :
    LET sent == {g \in Gets : Redirected(g) /\ SameCode(get[g].code, code)}
    IN  sent # {} =>
          \E stats \in GetStats(code) :
            /\ Cardinality(sent) <= stats.click_count
            /\ \A g \in sent : get[g].url = stats.long_url

\* An analytics event is about a click that was counted and a redirect that
\* was or is being sent: it names the URL the client is redirected to, and
\* there are never more events of a URL than clicks in its click_count
\* (publisher.py: "on every successful redirect").
EventsAreRedirects ==
  /\ \A e \in events :
       /\ get[e.click].pc \in {"reply", "crashed"} \/ Redirected(e.click)
       /\ e.long_url = get[e.click].url
  /\ \A id \in Ids :
       Cardinality({e \in events : get[e.click].url_id = id}) <= clicks[id]

\* No code is lost between the two handlers: a GET that came in after a 201
\* for its code is not told 404, whatever Redis lost in between
\* (create_short_url() commits before it answers).
ReadYourWrites ==
  [][\A g \in Gets :
       get[g].status = 0 /\ get'[g].status = 404 =>
         \A p \in Posts :
           Created(p) => ~SameCode(post[p].url_obj.short_code, get[g].code)]_serviceVars

\* A redirect served from the table honours expires_at: X-Cache: MISS never
\* comes with a URL that had expired when the request came in, however long
\* the handler took (redirect_url(), step 2).
FreshReadsHonourExpiry ==
  \A g \in Gets :
    Redirected(g) /\ get[g].x_cache = "MISS" =>
      \A row \in RowsByShortCode(get[g].code) :
        row.expires_at = Null \/ row.expires_at >= get[g].at

\* Every redirect request is answered, or lost with its process.
EveryGetAnswered ==
  \A g \in Gets :
    (get[g].pc = "lookup") ~> (get[g].pc = "crashed" \/ get[g].status # 0)

\* "Returns 404 if not found, 410 if expired" (README.md:138): a redirect is
\* for a URL that had not expired when the request came in.
ExpiredIsGone ==
  \A g \in Gets :
    Redirected(g) => \A row \in RowsByShortCode(get[g].code) :
                       row.expires_at = Null \/ row.expires_at >= get[g].at
=============================================================================
