---------------------------- MODULE RateLimiter -----------------------------
(***************************************************************************)
(* The sliding-window rate limiter of POST /shorten: check_rate_limit() in *)
(* app/limiter.py, its Lua script on Redis, and rate_limit_dependency() in *)
(* app/dependencies.py, run by request threads of several processes.       *)
(*                                                                         *)
(* A request takes its timestamp in its own process and sends it along; the*)
(* script runs later, atomically, at an instant only Redis knows.  So the  *)
(* script sees timestamps out of order, while the key's EXPIRE counts from *)
(* the moment of execution.  A member of the sorted set is the timestamp   *)
(* of its request in nanoseconds, unique in the code's own terms, and its  *)
(* score the same instant in seconds: here a member is the request, and    *)
(* its score req[r].now_f.                                                 *)
(***************************************************************************)
EXTENDS Integers, FiniteSets

CONSTANTS
  Requests,     \* the requests that consult the limiter
  Ips,          \* the client addresses get_client_ip() returns
  Limit,        \* settings.rate_limit_requests
  Window,       \* settings.rate_limit_window_seconds
  MaxDelay,     \* longest time from a timestamp to the script that carries it
  MaxTime       \* bound: the last tick of the model

ASSUME LimiterAssumption ==
  /\ IsFiniteSet(Requests)
  /\ Limit \in Nat
  /\ Window \in Nat \ {0}
  /\ MaxDelay \in Nat
  /\ MaxTime \in Nat

VARIABLES
  now,          \* the clock of the hosts
  zset,         \* ip -> members of "ratelimit:sw:{ip}"
  expire_at,    \* ip -> when Redis deletes that key
  req,          \* request -> the state of its check
  counted       \* requests Redis recorded under a key it has not lost since:
                \* history, which no guard reads

limiterVars == <<now, zset, expire_at, req, counted>>

Verdicts == {"none", "pass", "limited", "open"}

\* pc "left": decided, but its command is still on its way to Redis.
RequestState == [pc      : {"idle", "stamped", "left", "done"},
                 ip      : Ips,             \* get_client_ip()
                 now_f   : Nat,             \* the timestamp
                 verdict : Verdicts]        \* limited: 429; open: failed open

-----------------------------------------------------------------------------
\* The script's first three calls, for request r: what is left after
\* ZREMRANGEBYSCORE -inf..now_f - Window, with r.  The key is gone if its
\* EXPIRE has run out.
Surviving(ip) == IF now < expire_at[ip] THEN zset[ip] ELSE {}

\* Mutant: one key for every client address.
InWindow_OneKey(r) ==
  {s \in UNION {zset[ip] : ip \in Ips} :
     req[s].now_f > req[r].now_f - Window} \cup {r}

InWindow(r) ==
  {s \in Surviving(req[r].ip) : req[s].now_f > req[r].now_f - Window} \cup {r}

\* Mutant: EXPIRE is set when the key is created, and not again.
RunScript_ExpireOnce(r) ==
  /\ now <= req[r].now_f + MaxDelay
  /\ zset' = [zset EXCEPT ![req[r].ip] = InWindow(r)]
  /\ expire_at' = [expire_at EXCEPT ![req[r].ip] =
                     IF Surviving(req[r].ip) = {} THEN now + Window ELSE @]
  /\ counted' = counted \cup {r}

\* The effect of one execution of the script.
RunScript(r) ==
  /\ now <= req[r].now_f + MaxDelay
  /\ zset' = [zset EXCEPT ![req[r].ip] = InWindow(r)]
  /\ expire_at' = [expire_at EXCEPT ![req[r].ip] = now + Window]
  /\ counted' = counted \cup {r}

-----------------------------------------------------------------------------
\* time.time_ns(), before the script is sent.
Stamp(r) ==
  /\ req[r].pc = "idle"
  /\ req' = [req EXCEPT ![r] = [@ EXCEPT !.pc = "stamped", !.now_f = now]]
  /\ UNCHANGED <<now, zset, expire_at, counted>>

\* Mutant: the count is read before the request is recorded (two clients see
\* the same free place).
Check_CountsFirst(r) ==
  /\ req[r].pc = "stamped"
  /\ RunScript(r)
  /\ req' = [req EXCEPT ![r] =
               [@ EXCEPT !.pc = "done",
                         !.verdict = IF Cardinality(InWindow(r) \ {r}) > Limit
                                     THEN "limited" ELSE "pass"]]
  /\ UNCHANGED now

\* The script executes and its count comes back: 429 or pass.
Check(r) ==
  /\ req[r].pc = "stamped"
  /\ RunScript(r)
  /\ req' = [req EXCEPT ![r] =
               [@ EXCEPT !.pc = "done",
                         !.verdict = IF Cardinality(InWindow(r)) > Limit
                                     THEN "limited" ELSE "pass"]]
  /\ UNCHANGED now

\* Mutant: a failed check is reported as no verdict at all.
FailOpen_NoVerdict(r) ==
  /\ req[r].pc = "stamped"
  /\ req' = [req EXCEPT ![r] = [@ EXCEPT !.pc = "done", !.verdict = "error"]]
  /\ UNCHANGED <<now, zset, expire_at, counted>>

\* RedisError (refused, or one second without an answer): the request passes.
\* A command that was sent may be executed all the same.
FailOpen(r) ==
  /\ req[r].pc = "stamped"
  /\ \E to \in {"left", "done"} :
       req' = [req EXCEPT ![r] = [@ EXCEPT !.pc = to, !.verdict = "open"]]
  /\ UNCHANGED <<now, zset, expire_at, counted>>

\* The command of a request that no longer waits for it executes.
LateScript(r) ==
  /\ req[r].pc = "left"
  /\ RunScript(r)
  /\ req' = [req EXCEPT ![r].pc = "done"]
  /\ UNCHANGED now

\* Redis restarts without persistence, or evicts the key (allkeys-lru).
LoseKey(ip) ==
  /\ zset[ip] # {}
  /\ zset' = [zset EXCEPT ![ip] = {}]
  /\ counted' = {r \in counted : req[r].ip # ip}
  /\ UNCHANGED <<now, expire_at, req>>

Tick ==
  /\ now < MaxTime
  /\ now' = now + 1
  /\ UNCHANGED <<zset, expire_at, req, counted>>

AllDecided ==
  /\ \A r \in Requests : req[r].pc \in {"left", "done"}
  /\ UNCHANGED limiterVars

-----------------------------------------------------------------------------
Init ==
  /\ now = 0
  /\ zset = [ip \in Ips |-> {}]
  /\ expire_at = [ip \in Ips |-> 0]
  /\ \E from \in [Requests -> Ips] :
       req = [r \in Requests |-> [pc |-> "idle", ip |-> from[r], now_f |-> 0,
                                  verdict |-> "none"]]
  /\ counted = {}

Next ==
  \/ \E r \in Requests : Stamp(r) \/ Check(r) \/ FailOpen(r) \/ LateScript(r)
  \/ \E ip \in Ips : LoseKey(ip)
  \/ Tick
  \/ AllDecided

Spec == Init /\ [][Next]_limiterVars

-----------------------------------------------------------------------------
\* Every variable keeps its type.
TypeOK ==
  /\ now \in Nat
  /\ zset \in [Ips -> SUBSET Requests]
  /\ expire_at \in [Ips -> Nat]
  /\ req \in [Requests -> RequestState]
  /\ counted \subseteq Requests

\* No request of the last Window is forgotten: however scripts are reordered,
\* a recorded request leaves the sorted set neither through the eviction of
\* another request nor through EXPIRE before Window has passed since its
\* timestamp (_SLIDING_WINDOW_LUA, steps 1 and 4).
NoEarlyEviction ==
  \A s \in counted :
    now < req[s].now_f + Window =>
      s \in zset[req[s].ip] /\ now < expire_at[req[s].ip]

\* r passed the limiter, and Redis has kept the record of it.
Passed(r) == r \in counted /\ req[r].verdict = "pass"

\* The requests of an address that passed, with a timestamp among the last
\* `width` ticks up to x.
PassedIn(ip, x, width) ==
  {s \in Requests : /\ Passed(s) /\ req[s].ip = ip
                    /\ req[s].now_f \in (x - width + 1)..x}

\* The limit itself.  Of the requests of one address whose timestamps fall in
\* a window shorter than Window by the longest delay of a script, at most
\* Limit pass, whatever processes they ran in and in whatever order Redis saw
\* them, unless Redis failed or lost the key in between (check_rate_limit()).
WindowLimit ==
  \A ip \in Ips, x \in 0..MaxTime :
    Cardinality(PassedIn(ip, x, Window - MaxDelay)) <= Limit

\* The other requests of r's address that could have been in its window.
OthersInWindow(r) ==
  {s \in Requests \ {r} : /\ req[s].pc # "idle"
                          /\ req[s].ip = req[r].ip
                          /\ req[s].now_f > req[r].now_f - Window}

\* A 429 is deserved: a rejected request comes after at least Limit others of
\* its own address with timestamps no older than a window, so that a client
\* that stays away for the Window of its Retry-After header is let in.
NoSpuriousRejection ==
  \A r \in Requests :
    req[r].verdict = "limited" => Limit <= Cardinality(OthersInWindow(r))

\* "The count is always over exactly the last window_seconds, no matter when
\* in time you ask" (limiter.py:14-16): at most Limit requests of an address
\* pass in any Window.  A script counts what is left when it runs, though, and
\* by then records of the window its timestamp ends may be gone.
ExactWindow ==
  \A ip \in Ips, x \in 0..MaxTime :
    Cardinality(PassedIn(ip, x, Window)) <= Limit
=============================================================================
