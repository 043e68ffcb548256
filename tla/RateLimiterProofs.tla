-------------------------- MODULE RateLimiterProofs -------------------------
(***************************************************************************)
(* RateLimiter for any number of requests and addresses, any limit, window *)
(* and script delay.  The argument: a record outlives every instant at     *)
(* which its timestamp could still be in somebody's window (RecordsKept),  *)
(* so that the last of the requests passed within Window - MaxDelay saw    *)
(* all the others in the sorted set when it counted.                       *)
(***************************************************************************)
EXTENDS RateLimiter, FiniteSetTheorems, TLAPS

\* Verdicts are given once, and a command left behind is one that failed open.
VerdictsOnce ==
  \A r \in Requests :
    /\ req[r].pc \in {"idle", "stamped"} => req[r].verdict = "none"
    /\ req[r].pc = "left" => req[r].verdict = "open"

\* The sorted set of an address holds requests of that address.
MembersStamped ==
  \A ip \in Ips : \A s \in zset[ip] : req[s].pc # "idle" /\ req[s].ip = ip

\* A recorded request is in the past, its key is due to live for a window
\* after it, and it is in the sorted set until that window is over.
RecordsKept ==
  \A s \in counted :
    /\ req[s].pc # "idle"
    /\ req[s].now_f <= now
    /\ req[s].now_f + Window <= expire_at[req[s].ip]
    /\ now < req[s].now_f + Window => s \in zset[req[s].ip]

StampsPast == \A r \in Requests : req[r].pc # "idle" => req[r].now_f <= now

IInv == TypeOK /\ VerdictsOnce /\ MembersStamped /\ StampsPast /\ RecordsKept

-----------------------------------------------------------------------------
\* What one execution of the script leaves in the sorted set: members it had,
\* and the request itself.
LEMMA InWindowMembers ==
  ASSUME TypeOK, NEW r \in Requests
  PROVE  /\ InWindow(r) \subseteq zset[req[r].ip] \cup {r}
         /\ r \in InWindow(r)
         /\ InWindow(r) \in SUBSET Requests
  <1>1. req[r].ip \in Ips
    BY DEF TypeOK, RequestState
  <1>2. zset[req[r].ip] \in SUBSET Requests
    BY <1>1 DEF TypeOK
  <1> QED BY <1>2 DEF InWindow, Surviving

\* The invariant holds initially.
LEMMA InitIInv == Init => IInv
  <1> SUFFICES ASSUME Init PROVE IInv
    OBVIOUS
  <1>1. \A r \in Requests : /\ req[r] \in RequestState
                            /\ req[r].pc = "idle"
                            /\ req[r].verdict = "none"
    BY DEF Init, RequestState, Verdicts
  <1>2. TypeOK
    BY <1>1 DEF Init, TypeOK
  <1>3. VerdictsOnce /\ MembersStamped /\ StampsPast /\ RecordsKept
    BY <1>1 DEF Init, VerdictsOnce, MembersStamped, StampsPast, RecordsKept
  <1> QED BY <1>2, <1>3 DEF IInv

\* One execution of the script keeps the types of what it writes.
LEMMA RunScriptType ==
  ASSUME TypeOK, NEW r \in Requests, RunScript(r)
  PROVE  /\ zset' \in [Ips -> SUBSET Requests]
         /\ expire_at' \in [Ips -> Nat]
         /\ counted' \subseteq Requests
  <1>1. now + Window \in Nat
    BY LimiterAssumption DEF TypeOK
  <1> QED BY <1>1, InWindowMembers DEF RunScript, TypeOK

\* A step of the limiter keeps every variable in its type.
LEMMA TypeStep == TypeOK /\ [Next]_limiterVars => TypeOK'
  <1> SUFFICES ASSUME TypeOK, [Next]_limiterVars PROVE TypeOK'
    OBVIOUS
  <1> USE LimiterAssumption
  <1>1. ASSUME NEW r \in Requests, Stamp(r) PROVE TypeOK'
    BY <1>1 DEF Stamp, TypeOK, RequestState, Verdicts
  <1>2. ASSUME NEW r \in Requests, Check(r) PROVE TypeOK'
    <2>1. PICK v \in {"limited", "pass"} :
            req' = [req EXCEPT ![r] = [@ EXCEPT !.pc = "done", !.verdict = v]]
      BY <1>2 DEF Check
    <2>2. req' \in [Requests -> RequestState]
      BY <2>1 DEF TypeOK, RequestState, Verdicts
    <2> QED BY <1>2, <2>2, RunScriptType DEF Check, TypeOK
  <1>3. ASSUME NEW r \in Requests, FailOpen(r) PROVE TypeOK'
    <2>1. PICK to \in {"left", "done"} :
            req' = [req EXCEPT ![r] = [@ EXCEPT !.pc = to, !.verdict = "open"]]
      BY <1>3 DEF FailOpen
    <2>2. req' \in [Requests -> RequestState]
      BY <2>1 DEF TypeOK, RequestState, Verdicts
    <2> QED BY <1>3, <2>2 DEF FailOpen, TypeOK
  <1>4. ASSUME NEW r \in Requests, LateScript(r) PROVE TypeOK'
    <2>1. req' \in [Requests -> RequestState]
      BY <1>4 DEF LateScript, TypeOK, RequestState, Verdicts
    <2> QED BY <1>4, <2>1, RunScriptType DEF LateScript, TypeOK
  <1>5. ASSUME NEW ip \in Ips, LoseKey(ip) PROVE TypeOK'
    BY <1>5 DEF LoseKey, TypeOK
  <1>6. CASE Tick
    BY <1>6 DEF Tick, TypeOK
  <1>7. CASE UNCHANGED limiterVars
    BY <1>7 DEF limiterVars, TypeOK
  <1> QED
    BY <1>1, <1>2, <1>3, <1>4, <1>5, <1>6, <1>7 DEF Next, AllDecided

\* Every reachable state is well typed (TypeOK of RateLimiter), for any
\* requests, addresses, limit, window and delay.
THEOREM LimiterTypeOK == Spec => []TypeOK
  <1>1. Init => TypeOK
    BY InitIInv DEF IInv
  <1> QED BY <1>1, TypeStep, PTL DEF Spec

-----------------------------------------------------------------------------
\* What the script and the request's own bookkeeping change, for one request.
LEMMA ReqStep ==
  ASSUME TypeOK, NEW r \in Requests,
         Check(r) \/ FailOpen(r) \/ LateScript(r)
  PROVE  /\ now' = now
         /\ req[r].pc \in {"stamped", "left"}
         /\ req'[r].pc \in {"left", "done"}
         /\ \A s \in Requests : /\ req'[s].ip = req[s].ip
                                /\ req'[s].now_f = req[s].now_f
                                /\ s # r => req'[s] = req[s]
  <1>1. CASE Check(r)
    BY <1>1 DEF Check, TypeOK, RequestState
  <1>2. CASE FailOpen(r)
    <2>1. PICK to \in {"left", "done"} :
            req' = [req EXCEPT ![r] = [@ EXCEPT !.pc = to, !.verdict = "open"]]
      BY <1>2 DEF FailOpen
    <2> QED BY <1>2, <2>1 DEF FailOpen, TypeOK, RequestState
  <1>3. CASE LateScript(r)
    BY <1>3 DEF LateScript, TypeOK, RequestState
  <1> QED BY <1>1, <1>2, <1>3

\* Stamp writes the request's own record only, and that with the clock.
LEMMA StampStep ==
  ASSUME TypeOK, NEW r \in Requests, Stamp(r)
  PROVE  /\ req[r].pc = "idle" /\ req'[r].pc = "stamped"
         /\ req'[r].now_f = now /\ req'[r].ip = req[r].ip
         /\ req'[r].verdict = req[r].verdict
         /\ \A s \in Requests : s # r => req'[s] = req[s]
         /\ now' = now /\ zset' = zset /\ expire_at' = expire_at
         /\ counted' = counted
  BY DEF Stamp, TypeOK, RequestState

\* No step changes a verdict that was given (VerdictsOnce).
LEMMA VerdictsStep == TypeOK /\ VerdictsOnce /\ [Next]_limiterVars => VerdictsOnce'
  <1> SUFFICES ASSUME TypeOK, VerdictsOnce, [Next]_limiterVars
               PROVE VerdictsOnce'
    OBVIOUS
  <1>1. ASSUME NEW r \in Requests, Stamp(r) PROVE VerdictsOnce'
    BY <1>1, StampStep DEF VerdictsOnce
  <1>2. ASSUME NEW r \in Requests, Check(r) \/ LateScript(r) PROVE VerdictsOnce'
    <2>1. req'[r].pc = "done" /\ \A s \in Requests : s # r => req'[s] = req[s]
      BY <1>2 DEF Check, LateScript, TypeOK, RequestState
    <2> QED BY <2>1 DEF VerdictsOnce
  <1>3. ASSUME NEW r \in Requests, FailOpen(r) PROVE VerdictsOnce'
    <2>1. /\ req'[r].pc \in {"left", "done"} /\ req'[r].verdict = "open"
          /\ \A s \in Requests : s # r => req'[s] = req[s]
      BY <1>3 DEF FailOpen, TypeOK, RequestState
    <2> QED BY <2>1 DEF VerdictsOnce
  <1>4. CASE UNCHANGED req
    BY <1>4 DEF VerdictsOnce
  <1> QED
    BY <1>1, <1>2, <1>3, <1>4
    DEF Next, LoseKey, Tick, AllDecided, limiterVars

\* A sorted set never holds a request that has no timestamp yet, nor one of
\* another address (MembersStamped).
LEMMA MembersStep ==
  TypeOK /\ MembersStamped /\ [Next]_limiterVars => MembersStamped'
  <1> SUFFICES ASSUME TypeOK, MembersStamped, [Next]_limiterVars,
                      NEW ip \in Ips, NEW s \in zset'[ip]
               PROVE req'[s].pc # "idle" /\ req'[s].ip = ip
    BY DEF MembersStamped
  <1>0. s \in Requests
    BY TypeStep DEF TypeOK
  <1>1. ASSUME NEW r \in Requests, Stamp(r)
        PROVE req'[s].pc # "idle" /\ req'[s].ip = ip
    BY <1>0, <1>1, StampStep DEF MembersStamped
  <1>2. ASSUME NEW r \in Requests, Check(r) \/ LateScript(r)
        PROVE req'[s].pc # "idle" /\ req'[s].ip = ip
    <2>1. s \in zset[ip] \/ (s = r /\ req[r].ip = ip)
      BY <1>0, <1>2, InWindowMembers
      DEF Check, LateScript, RunScript, TypeOK, RequestState
    <2> QED BY <1>0, <1>2, <2>1, ReqStep DEF MembersStamped
  <1>3. ASSUME NEW r \in Requests, FailOpen(r)
        PROVE req'[s].pc # "idle" /\ req'[s].ip = ip
    <2>1. s \in zset[ip]
      BY <1>3 DEF FailOpen
    <2> QED BY <1>0, <1>3, <2>1, ReqStep DEF MembersStamped
  <1>4. ASSUME NEW lost \in Ips, LoseKey(lost)
        PROVE req'[s].pc # "idle" /\ req'[s].ip = ip
    <2>1. s \in zset[ip] /\ req' = req
      BY <1>4 DEF LoseKey, TypeOK
    <2> QED BY <2>1 DEF MembersStamped
  <1>5. CASE UNCHANGED <<zset, req>>
    BY <1>5 DEF MembersStamped
  <1> QED
    BY <1>1, <1>2, <1>3, <1>4, <1>5 DEF Next, Tick, AllDecided, limiterVars

\* The clock does not run back behind a timestamp (StampsPast).
LEMMA StampsStep == TypeOK /\ StampsPast /\ [Next]_limiterVars => StampsPast'
  <1> SUFFICES ASSUME TypeOK, StampsPast, [Next]_limiterVars,
                      NEW s \in Requests, req'[s].pc # "idle"
               PROVE req'[s].now_f <= now'
    BY DEF StampsPast
  <1>1. ASSUME NEW r \in Requests, Stamp(r) PROVE req'[s].now_f <= now'
    BY <1>1, StampStep DEF StampsPast, TypeOK
  <1>2. ASSUME NEW r \in Requests, Check(r) \/ FailOpen(r) \/ LateScript(r)
        PROVE req'[s].now_f <= now'
    BY <1>2, ReqStep DEF StampsPast
  <1>3. CASE Tick
    BY <1>3 DEF Tick, StampsPast, TypeOK, RequestState
  <1>4. CASE UNCHANGED <<now, req>>
    BY <1>4 DEF StampsPast
  <1> QED
    BY <1>1, <1>2, <1>3, <1>4 DEF Next, LoseKey, AllDecided, limiterVars

\* The script of r evicts no record whose window is still open, and pushes
\* the death of the key beyond it.
LEMMA ScriptKeepsRecords ==
  ASSUME TypeOK, StampsPast, RecordsKept, NEW r \in Requests, RunScript(r),
         req[r].pc # "idle", NEW s \in counted', req[s].ip = req[r].ip
  PROVE  /\ req[s].pc # "idle" /\ req[s].now_f <= now
         /\ req[s].now_f + Window <= expire_at'[req[s].ip]
         /\ now < req[s].now_f + Window => s \in zset'[req[s].ip]
  <1>0. /\ s \in Requests /\ req[s] \in RequestState /\ req[r] \in RequestState
        /\ now \in Nat /\ Window \in Nat
    BY LimiterAssumption, RunScriptType DEF TypeOK
  <1>1. /\ zset'[req[s].ip] = InWindow(r)
        /\ expire_at'[req[s].ip] = now + Window
        /\ s \in counted \cup {r}
    BY <1>0 DEF RunScript, TypeOK, RequestState
  <1>2. req[s].pc # "idle" /\ req[s].now_f <= now /\ req[r].now_f <= now
    BY <1>0, <1>1 DEF StampsPast, RecordsKept
  <1>3. ASSUME now < req[s].now_f + Window PROVE s \in InWindow(r)
    <2>1. CASE s = r
      BY <2>1, InWindowMembers
    <2>2. CASE s \in counted
      <3>1. s \in zset[req[r].ip] /\ now < expire_at[req[r].ip]
        BY <1>0, <1>3, <2>2 DEF RecordsKept, TypeOK, RequestState
      <3>2. req[s].now_f > req[r].now_f - Window
        BY <1>0, <1>2, <1>3 DEF RequestState
      <3> QED BY <3>1, <3>2 DEF InWindow, Surviving
    <2> QED BY <1>1, <2>1, <2>2
  <1> QED BY <1>0, <1>1, <1>2, <1>3 DEF RequestState

\* No step forgets a record whose window is open (RecordsKept).
LEMMA RecordsStep ==
  TypeOK /\ StampsPast /\ RecordsKept /\ [Next]_limiterVars => RecordsKept'
  <1> SUFFICES ASSUME TypeOK, StampsPast, RecordsKept, [Next]_limiterVars,
                      NEW s \in counted'
               PROVE /\ req'[s].pc # "idle" /\ req'[s].now_f <= now'
                     /\ req'[s].now_f + Window <= expire_at'[req'[s].ip]
                     /\ now' < req'[s].now_f + Window => s \in zset'[req'[s].ip]
    BY DEF RecordsKept
  <1> DEFINE Kept == /\ req'[s].pc # "idle" /\ req'[s].now_f <= now'
                     /\ req'[s].now_f + Window <= expire_at'[req'[s].ip]
                     /\ now' < req'[s].now_f + Window => s \in zset'[req'[s].ip]
  <1>0. s \in Requests
    BY TypeStep DEF TypeOK
  <1>1. ASSUME NEW r \in Requests, Stamp(r) PROVE Kept
    <2>1. s \in counted /\ s # r
      BY <1>1, StampStep DEF RecordsKept
    <2> QED BY <1>0, <1>1, <2>1, StampStep DEF RecordsKept
  <1>2. ASSUME NEW r \in Requests, Check(r) \/ LateScript(r) PROVE Kept
    <2>1. RunScript(r) /\ req[r].pc # "idle"
      BY <1>2 DEF Check, LateScript
    <2>2. /\ now' = now /\ req'[s].ip = req[s].ip /\ req'[s].now_f = req[s].now_f
          /\ req[s].pc # "idle" => req'[s].pc # "idle"
      BY <1>0, <1>2, ReqStep
    <2>3. CASE req[s].ip = req[r].ip
      BY <2>1, <2>2, <2>3, ScriptKeepsRecords
    <2>4. CASE req[s].ip # req[r].ip
      <3>1. /\ s \in counted
            /\ zset'[req[s].ip] = zset[req[s].ip]
            /\ expire_at'[req[s].ip] = expire_at[req[s].ip]
        BY <1>0, <2>1, <2>4 DEF RunScript, TypeOK, RequestState
      <3> QED BY <2>2, <3>1 DEF RecordsKept
    <2> QED BY <2>3, <2>4
  <1>3. ASSUME NEW r \in Requests, FailOpen(r) PROVE Kept
    <2>1. s \in counted /\ UNCHANGED <<zset, expire_at>>
      BY <1>3 DEF FailOpen
    <2> QED BY <1>0, <1>3, <2>1, ReqStep DEF RecordsKept
  <1>4. ASSUME NEW ip \in Ips, LoseKey(ip) PROVE Kept
    <2>1. /\ s \in counted /\ UNCHANGED <<now, expire_at, req>>
          /\ req[s].ip # ip /\ zset'[req[s].ip] = zset[req[s].ip]
      BY <1>0, <1>4 DEF LoseKey, TypeOK, RequestState
    <2> QED BY <2>1 DEF RecordsKept
  <1>5. CASE Tick
    <2>1. s \in counted /\ now' = now + 1 /\ UNCHANGED <<zset, expire_at, req>>
      BY <1>5 DEF Tick
    <2>2. now \in Nat /\ Window \in Nat /\ req[s].now_f \in Nat
      BY <1>0, LimiterAssumption DEF TypeOK, RequestState
    <2> QED BY <2>1, <2>2 DEF RecordsKept
  <1>6. CASE UNCHANGED limiterVars
    BY <1>6 DEF RecordsKept, limiterVars
  <1> QED
    BY <1>1, <1>2, <1>3, <1>4, <1>5, <1>6 DEF Next, AllDecided

\* IInv is an invariant of the limiter.
LEMMA LimiterInvariant == Spec => []IInv
  <1>1. IInv /\ [Next]_limiterVars => IInv'
    BY TypeStep, VerdictsStep, MembersStep, StampsStep, RecordsStep DEF IInv
  <1> QED BY <1>1, InitIInv, PTL DEF Spec

\* A recorded request stays in the sorted set, and the key alive, until
\* Window has passed since its timestamp (NoEarlyEviction).
THEOREM LimiterNoEarlyEviction == Spec => []NoEarlyEviction
  <1>1. IInv => NoEarlyEviction
    <2> SUFFICES ASSUME IInv, NEW s \in counted, now < req[s].now_f + Window
                 PROVE s \in zset[req[s].ip] /\ now < expire_at[req[s].ip]
      BY DEF NoEarlyEviction
    <2>1. /\ now \in Nat /\ Window \in Nat /\ req[s].now_f \in Nat
          /\ expire_at[req[s].ip] \in Nat
      BY LimiterAssumption DEF IInv, TypeOK, RequestState
    <2> QED BY <2>1 DEF IInv, RecordsKept
  <1> QED BY <1>1, LimiterInvariant, PTL

-----------------------------------------------------------------------------
\* All the requests of an address that passed within Window - MaxDelay of an
\* instant not before r are in the window r counts.
LEMMA PassedAreCounted ==
  ASSUME IInv, NEW r \in Requests, req[r].pc # "idle", RunScript(r),
         NEW x \in Nat, req[r].now_f <= x,
         NEW s \in counted, req[s].ip = req[r].ip,
         req[s].now_f \in (x - (Window - MaxDelay) + 1)..x
  PROVE  s \in InWindow(r)
  <1>1. /\ s \in Requests /\ now \in Nat /\ Window \in Nat /\ MaxDelay \in Nat
        /\ req[s].now_f \in Nat /\ req[r].now_f \in Nat
    BY LimiterAssumption DEF IInv, TypeOK, RequestState
  <1>2. now <= req[r].now_f + MaxDelay
    BY DEF RunScript
  <1>3. now < req[s].now_f + Window /\ req[s].now_f > req[r].now_f - Window
    BY <1>1, <1>2
  <1>4. s \in zset[req[r].ip] /\ now < expire_at[req[r].ip]
    <2>1. NoEarlyEviction
      <3>1. \A q \in counted : /\ req[q].now_f \in Nat
                               /\ expire_at[req[q].ip] \in Nat
        BY DEF IInv, TypeOK, RequestState
      <3> QED BY <1>1, <3>1 DEF IInv, RecordsKept, NoEarlyEviction
    <2> QED BY <1>3, <2>1 DEF NoEarlyEviction
  <1> QED BY <1>3, <1>4 DEF InWindow, Surviving

\* The window a request counts is a finite set.
LEMMA InWindowFinite ==
  ASSUME TypeOK, NEW r \in Requests
  PROVE  /\ IsFiniteSet(InWindow(r))
         /\ \A T \in SUBSET InWindow(r) : Cardinality(T) <= Cardinality(InWindow(r))
         /\ Cardinality(InWindow(r)) \in Nat
  <1>1. IsFiniteSet(InWindow(r))
    BY InWindowMembers, FS_Subset, LimiterAssumption
  <1> QED BY <1>1, FS_Subset, FS_CardinalityType

\* Requests are finitely many, and so are those that passed.
LEMMA PassedFinite ==
  ASSUME NEW ip, NEW x, NEW width
  PROVE  /\ IsFiniteSet(PassedIn(ip, x, width))
         /\ Cardinality(PassedIn(ip, x, width)) \in Nat
         /\ \A T \in SUBSET PassedIn(ip, x, width) :
              Cardinality(T) <= Cardinality(PassedIn(ip, x, width))
  <1>1. PassedIn(ip, x, width) \in SUBSET Requests
    BY DEF PassedIn
  <1>2. IsFiniteSet(PassedIn(ip, x, width))
    BY <1>1, FS_Subset, LimiterAssumption
  <1> QED BY <1>2, FS_Subset, FS_CardinalityType

\* No step lets one request too many pass: the only one that lets any pass is
\* Check, and it has counted all those that passed before in the window.
LEMMA WindowLimitStep ==
  IInv /\ WindowLimit /\ [Next]_limiterVars => WindowLimit'
  <1> SUFFICES ASSUME IInv, WindowLimit, [Next]_limiterVars,
                      NEW ip \in Ips, NEW x \in 0..MaxTime
               PROVE Cardinality(PassedIn(ip, x, Window - MaxDelay)') <= Limit
    BY DEF WindowLimit
  <1> DEFINE P == PassedIn(ip, x, Window - MaxDelay)
  <1>0. TypeOK /\ TypeOK' /\ x \in Nat /\ Limit \in Nat
    BY TypeStep, LimiterAssumption DEF IInv
  <1>1. Cardinality(P) \in Nat /\ Cardinality(P) <= Limit
    BY PassedFinite DEF WindowLimit
  <1>2. ASSUME P' \subseteq P PROVE Cardinality(P') <= Limit
    <2>1. Cardinality(P') <= Cardinality(P)
      BY <1>2, PassedFinite
    <2>2. IsFiniteSet(P') /\ Cardinality(P') \in Nat
      BY <1>2, PassedFinite, FS_Subset, FS_CardinalityType
    <2> QED BY <1>0, <1>1, <2>1, <2>2
  <1>3. ASSUME NEW r \in Requests, Stamp(r) PROVE P' \subseteq P
    <2>1. r \notin counted
      BY <1>3, StampStep DEF IInv, RecordsKept
    <2> QED BY <1>0, <1>3, <2>1, StampStep DEF PassedIn, Passed
  <1>4. ASSUME NEW r \in Requests, Check(r) PROVE Cardinality(P') <= Limit
    <2>1. /\ req[r].pc = "stamped" /\ RunScript(r) /\ counted' = counted \cup {r}
          /\ req'[r].verdict = IF Cardinality(InWindow(r)) > Limit
                               THEN "limited" ELSE "pass"
      BY <1>0, <1>4 DEF Check, RunScript, TypeOK, RequestState
    <2>2. \A s \in Requests : /\ req'[s].ip = req[s].ip
                              /\ req'[s].now_f = req[s].now_f
                              /\ s # r => req'[s] = req[s]
      BY <1>0, <1>4, ReqStep
    <2>3. P' \subseteq P \cup {r}
      BY <2>1, <2>2 DEF PassedIn, Passed
    <2>4. CASE r \notin P'
      BY <1>2, <2>3, <2>4
    <2>5. CASE r \in P'
      <3>1. /\ req'[r].verdict = "pass" /\ req[r].ip = ip /\ req[r].now_f <= x
        BY <1>0, <2>2, <2>5 DEF PassedIn, Passed, TypeOK, RequestState
      <3>2. Cardinality(InWindow(r)) <= Limit
        BY <1>0, <2>1, <3>1, InWindowFinite
      <3>3. P' \subseteq InWindow(r)
        <4>1. r \in InWindow(r)
          BY <1>0, InWindowMembers
        <4>2. ASSUME NEW s \in P PROVE s \in InWindow(r)
          BY <1>0, <2>1, <3>1, <4>2, PassedAreCounted DEF PassedIn, Passed
        <4> QED BY <2>3, <4>1, <4>2
      <3>4. Cardinality(P') <= Cardinality(InWindow(r))
        BY <1>0, <3>3, InWindowFinite
      <3>5. Cardinality(P') \in Nat /\ Cardinality(InWindow(r)) \in Nat
        BY <1>0, <3>3, InWindowFinite, FS_Subset, FS_CardinalityType
      <3> QED BY <1>0, <3>2, <3>4, <3>5
    <2> QED BY <2>4, <2>5
  <1>5. ASSUME NEW r \in Requests, FailOpen(r) PROVE P' \subseteq P
    <2>1. req'[r].verdict = "open" /\ counted' = counted
      BY <1>0, <1>5 DEF FailOpen, TypeOK, RequestState
    <2> QED BY <1>0, <1>5, <2>1, ReqStep DEF PassedIn, Passed
  <1>6. ASSUME NEW r \in Requests, LateScript(r) PROVE P' \subseteq P
    <2>1. req'[r].verdict = "open" /\ counted' = counted \cup {r}
      BY <1>0, <1>6
      DEF LateScript, RunScript, TypeOK, RequestState, IInv, VerdictsOnce
    <2> QED BY <1>0, <1>6, <2>1, ReqStep DEF PassedIn, Passed
  <1>7. ASSUME NEW lost \in Ips, LoseKey(lost) PROVE P' \subseteq P
    BY <1>7 DEF LoseKey, PassedIn, Passed
  <1>8. CASE UNCHANGED <<req, counted>>
    BY <1>1, <1>8 DEF PassedIn, Passed
  <1> QED
    BY <1>2, <1>3, <1>4, <1>5, <1>6, <1>7, <1>8
    DEF Next, Tick, AllDecided, limiterVars

\* At most Limit requests of an address pass with timestamps in a window
\* shorter than Window by the longest script delay (WindowLimit), for any
\* limit, window, delay and number of clients.
THEOREM LimiterWindowLimit == Spec => []WindowLimit
  <1>1. Init => WindowLimit
    <2> SUFFICES ASSUME Init, NEW ip \in Ips, NEW x \in 0..MaxTime
                 PROVE Cardinality(PassedIn(ip, x, Window - MaxDelay)) <= Limit
      BY DEF WindowLimit
    <2>1. PassedIn(ip, x, Window - MaxDelay) = {}
      BY DEF Init, PassedIn, Passed
    <2> QED BY <2>1, FS_EmptySet, LimiterAssumption
  <1> QED BY <1>1, WindowLimitStep, LimiterInvariant, PTL DEF Spec

-----------------------------------------------------------------------------
\* The requests that could have been in a window are finitely many.
LEMMA OthersFinite ==
  ASSUME NEW r
  PROVE  /\ IsFiniteSet(OthersInWindow(r))
         /\ Cardinality(OthersInWindow(r)) \in Nat
         /\ \A T \in SUBSET OthersInWindow(r) :
              /\ Cardinality(T) \in Nat
              /\ Cardinality(T) <= Cardinality(OthersInWindow(r))
  <1>1. OthersInWindow(r) \in SUBSET Requests
    BY DEF OthersInWindow
  <1>2. IsFiniteSet(OthersInWindow(r))
    BY <1>1, FS_Subset, LimiterAssumption
  <1> QED BY <1>2, FS_Subset, FS_CardinalityType

\* No step rejects a request without Limit others in its window, or takes one
\* of these away.
LEMMA RejectionStep ==
  IInv /\ NoSpuriousRejection /\ [Next]_limiterVars => NoSpuriousRejection'
  <1> SUFFICES ASSUME IInv, NoSpuriousRejection, [Next]_limiterVars,
                      NEW q \in Requests, req'[q].verdict = "limited"
               PROVE Limit <= Cardinality(OthersInWindow(q)')
    BY DEF NoSpuriousRejection
  <1>0. TypeOK /\ TypeOK' /\ Limit \in Nat
    BY TypeStep, LimiterAssumption DEF IInv
  \* It is enough that q was limited before, and that no other request of its
  \* window goes away.
  <1>1. ASSUME req[q].verdict = "limited",
               OthersInWindow(q) \subseteq OthersInWindow(q)'
        PROVE Limit <= Cardinality(OthersInWindow(q)')
    <2>1. Limit <= Cardinality(OthersInWindow(q))
      BY <1>1 DEF NoSpuriousRejection
    <2>2. /\ IsFiniteSet(OthersInWindow(q)')
          /\ Cardinality(OthersInWindow(q)') \in Nat
      <3>1. OthersInWindow(q)' \in SUBSET Requests
        BY DEF OthersInWindow
      <3> QED BY <3>1, FS_Subset, FS_CardinalityType, LimiterAssumption
    <2>3. Cardinality(OthersInWindow(q)) <= Cardinality(OthersInWindow(q)')
      BY <1>1, <2>2, FS_Subset
    <2> QED BY <1>0, <2>1, <2>2, <2>3, OthersFinite
  <1>2. ASSUME NEW r \in Requests, Stamp(r)
        PROVE Limit <= Cardinality(OthersInWindow(q)')
    <2>1. q # r
      BY <1>2, StampStep DEF IInv, VerdictsOnce
    <2>2. OthersInWindow(q) \subseteq OthersInWindow(q)'
      BY <1>0, <1>2, <2>1, StampStep DEF OthersInWindow
    <2> QED BY <1>0, <1>1, <1>2, <2>1, <2>2, StampStep
  <1>3. ASSUME NEW r \in Requests, Check(r) \/ FailOpen(r) \/ LateScript(r)
        PROVE OthersInWindow(q) \subseteq OthersInWindow(q)'
    BY <1>0, <1>3, ReqStep DEF OthersInWindow
  <1>4. ASSUME NEW r \in Requests, Check(r)
        PROVE Limit <= Cardinality(OthersInWindow(q)')
    <2>1. CASE q # r
      BY <1>0, <1>1, <1>3, <1>4, <2>1, ReqStep
    <2>2. CASE q = r
      <3>1. Cardinality(InWindow(r)) > Limit
        BY <1>0, <1>4, <2>2 DEF Check, TypeOK, RequestState
      <3>2. /\ IsFiniteSet(InWindow(r)) /\ Cardinality(InWindow(r)) \in Nat
            /\ r \in InWindow(r)
        BY <1>0, InWindowFinite, InWindowMembers
      <3>3. /\ IsFiniteSet(InWindow(r) \ {r})
            /\ Cardinality(InWindow(r) \ {r}) = Cardinality(InWindow(r)) - 1
        BY <3>2, FS_RemoveElement
      <3>4. InWindow(r) \ {r} \subseteq OthersInWindow(r)
        <4>1. ASSUME NEW s \in InWindow(r) \ {r} PROVE s \in OthersInWindow(r)
          <5>1. s \in zset[req[r].ip] /\ req[s].now_f > req[r].now_f - Window
            BY <4>1 DEF InWindow, Surviving
          <5>2. req[s].pc # "idle" /\ req[s].ip = req[r].ip /\ s \in Requests
            BY <1>0, <5>1 DEF IInv, MembersStamped, TypeOK, RequestState
          <5> QED BY <4>1, <5>1, <5>2 DEF OthersInWindow
        <4> QED BY <4>1
      <3>5. InWindow(r) \ {r} \subseteq OthersInWindow(r)'
        BY <1>3, <1>4, <2>2, <3>4
      <3>6. /\ IsFiniteSet(OthersInWindow(r)')
            /\ Cardinality(OthersInWindow(r)') \in Nat
        <4>1. OthersInWindow(r)' \in SUBSET Requests
          BY DEF OthersInWindow
        <4> QED BY <4>1, FS_Subset, FS_CardinalityType, LimiterAssumption
      <3>7. Cardinality(InWindow(r) \ {r}) <= Cardinality(OthersInWindow(r)')
        BY <3>5, <3>6, FS_Subset
      <3> QED BY <1>0, <2>2, <3>1, <3>2, <3>3, <3>6, <3>7
    <2> QED BY <2>1, <2>2
  <1>5. ASSUME NEW r \in Requests, FailOpen(r) \/ LateScript(r)
        PROVE Limit <= Cardinality(OthersInWindow(q)')
    <2>1. CASE FailOpen(r)
      <3>1. req'[r].verdict = "open"
        BY <1>0, <2>1 DEF FailOpen, TypeOK, RequestState
      <3>2. req[q].verdict = "limited"
        BY <1>0, <2>1, <3>1, ReqStep
      <3> QED BY <1>1, <1>3, <2>1, <3>2
    <2>2. CASE LateScript(r)
      <3>1. req[q].verdict = "limited"
        BY <1>0, <2>2 DEF LateScript, TypeOK, RequestState
      <3> QED BY <1>1, <1>3, <2>2, <3>1
    <2> QED BY <1>5, <2>1, <2>2
  <1>6. CASE UNCHANGED req
    <2>1. OthersInWindow(q)' = OthersInWindow(q)
      BY <1>6 DEF OthersInWindow
    <2> QED BY <1>1, <1>6, <2>1
  <1> QED
    BY <1>2, <1>4, <1>5, <1>6 DEF Next, LoseKey, Tick, AllDecided, limiterVars

\* A 429 always follows at least Limit other requests of the same address
\* within the window (NoSpuriousRejection), whatever Redis lost or delayed.
THEOREM LimiterNoSpuriousRejection == Spec => []NoSpuriousRejection
  <1>1. Init => NoSpuriousRejection
    BY DEF Init, NoSpuriousRejection
  <1> QED BY <1>1, RejectionStep, LimiterInvariant, PTL DEF Spec
=============================================================================
