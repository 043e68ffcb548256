--------------------------- MODULE LatencyMetrics ---------------------------
(***************************************************************************)
(* The latency samples of the redirect (record_latency() in app/cache.py)  *)
(* and what GET /metrics/latency (app/routers/metrics.py) makes of them:   *)
(* two Redis lists, newest sample first, each bounded by an LTRIM that     *)
(* follows the LPUSH as a command of its own.  Any command may fail, and   *)
(* Redis may lose a list.  The mean, rounding and wording are left out.    *)
(***************************************************************************)
EXTENDS Naturals, Sequences, FiniteSets

CONSTANTS
  Gets,         \* the redirects that record a sample
  Latencies,    \* the latencies they measure
  MaxSamples,   \* _MAX_METRIC_SAMPLES (1000)
  Percents      \* the percentiles of the report (50, 95, 99)

ASSUME MetricsAssumption ==
  /\ IsFiniteSet(Gets)
  /\ Latencies \subseteq Nat
  /\ MaxSamples \in Nat \ {0}
  /\ Percents \subseteq 0..100

VARIABLES
  lists,        \* "hits" and "misses" -> the list under its Redis key
  rec,          \* redirect -> [pc, key]; "untrimmed": its LTRIM never comes
  report,       \* the handler of GET /metrics/latency
  pushed,       \* key -> every sample since Redis last lost the list: history
  lost          \* the keys Redis has ever lost: history

metricsVars == <<lists, rec, report, pushed, lost>>

Keys == {"hits", "misses"}

RecState == [pc : {"idle", "ltrim", "untrimmed", "done"}, key : Keys]

ReportState == [pc     : {"idle", "misses", "done", "failed"},
                hits   : Seq(Latencies),
                misses : Seq(Latencies),
                from   : [Keys -> Nat],     \* samples pushed when it began,
                to     : [Keys -> Nat]]     \* and when it ended: history

Least(m, n) == IF m < n THEN m ELSE n

\* How many samples of each kind have been recorded so far.
Recorded == [key \in Keys |-> Len(pushed[key])]

-----------------------------------------------------------------------------
\* record_latency().
LPush(g) ==
  /\ rec[g].pc = "idle"
  /\ \E key \in Keys, ms \in Latencies :
       /\ lists'  = [lists EXCEPT ![key] = <<ms>> \o @]
       /\ pushed' = [pushed EXCEPT ![key] = <<ms>> \o @]
       /\ rec' = [rec EXCEPT ![g] = [pc |-> "ltrim", key |-> key]]
  /\ UNCHANGED <<report, lost>>

\* Mutant: LTRIM key 0 MAX, one too many.
LTrim_OffByOne(g) ==
  /\ rec[g].pc = "ltrim"
  /\ lists' = [lists EXCEPT ![rec[g].key] = SubSeq(@, 1, Least(Len(@), MaxSamples + 1))]
  /\ rec' = [rec EXCEPT ![g].pc = "done"]
  /\ UNCHANGED <<report, pushed, lost>>

\* Mutant: LTRIM key -MAX -1, which keeps the oldest samples.
LTrim_KeepsOldest(g) ==
  /\ rec[g].pc = "ltrim"
  /\ lists' = [lists EXCEPT ![rec[g].key] =
                 SubSeq(@, Len(@) - Least(Len(@), MaxSamples) + 1, Len(@))]
  /\ rec' = [rec EXCEPT ![g].pc = "done"]
  /\ UNCHANGED <<report, pushed, lost>>

LTrim(g) ==
  /\ rec[g].pc = "ltrim"
  /\ lists' = [lists EXCEPT ![rec[g].key] = SubSeq(@, 1, Least(Len(@), MaxSamples))]
  /\ rec' = [rec EXCEPT ![g].pc = "done"]
  /\ UNCHANGED <<report, pushed, lost>>

\* A RedisError, which ends the helper, or the end of the process.
RecordFails(g) ==
  /\ \/ rec[g].pc = "idle"  /\ rec' = [rec EXCEPT ![g].pc = "done"]
     \/ rec[g].pc = "ltrim" /\ rec' = [rec EXCEPT ![g].pc = "untrimmed"]
  /\ UNCHANGED <<lists, report, pushed, lost>>

LoseList(key) ==
  /\ lists[key] # << >>
  /\ lists'  = [lists EXCEPT ![key] = << >>]
  /\ pushed' = [pushed EXCEPT ![key] = << >>]
  /\ lost'   = lost \cup {key}
  /\ UNCHANGED <<rec, report>>

-----------------------------------------------------------------------------
\* get_latency_samples(): two LRANGEs, between which redirects go on.
ReadHits ==
  /\ report.pc = "idle"
  /\ report' = [report EXCEPT !.pc = "misses", !.hits = lists["hits"],
                              !.from = Recorded]
  /\ UNCHANGED <<lists, rec, pushed, lost>>

\* Mutant: LRANGE 0 -2, as if its end were exclusive.
ReadMisses_Exclusive ==
  /\ report.pc = "misses"
  /\ report' = [report EXCEPT !.pc = "done", !.to = Recorded,
                  !.misses = SubSeq(lists["misses"], 1, Len(lists["misses"]) - 1)]
  /\ UNCHANGED <<lists, rec, pushed, lost>>

ReadMisses ==
  /\ report.pc = "misses"
  /\ report' = [report EXCEPT !.pc = "done", !.misses = lists["misses"],
                              !.to = Recorded]
  /\ UNCHANGED <<lists, rec, pushed, lost>>

\* Mutant: lists that were not read are reported as a sample of 0 ms each.
ReadFails_Zero ==
  /\ report.pc \in {"idle", "misses"}
  /\ report' = [report EXCEPT !.pc = "failed", !.hits = <<0>>, !.misses = <<0>>]
  /\ UNCHANGED <<lists, rec, pushed, lost>>

\* A RedisError at either: both lists are reported empty.
ReadFails ==
  /\ report.pc \in {"idle", "misses"}
  /\ report' = [report EXCEPT !.pc = "failed", !.hits = << >>, !.misses = << >>]
  /\ UNCHANGED <<lists, rec, pushed, lost>>

\* Mutant: the index is rounded up.
Index_RoundedUp(n, p) == Least((n * p + 99) \div 100, n - 1)

\* pct() in _compute_stats(), counting from 0.
Index(n, p) == Least((n * p) \div 100, n - 1)

Pct(s, p) == s[Index(Len(s), p) + 1]

\* sorted(): the samples in ascending order.
Sorted(samples) ==
  LET n     == Len(samples)
      order == CHOOSE r \in [1..n -> 1..n] :
                 \A i, j \in 1..n :
                   i < j => r[i] # r[j] /\ samples[r[i]] <= samples[r[j]]
  IN  [i \in 1..n |-> samples[order[i]]]

\* _compute_stats() of a list with samples in it.
Stats(samples) ==
  LET s == Sorted(samples)
  IN  [count |-> Len(s), pct |-> [p \in Percents |-> Pct(s, p)],
       min |-> s[1], max |-> s[Len(s)]]

\* cache_hit_rate, as the fraction it prints as a percentage.
HitRate(hits, misses) == <<Len(hits), Len(hits) + Len(misses)>>

-----------------------------------------------------------------------------
Init ==
  /\ lists  = [key \in Keys |-> << >>]
  /\ pushed = [key \in Keys |-> << >>]
  /\ rec = [g \in Gets |-> [pc |-> "idle", key |-> "hits"]]
  /\ report = [pc |-> "idle", hits |-> << >>, misses |-> << >>,
               from |-> [key \in Keys |-> 0], to |-> [key \in Keys |-> 0]]
  /\ lost = {}

Quiet ==
  /\ \A g \in Gets : rec[g].pc \in {"untrimmed", "done"}
  /\ report.pc \in {"done", "failed"}
  /\ UNCHANGED metricsVars

Next ==
  \/ \E g \in Gets : LPush(g) \/ LTrim(g) \/ RecordFails(g)
  \/ \E key \in Keys : LoseList(key)
  \/ ReadHits \/ ReadMisses \/ ReadFails
  \/ Quiet

Spec == Init /\ [][Next]_metricsVars

-----------------------------------------------------------------------------
\* Every variable keeps its type, and a report is made of numbers whatever
\* failed while its lists were read.
TypeOK ==
  /\ lists \in [Keys -> Seq(Latencies)]
  /\ rec \in [Gets -> RecState]
  /\ report \in ReportState
  /\ pushed \in [Keys -> Seq(Latencies)]
  /\ lost \subseteq Keys

\* The redirects of a list whose LTRIM is still to come, or never comes.
Untrimmed(key) ==
  {g \in Gets : rec[g].key = key /\ rec[g].pc \in {"ltrim", "untrimmed"}}

\* "LTRIM keeps only the last MAX_METRIC_SAMPLES entries so memory stays
\* O(1)" (cache.py, record_latency): a list is never longer than that by more
\* than the redirects that did not get from their LPUSH to their LTRIM.
SamplesBounded ==
  \A key \in Keys :
    Len(lists[key]) <= MaxSamples + Cardinality(Untrimmed(key))

\* "Last 1,000 per category" (metrics.py): whatever LTRIMs ran in whatever
\* order, a list holds the newest samples without a gap, and loses none of
\* the last MaxSamples.
NewestKept ==
  \A key \in Keys :
    /\ Least(Len(pushed[key]), MaxSamples) <= Len(lists[key])
    /\ Len(lists[key]) <= Len(pushed[key])
    /\ lists[key] = SubSeq(pushed[key], 1, Len(lists[key]))

\* v is a p-th percentile of the samples in the textbook sense: p percent of
\* them are no larger and the rest no smaller.
IsPercentile(samples, p, v) ==
  LET n == Len(samples)
  IN  /\ 100 * Cardinality({i \in 1..n : samples[i] <= v}) >= p * n
      /\ 100 * Cardinality({i \in 1..n : samples[i] >= v}) >= (100 - p) * n

\* What /metrics/latency calls p50, p95 and p99 are percentiles, in order and
\* between the extremes, for lists of any length (_compute_stats()).
ReportedPercentiles ==
  \A samples \in {report.hits, report.misses} \ {<< >>} :
    LET stats == Stats(samples)
    IN  \A p \in Percents :
          /\ IsPercentile(samples, p, stats.pct[p])
          /\ stats.min <= stats.pct[p] /\ stats.pct[p] <= stats.max
          /\ \A q \in Percents : p <= q => stats.pct[p] <= stats.pct[q]

\* The hit rate against the redirects (get_latency_metrics()).  The hits are
\* read first and the misses later, with redirects in between, so the rate
\* need not be that of any one moment: it has the hits of the beginning and
\* the misses of the end.  As long as neither list had been cut or lost when
\* the report ended, it therefore never flatters the cache - it is at most the
\* rate at the beginning and at most the rate at the end -, counts every
\* redirect recorded before the report and none recorded after it, and is
\* exact when no redirect was recorded in between.  Once both lists are cut it
\* is one half, whatever the traffic.
HitRateErrsLow ==
  LET rate     == HitRate(report.hits, report.misses)
      Total(n) == n["hits"] + n["misses"]
      AtMost(n) == rate[1] * Total(n) <= n["hits"] * rate[2]
  IN  (/\ report.pc = "done" /\ lost = {}
       /\ \A key \in Keys : report.to[key] <= MaxSamples)
      => /\ AtMost(report.from) /\ AtMost(report.to)
         /\ rate[2] \in Total(report.from)..Total(report.to)
         /\ report.from = report.to =>
              rate = <<report.from["hits"], Total(report.from)>>
=============================================================================
