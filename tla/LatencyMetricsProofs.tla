------------------------ MODULE LatencyMetricsProofs ------------------------
(***************************************************************************)
(* The latency samples for any number of redirects and any bound.  The     *)
(* argument: a list is a prefix of what was pushed, since LPUSH adds to    *)
(* the head of both and LTRIM cuts the tail of one; and it outgrows its    *)
(* bound by one sample for each redirect between its two commands.         *)
(***************************************************************************)
EXTENDS LatencyMetrics, SequenceTheorems, FiniteSetTheorems,
        NaturalsInduction, WellFoundedInduction, TLAPS

\* What a report has read, as long as nothing was lost or cut: the hits of its
\* beginning and the misses of its end.
ReportTrue ==
  lost = {} =>
    /\ report.pc = "misses" =>
         /\ \A key \in Keys : report.from[key] <= Len(pushed[key])
         /\ Len(pushed["hits"]) <= MaxSamples => Len(report.hits) = report.from["hits"]
    /\ report.pc = "done" =>
         /\ \A key \in Keys : report.from[key] <= report.to[key]
         /\ report.to["hits"] <= MaxSamples => Len(report.hits) = report.from["hits"]
         /\ report.to["misses"] <= MaxSamples => Len(report.misses) = report.to["misses"]

LatencyInv == TypeOK /\ SamplesBounded /\ NewestKept /\ ReportTrue

-----------------------------------------------------------------------------
\* What the Redis commands do to a list.
LEMMA Pushed ==
  ASSUME NEW S, NEW s \in Seq(S), NEW ms \in S
  PROVE  /\ <<ms>> \o s \in Seq(S)
         /\ Len(<<ms>> \o s) = Len(s) + 1
         /\ \A i \in 1..(Len(s) + 1) :
              (<<ms>> \o s)[i] = IF i = 1 THEN ms ELSE s[i - 1]
  <1>1. <<ms>> \in Seq(S) /\ Len(<<ms>>) = 1 /\ <<ms>>[1] = ms
    OBVIOUS
  <1>2. Len(s) \in Nat
    BY LenProperties
  <1>3. /\ <<ms>> \o s \in Seq(S)
        /\ Len(<<ms>> \o s) = 1 + Len(s)
        /\ \A i \in 1..(1 + Len(s)) :
             (<<ms>> \o s)[i] = IF i <= 1 THEN <<ms>>[i] ELSE s[i - 1]
    BY <1>1, ConcatProperties
  <1> QED BY <1>1, <1>2, <1>3

LEMMA Cut ==
  ASSUME NEW S, NEW s \in Seq(S), NEW n \in 0..Len(s)
  PROVE  /\ SubSeq(s, 1, n) \in Seq(S)
         /\ Len(SubSeq(s, 1, n)) = n
         /\ \A i \in 1..n : SubSeq(s, 1, n)[i] = s[i]
  <1>1. Len(s) \in Nat /\ \A i \in 1..n : s[i] \in S
    BY ElementOfSeq, LenProperties
  <1>2. n \in Int /\ 1 \in Int /\ n - 1 + 1 = n
    BY <1>1
  <1>3. /\ SubSeq(s, 1, n) \in Seq(S)
        /\ Len(SubSeq(s, 1, n)) = IF 1 <= n THEN n - 1 + 1 ELSE 0
        /\ \A i \in 1..(n - 1 + 1) : SubSeq(s, 1, n)[i] = s[1 + i - 1]
    BY <1>1, <1>2, SubSeqProperties
  <1> QED BY <1>1, <1>2, <1>3

\* s is the beginning of t.
LEMMA PrefixByElements ==
  ASSUME NEW S, NEW s \in Seq(S), NEW t \in Seq(S), Len(s) <= Len(t)
  PROVE  s = SubSeq(t, 1, Len(s)) <=> \A i \in 1..Len(s) : s[i] = t[i]
  <1>1. Len(s) \in 0..Len(t)
    BY LenProperties
  <1>2. /\ SubSeq(t, 1, Len(s)) \in Seq(S)
        /\ Len(SubSeq(t, 1, Len(s))) = Len(s)
        /\ \A i \in 1..Len(s) : SubSeq(t, 1, Len(s))[i] = t[i]
    BY <1>1, Cut
  <1>3. ASSUME \A i \in 1..Len(s) : s[i] = t[i]
        PROVE  s = SubSeq(t, 1, Len(s))
    BY <1>2, <1>3, SeqEqual
  <1> QED BY <1>2, <1>3

\* What NewestKept says of one list and of what was pushed to it; an LPUSH and
\* an LTRIM keep it.
Newest(l, p) ==
  /\ Least(Len(p), MaxSamples) <= Len(l)
  /\ Len(l) <= Len(p)
  /\ l = SubSeq(p, 1, Len(l))

LEMMA PushKeepsNewest ==
  ASSUME NEW S, NEW l \in Seq(S), NEW p \in Seq(S), NEW ms \in S, Newest(l, p)
  PROVE  Newest(<<ms>> \o l, <<ms>> \o p)
  <1> DEFINE m == <<ms>> \o l
             q == <<ms>> \o p
  <1>1. Len(l) \in Nat /\ Len(p) \in Nat /\ Len(l) <= Len(p)
    BY LenProperties DEF Newest
  <1>2. /\ m \in Seq(S) /\ Len(m) = Len(l) + 1
        /\ \A i \in 1..(Len(l) + 1) : m[i] = IF i = 1 THEN ms ELSE l[i - 1]
    BY Pushed
  <1>3. /\ q \in Seq(S) /\ Len(q) = Len(p) + 1
        /\ \A i \in 1..(Len(p) + 1) : q[i] = IF i = 1 THEN ms ELSE p[i - 1]
    BY Pushed
  <1>4. \A i \in 1..Len(l) : l[i] = p[i]
    BY <1>1, PrefixByElements DEF Newest
  <1> HIDE DEF m, q
  <1>5. ASSUME NEW i \in 1..Len(m) PROVE m[i] = q[i]
    <2>1. CASE i = 1
      BY <1>1, <1>2, <1>3, <2>1
    <2>2. CASE i # 1
      <3>1. i - 1 \in 1..Len(l) /\ i \in 1..(Len(l) + 1) /\ i \in 1..(Len(p) + 1)
        BY <1>1, <1>2, <2>2
      <3> QED BY <1>2, <1>3, <1>4, <2>2, <3>1
    <2> QED BY <2>1, <2>2
  <1>6. Len(m) <= Len(q)
    BY <1>1, <1>2, <1>3
  <1>7. m = SubSeq(q, 1, Len(m))
    BY <1>2, <1>3, <1>5, <1>6, PrefixByElements
  <1>8. Least(Len(q), MaxSamples) <= Len(m)
    BY <1>1, <1>2, <1>3, MetricsAssumption DEF Newest, Least
  <1> QED BY <1>6, <1>7, <1>8 DEF Newest, m, q

LEMMA CutKeepsNewest ==
  ASSUME NEW S, NEW l \in Seq(S), NEW p \in Seq(S), Newest(l, p)
  PROVE  LET m == SubSeq(l, 1, Least(Len(l), MaxSamples))
         IN  m \in Seq(S) /\ Len(m) <= MaxSamples /\ Newest(m, p)
  <1> DEFINE n == Least(Len(l), MaxSamples)
             m == SubSeq(l, 1, n)
  <1>1. Len(l) \in Nat /\ Len(p) \in Nat /\ MaxSamples \in Nat
    BY LenProperties, MetricsAssumption
  <1>2. n \in 0..Len(l) /\ n <= MaxSamples
    BY <1>1 DEF Least
  <1>3. Least(Len(p), MaxSamples) <= n /\ n <= Len(p)
    BY <1>1 DEF Newest, Least
  <1> HIDE DEF n
  <1>4. m \in Seq(S) /\ Len(m) = n /\ \A i \in 1..n : m[i] = l[i]
    BY <1>2, Cut
  <1>5. \A i \in 1..Len(l) : l[i] = p[i]
    BY PrefixByElements DEF Newest
  <1> HIDE DEF m
  <1>6. \A i \in 1..Len(m) : m[i] = p[i]
    BY <1>1, <1>2, <1>4, <1>5
  <1>7. m = SubSeq(p, 1, Len(m))
    BY <1>3, <1>4, <1>6, PrefixByElements
  <1>8. m \in Seq(S) /\ Len(m) <= MaxSamples /\ Newest(m, p)
    BY <1>2, <1>3, <1>4, <1>7 DEF Newest
  <1> QED BY <1>8 DEF m, n

\* Nothing is the newest of nothing.
LEMMA EmptyIsNewest == Newest(<< >>, << >>)
  <1>1. << >> \in Seq({}) /\ Len(<< >>) = 0
    BY EmptySeq
  <1>2. << >> = SubSeq(<< >>, 1, 0)
    BY SubSeqEmpty
  <1> QED BY <1>1, <1>2, MetricsAssumption DEF Newest, Least

\* The redirects of a list that have not trimmed it are finitely many.
LEMMA UntrimmedCount ==
  ASSUME NEW S, S \subseteq Gets
  PROVE  IsFiniteSet(S) /\ Cardinality(S) \in Nat
  BY FS_Subset, FS_CardinalityType, MetricsAssumption

-----------------------------------------------------------------------------
(* The actions.                                                            *)

LEMMA LPushInv ==
  ASSUME LatencyInv, NEW g \in Gets, LPush(g)
  PROVE  LatencyInv'
  <1>1. PICK key \in Keys, ms \in Latencies :
          /\ lists'  = [lists EXCEPT ![key] = <<ms>> \o @]
          /\ pushed' = [pushed EXCEPT ![key] = <<ms>> \o @]
          /\ rec' = [rec EXCEPT ![g] = [pc |-> "ltrim", key |-> key]]
    BY DEF LPush
  <1>2. rec[g].pc = "idle" /\ report' = report /\ lost' = lost
    BY DEF LPush
  <1>3. /\ lists \in [Keys -> Seq(Latencies)] /\ pushed \in [Keys -> Seq(Latencies)]
        /\ rec \in [Gets -> RecState]
    BY DEF LatencyInv, TypeOK
  <1>4. /\ lists'[key] = <<ms>> \o lists[key] /\ pushed'[key] = <<ms>> \o pushed[key]
        /\ \A k \in Keys : k # key => lists'[k] = lists[k] /\ pushed'[k] = pushed[k]
    BY <1>1, <1>3
  <1>5. /\ <<ms>> \o lists[key] \in Seq(Latencies)
        /\ Len(<<ms>> \o lists[key]) = Len(lists[key]) + 1
        /\ <<ms>> \o pushed[key] \in Seq(Latencies)
        /\ Len(<<ms>> \o pushed[key]) = Len(pushed[key]) + 1
        /\ Len(lists[key]) \in Nat
    BY <1>3, Pushed, LenProperties
  <1>6. TypeOK'
    <2>1. [pc |-> "ltrim", key |-> key] \in RecState
      BY DEF RecState
    <2>2. rec' \in [Gets -> RecState]
      BY <1>1, <1>3, <2>1
    <2>3. lists' \in [Keys -> Seq(Latencies)] /\ pushed' \in [Keys -> Seq(Latencies)]
      BY <1>1, <1>3, <1>5
    <2> QED BY <1>2, <2>2, <2>3 DEF LatencyInv, TypeOK
  <1>7. SamplesBounded'
    <2> SUFFICES ASSUME NEW k \in Keys
                 PROVE  Len(lists'[k]) <= MaxSamples + Cardinality(Untrimmed(k)')
      BY DEF SamplesBounded
    <2>1. Len(lists[k]) <= MaxSamples + Cardinality(Untrimmed(k))
      BY DEF LatencyInv, SamplesBounded
    <2>2. CASE k = key
      <3>1. Untrimmed(k)' = Untrimmed(k) \cup {g} /\ g \notin Untrimmed(k)
        BY <1>1, <1>2, <1>3, <2>2 DEF Untrimmed
      <3>2. IsFiniteSet(Untrimmed(k)) /\ Cardinality(Untrimmed(k)) \in Nat
        BY UntrimmedCount DEF Untrimmed
      <3>3. Cardinality(Untrimmed(k)') = Cardinality(Untrimmed(k)) + 1
        BY <3>1, <3>2, FS_AddElement
      <3> QED BY <1>4, <1>5, <2>1, <2>2, <3>2, <3>3, MetricsAssumption
    <2>3. CASE k # key
      <3>1. Untrimmed(k)' = Untrimmed(k)
        BY <1>1, <1>2, <1>3, <2>3 DEF Untrimmed
      <3> QED BY <1>4, <2>1, <2>3, <3>1
    <2> QED BY <2>2, <2>3
  <1>8. NewestKept'
    <2> SUFFICES ASSUME NEW k \in Keys
                 PROVE  Newest(lists'[k], pushed'[k])
      BY DEF NewestKept, Newest
    <2>1. Newest(lists[k], pushed[k])
      BY DEF LatencyInv, NewestKept, Newest
    <2>2. CASE k = key
      BY <1>3, <1>4, <2>1, <2>2, PushKeepsNewest
    <2>3. CASE k # key
      BY <1>4, <2>1, <2>3
    <2> QED BY <2>2, <2>3
  <1>9. ReportTrue'
    <2>1. \A k \in Keys : Len(pushed[k]) \in Nat /\ Len(pushed'[k]) \in Nat
                          /\ Len(pushed[k]) <= Len(pushed'[k])
      BY <1>3, <1>4, <1>5, LenProperties
    <2>2. \A k \in Keys : report.from[k] \in Nat
      BY DEF LatencyInv, TypeOK, ReportState
    <2>3. "hits" \in Keys
      BY DEF Keys
    <2>4. ASSUME lost = {}, report.pc = "misses"
          PROVE  /\ \A k \in Keys : report.from[k] <= Len(pushed'[k])
                 /\ Len(pushed'["hits"]) <= MaxSamples => Len(report.hits) = report.from["hits"]
      <3>1. /\ \A k \in Keys : report.from[k] <= Len(pushed[k])
            /\ Len(pushed["hits"]) <= MaxSamples => Len(report.hits) = report.from["hits"]
        BY <2>4 DEF LatencyInv, ReportTrue
      <3>2. \A k \in Keys : report.from[k] <= Len(pushed'[k])
        BY <2>1, <2>2, <3>1
      <3>3. Len(pushed'["hits"]) <= MaxSamples => Len(pushed["hits"]) <= MaxSamples
        BY <2>1, <2>3, MetricsAssumption
      <3> QED BY <3>1, <3>2, <3>3
    <2> QED BY <1>2, <2>4 DEF LatencyInv, ReportTrue
  <1> QED BY <1>6, <1>7, <1>8, <1>9 DEF LatencyInv

LEMMA LTrimInv ==
  ASSUME LatencyInv, NEW g \in Gets, LTrim(g)
  PROVE  LatencyInv'
  <1> DEFINE key == rec[g].key
             m   == SubSeq(lists[key], 1, Least(Len(lists[key]), MaxSamples))
  <1>1. /\ lists \in [Keys -> Seq(Latencies)] /\ pushed \in [Keys -> Seq(Latencies)]
        /\ rec \in [Gets -> RecState] /\ key \in Keys
    BY DEF LatencyInv, TypeOK, RecState
  <1>2. /\ UNCHANGED <<report, pushed, lost>>
        /\ lists' = [lists EXCEPT ![key] = m]
        /\ rec' = [rec EXCEPT ![g].pc = "done"]
        /\ rec[g].pc = "ltrim"
    BY DEF LTrim
  <1>3. \A k \in Keys : Newest(lists[k], pushed[k])
    BY DEF LatencyInv, NewestKept, Newest
  <1>4. m \in Seq(Latencies) /\ Len(m) <= MaxSamples /\ Newest(m, pushed[key])
    BY <1>1, <1>3, CutKeepsNewest
  <1> HIDE DEF m
  <1>5. lists'[key] = m /\ \A k \in Keys : k # key => lists'[k] = lists[k]
    BY <1>1, <1>2
  <1>6. TypeOK'
    <2>1. rec' \in [Gets -> RecState]
      BY <1>1, <1>2 DEF RecState
    <2>2. lists' \in [Keys -> Seq(Latencies)]
      BY <1>1, <1>2, <1>4
    <2> QED BY <1>2, <2>1, <2>2 DEF LatencyInv, TypeOK
  <1>7. SamplesBounded'
    <2> SUFFICES ASSUME NEW k \in Keys
                 PROVE  Len(lists'[k]) <= MaxSamples + Cardinality(Untrimmed(k)')
      BY DEF SamplesBounded
    <2>1. Len(lists[k]) <= MaxSamples + Cardinality(Untrimmed(k))
      BY DEF LatencyInv, SamplesBounded
    <2>2. CASE k = key
      <3>1. Cardinality(Untrimmed(k)') \in Nat
        BY UntrimmedCount DEF Untrimmed
      <3>2. Len(m) \in Nat
        BY <1>4, LenProperties
      <3> HIDE DEF key
      <3> QED BY <1>4, <1>5, <2>2, <3>1, <3>2, MetricsAssumption
    <2>3. CASE k # key
      <3>1. Untrimmed(k)' = Untrimmed(k)
        <4>1. \A q \in Gets : q # g => rec'[q] = rec[q]
          BY <1>1, <1>2
        <4>2. rec'[g].key = key
          BY <1>1, <1>2 DEF RecState
        <4> QED BY <2>3, <4>1, <4>2 DEF Untrimmed
      <3> QED BY <1>5, <2>1, <2>3, <3>1
    <2> QED BY <2>2, <2>3
  <1>8. NewestKept'
    <2> SUFFICES ASSUME NEW k \in Keys
                 PROVE  Newest(lists'[k], pushed[k])
      BY <1>2 DEF NewestKept, Newest
    <2> QED BY <1>3, <1>4, <1>5
  <1>9. ReportTrue'
    BY <1>2 DEF LatencyInv, ReportTrue
  <1> QED BY <1>6, <1>7, <1>8, <1>9 DEF LatencyInv

LEMMA RecordFailsInv ==
  ASSUME LatencyInv, NEW g \in Gets, RecordFails(g)
  PROVE  LatencyInv'
  <1>1. UNCHANGED <<lists, report, pushed, lost>>
    BY DEF RecordFails
  <1>2. rec \in [Gets -> RecState]
    BY DEF LatencyInv, TypeOK
  <1>3. PICK to :
          /\ rec' = [rec EXCEPT ![g].pc = to]
          /\ \/ to = "done" /\ rec[g].pc = "idle"
             \/ to = "untrimmed" /\ rec[g].pc = "ltrim"
    BY DEF RecordFails
  <1>4. /\ rec' \in [Gets -> RecState]
        /\ rec'[g].pc = to /\ rec'[g].key = rec[g].key
        /\ \A q \in Gets : q # g => rec'[q] = rec[q]
    <2>1. to \in {"idle", "ltrim", "untrimmed", "done"}
      BY <1>3
    <2> QED BY <1>2, <1>3, <2>1 DEF RecState
  <1>5. \A key \in Keys : Untrimmed(key)' = Untrimmed(key)
    BY <1>3, <1>4 DEF Untrimmed
  <1>6. SamplesBounded'
    BY <1>1, <1>5 DEF LatencyInv, SamplesBounded
  <1>7. TypeOK' /\ NewestKept' /\ ReportTrue'
    BY <1>1, <1>4 DEF LatencyInv, TypeOK, NewestKept, ReportTrue
  <1> QED BY <1>6, <1>7 DEF LatencyInv

LEMMA LoseListInv ==
  ASSUME LatencyInv, NEW key \in Keys, LoseList(key)
  PROVE  LatencyInv'
  <1>1. /\ lists' = [lists EXCEPT ![key] = << >>]
        /\ pushed' = [pushed EXCEPT ![key] = << >>]
        /\ lost' = lost \cup {key}
        /\ UNCHANGED <<rec, report>>
    BY DEF LoseList
  <1>2. << >> \in Seq(Latencies) /\ Len(<< >>) = 0
    BY EmptySeq
  <1>3. /\ lists \in [Keys -> Seq(Latencies)] /\ pushed \in [Keys -> Seq(Latencies)]
        /\ rec \in [Gets -> RecState] /\ report \in ReportState /\ lost \subseteq Keys
    BY DEF LatencyInv, TypeOK
  <1>4. /\ lists'[key] = << >> /\ pushed'[key] = << >>
        /\ \A k \in Keys : k # key => lists'[k] = lists[k] /\ pushed'[k] = pushed[k]
    BY <1>1, <1>3
  <1>5. TypeOK'
    BY <1>1, <1>2, <1>3 DEF TypeOK
  <1>6. SamplesBounded'
    <2> SUFFICES ASSUME NEW k \in Keys
                 PROVE  Len(lists'[k]) <= MaxSamples + Cardinality(Untrimmed(k)')
      BY DEF SamplesBounded
    <2>1. Untrimmed(k)' = Untrimmed(k) /\ Cardinality(Untrimmed(k)) \in Nat
      BY <1>1, UntrimmedCount DEF Untrimmed
    <2>2. CASE k = key
      BY <1>2, <1>4, <2>1, <2>2, MetricsAssumption
    <2>3. CASE k # key
      BY <1>4, <2>1, <2>3 DEF LatencyInv, SamplesBounded
    <2> QED BY <2>2, <2>3
  <1>7. NewestKept'
    <2> SUFFICES ASSUME NEW k \in Keys
                 PROVE  Newest(lists'[k], pushed'[k])
      BY DEF NewestKept, Newest
    <2>1. CASE k = key
      BY <1>4, <2>1, EmptyIsNewest
    <2>2. CASE k # key
      BY <1>4, <2>2 DEF LatencyInv, NewestKept, Newest
    <2> QED BY <2>1, <2>2
  <1>8. ReportTrue'
    BY <1>1 DEF ReportTrue
  <1> QED BY <1>5, <1>6, <1>7, <1>8 DEF LatencyInv

\* The report's own steps leave the lists alone.
LEMMA ReportMove ==
  ASSUME LatencyInv, UNCHANGED <<lists, rec, pushed, lost>>,
         report' \in ReportState, ReportTrue'
  PROVE  LatencyInv'
  BY DEF LatencyInv, TypeOK, SamplesBounded, NewestKept, Untrimmed

\* An uncut list has every sample that was pushed.
LEMMA UncutLength ==
  ASSUME LatencyInv, NEW key \in Keys, Len(pushed[key]) <= MaxSamples
  PROVE  Len(lists[key]) = Len(pushed[key])
  <1>1. Len(lists[key]) \in Nat /\ Len(pushed[key]) \in Nat
    BY LenProperties DEF LatencyInv, TypeOK
  <1> QED BY <1>1, MetricsAssumption DEF LatencyInv, NewestKept, Least

LEMMA RecordedSoFar ==
  ASSUME LatencyInv
  PROVE  /\ Recorded \in [Keys -> Nat]
         /\ \A key \in Keys : Recorded[key] = Len(pushed[key]) /\ Recorded[key] \in Nat
  BY LenProperties DEF LatencyInv, TypeOK, Recorded

LEMMA ReadHitsInv ==
  ASSUME LatencyInv, ReadHits
  PROVE  LatencyInv'
  <1> DEFINE from == Recorded
  <1>1. UNCHANGED <<lists, rec, pushed, lost>> /\ report \in ReportState
    BY DEF ReadHits, LatencyInv, TypeOK
  <1>2. report' = [report EXCEPT !.pc = "misses", !.hits = lists["hits"], !.from = from]
    BY DEF ReadHits
  <1>3. lists["hits"] \in Seq(Latencies)
    BY DEF LatencyInv, TypeOK, Keys
  <1>4. /\ from \in [Keys -> Nat]
        /\ \A key \in Keys : from[key] = Len(pushed[key]) /\ from[key] \in Nat
    BY RecordedSoFar
  <1> HIDE DEF from
  <1>5. /\ report' \in ReportState
        /\ report'.pc = "misses" /\ report'.hits = lists["hits"] /\ report'.from = from
    BY <1>1, <1>2, <1>3, <1>4 DEF ReportState
  <1>6. "hits" \in Keys
    BY DEF Keys
  <1>7. ReportTrue'
    BY <1>1, <1>4, <1>5, <1>6, UncutLength DEF ReportTrue
  <1> QED BY <1>1, <1>5, <1>7, ReportMove

LEMMA ReadMissesInv ==
  ASSUME LatencyInv, ReadMisses
  PROVE  LatencyInv'
  <1> DEFINE to == Recorded
  <1>1. /\ UNCHANGED <<lists, rec, pushed, lost>> /\ report \in ReportState
        /\ report.pc = "misses"
    BY DEF ReadMisses, LatencyInv, TypeOK
  <1>2. report' = [report EXCEPT !.pc = "done", !.misses = lists["misses"], !.to = to]
    BY DEF ReadMisses
  <1>3. lists["misses"] \in Seq(Latencies) /\ "misses" \in Keys /\ "hits" \in Keys
    BY DEF LatencyInv, TypeOK, Keys
  <1>4. /\ to \in [Keys -> Nat]
        /\ \A key \in Keys : to[key] = Len(pushed[key])
    BY RecordedSoFar
  <1> HIDE DEF to
  <1>5. /\ report' \in ReportState
        /\ report'.pc = "done" /\ report'.misses = lists["misses"] /\ report'.to = to
        /\ report'.from = report.from /\ report'.hits = report.hits
    BY <1>1, <1>2, <1>3, <1>4 DEF ReportState
  <1>6. Len(pushed["misses"]) <= MaxSamples => Len(lists["misses"]) = Len(pushed["misses"])
    BY <1>3, UncutLength
  <1>7. ASSUME lost = {}
        PROVE  /\ \A key \in Keys : report'.from[key] <= report'.to[key]
               /\ report'.to["hits"] <= MaxSamples => Len(report'.hits) = report'.from["hits"]
               /\ report'.to["misses"] <= MaxSamples => Len(report'.misses) = report'.to["misses"]
    <2>1. /\ \A key \in Keys : report.from[key] <= Len(pushed[key])
          /\ Len(pushed["hits"]) <= MaxSamples => Len(report.hits) = report.from["hits"]
      BY <1>1, <1>7 DEF LatencyInv, ReportTrue
    <2> QED BY <1>3, <1>4, <1>5, <1>6, <2>1
  <1>8. ReportTrue'
    BY <1>1, <1>5, <1>7 DEF ReportTrue
  <1> QED BY <1>1, <1>5, <1>8, ReportMove

LEMMA ReadFailsInv ==
  ASSUME LatencyInv, ReadFails
  PROVE  LatencyInv'
  <1>1. UNCHANGED <<lists, rec, pushed, lost>> /\ report \in ReportState
    BY DEF ReadFails, LatencyInv, TypeOK
  <1>2. report' = [report EXCEPT !.pc = "failed", !.hits = << >>, !.misses = << >>]
    BY DEF ReadFails
  <1>3. << >> \in Seq(Latencies)
    BY EmptySeq
  <1>4. /\ report' \in ReportState
        /\ report'.pc = "failed" /\ report'.from = report.from
    BY <1>1, <1>2, <1>3 DEF ReportState
  <1>5. ReportTrue'
    BY <1>1, <1>4 DEF ReportTrue, LatencyInv
  <1> QED BY <1>1, <1>4, <1>5, ReportMove

-----------------------------------------------------------------------------
LEMMA LatencyStart == Init => LatencyInv
  <1> SUFFICES ASSUME Init PROVE LatencyInv
    OBVIOUS
  <1>1. << >> \in Seq(Latencies) /\ Len(<< >>) = 0
    BY EmptySeq
  <1>2. \A key \in Keys : lists[key] = << >> /\ pushed[key] = << >>
    BY DEF Init
  <1>3. TypeOK
    BY <1>1 DEF Init, TypeOK, RecState, ReportState, Keys
  <1>4. SamplesBounded
    <2>1. \A key \in Keys : Cardinality(Untrimmed(key)) \in Nat
      BY UntrimmedCount DEF Untrimmed
    <2> QED BY <1>1, <1>2, <2>1, MetricsAssumption DEF SamplesBounded
  <1>5. NewestKept
    BY <1>2, EmptyIsNewest DEF NewestKept, Newest
  <1>6. ReportTrue
    BY <1>1, <1>2 DEF Init, ReportTrue
  <1> QED BY <1>3, <1>4, <1>5, <1>6 DEF LatencyInv

LEMMA LatencyNext == LatencyInv /\ [Next]_metricsVars => LatencyInv'
  <1> SUFFICES ASSUME LatencyInv, [Next]_metricsVars PROVE LatencyInv'
    OBVIOUS
  <1>1. ASSUME NEW g \in Gets, LPush(g) \/ LTrim(g) \/ RecordFails(g) PROVE LatencyInv'
    BY <1>1, LPushInv, LTrimInv, RecordFailsInv
  <1>2. ASSUME NEW key \in Keys, LoseList(key) PROVE LatencyInv'
    BY <1>2, LoseListInv
  <1>3. CASE ReadHits \/ ReadMisses \/ ReadFails
    BY <1>3, ReadHitsInv, ReadMissesInv, ReadFailsInv
  <1>4. CASE Quiet \/ UNCHANGED metricsVars
    BY <1>4 DEF Quiet, metricsVars, LatencyInv, TypeOK, SamplesBounded, NewestKept,
                ReportTrue, Untrimmed
  <1> QED BY <1>1, <1>2, <1>3, <1>4 DEF Next

\* The invariant holds throughout, however LPUSHes, LTRIMs, failures, lost
\* lists and the two LRANGEs of a report interleave (cache.py, record_latency
\* and get_latency_samples).
THEOREM LatencyInvariant == Spec => []LatencyInv
  BY LatencyStart, LatencyNext, PTL DEF Spec

-----------------------------------------------------------------------------
\* The lists and the report hold samples and nothing else (cache.py).
THEOREM LatencyTypeCorrect == Spec => []TypeOK
  <1>1. LatencyInv => TypeOK
    BY DEF LatencyInv
  <1> QED BY <1>1, LatencyInvariant, PTL

\* A list outgrows its bound by at most the redirects that stand between
\* their LPUSH and their LTRIM, or died there (cache.py, record_latency).
THEOREM LatencySamplesBounded == Spec => []SamplesBounded
  <1>1. LatencyInv => SamplesBounded
    BY DEF LatencyInv
  <1> QED BY <1>1, LatencyInvariant, PTL

\* A list is the newest of what was pushed, without a gap, in whatever order
\* the LTRIMs ran (cache.py, record_latency).
THEOREM LatencyNewestKept == Spec => []NewestKept
  <1>1. LatencyInv => NewestKept
    BY DEF LatencyInv
  <1> QED BY <1>1, LatencyInvariant, PTL

\* Multiplying out fractions.
LEMMA TimesMonotone ==
  ASSUME NEW k \in Nat, NEW a \in Nat, NEW b \in Nat, a <= b
  PROVE  k * a <= k * b
  OBVIOUS

LEMMA MoreHits ==
  ASSUME NEW h \in Nat, NEW g \in Nat, NEW m \in Nat, h <= g
  PROVE  h * (g + m) <= g * (h + m)
  <1>1. /\ h * (g + m) = h * g + h * m
        /\ g * (h + m) = h * g + g * m
    OBVIOUS
  <1>2. m * h <= m * g
    BY TimesMonotone
  <1>3. m * h = h * m /\ m * g = g * m /\ h * g \in Nat /\ h * m \in Nat /\ g * m \in Nat
    OBVIOUS
  <1> QED BY <1>1, <1>2, <1>3

\* Until a list is cut or lost, the reported hit rate is at most the rate at
\* the beginning of the report and at most the rate at its end, counts all of
\* the redirects recorded before it and none recorded after it, and is exact
\* when none was recorded meanwhile (metrics.py, get_latency_metrics, over the
\* two LRANGEs of cache.py).
THEOREM LatencyHitRate == Spec => []HitRateErrsLow
  <1>1. ASSUME LatencyInv, report.pc = "done", lost = {},
               \A key \in Keys : report.to[key] <= MaxSamples
        PROVE  LET rate     == HitRate(report.hits, report.misses)
                   Total(n) == n["hits"] + n["misses"]
                   AtMost(n) == rate[1] * Total(n) <= n["hits"] * rate[2]
               IN  /\ AtMost(report.from) /\ AtMost(report.to)
                   /\ rate[2] \in Total(report.from)..Total(report.to)
                   /\ report.from = report.to =>
                        rate = <<report.from["hits"], Total(report.from)>>
    <2> DEFINE fh == report.from["hits"]
               fm == report.from["misses"]
               th == report.to["hits"]
               tm == report.to["misses"]
    <2>1. "hits" \in Keys /\ "misses" \in Keys
      BY DEF Keys
    <2>2. /\ fh <= th /\ fm <= tm
          /\ Len(report.hits) = fh /\ Len(report.misses) = tm
      BY <1>1, <2>1 DEF LatencyInv, ReportTrue
    <2>3. fh \in Nat /\ fm \in Nat /\ th \in Nat /\ tm \in Nat
      BY <1>1, <2>1 DEF LatencyInv, TypeOK, ReportState
    <2>4. HitRate(report.hits, report.misses) = <<fh, fh + tm>>
      BY <2>2 DEF HitRate
    <2>5. report.from = report.to => fm = tm
      OBVIOUS
    <2> HIDE DEF fh, fm, th, tm
    <2>6. fh * (fh + fm) <= fh * (fh + tm)
      BY <2>2, <2>3, TimesMonotone
    <2>7. fh * (th + tm) <= th * (fh + tm)
      BY <2>2, <2>3, MoreHits
    <2>8. fh + tm \in (fh + fm)..(th + tm)
      BY <2>2, <2>3
    <2>9. report.from = report.to => <<fh, fh + tm>> = <<fh, fh + fm>>
      BY <2>5
    <2> QED BY <2>4, <2>6, <2>7, <2>8, <2>9 DEF fh, fm, th, tm
  <1>2. LatencyInv => HitRateErrsLow
    BY <1>1 DEF HitRateErrsLow
  <1> QED BY <1>2, LatencyInvariant, PTL

-----------------------------------------------------------------------------
\* sorted() and pct().  That a list can be sorted at all is an induction over
\* its length, made here by the least length that would refute it.
\*
\* A non-empty set of numbers has a least one.
LEMMA LeastNat ==
  ASSUME NEW T, T \subseteq Nat, T # {}
  PROVE  \E m \in T : \A k \in T : m <= k
  <1> DEFINE R == OpToRel(<, Nat)
  <1>1. IsWellFoundedOn(R, Nat)
    BY NatLessThanWellFounded
  <1>2. \A x, y \in Nat : <<x, y>> \in R <=> x < y
    BY DEF OpToRel
  <1> HIDE DEF R
  <1>3. PICK m \in T : \A k \in T : ~(<<k, m>> \in R)
    BY <1>1, WFMin
  <1>4. ASSUME NEW k \in T PROVE m <= k
    <2>1. ~(k < m)
      BY <1>2, <1>3
    <2>2. k \in Nat /\ m \in Nat
      OBVIOUS
    <2> QED BY <2>1, <2>2
  <1> QED BY <1>4

\* s[k] is the largest of n samples; no sample of some n is.
Largest(n, s, k) == k \in 1..n /\ \A i \in 1..n : s[i] <= s[k]
NoLargest(n) == n > 0 /\ \E s \in [1..n -> Nat] : ~\E k : Largest(n, s, k)

\* Some sample is the largest.
LEMMA HasLargest ==
  ASSUME NEW n \in Nat, n > 0, NEW s \in [1..n -> Nat]
  PROVE  \E k : Largest(n, s, k)
  <1>1. ASSUME NEW m \in Nat, NoLargest(m), \A k \in Nat : NoLargest(k) => m <= k
        PROVE  FALSE
    <2>1. m > 0
      BY <1>1 DEF NoLargest
    <2>2. PICK t \in [1..m -> Nat] : ~\E k : Largest(m, t, k)
      BY <1>1 DEF NoLargest
    <2>3. CASE m = 1
      <3>1. Largest(m, t, 1)
        BY <2>3 DEF Largest
      <3> QED BY <2>2, <3>1
    <2>4. CASE m > 1
      <3> DEFINE l == m - 1
                 u == [i \in 1..l |-> t[i]]
      <3>1. l \in Nat /\ l > 0 /\ l < m
        BY <2>4
      <3>2. ~NoLargest(l)
        BY <1>1, <3>1
      <3>3. \A i \in 1..m : t[i] \in Nat /\ (i \in 1..l \/ i = m)
        BY <2>2
      <3>4. 1..l \subseteq 1..m /\ m \in 1..m
        BY <3>1
      <3>5. u \in [1..l -> Nat] /\ \A i \in 1..l : u[i] = t[i]
        BY <3>3, <3>4
      <3> HIDE DEF l, u
      <3>6. PICK k : Largest(l, u, k)
        BY <3>1, <3>2, <3>5 DEF NoLargest
      <3>7. k \in 1..m /\ \A i \in 1..l : t[i] <= t[k]
        BY <3>4, <3>5, <3>6 DEF Largest
      <3>8. CASE t[m] <= t[k]
        <4>1. Largest(m, t, k)
          BY <3>3, <3>7, <3>8 DEF Largest
        <4> QED BY <2>2, <4>1
      <3>9. CASE t[k] < t[m]
        <4>1. \A i \in 1..l : t[i] <= t[m]
          BY <3>3, <3>4, <3>7, <3>9
        <4>2. Largest(m, t, m)
          BY <3>3, <3>4, <4>1 DEF Largest
        <4> QED BY <2>2, <4>2
      <3> QED BY <3>3, <3>4, <3>7, <3>8, <3>9
    <2> QED BY <2>1, <2>3, <2>4
  <1>2. CASE NoLargest(n)
    <2>1. PICK m \in {k \in Nat : NoLargest(k)} : \A k \in {j \in Nat : NoLargest(j)} : m <= k
      BY <1>2, LeastNat
    <2> QED BY <1>1, <2>1
  <1> QED BY <1>2 DEF NoLargest

\* r is an ascending order of n samples; some n samples have none.
Ascending(n, s, r) ==
  /\ r \in [1..n -> 1..n]
  /\ \A i, j \in 1..n : i < j => r[i] # r[j] /\ s[r[i]] <= s[r[j]]
Unsortable(n) == \E s \in [1..n -> Nat] : ~\E r : Ascending(n, s, r)

\* Every list has an ascending order: that of the rest, once the largest is
\* swapped to the end.
LEMMA CanBeSorted ==
  ASSUME NEW n \in Nat, NEW s \in [1..n -> Nat]
  PROVE  \E r : Ascending(n, s, r)
  <1>1. ASSUME NEW m \in Nat, Unsortable(m), \A k \in Nat : Unsortable(k) => m <= k
        PROVE  FALSE
    <2>1. PICK t \in [1..m -> Nat] : ~\E r : Ascending(m, t, r)
      BY <1>1 DEF Unsortable
    <2>2. CASE m = 0
      <3> DEFINE none == [i \in 1..m |-> i]
      <3>1. Ascending(m, t, none)
        BY <2>2 DEF Ascending
      <3> QED BY <2>1, <3>1
    <2>3. CASE m > 0
      <3>1. PICK k : Largest(m, t, k)
        BY <2>3, HasLargest
      <3> DEFINE l == m - 1
                 u == [i \in 1..l |-> IF i = k THEN t[m] ELSE t[i]]
      <3>2. l \in Nat /\ l < m
        BY <2>3
      <3>3. \A i \in 1..m : t[i] \in Nat /\ (i \in 1..l \/ i = m)
        BY <2>1
      <3>4. 1..l \subseteq 1..m /\ m \in 1..m /\ m \notin 1..l
        BY <2>3
      <3>5. /\ u \in [1..l -> Nat]
            /\ \A i \in 1..l : u[i] = IF i = k THEN t[m] ELSE t[i]
        BY <3>3, <3>4
      <3> HIDE DEF l, u
      <3>6. ~Unsortable(l)
        BY <1>1, <3>2
      <3>7. PICK q : Ascending(l, u, q)
        BY <3>5, <3>6 DEF Unsortable
      <3> DEFINE r == [i \in 1..m |-> IF i = m THEN k
                                      ELSE IF q[i] = k THEN m ELSE q[i]]
      <3>8. k \in 1..m /\ \A i \in 1..m : t[i] <= t[k]
        BY <3>1 DEF Largest
      <3>9. \A i \in 1..l : q[i] \in 1..l
        BY <3>7 DEF Ascending
      <3>10. r \in [1..m -> 1..m]
        BY <3>3, <3>4, <3>8, <3>9
      <3>11. /\ r[m] = k
             /\ \A i \in 1..l : r[i] = IF q[i] = k THEN m ELSE q[i]
        BY <3>4
      <3> HIDE DEF r
      <3>12. \A i \in 1..l : t[r[i]] = u[q[i]] /\ r[i] # k
        BY <3>4, <3>5, <3>9, <3>11
      <3>13. ASSUME NEW i \in 1..m, NEW j \in 1..m, i < j
             PROVE  r[i] # r[j] /\ t[r[i]] <= t[r[j]]
        <4>1. i \in 1..l
          BY <3>2, <3>13, <3>3
        <4>2. CASE j = m
          BY <3>8, <3>10, <3>11, <3>12, <4>1, <4>2
        <4>3. CASE j \in 1..l
          <5>1. q[i] # q[j] /\ u[q[i]] <= u[q[j]]
            BY <3>7, <3>13, <4>1, <4>3 DEF Ascending
          <5>2. r[i] # r[j]
            BY <3>4, <3>9, <3>11, <4>1, <4>3, <5>1
          <5> QED BY <3>12, <4>1, <4>3, <5>1, <5>2
        <4> QED BY <3>3, <4>2, <4>3
      <3>14. Ascending(m, t, r)
        BY <3>10, <3>13 DEF Ascending
      <3> QED BY <2>1, <3>14
    <2> QED BY <2>2, <2>3
  <1>2. CASE Unsortable(n)
    <2>1. PICK m \in {k \in Nat : Unsortable(k)} : \A k \in {j \in Nat : Unsortable(j)} : m <= k
      BY <1>2, LeastNat
    <2> QED BY <1>1, <2>1
  <1> QED BY <1>2 DEF Unsortable

\* So Sorted() is the list in such an order.
LEMMA SortedIs ==
  ASSUME NEW s \in Seq(Nat)
  PROVE  \E r : /\ Ascending(Len(s), s, r)
                /\ Sorted(s) = [i \in 1..Len(s) |-> s[r[i]]]
  <1> DEFINE n == Len(s)
             r == CHOOSE r \in [1..n -> 1..n] :
                    \A i, j \in 1..n : i < j => r[i] # r[j] /\ s[r[i]] <= s[r[j]]
  <1>1. n \in Nat /\ s \in [1..n -> Nat]
    BY LenProperties
  <1>2. \E q : Ascending(n, s, q)
    BY <1>1, CanBeSorted
  <1>3. Ascending(n, s, r)
    BY <1>2 DEF Ascending
  <1>4. Sorted(s) = [i \in 1..n |-> s[r[i]]]
    BY DEF Sorted
  <1> HIDE DEF r
  <1> QED BY <1>3, <1>4

\* At least k samples are no larger than the k-th, and n - k + 1 no smaller.
LEMMA RankCounts ==
  ASSUME NEW n \in Nat, NEW s \in [1..n -> Nat], NEW r, Ascending(n, s, r),
         NEW k \in 1..n
  PROVE  LET low  == {i \in 1..n : s[i] <= s[r[k]]}
             high == {i \in 1..n : s[i] >= s[r[k]]}
         IN  /\ Cardinality(low) \in Nat /\ k <= Cardinality(low)
             /\ Cardinality(high) \in Nat /\ n - k + 1 <= Cardinality(high)
  <1> DEFINE low  == {i \in 1..n : s[i] <= s[r[k]]}
             high == {i \in 1..n : s[i] >= s[r[k]]}
             f == [i \in 1..k |-> r[i]]
             g == [i \in k..n |-> r[i]]
  <1>1. \A i \in 1..n : r[i] \in 1..n /\ s[r[i]] \in Nat
    BY DEF Ascending
  <1>2. \A i, j \in 1..n : r[i] = r[j] => i = j
    BY DEF Ascending
  <1>3. \A i, j \in 1..n : i <= j => s[r[i]] <= s[r[j]]
    <2> SUFFICES ASSUME NEW i \in 1..n, NEW j \in 1..n, i <= j
                 PROVE  s[r[i]] <= s[r[j]]
      OBVIOUS
    <2>1. CASE i = j
      BY <1>1, <2>1
    <2>2. CASE i < j
      BY <2>2 DEF Ascending
    <2> QED BY <2>1, <2>2
  <1>4. ASSUME NEW i \in 1..n
        PROVE  /\ i \in 1..k => r[i] \in low
               /\ i \in k..n => r[i] \in high
    BY <1>1, <1>3
  <1>5. 1..k \subseteq 1..n /\ k..n \subseteq 1..n
    OBVIOUS
  <1>6. IsFiniteSet(low) /\ IsFiniteSet(high)
    BY FS_Interval, FS_Subset
  <1>7. f \in Injection(1..k, low)
    BY <1>2, <1>4, <1>5 DEF Injection, IsInjective
  <1>8. g \in Injection(k..n, high)
    BY <1>2, <1>4, <1>5 DEF Injection, IsInjective
  <1> HIDE DEF low, high, f, g
  <1>9. Cardinality(1..k) <= Cardinality(low)
    BY <1>6, <1>7, FS_Injection
  <1>10. Cardinality(k..n) <= Cardinality(high)
    BY <1>6, <1>8, FS_Injection
  <1>11. Cardinality(1..k) = k /\ Cardinality(k..n) = n - k + 1
    BY FS_Interval
  <1>12. Cardinality(low) \in Nat /\ Cardinality(high) \in Nat
    BY <1>6, FS_CardinalityType
  <1> QED BY <1>9, <1>10, <1>11, <1>12 DEF low, high

\* The multiplication of pct(), for solvers that know sums only.
LEMMA Products ==
  ASSUME NEW n \in Nat, NEW p \in 0..100, NEW q \in 0..100, p <= q
  PROVE  /\ n * p \in Nat /\ n * q \in Nat /\ n * p <= n * q /\ n * p <= 100 * n
         /\ p * n = n * p /\ (100 - p) * n = 100 * n - n * p
  OBVIOUS

\* pct() takes a sample of the list, at least p percent of the way up and with
\* at least the rest of the way above it.
LEMMA IndexPlace ==
  ASSUME NEW n \in Nat, n > 0, NEW p \in 0..100
  PROVE  LET k == Index(n, p) + 1
         IN  /\ k \in 1..n
             /\ 100 * k >= n * p
             /\ 100 * (n - k + 1) >= 100 * n - n * p
  <1> DEFINE m == n * p
             d == m \div 100
  <1>1. m \in Nat /\ m <= 100 * n
    BY Products
  <1> HIDE DEF m
  <1>2. d \in Nat /\ 100 * d <= m /\ m < 100 * d + 100
    BY <1>1
  <1>3. Index(n, p) = Least(d, n - 1)
    BY DEF Index, m
  <1> HIDE DEF d
  <1> QED BY <1>1, <1>2, <1>3 DEF Least, m

\* pct()'s index is a number.
LEMMA IndexIsInt ==
  ASSUME NEW n \in Nat, n > 0, NEW p \in 0..100
  PROVE  Index(n, p) \in Int
  <1> DEFINE m == n * p
  <1>1. m \in Nat
    BY Products
  <1> HIDE DEF m
  <1>2. (m \div 100) \in Int /\ n - 1 \in Int
    BY <1>1
  <1> QED BY <1>2 DEF Index, Least, m

\* A higher percentile is no lower in the list.
LEMMA IndexGrows ==
  ASSUME NEW n \in Nat, n > 0, NEW p \in 0..100, NEW q \in 0..100, p <= q
  PROVE  Index(n, p) <= Index(n, q)
  <1> DEFINE a == n * p
             b == n * q
  <1>1. a \in Nat /\ b \in Nat /\ a <= b
    BY Products
  <1> HIDE DEF a, b
  <1>2. (a \div 100) \in Nat /\ (b \div 100) \in Nat /\ (a \div 100) <= (b \div 100)
    BY <1>1
  <1> QED BY <1>2 DEF Index, Least, a, b

\* _compute_stats() of any list of numbers with something in it.
LEMMA PercentilesOf ==
  ASSUME NEW samples \in Seq(Nat), samples # << >>
  PROVE  LET stats == Stats(samples)
         IN  \A p \in Percents :
               /\ IsPercentile(samples, p, stats.pct[p])
               /\ stats.min <= stats.pct[p] /\ stats.pct[p] <= stats.max
               /\ \A q \in Percents : p <= q => stats.pct[p] <= stats.pct[q]
  <1> DEFINE n == Len(samples)
             s == Sorted(samples)
             stats == Stats(samples)
  <1>1. n \in Nat /\ n > 0 /\ samples \in [1..n -> Nat]
    BY LenProperties, EmptySeq
  <1>2. PICK r : Ascending(n, samples, r) /\ s = [i \in 1..n |-> samples[r[i]]]
    BY SortedIs
  <1> HIDE DEF s
  <1>3. Len(s) = n /\ \A i \in 1..n : s[i] = samples[r[i]] /\ s[i] \in Nat
    <2>1. \A i \in 1..n : r[i] \in 1..n /\ samples[r[i]] \in Nat
      BY <1>1, <1>2 DEF Ascending
    <2>2. s \in [1..n -> Nat] /\ \A i \in 1..n : s[i] = samples[r[i]]
      BY <1>2, <2>1
    <2>3. s \in Seq(Nat)
      BY <1>1, <2>2, SeqDef
    <2>4. Len(s) \in Nat /\ 1..Len(s) = 1..n
      BY <2>2, <2>3, LenProperties
    <2>5. Len(s) = n
      BY <1>1, <2>4
    <2> QED BY <2>1, <2>2, <2>5
  <1>4. \A i, j \in 1..n : i <= j => s[i] <= s[j]
    <2> SUFFICES ASSUME NEW i \in 1..n, NEW j \in 1..n, i <= j
                 PROVE  s[i] <= s[j]
      OBVIOUS
    <2>1. CASE i = j
      BY <1>3, <2>1
    <2>2. CASE i < j
      BY <1>2, <1>3, <2>2 DEF Ascending
    <2> QED BY <2>1, <2>2
  <1>5. stats = [count |-> Len(s), pct |-> [p \in Percents |-> Pct(s, p)],
                 min |-> s[1], max |-> s[Len(s)]]
    BY DEF Stats, s
  <1>6. /\ stats.min = s[1] /\ stats.max = s[n]
        /\ \A p \in Percents : stats.pct[p] = s[Index(n, p) + 1]
    BY <1>3, <1>5 DEF Pct
  <1> HIDE DEF n, stats
  <1> SUFFICES ASSUME NEW p \in Percents
               PROVE  /\ IsPercentile(samples, p, stats.pct[p])
                      /\ stats.min <= stats.pct[p] /\ stats.pct[p] <= stats.max
                      /\ \A q \in Percents : p <= q => stats.pct[p] <= stats.pct[q]
    BY DEF stats
  <1> DEFINE k == Index(n, p) + 1
  <1>7. p \in 0..100 /\ \A q \in Percents : q \in 0..100
    BY MetricsAssumption
  <1>8. k \in 1..n /\ 100 * k >= n * p /\ 100 * (n - k + 1) >= 100 * n - n * p
    BY <1>1, <1>7, IndexPlace
  <1>9. stats.pct[p] = samples[r[k]]
    BY <1>3, <1>6, <1>8
  <1>10. IsPercentile(samples, p, stats.pct[p])
    <2> DEFINE low  == {i \in 1..n : samples[i] <= samples[r[k]]}
               high == {i \in 1..n : samples[i] >= samples[r[k]]}
    <2>1. /\ Cardinality(low) \in Nat /\ k <= Cardinality(low)
          /\ Cardinality(high) \in Nat /\ n - k + 1 <= Cardinality(high)
      BY <1>1, <1>2, <1>8, RankCounts
    <2>2. n * p \in Nat /\ p * n = n * p /\ (100 - p) * n = 100 * n - n * p
      BY <1>1, <1>7, Products
    <2> HIDE DEF low, high, k
    <2>3. 100 * Cardinality(low) >= p * n
      BY <1>1, <1>8, <2>1, <2>2
    <2>4. 100 * Cardinality(high) >= (100 - p) * n
      BY <1>1, <1>8, <2>1, <2>2
    <2> QED BY <1>9, <2>3, <2>4 DEF IsPercentile, low, high, n
  <1>11. stats.min <= stats.pct[p] /\ stats.pct[p] <= stats.max
    <2>1. 1 \in 1..n /\ n \in 1..n /\ 1 <= k /\ k <= n
      BY <1>1, <1>8
    <2> HIDE DEF k
    <2>2. s[1] <= s[k] /\ s[k] <= s[n]
      BY <1>4, <1>8, <2>1
    <2> QED BY <1>6, <2>2 DEF k
  <1>12. ASSUME NEW q \in Percents, p <= q PROVE stats.pct[p] <= stats.pct[q]
    <2>1. Index(n, q) + 1 \in 1..n
      BY <1>1, <1>7, IndexPlace
    <2>2. Index(n, p) <= Index(n, q)
      BY <1>1, <1>7, <1>12, IndexGrows
    <2> DEFINE j == Index(n, q) + 1
    <2>3. \A a, b : a + 1 \in 1..n /\ b + 1 \in 1..n /\ a \in Int /\ b \in Int /\ a <= b => a + 1 <= b + 1
      OBVIOUS
    <2>4. Index(n, p) \in Int /\ Index(n, q) \in Int
      BY <1>1, <1>7, IndexIsInt
    <2>5. k <= j /\ j \in 1..n
      BY <1>8, <2>1, <2>2, <2>3, <2>4
    <2>6. stats.pct[p] = s[k] /\ stats.pct[q] = s[j]
      BY <1>6
    <2> HIDE DEF j, k
    <2> QED BY <1>4, <1>8, <2>5, <2>6
  <1> QED BY <1>10, <1>11, <1>12

\* What /metrics/latency calls percentiles are percentiles, in order and
\* between the extremes, whatever the lists hold (metrics.py, _compute_stats).
THEOREM LatencyPercentiles == Spec => []ReportedPercentiles
  <1>1. ASSUME TypeOK, NEW samples \in {report.hits, report.misses} \ {<< >>}
        PROVE  LET stats == Stats(samples)
               IN  \A p \in Percents :
                     /\ IsPercentile(samples, p, stats.pct[p])
                     /\ stats.min <= stats.pct[p] /\ stats.pct[p] <= stats.max
                     /\ \A q \in Percents : p <= q => stats.pct[p] <= stats.pct[q]
    <2>1. report.hits \in Seq(Latencies) /\ report.misses \in Seq(Latencies)
      BY <1>1 DEF TypeOK, ReportState
    <2>2. samples \in Seq(Latencies) /\ samples # << >>
      BY <2>1
    <2>3. samples \in Seq(Nat)
      BY <2>2, MetricsAssumption, SeqMonotonic
    <2> QED BY <2>2, <2>3, PercentilesOf
  <1>2. TypeOK => ReportedPercentiles
    BY <1>1 DEF ReportedPercentiles
  <1> QED BY <1>2, LatencyTypeCorrect, PTL
=============================================================================
