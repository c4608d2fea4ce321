---------------------------- MODULE MetricsParser ----------------------------
(***************************************************************************)
(* The passes of utils/prometheus_parser.py over the samples of one metric *)
(* m: Parser._pre_parse_stats files each sample under its series, family   *)
(* by family, and parse() then has the percentiles of each histogram       *)
(* computed (Percentiles).  The samples of a family may come in any order. *)
(*                                                                         *)
(* Without a TYPE line prometheus_client takes every name for a family of  *)
(* its own: m_bucket, m_sum and m_count then come in any order.  What the  *)
(* samples hold does not matter here: a sample stands for its value.       *)
(***************************************************************************)
EXTENDS FiniteSets

CONSTANTS
  Labels,  \* the label sets that m has series for
  Bounds,  \* of its buckets, or its quantiles
  None

Sample(kind, labels, key) == [kind |-> kind, labels |-> labels, key |-> key]
Totals(ls) == {Sample(k, l, None) : k \in {"sum", "count"}, l \in ls}

\* What a server sends of a histogram, and of a summary, which need not have quantiles.
\* Its own name may end in _bucket, so that its quantiles pass for buckets without a bound.
\* A metric of another type may have a name that ends like one of theirs, and then a label
\* le on some of its samples or on none.
Contents ==
  {Totals(ls) \cup {Sample("bucket", l, b) : l \in ls, b \in bs} :
     ls \in (SUBSET Labels) \ {{}}, bs \in (SUBSET Bounds) \ {{}}}
  \cup {Totals(ls) \cup {Sample("quantile", l, b) : l \in ls \cap some, b \in Bounds} :
     ls \in (SUBSET Labels) \ {{}}, some \in SUBSET Labels}
  \cup {Totals(ls) \cup {Sample("bucket", l, None) : l \in ls} : ls \in (SUBSET Labels) \ {{}}}
  \cup {{Sample("bucket", l, b) : l \in Labels, b \in bs} :
     bs \in (SUBSET (Bounds \cup {None})) \ {{}}}
  \cup {{Sample(k, l, None) : l \in Labels} : k \in {"sum", "count", "plain"}}

VARIABLES
  content,     \* all samples
  typed,       \* is there a TYPE line?
  families,    \* those to come, each a set of samples
  pending,     \* of the family at hand, for the first pass
  remaining,   \* of the family at hand, for the second pass
  buckets,     \* the series of the histogram m: label set -> what was filed under it
  histograms,  \* what was filed under the summary m, whatever its labels
  stats,       \* the other samples
  outcome      \* "" while it parses, "ok" or "raised"

at == <<families, pending, remaining>>
filed == <<buckets, histograms, stats>>
vars == <<content, typed, at, filed, outcome>>

Init ==
  /\ content \in Contents
  /\ typed \in BOOLEAN
  /\ families = IF typed THEN {content}
                ELSE {{t \in content : t.kind = s.kind} : s \in content}
  /\ pending = {} /\ remaining = {}
  /\ buckets = [l \in {} |-> {}] /\ histograms = {} /\ stats = {}
  /\ outcome = ""

NextFamily ==
  /\ outcome = "" /\ pending = {} /\ remaining = {}
  /\ \E f \in families : families' = families \ {f} /\ pending' = f
  /\ UNCHANGED <<content, typed, remaining, filed, outcome>>

NoSeries == DOMAIN buckets = {}

\* Mutant of Series: the first series will do.
AnySeries(s) ==
  IF NoSeries THEN s.labels ELSE CHOOSE l \in DOMAIN buckets : TRUE

\* The label set of the series that a sample belongs to.
Series(s) == s.labels

FileBucket(s) ==
  buckets' = [l \in DOMAIN buckets \cup {Series(s)} |->
    (IF l \in DOMAIN buckets THEN buckets[l] ELSE {}) \cup (IF l = Series(s) THEN {s} ELSE {})]

\* The dictionary of a summary has one place for each quantile, one for the sum and one
\* for the count.
FileHistogram(s) ==
  histograms' = {t \in histograms : t.kind # s.kind \/ t.key # s.key} \cup {s}

\* The label le is taken out: without one, KeyError.
_handle_bucket_sample(s) ==
  /\ s.kind = "bucket"
  /\ IF s.key = None
     THEN outcome' = "raised" /\ UNCHANGED buckets
     ELSE FileBucket(s) /\ UNCHANGED outcome
  /\ UNCHANGED <<remaining, histograms, stats>>

_handle_histogram_stat(s) ==
  /\ s.kind = "quantile"
  /\ FileHistogram(s)
  /\ UNCHANGED <<remaining, buckets, stats, outcome>>

\* Mutant of PutAside: sums and counts are filed when they are met.
FileNow(s) ==
  /\ s.kind \notin {"bucket", "quantile"}
  /\ IF Series(s) \in DOMAIN buckets
     THEN FileBucket(s) /\ UNCHANGED stats
     ELSE stats' = stats \cup {s} /\ UNCHANGED buckets
  /\ UNCHANGED <<remaining, histograms, outcome>>

PutAside(s) ==
  /\ s.kind \notin {"bucket", "quantile"}
  /\ remaining' = remaining \cup {s}
  /\ UNCHANGED <<filed, outcome>>

FirstPass ==
  /\ outcome = ""
  /\ \E s \in pending :
       /\ pending' = pending \ {s}
       /\ _handle_bucket_sample(s) \/ _handle_histogram_stat(s) \/ PutAside(s)
  /\ UNCHANGED <<content, typed, families>>

\* A histogram has m_sum and m_count filed under the series with their labels, and raises
\* when there is none.
_handle_bucket_total(s) ==
  /\ s.kind \in {"sum", "count"} /\ ~NoSeries
  /\ IF Series(s) \in DOMAIN buckets
     THEN FileBucket(s) /\ UNCHANGED outcome
     ELSE outcome' = "raised" /\ UNCHANGED buckets
  /\ UNCHANGED <<histograms, stats>>

HistogramTotal(s) ==
  /\ s.kind \in {"sum", "count"} /\ NoSeries /\ histograms # {}
  /\ FileHistogram(s)
  /\ UNCHANGED <<buckets, stats, outcome>>

OtherStat(s) ==
  /\ s.kind = "plain" \/ (NoSeries /\ histograms = {})
  /\ stats' = stats \cup {s}
  /\ UNCHANGED <<buckets, histograms, outcome>>

SecondPass ==
  /\ outcome = "" /\ pending = {}
  /\ \E s \in remaining :
       /\ remaining' = remaining \ {s}
       /\ _handle_bucket_total(s) \/ HistogramTotal(s) \/ OtherStat(s)
  /\ UNCHANGED <<content, typed, families, pending>>

\* The percentiles of a series without count cannot be computed.
calculate_percentiles ==
  /\ outcome = "" /\ families = {} /\ pending = {} /\ remaining = {}
  /\ outcome' = IF \A l \in DOMAIN buckets : \E s \in buckets[l] : s.kind = "count"
                THEN "ok" ELSE "raised"
  /\ UNCHANGED <<content, typed, at, filed>>

Next == NextFamily \/ FirstPass \/ SecondPass \/ calculate_percentiles

Spec == Init /\ [][Next]_vars

-----------------------------------------------------------------------------
\* Every variable has the type its declaration says.
TypeOK ==
  /\ content \in Contents /\ typed \in BOOLEAN
  /\ (UNION families) \cup pending \cup remaining \cup stats \cup histograms \subseteq content
  /\ DOMAIN buckets \subseteq Labels
  /\ \A l \in DOMAIN buckets : buckets[l] \subseteq content
  /\ outcome \in {"", "ok", "raised"}

\* Samples that only look like those of a histogram.
NamedLikeBuckets ==
  \E s \in content : s.kind = "bucket" /\ (s.key = None \/ \A t \in content : t.kind # "count")

\* In whatever order the samples of m come, parse() returns every one of them, those of a
\* histogram with the series that has their labels and no other; but of a summary with
\* several label sets only one sample of each quantile, sum and count is left.  It raises
\* only if m has no TYPE line and its counts came before its buckets, or if m is no
\* histogram, with a TYPE line or without, and its name ends in _bucket all the same.
SamplesAreKept ==
  /\ outcome = "ok" => \A s \in content :
       \/ s.labels \in DOMAIN buckets /\ s \in buckets[s.labels]
       \/ s \in stats /\ (typed => NoSeries /\ histograms = {})
       \/ \E t \in histograms : t.kind = s.kind /\ t.key = s.key
  /\ outcome = "ok" => \A l \in DOMAIN buckets : \A s \in buckets[l] : s.labels = l
  /\ outcome = "raised" => NamedLikeBuckets \/ (~typed /\ \E s \in stats : s.kind = "count")
-----------------------------------------------------------------------------
(* Why it holds.                                                           *)

\* A sample has a place: with the series of its labels, with the rest, or in the dictionary
\* of the summary, where another one may have taken it.
Kept(s) ==
  \/ s.labels \in DOMAIN buckets /\ s \in buckets[s.labels]
  \/ s \in stats
  \/ \E t \in histograms : t.kind = s.kind /\ t.key = s.key

\* A family is all there is, or all of a kind: once one has had buckets, no bucket is in a
\* family that is still to come.
FamiliesApart ==
  /\ \A f \in families : \E k \in {"bucket", "quantile", "sum", "count", "plain"} :
       f = {t \in content : typed \/ t.kind = k}
  /\ ~NoSeries \/ (\E s \in pending : s.kind = "bucket") =>
       \A f \in families : \A s \in f : s.kind # "bucket"
  /\ typed /\ pending \cup remaining \cup stats # {} => families = {}

\* What is filed where: each series has a bucket, and begins with one.
FiledByKind ==
  /\ \A l \in DOMAIN buckets :
       (\E s \in buckets[l] : s.kind = "bucket") /\ \A s \in buckets[l] : s.labels = l
  /\ histograms # {} => \E s \in content : s.kind = "quantile"
  /\ \A s \in remaining \cup stats : s.kind \notin {"bucket", "quantile"}
  /\ \A t \in histograms : t.kind # "bucket"
  /\ typed /\ stats # {} => pending = {} /\ NoSeries /\ histograms = {}

Inv ==
  /\ TypeOK
  /\ FamiliesApart
  /\ FiledByKind
  /\ outcome # "raised" =>
       \A s \in content : s \in (UNION families) \cup pending \cup remaining \/ Kept(s)
  /\ outcome = "ok" => families = {} /\ pending = {} /\ remaining = {}
  /\ outcome = "raised" => NamedLikeBuckets \/ (~typed /\ \E s \in stats : s.kind = "count")
==============================================================================
