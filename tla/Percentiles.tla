----------------------------- MODULE Percentiles -----------------------------
(***************************************************************************)
(* percentiles_on_sample (utils/prometheus_parser.py): the percentiles of  *)
(* a Prometheus histogram in a single pass over its buckets.               *)
(*                                                                         *)
(* A bucket is named by its position in sample['values'], and 0 stands for *)
(* the 0 every percentile has to begin with.  Percentiles are in units of  *)
(* 1/1000, in which those the parser asks for are whole and the product    *)
(* with the number of samples is rounded up exactly.                       *)
(***************************************************************************)
EXTENDS Integers, Sequences

CONSTANTS
  Histograms,  \* cumulative counts of the buckets, in the order of the dictionary
  Counts,      \* sample['count']
  Requests     \* percentiles a caller asks for

VARIABLES
  values,      \* sample['values'].values()
  total,       \* total_samples
  percentiles,
  pos,         \* the bucket the for loop is at
  index,       \* percentile_index, from 1
  result,      \* bucket of each percentile
  pc

vars == <<values, total, percentiles, pos, index, result, pc>>
inputs == <<values, total, percentiles>>

Init ==
  /\ values \in Histograms
  /\ total \in Counts
  /\ percentiles \in Requests
  /\ pos = 1
  /\ index = 1
  /\ result = [i \in 1..Len(percentiles) |-> 0]
  /\ pc = "loop"

CeilDiv(a, b) == (a + b - 1) \div b

\* search_samples.
Search(i) == CeilDiv(percentiles[i] * total, 1000)

Looping == pc = "loop" /\ pos <= Len(values) /\ index <= Len(percentiles)

\* Mutant of Found: the loop goes on to the next bucket after every percentile.
FoundNext ==
  /\ Looping
  /\ Search(index) <= values[pos]
  /\ result' = [result EXCEPT ![index] = pos]
  /\ index' = index + 1
  /\ pos' = pos + 1
  /\ UNCHANGED <<inputs, pc>>

\* A turn of the while loop: the next percentile may be in the same bucket.
Found ==
  /\ Looping
  /\ Search(index) <= values[pos]
  /\ result' = [result EXCEPT ![index] = pos]
  /\ index' = index + 1
  /\ UNCHANGED <<inputs, pos, pc>>

\* The break out of it: on to the next bucket.
NextBucket ==
  /\ Looping
  /\ Search(index) > values[pos]
  /\ pos' = pos + 1
  /\ UNCHANGED <<inputs, index, result, pc>>

Return ==
  /\ pc = "loop"
  /\ ~Looping
  /\ pc' = "done"
  /\ UNCHANGED <<inputs, pos, index, result>>

Next == Found \/ NextBucket \/ Return

Spec == Init /\ [][Next]_vars

-----------------------------------------------------------------------------
(* Properties.                                                             *)

\* Every variable has the type its declaration says.
TypeOK ==
  /\ values \in Seq(Nat) /\ total \in Nat /\ percentiles \in Seq(Nat)
  /\ pos \in 1..(Len(values) + 1)
  /\ index \in 1..(Len(percentiles) + 1)
  /\ result \in [1..Len(percentiles) -> 0..Len(values)]
  /\ pc \in {"loop", "done"}

\* n samples are at least the share p of all.
HoldsShare(n, p) == 1000 * n >= p * total

\* The definition of a percentile: bucket b is the first that holds at least the
\* share p of all samples; there is none, 0, if no bucket holds that many.
IsPercentile(p, b) ==
  /\ b # 0 => HoldsShare(values[b], p)
  /\ \A j \in 1..Len(values) : (b = 0 \/ j < b) => ~HoldsShare(values[j], p)

Ascending ==
  \A i, j \in 1..Len(percentiles) : i <= j => percentiles[i] <= percentiles[j]

\* For percentiles in ascending order, as the parser asks for them, the single
\* pass finds what the definition says, whatever the counts of the buckets are.
\* For others it need not: a percentile is looked for only from the bucket of the
\* one before it.
Correct ==
  pc = "done" /\ Ascending =>
    \A i \in 1..Len(percentiles) : IsPercentile(percentiles[i], result[i])

-----------------------------------------------------------------------------
(* Why it holds.                                                           *)

\* What the loop keeps: a bucket is found for every percentile before index, and for
\* ascending ones no earlier bucket reaches it, nor any before pos the next.
LoopInvariant ==
  /\ \A i \in 1..Len(percentiles) :
       /\ i < index => result[i] \in 1..Len(values) /\ Search(i) <= values[result[i]]
       /\ i >= index => result[i] = 0
  /\ Ascending => \A j \in 1..Len(values) :
       /\ \A i \in 1..Len(percentiles) : i < index /\ j < result[i] => values[j] < Search(i)
       /\ index <= Len(percentiles) /\ j < pos => values[j] < Search(index)
  /\ pc = "done" => pos > Len(values) \/ index > Len(percentiles)

Inv == TypeOK /\ LoopInvariant
=============================================================================
