------------------------------ MODULE Sampling ------------------------------
(***************************************************************************)
(* Sampling (report.go): how the packet sources behind a report were       *)
(* sampled, kept as two counters so that it merges exactly -- the comment  *)
(* says the rate itself "can't be accurately merged".  A rate is kept as a *)
(* fraction <<numerator, denominator>> and compared by cross-multiplying,  *)
(* as float64 division is exact enough for the small counts checked here.  *)
(*                                                                         *)
(* The state machine folds samplings into an accumulator with Merge, as a  *)
(* collector would, and keeps the merged parts to state the rate's         *)
(* contract.  The counters are uint64; the bound MaxTotal keeps every sum  *)
(* far below 2^64, where uint64 packet counters stay in practice.          *)
(***************************************************************************)
EXTENDS Naturals, Sequences

CONSTANTS
    MaxTotal,    \* bound: Total of a merged sampling
    MaxMerges    \* bound: samplings merged in one behaviour

\* The samplings a source can report: Count observed and processed of Total
\* observed overall.
SamplingVal == {s \in [Count : 0..MaxTotal, Total : 0..MaxTotal] : s.Count <= s.Total}

VARIABLES
    acc,       \* the merged Sampling
    history    \* every Sampling merged into acc, in order

vars == << acc, history >>

\* Mutant: the Total of the receiver is kept instead of adding the other's.
SamplingMergeKeepTotal(s, other) ==
    [Count |-> s.Count + other.Count, Total |-> s.Total]

\* Sampling.Merge: field-wise addition into a new value.
SamplingMerge(s, other) ==
    [Count |-> s.Count + other.Count, Total |-> s.Total + other.Total]

\* Sampling.Rate: 1.0 when nothing was observed, else Count / Total.
Rate(s) == IF s.Total <= 0 THEN << 1, 1 >> ELSE << s.Count, s.Total >>

RateLeq(a, b) == a[1] * b[2] <= b[1] * a[2]

Init ==
    /\ acc = [Count |-> 0, Total |-> 0]
    /\ history = << >>

\* A report's sampling is merged into the accumulator.
Merge(s) ==
    /\ Len(history) < MaxMerges
    /\ acc' = SamplingMerge(acc, s)
    /\ history' = Append(history, s)

Next == \E s \in SamplingVal : Merge(s)

Spec == Init /\ [][Next]_vars

-----------------------------------------------------------------------------
\* The reason Sampling keeps counters: the rate of a merge of any number of
\* samplings lies between the lowest and the highest rate of the merged
\* samplings that observed anything, and is 1.0 while none did.
RateBetweenParts ==
    LET observed == {i \in DOMAIN history : history[i].Total > 0}
    IN IF observed = {}
       THEN Rate(acc) = << 1, 1 >>
       ELSE \E i, k \in observed :
               /\ RateLeq(Rate(history[i]), Rate(acc))
               /\ RateLeq(Rate(acc), Rate(history[k]))

=============================================================================
