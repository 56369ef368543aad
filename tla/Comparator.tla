----------------------------- MODULE Comparator ------------------------------
(***************************************************************************)
(* How the testbench judges an answer: SearchServiceComparatorAll and      *)
(* SearchServiceComparatorSample score the first ads of a response against *)
(* those of the reference by the same rule, the second one only for a      *)
(* random selection of the answers.                                        *)
(*                                                                         *)
(* A response is [ids, prices].  The one of a successful call and its      *)
(* reference are never null, a reference without ads interrupts the run    *)
(* instead of being compared with, and a low score does not, as            *)
(* auto_interrupt is never set.                                            *)
(***************************************************************************)
EXTENDS Integers, Sequences, FiniteSetsExt

CONSTANTS
  AccuracyPercent,  \* accuracy_th, of a hundred
  SampleStep,       \* kSampleStepSize
  SamplePercent     \* sample_percent_th, of a hundred

ASSUME ComparatorAssumption ==
  /\ AccuracyPercent \in 0..100
  /\ SampleStep \in Nat \ {0}
  /\ SamplePercent \in 0..100

\* topNCheckNum: the ads that are looked at, rounded up.
Needed(ref) == (AccuracyPercent * Len(ref.ids) + 99) \div 100

\* std::equal and std::is_permutation on the first n.
SameOrder(s, t, n) == \A i \in 1..n : s[i] = t[i]

\* Mutant of Permuted: ads that occur twice are not told apart.
Bug_SameAds(s, t, n) == {s[i] : i \in 1..n} = {t[i] : i \in 1..n}

Permuted(s, t, n) ==
  \A i \in 1..n : Cardinality({j \in 1..n : s[j] = t[i]}) = Cardinality({j \in 1..n : t[j] = t[i]})

\* Prices are read without a look at their number: past the end of the shorter
\* list the comparison may come out either way.
PricesAgree(resp, ref, n) ==
  LET there == n <= Len(resp.prices) /\ n <= Len(ref.prices)
      read == Min({n, Len(resp.prices), Len(ref.prices)})
      same == SameOrder(resp.prices, ref.prices, read)
  IN  IF there THEN {same} ELSE {FALSE, same}

\* The scores a Compare may give.
Score(resp, ref) ==
  LET n == Needed(ref)
      long == Len(resp.ids) >= n
      inOrder == long /\ SameOrder(resp.ids, ref.ids, n)
      permuted == long /\ Permuted(resp.ids, ref.ids, n)
  IN  {s \in {0, 50, 80, 100} :
         \/ s = 100 /\ inOrder /\ TRUE \in PricesAgree(resp, ref, n)
         \/ s = 80 /\ inOrder /\ FALSE \in PricesAgree(resp, ref, n)
         \/ s = 50 /\ ~inOrder /\ permuted
         \/ s = 0 /\ ~permuted}

\* Mutant of Selections: the last place of the shuffled ones is not selected.
Bug_OneFewer == kSubset((SamplePercent * SampleStep) \div 100 - 1, 0..SampleStep - 1)

\* RandomSelect: the places among SampleStep successive answers that are compared.
Selections == kSubset((SamplePercent * SampleStep) \div 100, 0..SampleStep - 1)
Compared(count, selection) == {i \in 0..count - 1 : i % SampleStep \in selection}

\* The rule of the contest: 50 for the ads, 30 for their order, 20 for their
\* prices, each only on top of the one before.
RuleScore(resp, ref) ==
  LET n == Needed(ref)
      long == Len(resp.ids) >= n
      ads == long /\ \E f \in [1..n -> 1..n] :
               /\ {f[i] : i \in 1..n} = 1..n
               /\ \A i \in 1..n : resp.ids[f[i]] = ref.ids[i]
      order == ads /\ SubSeq(resp.ids, 1, n) = SubSeq(ref.ids, 1, n)
      prices == order /\ SubSeq(resp.prices, 1, n) = SubSeq(ref.prices, 1, n)
  IN  (IF ads THEN 50 ELSE 0) + (IF order THEN 30 ELSE 0) + (IF prices THEN 20 ELSE 0)
=============================================================================
