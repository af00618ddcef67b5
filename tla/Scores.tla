------------------------------- MODULE Scores -------------------------------
(***************************************************************************)
(* How a trained model is judged (app/ml/train.py): the threshold chosen   *)
(* on the validation rows and the rank-based ROC-AUC, as functions of a    *)
(* list of scores and labels.  Scores are in steps of the unit interval,   *)
(* fractions are compared without division.                                *)
(***************************************************************************)
EXTENDS Integers, Sequences, FiniteSets, FiniteSetsExt

CONSTANTS Levels,         \* scores, as numerators
          MaxFlagPercent, \* MAX_FLAG_RATE
          MaxSample       \* bound: rows

ASSUME ScoresAssumption ==
  /\ IsFiniteSet(Levels) /\ Levels \subseteq Nat \ {0}
  /\ MaxFlagPercent \in 0..100 /\ MaxSample \in Nat

VARIABLE sample  \* y_score and y_true, row by row

ScoresTypeOK ==
  sample \in Seq([score : Levels, label : {0, 1}]) /\ Len(sample) <= MaxSample

ScoresInit == sample = <<>>

AddRow(s, y) ==
  /\ Len(sample) < MaxSample
  /\ sample' = Append(sample, [score |-> s, label |-> y])

ScoresNext == \E s \in Levels, y \in {0, 1} : AddRow(s, y)

ScoresSpec == ScoresInit /\ [][ScoresNext]_sample
-----------------------------------------------------------------------------
\* precision_recall_f1 at a threshold, as counts.
Flagged(c) == {i \in DOMAIN sample : sample[i].score >= c}
Positives  == {i \in DOMAIN sample : sample[i].label = 1}
TP(c) == Cardinality(Flagged(c) \cap Positives)
FP(c) == Cardinality(Flagged(c) \ Positives)
FN(c) == Cardinality(Positives \ Flagged(c))

\* F-beta with beta = 1/2 is 5 TP / (5 TP + 4 FP + FN), a fraction.
FBeta(c) == <<5 * TP(c), 5 * TP(c) + 4 * FP(c) + FN(c)>>
Less(a, b) == a[1] * b[2] < b[1] * a[2]
Zero == <<0, 1>>

\* The threshold 0.5 that stands when no score finds a positive.
Default == 0

\* Mutant: the first of equal candidates is kept.
BetterStrict(best, c) ==
  IF Less(best.f, FBeta(c)) THEN [at |-> c, f |-> FBeta(c)] ELSE best

\* One step of the loop over the candidates: a better one, or an equal and higher one.
Better(best, c) ==
  IF \/ Less(best.f, FBeta(c))
     \/ ~Less(FBeta(c), best.f) /\ FBeta(c)[1] > 0 /\ c > best.at
  THEN [at |-> c, f |-> FBeta(c)] ELSE best

\* select_threshold: the candidates that flag few rows, or all if none does.
Candidates ==
  LET all     == {sample[i].score : i \in DOMAIN sample}
      allowed == {c \in all : 100 * Cardinality(Flagged(c)) <= MaxFlagPercent * Len(sample)} IN
    IF allowed # {} THEN allowed ELSE all

\* The loop over them, from the lowest to the highest.
Threshold ==
  LET best[S \in SUBSET Candidates] ==
        IF S = {} THEN [at |-> Default, f |-> Zero] ELSE Better(best[S \ {Max(S)}], Max(S))
  IN  best[Candidates].at

\* roc_auc: ranks from 1, twice the average rank among ties.
TwiceRank(i) ==
  LET lower == Cardinality({j \in DOMAIN sample : sample[j].score < sample[i].score})
      same  == Cardinality({j \in DOMAIN sample : sample[j].score = sample[i].score}) IN
    (lower + 1) + (lower + same)

TwiceU ==
  LET n == Cardinality(Positives) IN
    SumFunctionOnSet([i \in Positives |-> TwiceRank(i)], Positives) - n * (n + 1)
-----------------------------------------------------------------------------
\* The threshold is a score that occurs, no permitted score has a higher F-beta, and
\* a higher permitted score has a lower one; the default stands only if no score finds
\* a positive.
ThresholdIsBest ==
  IF Threshold = Default
  THEN \A c \in Candidates : TP(c) = 0
  ELSE /\ Threshold \in Candidates
       /\ \A c \in Candidates :
            /\ ~Less(FBeta(Threshold), FBeta(c))
            /\ c > Threshold => Less(FBeta(c), FBeta(Threshold))

\* The flag stays rare: unless the highest score alone is too common.
FlagIsRare ==
  sample # <<>> /\ Threshold # Default =>
    \/ 100 * Cardinality(Flagged(Threshold)) <= MaxFlagPercent * Len(sample)
    \/ \A c \in {sample[i].score : i \in DOMAIN sample} :
         100 * Cardinality(Flagged(c)) > MaxFlagPercent * Len(sample)

\* The sum of ranks counts the pairs in which the positive has the higher score, and
\* a tie for a half.
AucCountsPairs ==
  LET pairs == Positives \X (DOMAIN sample \ Positives) IN
    TwiceU = 2 * Cardinality({p \in pairs : sample[p[1]].score > sample[p[2]].score})
             + Cardinality({p \in pairs : sample[p[1]].score = sample[p[2]].score})

JudgedRightly == ThresholdIsBest /\ FlagIsRare /\ AucCountsPairs
=============================================================================
