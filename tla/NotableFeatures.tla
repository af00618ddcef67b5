-------------------------- MODULE NotableFeatures --------------------------
(***************************************************************************)
(* Features and labels of the notable-trade model (app/ml/features.py),    *)
(* the scores computed from them (app/ml/scoring.py) and the split by time *)
(* (app/ml/train.py).  A wallet's trades are ordered by time; the row of a *)
(* trade comes from running sums over the trades before it, and its label  *)
(* says that its value is more than two deviations above their mean.       *)
(* Means and deviations are compared without division.                     *)
(***************************************************************************)
EXTENDS Integers, Sequences, FiniteSets, SequencesExt

CONSTANTS Places,     \* conditions
          Values,     \* price times size, at the same price
          PaceWindow, \* ticks of 24 hours
          MinPrior,   \* MIN_PRIOR_TRADES
          LastTick,   \* bound: ticks
          MaxLength   \* bound: trades

ASSUME NotableAssumption ==
  /\ IsFiniteSet(Places) /\ IsFiniteSet(Values) /\ Values \subseteq Nat \ {0}
  /\ PaceWindow \in Nat /\ MinPrior \in Nat \ {0} /\ LastTick \in Nat /\ MaxLength \in Nat

VARIABLE history  \* the wallet's trades by time and id

notableVars == history

HistoryTypeOK ==
  /\ history \in Seq([condition : Places, value : Values, at : 0..LastTick])
  /\ Len(history) <= MaxLength

NotableInit == history = <<>>

\* A trade is stored at its place by time, after those of its time.
StoreTrade(c, v, t) ==
  LET before == Cardinality({j \in DOMAIN history : history[j].at <= t}) IN
    /\ Len(history) < MaxLength
    /\ history' = InsertAt(history, before + 1, [condition |-> c, value |-> v, at |-> t])

NotableNext == \E c \in Places, v \in Values, t \in 0..LastTick : StoreTrade(c, v, t)

NotableSpec == NotableInit /\ [][NotableNext]_notableVars
-----------------------------------------------------------------------------
\* Mutant: the current trade is folded in before its features are computed.
SumBeforeAfter(h, i) == SumFunctionOnSet([j \in 1..i |-> h[j].value], 1..i)

\* The running sums before the i-th trade of h: price_sum and the like.
SumBefore(h, i) == SumFunctionOnSet([j \in 1..(i - 1) |-> h[j].value], 1..(i - 1))
SumSqBefore(h, i) ==
  SumFunctionOnSet([j \in 1..(i - 1) |-> h[j].value * h[j].value], 1..(i - 1))

\* n * n times the population variance of the n prior values.
SpreadBefore(h, i) ==
  (i - 1) * SumSqBefore(h, i) - SumBefore(h, i) * SumBefore(h, i)

\* is_notable: value > mean + 2 * deviation, or twice the mean without deviation.
Notable(h, i) ==
  LET n      == i - 1
      excess == n * h[i].value - SumBefore(h, i) IN
    /\ n >= 1
    /\ IF SpreadBefore(h, i) > 0
       THEN excess > 0 /\ excess * excess > 4 * SpreadBefore(h, i)
       ELSE n * h[i].value > 2 * SumBefore(h, i)

\* The trades of the trailing window: a start that only moves on.
Pace(h, i) == Cardinality({j \in 1..(i - 1) : h[j].at >= h[i].at - PaceWindow})

\* The columns of SAFE_FEATURE_NAMES that are not functions of price and hour.
SafeRow(h, i) ==
  LET onMarket == Cardinality({j \in 1..(i - 1) : h[j].condition = h[i].condition}) IN
    [prior_count |-> i - 1,
     prior_value_sum |-> SumBefore(h, i),
     prior_value_spread |-> SpreadBefore(h, i),
     gap |-> h[i].at - h[i - 1].at,
     prior_trades_24h |-> Pace(h, i),
     prior_notable |-> Cardinality({j \in 2..(i - 1) : Notable(h, j)}),
     prior_eligible |-> i - 2,
     is_first_trade_on_market |-> onMarket = 0,
     prior_on_market |-> onMarket]

\* build_features_for_wallet: trades with enough history have a row and a label.
Emitted(h) == (MinPrior + 1)..Len(h)
DataRow(h, i) == [x |-> SafeRow(h, i), y |-> Notable(h, i), at |-> h[i].at]

\* score_trade: the row of this trade among all of the wallet's, or no score.
ScoreRow(h, i) == IF i \in Emitted(h) THEN SafeRow(h, i) ELSE "none"

\* temporal_split of n rows by their time: the ends of the first two parts.
TrainEnd(n) == (n * 70) \div 100
ValEnd(n)   == (n * 85) \div 100
-----------------------------------------------------------------------------
\* The row of the newest trade does not carry what the label is about: with any other
\* value its columns are the same.  NoLookAhead takes this to the older trades.
SafeIsBlind ==
  LET i == Len(history) IN
    i \in Emitted(history) =>
      \A v \in Values : SafeRow([history EXCEPT ![i].value = v], i) = SafeRow(history, i)

\* Nothing that comes later in time reaches a row or a label: what training sees of a
\* trade is what it was scored with when it was the newest of its wallet.
NoLookAhead ==
  \A i \in Emitted(history) :
    LET past == SubSeq(history, 1, i) IN
      DataRow(history, i) = [x |-> ScoreRow(past, i), y |-> Notable(past, i), at |-> past[i].at]

\* The rule singles out: whoever repeats one value has no notable trade, though its
\* deviation is nought.
ConstantIsNeverNotable ==
  \A i \in 2..Len(history) :
    (\A j \in 1..(i - 1) : history[j].value = history[i].value) => ~Notable(history, i)

\* From four rows on no part is empty, and no row of the training part is later than
\* one of the parts after it.
SplitByTime ==
  LET n == Len(history) - MinPrior
      at(k) == history[MinPrior + k].at IN
    n >= 4 => /\ 0 < TrainEnd(n) /\ TrainEnd(n) < ValEnd(n) /\ ValEnd(n) < n
              /\ \A k \in 1..TrainEnd(n), l \in (TrainEnd(n) + 1)..n : at(k) <= at(l)

RowsAreHonest ==
  SafeIsBlind /\ NoLookAhead /\ ConstantIsNeverNotable /\ SplitByTime
=============================================================================
