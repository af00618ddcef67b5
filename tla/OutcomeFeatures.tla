-------------------------- MODULE OutcomeFeatures --------------------------
(***************************************************************************)
(* The data of the outcome model (app/ml/outcome_features.py): one sweep    *)
(* over all trades by time, with what each wallet and each market did      *)
(* before, and the wallet's record on markets that ended before the trade. *)
(* The end of a market is the date it was announced with; trading may go   *)
(* on after it, and the outcome is known later still (app/ingest.py).      *)
(***************************************************************************)
EXTENDS Integers, Sequences, FiniteSets

CONSTANTS Bettors,    \* wallets
          Events,     \* conditions
          Schedules,  \* possible end dates of the conditions
          Sorts,      \* pairs of side and token that are traded
          PaceTicks,  \* ticks of 24 hours
          Horizon,    \* bound: ticks
          MaxBets     \* bound: trades

ASSUME OutcomeAssumption ==
  /\ IsFiniteSet(Bettors) /\ IsFiniteSet(Events) /\ IsFiniteSet(Sorts)
  /\ Schedules \subseteq [Events -> Nat] /\ Sorts \subseteq {"YES", "NO"} \X {"YES", "NO"}
  /\ PaceTicks \in Nat /\ Horizon \in Nat /\ MaxBets \in Nat

VARIABLES time,    \* the time
          ends,    \* resolved_at of the markets, once they are announced
          winner,  \* market_resolutions
          bets     \* trades by time and id

outcomeVars == <<time, ends, winner, bets>>

Bet == [wallet : Bettors, condition : Events, sort : Sorts, at : 0..Horizon]

OutcomeTypeOK ==
  /\ time \in 0..Horizon
  /\ ends \in Schedules \cup {<<>>}
  /\ winner \in [Events -> {"YES", "NO", "UNRESOLVED"}]
  /\ bets \in Seq(Bet)
  /\ \A i, j \in DOMAIN bets : i < j => bets[i].at <= bets[j].at

OutcomeInit ==
  /\ time = 0
  /\ ends = <<>>
  /\ winner = [c \in Events |-> "UNRESOLVED"]
  /\ bets = <<>>

Announce ==
  /\ ends = <<>>
  /\ ends' \in Schedules
  /\ UNCHANGED <<time, winner, bets>>

TimePasses ==
  /\ ends # <<>> /\ time < Horizon
  /\ time' = time + 1
  /\ UNCHANGED <<ends, winner, bets>>

\* Mutant: the rows are not read in the order of their times.
PlaceBetFirst(w, c, s) ==
  /\ ends # <<>> /\ Len(bets) < MaxBets
  /\ winner[c] = "UNRESOLVED"
  /\ bets' = <<[wallet |-> w, condition |-> c, sort |-> s, at |-> time]>> \o bets
  /\ UNCHANGED <<time, ends, winner>>

\* A trade of this moment is stored, on a market that is still open.
PlaceBet(w, c, s) ==
  /\ ends # <<>> /\ Len(bets) < MaxBets
  /\ winner[c] = "UNRESOLVED"
  /\ bets' = Append(bets, [wallet |-> w, condition |-> c, sort |-> s, at |-> time])
  /\ UNCHANGED <<time, ends, winner>>

\* The winner is found, at the end or later.
Resolve(c, token) ==
  /\ ends # <<>> /\ winner[c] = "UNRESOLVED" /\ ends[c] <= time
  /\ winner' = [winner EXCEPT ![c] = token]
  /\ UNCHANGED <<time, ends, bets>>

OutcomeNext ==
  \/ Announce \/ TimePasses
  \/ \E w \in Bettors, c \in Events, s \in Sorts : PlaceBet(w, c, s)
  \/ \E c \in Events, token \in {"YES", "NO"} : Resolve(c, token)

OutcomeSpec == OutcomeInit /\ [][OutcomeNext]_outcomeVars
-----------------------------------------------------------------------------
\* trade_won: a purchase of the winning token, or a sale of the losing one.
Decided(bet) == winner[bet.condition] # "UNRESOLVED"
Won(bet) == (bet.sort[1] = "YES") = (winner[bet.condition] = bet.sort[2])

\* Mutant: a market that ends at the moment of the trade counts as known.
KnownAtOrBefore(i) ==
  {j \in DOMAIN bets : /\ bets[j].wallet = bets[i].wallet /\ Decided(bets[j])
                       /\ ends[bets[j].condition] <= bets[i].at}

\* The events folded before the i-th trade: the wallet's trades, of any time, on
\* decided markets that ended strictly before it.
Known(i) ==
  {j \in DOMAIN bets : /\ bets[j].wallet = bets[i].wallet /\ Decided(bets[j])
                       /\ ends[bets[j].condition] < bets[i].at}

\* The wallet's and the market's trades before the i-th.
OwnBefore(i)    == {j \in 1..(i - 1) : bets[j].wallet = bets[i].wallet}
MarketBefore(i) == {j \in 1..(i - 1) : bets[j].condition = bets[i].condition}

\* The columns of FEATURE_NAMES that depend on other trades.
Row(i) ==
  [prior_trade_count |-> Cardinality(OwnBefore(i)),
   prior_trades_in_24h |-> Cardinality({j \in OwnBefore(i) : bets[j].at >= bets[i].at - PaceTicks}),
   prior_on_market |-> Cardinality(OwnBefore(i) \cap MarketBefore(i)),
   prior_resolved_count |-> Cardinality(Known(i)),
   prior_resolved_wins |-> Cardinality({j \in Known(i) : Won(bets[j])}),
   market_prior_trades |-> Cardinality(MarketBefore(i)),
   distinct_wallets |-> Cardinality({bets[j].wallet : j \in MarketBefore(i)})]
-----------------------------------------------------------------------------
\* A later trade or a later outcome changes the features of an earlier trade only
\* through a market whose announced end had passed before that trade, though it
\* was traded or decided after it; this is how far the gate by resolved_at holds.
RowsStand ==
  \A i \in DOMAIN bets :
    Row(i)' # Row(i) =>
      \E c \in Events : ends[c] < bets[i].at /\ winner'[c] # winner[c]

LaterChangesNothing == [][RowsStand]_outcomeVars
=============================================================================
