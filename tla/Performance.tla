---------------------------- MODULE Performance ----------------------------
(***************************************************************************)
(* Realized profit of wallets on resolved markets (app/analytics.py), as   *)
(* a function of the trades that happen to be stored and of the outcomes   *)
(* that happen to be known.  Trades are missing from the store, come in    *)
(* any order, and may lack their token; a wallet can have sold more than   *)
(* it is known to have bought.  Prices are in units, and a share of the    *)
(* winning token pays Unit.                                                *)
(***************************************************************************)
EXTENDS Integers, FiniteSets, FiniteSetsExt

CONSTANTS Traders,    \* wallets
          Conditions, \* markets
          Unit,       \* what a winning share pays
          Prices,     \* prices of trades
          MaxTrades   \* bound: trades stored

ASSUME PerformanceAssumption ==
  /\ IsFiniteSet(Traders) /\ IsFiniteSet(Conditions) /\ IsFiniteSet(Prices)
  /\ Unit \in Nat \ {0} /\ Prices \subseteq 0..Unit /\ MaxTrades \in Nat

VARIABLES trades,      \* stored trades
          outcomes     \* market_resolutions; "open" without a row or UNRESOLVED

performanceVars == <<trades, outcomes>>

Tokens == {"YES", "NO"}

\* side is YES for a purchase of the token and NO for a sale; the token is
\* unknown for old rows.  A trade is of one share; equal ones are numbered.
Trades == [wallet : Traders, condition : Conditions, token : Tokens \cup {"unknown"},
           side : {"YES", "NO"}, price : Prices, nr : 1..MaxTrades]

PerformanceTypeOK ==
  /\ trades \subseteq Trades
  /\ outcomes \in [Conditions -> Tokens \cup {"open"}]

PerformanceInit ==
  /\ trades = {}
  /\ outcomes = [c \in Conditions |-> "open"]
-----------------------------------------------------------------------------
\* A trade is stored, in whatever order.
Ingest(trade) ==
  /\ Cardinality(trades) < MaxTrades
  /\ \A n \in 1..(trade.nr - 1) : [trade EXCEPT !.nr = n] \in trades
  /\ trades' = trades \cup {trade}
  /\ UNCHANGED outcomes

\* An answer that settles a market is never asked for again.
Settle(c, token) ==
  /\ outcomes[c] = "open"
  /\ outcomes' = [outcomes EXCEPT ![c] = token]
  /\ UNCHANGED trades

PerformanceNext ==
  \/ \E trade \in Trades : Ingest(trade)
  \/ \E c \in Conditions, token \in Tokens : Settle(c, token)

PerformanceSpec == PerformanceInit /\ [][PerformanceNext]_performanceVars
-----------------------------------------------------------------------------
\* The rows of the join: a settled market and a known token.
Rows(w) == {t \in trades : t.wallet = w /\ t.token \in Tokens /\ outcomes[t.condition] \in Tokens}

Cost(ts) == SumFunctionOnSet([t \in ts |-> t.price], ts)
Bought(ts) == {t \in ts : t.side = "YES"}
Sold(ts)   == {t \in ts : t.side = "NO"}

\* Sums over the trades of a group, a market and a token.
Group(w, c, token) ==
  LET ts == {t \in Rows(w) : t.condition = c /\ t.token = token} IN
    [buy_cost |-> Cost(Bought(ts)),
     sell_proceeds |-> Cost(Sold(ts)),
     net_shares |-> Cardinality(Bought(ts)) - Cardinality(Sold(ts))]

\* Mutant: a negative position pays as well.
PayoffOfAll(group, won) == IF won THEN group.net_shares * Unit ELSE 0

\* Net position held to resolution; what was sold without a purchase owes nothing.
Payoff(group, won) ==
  IF won /\ group.net_shares > 0 THEN group.net_shares * Unit ELSE 0

Pnl(group, won) == group.sell_proceeds - group.buy_cost + Payoff(group, won)

MarketPnl(w, c) ==
  SumFunctionOnSet([t \in Tokens |-> Pnl(Group(w, c, t), outcomes[c] = t)], Tokens)

\* compute_performance_from_trades
Perf(w) ==
  LET markets  == {t.condition : t \in Rows(w)}
      pnl      == [c \in markets |-> MarketPnl(w, c)]
      invested == Cost(Bought(Rows(w))) IN
    [has_data |-> markets # {} /\ invested > 0,
     realized_pnl |-> SumFunctionOnSet(pnl, markets),
     total_invested |-> invested,
     markets_won |-> Cardinality({c \in markets : pnl[c] > 0}),
     markets_lost |-> Cardinality({c \in markets : pnl[c] < 0}),
     resolved_markets |-> Cardinality(markets),
     resolved_trades |-> Cardinality(Rows(w))]

\* compute_wallet_performance_map and its empty record.
EmptyPerf == [has_data |-> FALSE, realized_pnl |-> 0, total_invested |-> 0,
              markets_won |-> 0, markets_lost |-> 0, resolved_markets |-> 0,
              resolved_trades |-> 0]

WalletPerf(w) == IF Rows(w) = {} THEN EmptyPerf ELSE Perf(w)
-----------------------------------------------------------------------------
Net(w, c, token) ==
  LET ts == {t \in trades : t.wallet = w /\ t.condition = c /\ t.token = token} IN
    Cardinality(Bought(ts)) - Cardinality(Sold(ts))

\* What the wallet's cash would be, trade by trade, each share settled on its own:
\* a bought share of the token pays Unit and a sold one takes it back.
CashOf(t) ==
  LET pays == IF outcomes[t.condition] = t.token THEN Unit ELSE 0 IN
    IF t.side = "YES" THEN pays - t.price ELSE t.price - pays

\* Shares of the winning token that were sold and not known to be bought.
Oversold(w, c) ==
  IF outcomes[c] \in Tokens /\ Net(w, c, outcomes[c]) < 0 THEN -Net(w, c, outcomes[c]) ELSE 0

\* The figure differs from the cash of the known trades by what those shares would
\* have taken back, and by nothing else: a missing purchase can only flatter it.
CashPlusOversold ==
  \A w \in Traders :
    WalletPerf(w).realized_pnl =
      SumFunctionOnSet([t \in Rows(w) |-> CashOf(t)], Rows(w))
        + Unit * SumFunctionOnSet([c \in Conditions |-> Oversold(w, c)], Conditions)

\* Who holds as many shares of both tokens earns what the prices left, whichever
\* side wins: their pair pays Unit.
HedgedIsNeutral ==
  \A w \in Traders, c \in Conditions :
    LET ts == {t \in Rows(w) : t.condition = c} IN
      outcomes[c] \in Tokens /\ Net(w, c, "YES") = Net(w, c, "NO") /\ Net(w, c, "YES") >= 0 =>
        MarketPnl(w, c) = Unit * Net(w, c, "YES") + Cost(Sold(ts)) - Cost(Bought(ts))

\* A profit needs a market that was won, a loss one that was lost, and the two
\* are different resolved markets.
VerdictsExplainPnl ==
  \A w \in Traders :
    LET p == WalletPerf(w) IN
      /\ p.markets_won + p.markets_lost <= p.resolved_markets
      /\ p.resolved_markets <= p.resolved_trades
      /\ p.realized_pnl > 0 => p.markets_won > 0
      /\ p.realized_pnl < 0 => p.markets_lost > 0 /\ p.has_data

PnlAddsUp == CashPlusOversold /\ HedgedIsNeutral /\ VerdictsExplainPnl
=============================================================================
