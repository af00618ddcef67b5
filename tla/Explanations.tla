---------------------------- MODULE Explanations ----------------------------
(***************************************************************************)
(* What the pages say of a trade (app/ai_analysis.py): the statistics of   *)
(* its market and its wallet (build_trade_context), the panel that says    *)
(* why it is flagged (explain_trade_signal), and the signal, the risk and  *)
(* the stance that are drawn from them (_local_model_analysis,             *)
(* _build_prompt).  Prices are in cents and fractions are compared without *)
(* division; the wording is left out.                                      *)
(***************************************************************************)
EXTENDS Integers, FiniteSets, FiniteSetsExt

CONSTANTS Authors,   \* wallets
          Questions, \* conditions
          Kinds,     \* bound: [side, price, value] a trade may have
          LastHour,  \* bound: times
          MaxStored, \* bound: trades
          ShortGap,  \* ticks of 1 hour
          LongGap,   \* ticks of 6 hours
          DaySpan,   \* ticks of 24 hours
          Busy,      \* 10 prior trades in a day
          Depth,     \* 5 trades before a market has a majority
          Marks,     \* bound: scores in percent
          FlagLine   \* the threshold of the model, in percent

ASSUME ExplanationsAssumption ==
  /\ Kinds \subseteq [side : {"YES", "NO"}, price : 1..99, value : Nat \ {0}]
  /\ IsFiniteSet(Authors) /\ IsFiniteSet(Questions) /\ IsFiniteSet(Kinds)
  /\ {LastHour, MaxStored, ShortGap, LongGap, DaySpan, Busy, Depth} \subseteq Nat
  /\ ShortGap <= LongGap /\ Marks \subseteq 0..100 /\ FlagLine \in 1..99

VARIABLE told  \* the trades that are stored; no two are alike in everything

ToldTypeOK ==
  /\ told \subseteq [who : Authors, condition : Questions, kind : Kinds, at : 0..LastHour]
  /\ Cardinality(told) <= MaxStored

ToldInit == told = {}

Tell(w, c, k, t) ==
  /\ Cardinality(told) < MaxStored
  /\ told' = told \cup {[who |-> w, condition |-> c, kind |-> k, at |-> t]}

ToldNext == \E w \in Authors, c \in Questions, k \in Kinds, t \in 0..LastHour : Tell(w, c, k, t)

ToldSpec == ToldInit /\ [][ToldNext]_told
-----------------------------------------------------------------------------
\* round: to the nearest, a half to the even neighbour.
Round(n, d) ==
  LET q == n \div d
      r == 2 * (n % d) IN
    IF r > d \/ (r = d /\ q % 2 = 1) THEN q + 1 ELSE q

ValueSum(T) == SumFunctionOnSet([e \in T |-> e.kind.value], T)
PriceSum(T) == SumFunctionOnSet([e \in T |-> e.kind.price], T)
OnSide(T, s)   == {e \in T : e.kind.side = s}
OnMarket(T, t) == {e \in T : e.condition = t.condition}
OfWallet(T, t) == {e \in T : e.who = t.who}

\* The share of YES among some trades.
YesPct(T) == Round(100 * Cardinality(OnSide(T, "YES")), Cardinality(T))

\* market_sentiment and wallet_bias.
Mood(pct) ==
  CASE pct >= 65 -> "strongly bullish" [] pct \in 55..64 -> "bullish"
    [] pct <= 35 -> "strongly bearish" [] pct \in 36..45 -> "bearish" [] OTHER -> "neutral"

Leaning(pct) ==
  CASE pct >= 70 -> "strong YES" [] pct \in 55..69 -> "mild YES"
    [] pct <= 30 -> "strong NO"  [] pct \in 31..45 -> "mild NO" [] OTHER -> "balanced"

\* price_vs_consensus: against the mean entry of the same side of the market.
AgainstPeers(T, t) ==
  LET peers == OnSide(OnMarket(T, t), t.kind.side)
      total == PriceSum(peers)
      diff  == Round(100 * (Cardinality(peers) * t.kind.price - total), total) IN
    CASE diff > 8 -> "premium" [] diff < -8 -> "discount" [] OTHER -> "near"

\* market_conviction: the spread of all entry prices.
Spread(T, t) ==
  LET prices == {e.kind.price : e \in OnMarket(T, t)}
      range  == Max(prices) - Min(prices) IN
    CASE range < 15 -> "high conviction" [] range \in 15..34 -> "split" [] OTHER -> "wide"

\* build_trade_context: sizes in tenths of the wallet's mean value.
Context(T, t) ==
  LET market == OnMarket(T, t)
      wallet == OfWallet(T, t)
      here   == market \cap wallet IN
    [market_yes_pct |-> YesPct(market), market_sentiment |-> Mood(YesPct(market)),
     market_total |-> Cardinality(market), market_wallets |-> Cardinality({e.who : e \in market}),
     market_conviction |-> Spread(T, t), price_vs_consensus |-> AgainstPeers(T, t),
     wallet_total |-> Cardinality(wallet), wallet_bias |-> Leaning(YesPct(wallet)),
     size |-> Round(10 * t.kind.value * Cardinality(wallet), ValueSum(wallet)),
     here |-> Cardinality(here),
     first |-> Cardinality(here) <= 1 \/ \A e \in here : e.at >= t.at]
-----------------------------------------------------------------------------
\* _signal_level
Level(score) ==
  CASE score < 25 -> "Normal" [] score \in 25..49 -> "Mildly unusual"
    [] score \in 50..74 -> "Strong signal" [] OTHER -> "Very unusual"

\* The reasons and the weaker remarks about value, pace and market, given the prior trades.
PanelFrom(p, t, score) ==
  LET n      == Cardinality(p)
      excess == n * t.kind.value - ValueSum(p)
      square == SumFunctionOnSet([e \in p |-> e.kind.value * e.kind.value], p)
      spread == n * square - ValueSum(p) * ValueSum(p)
      gap    == t.at - Max({e.at : e \in p})
      recent == Cardinality({e \in p : e.at >= t.at - DaySpan})
      here   == Cardinality(OnMarket(p, t))
      edge   == IF t.kind.price > 50 THEN 2 * t.kind.price - 100 ELSE 100 - 2 * t.kind.price
      says(word, holds) == IF holds THEN {word} ELSE {} IN
    [flagged |-> score >= FlagLine, level |-> Level(score), prior |-> n,
     reasons |->
       says("score", score >= FlagLine) \cup says("extreme price", edge >= 70)
       \cup (IF n = 0 THEN {}
             ELSE says("value", 2 * n * t.kind.value >= 5 * ValueSum(p))
                  \cup says("deviation", n >= 2 /\ spread > 0 /\ excess >= 0
                                         /\ excess * excess >= 4 * spread)
                  \cup says("gap", gap <= ShortGap) \cup says("pace", recent >= Busy)
                  \cup says("first here", here = 0) \cup says("again here", here > 0 /\ 4 * here >= n)),
     remarks |->
       says("score", score < FlagLine) \cup says("off the middle", edge \in 40..69)
       \cup (IF n = 0 THEN {"no history"}
             ELSE {IF 2 * n * t.kind.value >= 3 * ValueSum(p) THEN "above mean" ELSE "near mean"}
                  \cup says("gap", gap > ShortGap /\ gap <= LongGap)
                  \cup says("pace", recent \in 1..(Busy - 1))
                  \cup says("seldom here", here > 0 /\ 4 * here < n))]

\* explain_trade_signal: the prior trades are the wallet's, strictly before this one.
Prior(T, t) == {e \in OfWallet(T, t) : e.at < t.at}

Panel(T, t, score) == PanelFrom(Prior(T, t), t, score)
-----------------------------------------------------------------------------
\* Mutant: a majority of exactly 60 per cent is one to go against.
AgainstCrowdLoose(side, pct) == (side = "YES" /\ pct < 40) \/ (side = "NO" /\ pct >= 60)

AgainstCrowd(side, pct) == (side = "YES" /\ pct < 40) \/ (side = "NO" /\ pct > 60)
WithCrowd(side, pct)    == (side = "YES" /\ pct >= 60) \/ (side = "NO" /\ pct <= 40)

\* _local_model_analysis: the signal and the risk.
Analysis(T, t, score) ==
  LET ctx        == Context(T, t)
      deep       == ctx.market_total >= Depth
      flagged    == score >= FlagLine
      oversized  == ctx.size >= 25
      contrarian == deep /\ AgainstCrowd(t.kind.side, ctx.market_yes_pct)
      points     == Cardinality({f \in {<<1, flagged>>, <<2, oversized>>, <<3, contrarian>>,
                                        <<4, t.kind.price <= 15>>} : f[2]}) IN
    [signal |-> CASE contrarian -> "CONTRARIAN"
                  [] ~contrarian /\ (flagged \/ oversized) -> "CONVICTION"
                  [] ~contrarian /\ ~flagged /\ ~oversized
                     /\ deep /\ WithCrowd(t.kind.side, ctx.market_yes_pct) -> "CONSENSUS"
                  [] OTHER -> "SPECULATIVE",
     risk |-> CASE points >= 2 -> "HIGH" [] points = 1 -> "MEDIUM" [] OTHER -> "LOW",
     first |-> ctx.first]

\* _build_prompt: the stance a provider is told of.
Stance(T, t) ==
  LET pct  == Context(T, t).market_yes_pct
      side == t.kind.side IN
    CASE AgainstCrowd(side, pct) -> "CONTRARIAN"
      [] (side = "YES" /\ pct > 70) \/ (side = "NO" /\ pct < 30) -> "MOMENTUM"
      [] OTHER -> "none"
-----------------------------------------------------------------------------
\* The panel is about the past: trades stored at the same time or later leave it alone.
PanelIsPast ==
  \A t \in told, s \in Marks :
    Panel(told, t, s) = Panel({e \in told : e.at < t.at} \cup {t}, t, s)

\* The panel, the signal and the prompt do not contradict each other: on whether the
\* wallet is new to the market, on the flag, and on going against the crowd.
TellsOneStory ==
  \A t \in told, s \in Marks :
    LET panel == Panel(told, t, s)
        local == Analysis(told, t, s) IN
      /\ "first here" \in panel.reasons => local.first
      /\ local.first /\ panel.prior > 0 => "first here" \in panel.reasons
      /\ panel.flagged => local.signal \in {"CONVICTION", "CONTRARIAN"} /\ local.risk # "LOW"
      /\ local.signal = "CONTRARIAN" => Stance(told, t) = "CONTRARIAN"
      /\ Stance(told, t) = "MOMENTUM" => local.signal # "CONTRARIAN"

\* YES and NO are treated alike: if every trade had taken the other side, the signal,
\* the risk and the stance of each would be the same and the moods opposite.
Other(t) == [t EXCEPT !.kind.side = IF t.kind.side = "YES" THEN "NO" ELSE "YES"]
Opposite ==
  [m \in {"strongly bullish", "bullish", "neutral", "bearish", "strongly bearish",
          "strong YES", "mild YES", "balanced", "mild NO", "strong NO"} |->
    CASE m = "strongly bullish" -> "strongly bearish" [] m = "strongly bearish" -> "strongly bullish"
      [] m = "bullish" -> "bearish" [] m = "bearish" -> "bullish"
      [] m = "strong YES" -> "strong NO" [] m = "strong NO" -> "strong YES"
      [] m = "mild YES" -> "mild NO" [] m = "mild NO" -> "mild YES" [] OTHER -> m]

SidesAreAlike ==
  LET mirror == {Other(t) : t \in told} IN
    \A t \in told, s \in Marks :
      LET here  == Context(told, t)
          there == Context(mirror, Other(t)) IN
        /\ Analysis(mirror, Other(t), s) = Analysis(told, t, s)
        /\ Stance(mirror, Other(t)) = Stance(told, t)
        /\ there.market_sentiment = Opposite[here.market_sentiment]
        /\ there.wallet_bias = Opposite[here.wallet_bias]
        /\ there.price_vs_consensus = here.price_vs_consensus

\* So are the tables of the shares, at every percentage and so at every boundary.
TablesAreAlike ==
  \A pct \in 0..100 :
    /\ AgainstCrowd("YES", pct) = AgainstCrowd("NO", 100 - pct)
    /\ WithCrowd("YES", pct) = WithCrowd("NO", 100 - pct)
    /\ ~(AgainstCrowd("YES", pct) /\ WithCrowd("YES", pct))
    /\ Mood(100 - pct) = Opposite[Mood(pct)] /\ Leaning(100 - pct) = Opposite[Leaning(pct)]

ExplainedAlike == TablesAreAlike /\ PanelIsPast /\ TellsOneStory /\ SidesAreAlike
=============================================================================
