------------------------------ MODULE Activity ------------------------------
(***************************************************************************)
(* What the dashboard notices in the stored trades (app/analytics.py):     *)
(* spikes and new markets among the newest trades of the last day, the     *)
(* activity of a wallet over the last 24 hours, and its heatmap by calendar *)
(* days.  Trades are stored late and out of order, and the clock goes on.   *)
(***************************************************************************)
EXTENDS Integers, FiniteSets, Sequences

CONSTANTS Accounts,    \* wallets
          Markets,     \* conditions
          DayLength,   \* ticks of 24 hours
          SpikeCount,  \* _SPIKE_COUNT
          SpikeWindow, \* _SPIKE_WINDOW_MINUTES, in ticks
          RecentLimit, \* trades the dashboard looks at, 500
          EndOfTime,   \* bound: ticks
          MaxFills     \* bound: trades

ASSUME ActivityAssumption ==
  /\ IsFiniteSet(Accounts) /\ IsFiniteSet(Markets)
  /\ DayLength \in Nat \ {0} /\ SpikeCount \in Nat \ {0, 1} /\ SpikeWindow \in Nat
  /\ RecentLimit \in Nat /\ EndOfTime \in Nat /\ MaxFills \in Nat

VARIABLES clock, \* the time
          fills  \* stored trades; two of a tick differ in their number

activityVars == <<clock, fills>>

Fills == [wallet : Accounts, condition : Markets, traded_at : 0..EndOfTime, nr : 1..MaxFills]

ActivityTypeOK ==
  /\ clock \in 0..EndOfTime
  /\ fills \subseteq Fills
  /\ \A f \in fills : f.traded_at <= clock

ActivityInit == clock = 0 /\ fills = {}

Tick ==
  /\ clock < EndOfTime
  /\ clock' = clock + 1
  /\ UNCHANGED fills

\* A refresh stores a trade of this tick or of an earlier one.
Fill(w, c, t) ==
  LET same == {f \in fills : f.wallet = w /\ f.condition = c /\ f.traded_at = t} IN
    /\ Cardinality(fills) < MaxFills
    /\ t <= clock
    /\ fills' = fills \cup {[wallet |-> w, condition |-> c, traded_at |-> t,
                             nr |-> Cardinality(same) + 1]}
    /\ UNCHANGED clock

ActivityNext ==
  \/ Tick
  \/ \E w \in Accounts, c \in Markets, t \in 0..EndOfTime : Fill(w, c, t)

ActivitySpec == ActivityInit /\ [][ActivityNext]_activityVars
-----------------------------------------------------------------------------
Cutoff == clock - DayLength
TheDay == {f \in fills : f.traded_at >= Cutoff}

\* recent_trades: the newest of the last day; which of equal ones, it does not say.
Recent ==
  CHOOSE R \in SUBSET TheDay :
    /\ Cardinality(R) = IF Cardinality(TheDay) < RecentLimit THEN Cardinality(TheDay) ELSE RecentLimit
    /\ \A f \in R, g \in TheDay \ R : f.traded_at >= g.traded_at

\* timestamps.sort(reverse=True): fewer than i are later than the i-th, and at least i
\* are as late.
NewestFirst(R) ==
  [i \in 1..Cardinality(R) |->
     CHOOSE t \in {f.traded_at : f \in R} :
       /\ Cardinality({f \in R : f.traded_at > t}) < i
       /\ Cardinality({f \in R : f.traded_at >= t}) >= i]

OwnRecent(w) == {f \in Recent : f.wallet = w}

\* Mutant: the window holds one neighbour less.
SpikesShort(times) ==
  {i \in 1..(Len(times) - SpikeCount + 1) : times[i] - times[i + SpikeCount - 2] <= SpikeWindow}

\* Positions where SpikeCount neighbours lie within the window.
Spikes(times) ==
  {i \in 1..(Len(times) - SpikeCount + 1) : times[i] - times[i + SpikeCount - 1] <= SpikeWindow}

\* activity_spike: the first position, and who is within the window of its newest
\* trade; the newer ones of the list count as well.
SpikeEvents(w) ==
  LET times  == NewestFirst(OwnRecent(w))
      spikes == Spikes(times)
      newest == times[CHOOSE i \in spikes : \A j \in spikes : i <= j] IN
    IF spikes = {} THEN {}
    ELSE {[timestamp |-> newest,
           count |-> Cardinality({i \in DOMAIN times : newest - times[i] <= SpikeWindow})]}

\* new_market: pairs without a trade before the day, each with its oldest recent one.
NewMarketEvents ==
  LET recent == Recent IN {f \in recent :
     /\ ~\E g \in fills : g.wallet = f.wallet /\ g.condition = f.condition
                          /\ g.traded_at < Cutoff
     /\ \A g \in recent : g.wallet = f.wallet /\ g.condition = f.condition
                          => f.traded_at <= g.traded_at}

\* get_wallet_intelligence_summary
LastDay(w) == Cardinality({f \in fills : f.wallet = w /\ f.traded_at >= Cutoff})
ActivityLevel(w) ==
  CASE LastDay(w) = 0  -> "Inactive"
    [] LastDay(w) \in 1..2 -> "Low"
    [] LastDay(w) >= 10 -> "High"
    [] OTHER -> "Medium"

\* build_activity_heatmap: trades of a calendar day, for the last days.
DayOf(t) == t \div DayLength
Heat(w, day) == Cardinality({f \in fills : f.wallet = w /\ DayOf(f.traded_at) = day})
-----------------------------------------------------------------------------
\* Neighbours in the sorted list are enough: there is a spike event if and only if
\* any SpikeCount of the recent trades lie within the window of each other, and it
\* counts at least so many.
SpikeIffCluster ==
  \A w \in Accounts :
    LET clusters == {S \in SUBSET OwnRecent(w) :
                       /\ Cardinality(S) = SpikeCount
                       /\ \A f, g \in S : f.traded_at - g.traded_at <= SpikeWindow}
        events == SpikeEvents(w) IN
      /\ events # {} <=> clusters # {}
      /\ \A e \in events :
           /\ e.count >= SpikeCount
           /\ \A S \in clusters : \E f \in S : f.traded_at <= e.timestamp

\* Unless the dashboard's limit cuts the day, what is announced as the entry into a
\* market is the wallet's first stored trade there, and no other trade of the pair
\* at another time is announced.
NewMarketIsFirst ==
  Cardinality(TheDay) <= RecentLimit =>
    \A f \in NewMarketEvents, g \in fills :
      f.wallet = g.wallet /\ f.condition = g.condition => f.traded_at <= g.traded_at

\* The three views agree: the last 24 hours lie within two days of the heatmap, a
\* wallet that is inactive has nothing today, and a spike is not of an inactive or
\* little active wallet.
ViewsAgree ==
  \A w \in Accounts :
    LET today == DayOf(clock) IN
      /\ Heat(w, today) <= LastDay(w)
      /\ LastDay(w) <= Heat(w, today) + Heat(w, today - 1)
      /\ SpikeEvents(w) # {} /\ SpikeCount >= 3 => ActivityLevel(w) \in {"Medium", "High"}

NoticedRightly == SpikeIffCluster /\ NewMarketIsFirst /\ ViewsAgree
=============================================================================
