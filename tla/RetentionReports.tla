-------------------------- MODULE RetentionReports --------------------------
(***************************************************************************)
(* What is computed from event_log: the snapshots that                     *)
(* scripts/backfill_retention.py writes into retention_daily and           *)
(* retention_weekly, each run from the events of a window that slides with *)
(* the date, over the rows of earlier runs; and the rolling figures of the *)
(* dashboard (app/retention.py), which count from the hour and not from    *)
(* midnight.  Rates are pairs of a numerator and a denominator.            *)
(***************************************************************************)
EXTENDS Integers, FiniteSets

CONSTANTS Users,       \* trackers
          Week,        \* days of a week, 7
          Windows,     \* values of --days
          MaxTime,     \* bound: half days
          MaxSeen,     \* bound: events
          MaxRuns      \* bound: runs of the script

ASSUME ReportsAssumption ==
  /\ IsFiniteSet(Users) /\ Week \in Nat \ {0}
  /\ Windows \subseteq Nat /\ MaxTime \in Nat /\ MaxSeen \in Nat /\ MaxRuns \in Nat

VARIABLES now,     \* the time, in half days
          seen,    \* event_log: tracker, time and name
          daily,   \* retention_daily
          weekly,  \* retention_weekly
          runs     \* runs so far

reportVars == <<now, seen, daily, weekly, runs>>

EventNames == {"alert_impression", "alert_open"}

\* DATE(event_ts).  A week begins at a multiple of its length.
Day(t)  == t \div 2
Today   == Day(now)
Monday(d) == d - (d % Week)

NoSnapshot == [since |-> 0, computed |-> -1]
NoRate == <<>>

Rate(n, d) == IF d = 0 THEN NoRate ELSE <<n, d>>

ReportsTypeOK ==
  /\ now \in 0..MaxTime /\ runs \in 0..MaxRuns
  /\ seen \subseteq Users \X (0..now) \X EventNames
  /\ \A d \in DOMAIN daily : {d, daily[d].since} \subseteq Int /\ daily[d].computed \in d..Today
  /\ \A w \in DOMAIN weekly : w \in Int /\ w % Week = 0 /\ weekly[w].computed \in w..Today

ReportsInit ==
  /\ now = 0
  /\ seen = {}
  /\ runs = 0
  /\ daily = [d \in {} |-> NoSnapshot]
  /\ weekly = [d \in {} |-> NoSnapshot]
-----------------------------------------------------------------------------
\* An event is stored.
See(u, n) ==
  /\ Cardinality(seen) < MaxSeen
  /\ seen' = seen \cup {<<u, now, n>>}
  /\ UNCHANGED <<now, daily, weekly, runs>>

Pass ==
  /\ now < MaxTime
  /\ now' = now + 1
  /\ UNCHANGED <<seen, daily, weekly, runs>>

\* The users of the days ds among the events from the day since on: daily_users,
\* or, for a name, daily_impressions and daily_opens.
Active(ds, since) == {e[1] : e \in {f \in seen : Day(f[2]) >= since /\ Day(f[2]) \in ds}}
With(n, ds, since) ==
  {e[1] : e \in {f \in seen : Day(f[2]) >= since /\ Day(f[2]) \in ds /\ f[3] = n}}

\* Sessions per user: their active days over their number.
Sessions(ds, since) ==
  Rate(Cardinality({p \in Users \X ds : p[1] \in Active({p[2]}, since)}),
       Cardinality(Active(ds, since)))

\* Which of a day's users are among others who came later.
Return(users, later) ==
  IF users = {} \/ later = {} THEN NoRate
  ELSE <<Cardinality(users \cap later), Cardinality(users)>>

\* Mutant: the trailing days begin a day late.
TrailingShort(d) == (d - Week + 2)..d

\* The seven days that end with d, and those of the week after next.
Trailing(d) == (d - Week + 1)..d
After(d)    == (d + Week)..(d + 2 * Week - 1)

DailyRow(d, since) ==
  LET users == Active({d}, since)
      imp   == Cardinality(With("alert_impression", {d}, since))
      opens == Cardinality(With("alert_open", {d}, since)) IN
    [since |-> since, computed |-> Today,
     dau |-> Cardinality(users),
     wau_rolling_7 |-> Cardinality(Active(Trailing(d), since)),
     alert_open_rate |-> Rate(opens, imp),
     d1_return_rate |-> Return(users, Active({d + 1}, since)),
     d7_return_rate |-> Return(users, Active(After(d), since)),
     sessions_per_user |-> Sessions(Trailing(d), since)]

WeekOf(ws) == ws..(ws + Week - 1)

WeeklyRow(ws, since) ==
  LET users == Active(WeekOf(ws), since) IN
    [since |-> since, computed |-> Today,
     wau |-> Cardinality(users),
     repeat_users |-> Cardinality(users \cap Active(WeekOf(ws - Week), since)),
     sessions_per_user |-> Sessions(WeekOf(ws), since),
     alert_open_rate |-> Rate(Cardinality(With("alert_open", WeekOf(ws), since)),
                              Cardinality(With("alert_impression", WeekOf(ws), since)))]

\* Rows are replaced, and the others stay.
Upsert(table, fresh) ==
  [d \in DOMAIN table \cup DOMAIN fresh |-> IF d \in DOMAIN fresh THEN fresh[d] ELSE table[d]]

\* backfill: both tables in one transaction; when it fails nothing changes.
Backfill(days) ==
  LET since  == Today - days
      monday == Monday(since) IN
    /\ runs < MaxRuns
    /\ runs' = runs + 1
    /\ daily'  = Upsert(daily, [d \in since..Today |-> DailyRow(d, since)])
    /\ weekly' = Upsert(weekly, [w \in {v \in monday..Today : v % Week = 0} |->
                                   WeeklyRow(w, monday)])
    /\ UNCHANGED <<now, seen>>

ReportsNext ==
  \/ \E u \in Users, n \in EventNames : See(u, n)
  \/ Pass
  \/ \E days \in Windows : Backfill(days)

ReportsSpec == ReportsInit /\ [][ReportsNext]_reportVars
-----------------------------------------------------------------------------
\* get_wau: the last days by the hour, and the same number before them.
Rolling(from, to) == {e[1] : e \in {f \in seen : f[2] >= from /\ f[2] < to}}
LiveWau == Cardinality(Rolling(now - 2 * Week, now + 1))
PreviousWau == Cardinality(Rolling(now - 4 * Week, now - 2 * Week))

\* get_alert_open_rate over the same days.
LiveOpenRate ==
  LET users(n) == {e[1] : e \in {f \in seen : f[2] >= now - 2 * Week /\ f[3] = n}} IN
    Rate(Cardinality(users("alert_open")), Cardinality(users("alert_impression")))

ActiveEver(ds) == {u \in Users : \E e \in seen : e[1] = u /\ Day(e[2]) \in ds}

\* Whatever runs with whatever windows came before and after, a daily row is
\* right about the days it depends on, if these were over when it was
\* computed and the run read all of them: it must have begun Week - 1 days before.
DailyExact ==
  \A d \in DOMAIN daily :
    LET snap == daily[d]
        users == ActiveEver({d}) IN
      /\ d < snap.computed => snap.dau = Cardinality(users)
      /\ d < snap.computed /\ d >= snap.since + Week - 1
           => snap.wau_rolling_7 = Cardinality(ActiveEver((d - Week + 1)..d))
      /\ d + 1 < snap.computed =>
           snap.d1_return_rate = Return(users, ActiveEver({d + 1}))
      /\ d + 2 * Week - 1 < snap.computed =>
           snap.d7_return_rate = Return(users, ActiveEver((d + Week)..(d + 2 * Week - 1)))

\* The two tables are computed by two queries with different first days; the
\* last day of a week in one agrees with the week in the other.
SeriesAgree ==
  \A w \in DOMAIN weekly :
    LET d == w + Week - 1 IN
      d \in DOMAIN daily /\ d >= daily[d].since + Week - 1
        /\ d < daily[d].computed /\ d < weekly[w].computed =>
          /\ daily[d].wau_rolling_7 = weekly[w].wau
          /\ daily[d].sessions_per_user = weekly[w].sessions_per_user

\* The rolling figure of the dashboard counts everyone of the trailing days and
\* nobody from more than a day before them, and the period before it continues
\* it without a gap.  Its open rate is of people it counts, whoever was shown an
\* alert on the trailing days among them.
LiveBrackets ==
  /\ Cardinality(ActiveEver(Trailing(Today))) <= LiveWau
  /\ LiveWau <= Cardinality(ActiveEver((Today - Week)..Today))
  /\ Cardinality(ActiveEver((Today - 2 * Week + 1)..Today)) <= LiveWau + PreviousWau
  /\ LiveOpenRate # NoRate =>
       /\ LiveOpenRate[1] <= LiveWau /\ LiveOpenRate[2] <= LiveWau
       /\ Cardinality(With("alert_impression", Trailing(Today), 0)) <= LiveOpenRate[2]
  /\ LiveOpenRate = NoRate => With("alert_impression", Trailing(Today), 0) = {}

ReportsExact == DailyExact /\ SeriesAgree /\ LiveBrackets
=============================================================================
