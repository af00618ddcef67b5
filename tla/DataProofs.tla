----------------------------- MODULE DataProofs -----------------------------
(***************************************************************************)
(* Proofs about what is computed from the stored data and how it is copied. *)
(*                                                                         *)
(* RetentionReports: what is stored of a day or a week is what the events  *)
(* say.  Performance: the realized profit adds up.  Explanations: the panel, *)
(* the signal and the prompt tell one story, a matter of how the sets they *)
(* are drawn from are related; and YES and NO are treated alike, which is a *)
(* symmetry: the trades are turned round, one to one, every sum and count is *)
(* shown to be kept, and every share to be taken from 100.  Activity: the  *)
(* i-th of the sorted times is no earlier than t exactly when i trades are, *)
(* so neighbours bound the trades of a window.  Copies: row after row, a   *)
(* table only grows, stays consistent, and has what came.  Last, the types *)
(* of all parts of MCData together; those about models are in LearningProofs. *)
(***************************************************************************)
EXTENDS MCData, LearningProofs

(* RetentionReports *)

\* The last Monday is a multiple of the week's length that is not later.
LEMMA MondayBounds ==
  ASSUME NEW d \in Int
  PROVE  Monday(d) \in Int /\ Monday(d) <= d
  BY ReportsAssumption DEF Monday

LEMMA ReportsTypeInit == ReportsInit => ReportsTypeOK
<1> SUFFICES ASSUME ReportsInit  PROVE ReportsTypeOK
  OBVIOUS
<1>1. DOMAIN daily = {} /\ DOMAIN weekly = {}
  BY DEF ReportsInit
<1> QED BY <1>1, ReportsAssumption DEF ReportsInit, ReportsTypeOK

\* The first day a run reads for the days, the first for the weeks, and its weeks.
Since(days)   == Today - days
First(days)   == Monday(Since(days))
Mondays(days) == {v \in First(days)..Today : v % Week = 0}

\* The rows of a run are of days until today, and the others stay.
LEMMA BackfillRows ==
  ASSUME ReportsTypeOK, NEW days \in Windows, Backfill(days)
  PROVE  /\ Since(days) \in Int /\ First(days) \in Int /\ First(days) <= Since(days) /\ Since(days) <= Today /\ Today \in Nat
         /\ DOMAIN daily' = DOMAIN daily \cup Since(days)..Today
         /\ \A d \in Since(days)..Today : daily'[d] = DailyRow(d, Since(days))
         /\ \A d \in DOMAIN daily \ Since(days)..Today : daily'[d] = daily[d]
         /\ DOMAIN weekly' = DOMAIN weekly \cup Mondays(days)
         /\ \A w \in Mondays(days) : weekly'[w] = WeeklyRow(w, First(days))
         /\ \A w \in DOMAIN weekly \ Mondays(days) : weekly'[w] = weekly[w]
<1> DEFINE fresh == [d \in Since(days)..Today |-> DailyRow(d, Since(days))]
           freshW == [w \in Mondays(days) |-> WeeklyRow(w, First(days))]
<1>1. Today \in Nat /\ Since(days) \in Int /\ Since(days) <= Today
  BY ReportsAssumption DEF ReportsTypeOK, Today, Day, Since
<1>2. First(days) \in Int /\ First(days) <= Since(days)
  BY <1>1, MondayBounds DEF First
<1>3. daily' = Upsert(daily, fresh) /\ weekly' = Upsert(weekly, freshW)
  BY DEF Backfill, Since, First, Mondays
<1>4. DOMAIN fresh = Since(days)..Today /\ \A d \in Since(days)..Today : fresh[d] = DailyRow(d, Since(days))
  OBVIOUS
<1>5. DOMAIN freshW = Mondays(days) /\ \A w \in Mondays(days) : freshW[w] = WeeklyRow(w, First(days))
  OBVIOUS
<1> HIDE DEF fresh, freshW
<1>6. /\ DOMAIN daily' = DOMAIN daily \cup Since(days)..Today
      /\ \A d \in Since(days)..Today : daily'[d] = DailyRow(d, Since(days))
      /\ \A d \in DOMAIN daily \ Since(days)..Today : daily'[d] = daily[d]
  BY <1>3, <1>4 DEF Upsert
<1>7. /\ DOMAIN weekly' = DOMAIN weekly \cup Mondays(days)
      /\ \A w \in Mondays(days) : weekly'[w] = WeeklyRow(w, First(days))
      /\ \A w \in DOMAIN weekly \ Mondays(days) : weekly'[w] = weekly[w]
  BY <1>3, <1>5 DEF Upsert
<1> QED BY <1>1, <1>2, <1>6, <1>7

LEMMA ReportsTypeStep == ReportsTypeOK /\ [ReportsNext]_reportVars => ReportsTypeOK'
<1> SUFFICES ASSUME ReportsTypeOK, [ReportsNext]_reportVars  PROVE ReportsTypeOK'
  OBVIOUS
<1>0. Today \in Nat
  BY DEF ReportsTypeOK, Today, Day
<1>1. ASSUME NEW u \in Users, NEW n \in EventNames, See(u, n)  PROVE ReportsTypeOK'
  BY <1>1 DEF See, ReportsTypeOK, Today
<1>2. CASE Pass
  <2>1. Today' \in Nat /\ Today <= Today' /\ now' \in 0..MaxTime /\ now <= now'
    BY <1>2, ReportsAssumption DEF Pass, ReportsTypeOK, Today, Day
  <2>2. UNCHANGED <<seen, daily, weekly, runs>>
    BY <1>2 DEF Pass
  <2> QED BY <1>0, <2>1, <2>2 DEF ReportsTypeOK
<1>3. ASSUME NEW days \in Windows, Backfill(days)  PROVE ReportsTypeOK'
  <2>1. UNCHANGED <<now, seen, Today>> /\ runs' \in 0..MaxRuns
    BY <1>3, ReportsAssumption DEF Backfill, ReportsTypeOK, Today
  <2>2. /\ Since(days) \in Int /\ First(days) \in Int /\ First(days) <= Since(days) /\ Since(days) <= Today
        /\ DOMAIN daily' = DOMAIN daily \cup Since(days)..Today
        /\ \A d \in Since(days)..Today : daily'[d] = DailyRow(d, Since(days))
        /\ \A d \in DOMAIN daily \ Since(days)..Today : daily'[d] = daily[d]
        /\ DOMAIN weekly' = DOMAIN weekly \cup Mondays(days)
        /\ \A w \in Mondays(days) : weekly'[w] = WeeklyRow(w, First(days))
        /\ \A w \in DOMAIN weekly \ Mondays(days) : weekly'[w] = weekly[w]
    BY <1>3, BackfillRows
  <2>3. ASSUME NEW d \in DOMAIN daily'
        PROVE  {d, daily'[d].since} \subseteq Int /\ daily'[d].computed \in d..Today
    <3>1. CASE d \in Since(days)..Today
      <4>1. daily'[d] = DailyRow(d, Since(days))
        BY <2>2, <3>1
      <4>2. daily'[d].since = Since(days) /\ daily'[d].computed = Today
        BY <4>1 DEF DailyRow
      <4> QED BY <1>0, <2>2, <3>1, <4>2
    <3>2. CASE d \notin Since(days)..Today
      <4>1. {d, daily[d].since} \subseteq Int /\ daily[d].computed \in d..Today
        BY <2>2, <3>2 DEF ReportsTypeOK
      <4> QED BY <2>2, <3>2, <4>1
    <3> QED BY <3>1, <3>2
  <2>4. ASSUME NEW w \in DOMAIN weekly'
        PROVE  w \in Int /\ w % Week = 0 /\ weekly'[w].computed \in w..Today
    <3>1. CASE w \in Mondays(days)
      <4>1. weekly'[w] = WeeklyRow(w, First(days))
        BY <2>2, <3>1
      <4>2. weekly'[w].computed = Today
        BY <4>1 DEF WeeklyRow
      <4> QED BY <1>0, <2>2, <3>1, <4>2 DEF Mondays
    <3>2. CASE w \notin Mondays(days)
      <4>1. w \in Int /\ w % Week = 0 /\ weekly[w].computed \in w..Today
        BY <2>2, <3>2 DEF ReportsTypeOK
      <4> QED BY <2>2, <3>2, <4>1
    <3> QED BY <3>1, <3>2
  <2> QED BY <2>1, <2>3, <2>4 DEF ReportsTypeOK
<1>4. CASE UNCHANGED reportVars
  BY <1>4 DEF reportVars, ReportsTypeOK, Today
<1> QED BY <1>1, <1>2, <1>3, <1>4 DEF ReportsNext

\* Rows are of days that had begun when they were computed, and weeks of whole ones.
THEOREM ReportsTypeCorrect == ReportsSpec => []ReportsTypeOK
  BY ReportsTypeInit, ReportsTypeStep, PTL DEF ReportsSpec
-----------------------------------------------------------------------------
SessionsEver(ds) ==
  Rate(Cardinality({p \in Users \X ds : p[1] \in ActiveEver({p[2]})}),
       Cardinality(ActiveEver(ds)))

\* A daily row is right about the days that were over and that its run has read; this is
\* DailyExact and the column that SeriesAgree compares.
DailyRight(d) ==
  LET snap == daily[d] IN
    /\ snap.since <= d
    /\ d < snap.computed => snap.dau = Cardinality(ActiveEver({d}))
    /\ d < snap.computed /\ d >= snap.since + Week - 1 =>
         /\ snap.wau_rolling_7 = Cardinality(ActiveEver(Trailing(d)))
         /\ snap.sessions_per_user = SessionsEver(Trailing(d))
    /\ d + 1 < snap.computed => snap.d1_return_rate = Return(ActiveEver({d}), ActiveEver({d + 1}))
    /\ d + 2 * Week - 1 < snap.computed =>
         snap.d7_return_rate = Return(ActiveEver({d}), ActiveEver(After(d)))

\* A weekly row is right if its week was over: its run began on a Monday.
WeeklyRight(w) ==
  LET snap == weekly[w] IN
    w + Week - 1 < snap.computed =>
      /\ snap.wau = Cardinality(ActiveEver(WeekOf(w)))
      /\ snap.sessions_per_user = SessionsEver(WeekOf(w))

RowsRight == (\A d \in DOMAIN daily : DailyRight(d)) /\ (\A w \in DOMAIN weekly : WeeklyRight(w))

ReportsInv == ReportsTypeOK /\ RowsRight

\* Events have a user and a day.
LEMMA SeenFields ==
  ASSUME ReportsTypeOK, NEW e \in seen
  PROVE  e[1] \in Users /\ e[2] \in 0..now /\ e[3] \in EventNames /\ Day(e[2]) \in 0..Today
<1>1. e \in Users \X (0..now) \X EventNames /\ now \in Nat
  BY DEF ReportsTypeOK
<1>2. e[1] \in Users /\ e[2] \in 0..now /\ e[3] \in EventNames
  BY <1>1
<1> QED BY <1>1, <1>2 DEF Day, Today

\* A run that has read the days of ds knows all their users.
LEMMA ReadAll ==
  ASSUME ReportsTypeOK, NEW ds \in SUBSET Int, NEW since \in Int, \A d \in ds : d >= since
  PROVE  Active(ds, since) = ActiveEver(ds)
<1>1. ASSUME NEW u \in Active(ds, since)  PROVE u \in ActiveEver(ds)
  BY <1>1, SeenFields DEF Active, ActiveEver
<1>2. ASSUME NEW u \in ActiveEver(ds)  PROVE u \in Active(ds, since)
  <2>1. PICK e \in seen : e[1] = u /\ Day(e[2]) \in ds
    BY <1>2 DEF ActiveEver
  <2>2. Day(e[2]) >= since
    BY <2>1
  <2> QED BY <2>1, <2>2 DEF Active
<1> QED BY <1>1, <1>2

LEMMA ReadAllSessions ==
  ASSUME ReportsTypeOK, NEW ds \in SUBSET Int, NEW since \in Int, \A d \in ds : d >= since
  PROVE  Sessions(ds, since) = SessionsEver(ds)
<1>1. Active(ds, since) = ActiveEver(ds)
  BY ReadAll
<1>2. \A d \in ds : Active({d}, since) = ActiveEver({d})
  BY ReadAll
<1>3. {p \in Users \X ds : p[1] \in Active({p[2]}, since)}
        = {p \in Users \X ds : p[1] \in ActiveEver({p[2]})}
  BY <1>2
<1> QED BY <1>1, <1>3 DEF Sessions, SessionsEver

\* What happens from today on does not change who was active before.
LEMMA PastIsOver ==
  ASSUME ReportsTypeOK, NEW u \in Users, NEW n \in EventNames, See(u, n),
         NEW ds \in SUBSET Int, Today \notin ds
  PROVE  ActiveEver(ds)' = ActiveEver(ds)
<1>1. seen' = seen \cup {<<u, now, n>>} /\ Day(now) = Today
  BY DEF See, Today
<1> QED BY <1>1 DEF ActiveEver

LEMMA PastSessions ==
  ASSUME ReportsTypeOK, NEW u \in Users, NEW n \in EventNames, See(u, n),
         NEW ds \in SUBSET Int, Today \notin ds
  PROVE  SessionsEver(ds)' = SessionsEver(ds)
<1>1. ActiveEver(ds)' = ActiveEver(ds)
  BY PastIsOver
<1>2. \A d \in ds : ActiveEver({d})' = ActiveEver({d})
  BY PastIsOver
<1>3. {p \in Users \X ds : p[1] \in ActiveEver({p[2]})}'
        = {p \in Users \X ds : p[1] \in ActiveEver({p[2]})}
  BY <1>2
<1> QED BY <1>1, <1>3 DEF SessionsEver

LEMMA RightUnlessSeen ==
  ASSUME ReportsInv, UNCHANGED <<seen, daily, weekly>>
  PROVE  RowsRight'
<1>1. \A ds : ActiveEver(ds)' = ActiveEver(ds)
  BY DEF ActiveEver
<1>2. \A ds : SessionsEver(ds)' = SessionsEver(ds)
  BY <1>1 DEF SessionsEver
<1> QED BY <1>1, <1>2 DEF ReportsInv, RowsRight, DailyRight, WeeklyRight

LEMMA RightAfterSee ==
  ASSUME ReportsInv, NEW u \in Users, NEW n \in EventNames, See(u, n)
  PROVE  RowsRight'
<1>0. ReportsTypeOK /\ Today \in Int /\ Week \in Nat \ {0} /\ UNCHANGED <<daily, weekly>>
  BY ReportsAssumption DEF ReportsInv, ReportsTypeOK, Today, Day, See
<1>1. ASSUME NEW d \in DOMAIN daily  PROVE DailyRight(d)'
  <2>1. d \in Int /\ daily[d].computed \in Int /\ daily[d].computed <= Today
    BY <1>0 DEF ReportsTypeOK
  <2>2. d < daily[d].computed => ActiveEver({d})' = ActiveEver({d})
    BY <1>0, <2>1, PastIsOver
  <2>3. d < daily[d].computed =>
          /\ ActiveEver(Trailing(d))' = ActiveEver(Trailing(d))
          /\ SessionsEver(Trailing(d))' = SessionsEver(Trailing(d))
    <3>1. Trailing(d) \in SUBSET Int /\ (d < daily[d].computed => Today \notin Trailing(d))
      BY <1>0, <2>1 DEF Trailing
    <3>2. Trailing(d)' = Trailing(d)
      BY DEF Trailing
    <3> QED BY <1>0, <3>1, PastIsOver, PastSessions
  <2>4. d + 1 < daily[d].computed => ActiveEver({d + 1})' = ActiveEver({d + 1})
    BY <1>0, <2>1, PastIsOver
  <2>5. d + 2 * Week - 1 < daily[d].computed => ActiveEver(After(d))' = ActiveEver(After(d))
    <3>1. After(d) \in SUBSET Int /\ (d + 2 * Week - 1 < daily[d].computed => Today \notin After(d))
      BY <1>0, <2>1 DEF After
    <3> QED BY <1>0, <3>1, PastIsOver
  <2>6. d + 2 * Week - 1 < daily[d].computed => d < daily[d].computed
    BY <1>0, <2>1
  <2>7. d + 1 < daily[d].computed => d < daily[d].computed
    BY <2>1
  <2>8. DailyRight(d)
    BY DEF ReportsInv, RowsRight
  <2> QED BY <1>0, <2>2, <2>3, <2>4, <2>5, <2>6, <2>7, <2>8 DEF DailyRight
<1>2. ASSUME NEW w \in DOMAIN weekly  PROVE WeeklyRight(w)'
  <2>1. w \in Int /\ weekly[w].computed \in Int /\ weekly[w].computed <= Today
    BY <1>0 DEF ReportsTypeOK
  <2>2. WeekOf(w) \in SUBSET Int /\ (w + Week - 1 < weekly[w].computed => Today \notin WeekOf(w))
    BY <1>0, <2>1 DEF WeekOf
  <2>3. w + Week - 1 < weekly[w].computed =>
          /\ ActiveEver(WeekOf(w))' = ActiveEver(WeekOf(w))
          /\ SessionsEver(WeekOf(w))' = SessionsEver(WeekOf(w))
    BY <1>0, <2>2, PastIsOver, PastSessions
  <2>4. WeeklyRight(w)
    BY DEF ReportsInv, RowsRight
  <2> QED BY <1>0, <2>3, <2>4 DEF WeeklyRight
<1> QED BY <1>0, <1>1, <1>2 DEF RowsRight

\* A row that is computed today is right.
LEMMA RightWhenComputed ==
  ASSUME ReportsTypeOK, NEW d \in Int, NEW since \in Int, since <= d
  PROVE  /\ DailyRow(d, since).since <= d
         /\ DailyRow(d, since).dau = Cardinality(ActiveEver({d}))
         /\ d >= DailyRow(d, since).since + Week - 1 =>
              /\ DailyRow(d, since).wau_rolling_7 = Cardinality(ActiveEver(Trailing(d)))
              /\ DailyRow(d, since).sessions_per_user = SessionsEver(Trailing(d))
         /\ DailyRow(d, since).d1_return_rate = Return(ActiveEver({d}), ActiveEver({d + 1}))
         /\ DailyRow(d, since).d7_return_rate = Return(ActiveEver({d}), ActiveEver(After(d)))
         /\ WeeklyRow(d, since).wau = Cardinality(ActiveEver(WeekOf(d)))
         /\ WeeklyRow(d, since).sessions_per_user = SessionsEver(WeekOf(d))
<1>0. Week \in Nat \ {0}
  BY ReportsAssumption
<1>1. Active({d}, since) = ActiveEver({d}) /\ Active({d + 1}, since) = ActiveEver({d + 1})
  BY ReadAll
<1>2. d >= since + Week - 1 =>
        /\ Active(Trailing(d), since) = ActiveEver(Trailing(d))
        /\ Sessions(Trailing(d), since) = SessionsEver(Trailing(d))
  <2>1. Trailing(d) \in SUBSET Int /\ (d >= since + Week - 1 => \A e \in Trailing(d) : e >= since)
    BY <1>0 DEF Trailing
  <2> QED BY <2>1, ReadAll, ReadAllSessions
<1>3. Active(After(d), since) = ActiveEver(After(d))
  <2>1. After(d) \in SUBSET Int /\ \A e \in After(d) : e >= since
    BY <1>0 DEF After
  <2> QED BY <2>1, ReadAll
<1>4. /\ Active(WeekOf(d), since) = ActiveEver(WeekOf(d))
      /\ Sessions(WeekOf(d), since) = SessionsEver(WeekOf(d))
  <2>1. WeekOf(d) \in SUBSET Int /\ \A e \in WeekOf(d) : e >= since
    BY <1>0 DEF WeekOf
  <2> QED BY <2>1, ReadAll, ReadAllSessions
<1>5. /\ DailyRow(d, since).since <= d
      /\ DailyRow(d, since).dau = Cardinality(ActiveEver({d}))
      /\ d >= DailyRow(d, since).since + Week - 1 =>
           /\ DailyRow(d, since).wau_rolling_7 = Cardinality(ActiveEver(Trailing(d)))
           /\ DailyRow(d, since).sessions_per_user = SessionsEver(Trailing(d))
      /\ DailyRow(d, since).d1_return_rate = Return(ActiveEver({d}), ActiveEver({d + 1}))
      /\ DailyRow(d, since).d7_return_rate = Return(ActiveEver({d}), ActiveEver(After(d)))
  BY <1>1, <1>2, <1>3 DEF DailyRow
<1>6. /\ WeeklyRow(d, since).wau = Cardinality(ActiveEver(WeekOf(d)))
      /\ WeeklyRow(d, since).sessions_per_user = SessionsEver(WeekOf(d))
  BY <1>4 DEF WeeklyRow
<1> QED BY <1>5, <1>6

LEMMA RightAfterBackfill ==
  ASSUME ReportsInv, NEW days \in Windows, Backfill(days)
  PROVE  RowsRight'
<1>0. ReportsTypeOK /\ UNCHANGED seen
  BY DEF ReportsInv, Backfill
<1>1. /\ \A ds : ActiveEver(ds)' = ActiveEver(ds)
      /\ \A ds : SessionsEver(ds)' = SessionsEver(ds)
  <2>1. \A ds : ActiveEver(ds)' = ActiveEver(ds)
    BY <1>0 DEF ActiveEver
  <2> QED BY <2>1 DEF SessionsEver
<1>2. ASSUME NEW d \in DOMAIN daily'  PROVE DailyRight(d)'
  <2>1. CASE d \in Since(days)..Today
    <3>1. d \in Int /\ Since(days) \in Int /\ Since(days) <= d
      <4>1. Since(days) \in Int /\ Today \in Nat
        BY <1>0, BackfillRows
      <4> QED BY <2>1, <4>1
    <3>2. daily'[d] = DailyRow(d, Since(days))
      BY <1>0, <2>1, BackfillRows
    <3> HIDE DEF DailyRow
    <3>3. /\ daily'[d].since <= d
          /\ daily'[d].dau = Cardinality(ActiveEver({d}))
          /\ d >= daily'[d].since + Week - 1 =>
               /\ daily'[d].wau_rolling_7 = Cardinality(ActiveEver(Trailing(d)))
               /\ daily'[d].sessions_per_user = SessionsEver(Trailing(d))
          /\ daily'[d].d1_return_rate = Return(ActiveEver({d}), ActiveEver({d + 1}))
          /\ daily'[d].d7_return_rate = Return(ActiveEver({d}), ActiveEver(After(d)))
      BY <1>0, <3>1, <3>2, RightWhenComputed
    <3> QED BY <1>1, <3>3 DEF DailyRight
  <2>2. CASE d \notin Since(days)..Today
    <3>1. d \in DOMAIN daily /\ daily'[d] = daily[d]
      BY <1>0, <2>2, BackfillRows
    <3>2. DailyRight(d)
      BY <3>1 DEF ReportsInv, RowsRight
    <3> QED BY <1>1, <3>1, <3>2 DEF DailyRight
  <2> QED BY <2>1, <2>2
<1>3. ASSUME NEW w \in DOMAIN weekly'  PROVE WeeklyRight(w)'
  <2>1. CASE w \in Mondays(days)
    <3>1. w \in Int /\ First(days) \in Int /\ First(days) <= w
      <4>1. First(days) \in Int /\ Today \in Nat
        BY <1>0, BackfillRows
      <4> QED BY <2>1, <4>1 DEF Mondays
    <3>2. weekly'[w] = WeeklyRow(w, First(days))
      BY <1>0, <2>1, BackfillRows
    <3>3. /\ weekly'[w].wau = Cardinality(ActiveEver(WeekOf(w)))
          /\ weekly'[w].sessions_per_user = SessionsEver(WeekOf(w))
      BY <1>0, <3>1, <3>2, RightWhenComputed
    <3> QED BY <1>1, <3>3 DEF WeeklyRight
  <2>2. CASE w \notin Mondays(days)
    <3>1. w \in DOMAIN weekly /\ weekly'[w] = weekly[w]
      BY <1>0, <2>2, BackfillRows
    <3>2. WeeklyRight(w)
      BY <3>1 DEF ReportsInv, RowsRight
    <3> QED BY <1>1, <3>1, <3>2 DEF WeeklyRight
  <2> QED BY <2>1, <2>2
<1> QED BY <1>2, <1>3 DEF RowsRight

LEMMA ReportsInvInit == ReportsInit => ReportsInv
<1> SUFFICES ASSUME ReportsInit  PROVE ReportsInv
  OBVIOUS
<1>1. DOMAIN daily = {} /\ DOMAIN weekly = {}
  BY DEF ReportsInit
<1> QED BY <1>1, ReportsTypeInit DEF ReportsInv, RowsRight

LEMMA ReportsInvStep == ReportsInv /\ [ReportsNext]_reportVars => ReportsInv'
<1> SUFFICES ASSUME ReportsInv, [ReportsNext]_reportVars  PROVE RowsRight'
  BY ReportsTypeStep DEF ReportsInv
<1>1. ASSUME NEW u \in Users, NEW n \in EventNames, See(u, n)  PROVE RowsRight'
  BY <1>1, RightAfterSee
<1>2. CASE Pass
  BY <1>2, RightUnlessSeen DEF Pass
<1>3. ASSUME NEW days \in Windows, Backfill(days)  PROVE RowsRight'
  BY <1>3, RightAfterBackfill
<1>4. CASE UNCHANGED reportVars
  BY <1>4, RightUnlessSeen DEF reportVars
<1> QED BY <1>1, <1>2, <1>3, <1>4 DEF ReportsNext
-----------------------------------------------------------------------------
\* The series of days and of weeks count the same week alike: its last day's trailing
\* days are its days.
LEMMA SeriesFollow == ReportsInv => DailyExact /\ SeriesAgree
<1> SUFFICES ASSUME ReportsInv  PROVE DailyExact /\ SeriesAgree
  OBVIOUS
<1>0. Week \in Nat \ {0} /\ ReportsTypeOK
  BY ReportsAssumption DEF ReportsInv
<1>1. DailyExact
  BY DEF ReportsInv, RowsRight, DailyRight, DailyExact, Trailing, After
<1>2. ASSUME NEW w \in DOMAIN weekly, w + Week - 1 \in DOMAIN daily,
             w + Week - 1 >= daily[w + Week - 1].since + Week - 1,
             w + Week - 1 < daily[w + Week - 1].computed, w + Week - 1 < weekly[w].computed
      PROVE  /\ daily[w + Week - 1].wau_rolling_7 = weekly[w].wau
             /\ daily[w + Week - 1].sessions_per_user = weekly[w].sessions_per_user
  <2>1. w \in Int
    BY <1>0, <1>2 DEF ReportsTypeOK
  <2>2. Trailing(w + Week - 1) = WeekOf(w)
    <3>1. Trailing(w + Week - 1) = ((w + Week - 1) - Week + 1)..(w + Week - 1)
      BY DEF Trailing
    <3>2. (w + Week - 1) - Week + 1 = w
      BY <1>0, <2>1
    <3> QED BY <3>1, <3>2 DEF WeekOf
  <2>3. DailyRight(w + Week - 1) /\ WeeklyRight(w)
    BY <1>2 DEF ReportsInv, RowsRight
  <2> QED BY <1>2, <2>2, <2>3 DEF DailyRight, WeeklyRight
<1> QED BY <1>1, <1>2 DEF SeriesAgree

\* The users of a period are finitely many, and fewer than of a longer one.
LEMMA FewerUsers ==
  ASSUME NEW T, T \subseteq Users, NEW S \in SUBSET T
  PROVE  /\ Cardinality(S) \in Nat /\ Cardinality(T) \in Nat
         /\ Cardinality(S) <= Cardinality(T) /\ (Cardinality(S) = 0 <=> S = {})
<1>1. IsFiniteSet(T)
  BY ReportsAssumption, FS_Subset
<1>2. IsFiniteSet(S) /\ Cardinality(S) <= Cardinality(T)
  BY <1>1, FS_Subset
<1> QED BY <1>1, <1>2, FS_CardinalityType, FS_EmptySet

\* Half days and days: where the hour's figures lie among the days'.
LEMMA HalfDays ==
  ASSUME ReportsTypeOK, NEW e \in seen, NEW n \in Nat
  PROVE  /\ Day(e[2]) >= Today - n + 1 => e[2] >= now - 2 * n
         /\ e[2] >= now - 2 * n => Day(e[2]) >= Today - n
         /\ e[2] < now + 1 /\ Day(e[2]) <= Today
<1>1. e[2] \in Nat /\ now \in Nat /\ e[2] <= now
  BY SeenFields DEF ReportsTypeOK
<1> QED BY <1>1 DEF Day, Today

LEMMA LiveFollows == ReportsTypeOK => LiveBrackets
<1> SUFFICES ASSUME ReportsTypeOK  PROVE LiveBrackets
  OBVIOUS
<1> DEFINE week    == Rolling(now - 2 * Week, now + 1)
           before  == Rolling(now - 4 * Week, now - 2 * Week)
           opens   == {e[1] : e \in {f \in seen : f[2] >= now - 2 * Week /\ f[3] = "alert_open"}}
           listed   == {e[1] : e \in {f \in seen : f[2] >= now - 2 * Week
                                                  /\ f[3] = "alert_impression"}}
           trailed == With("alert_impression", Trailing(Today), 0)
<1>0. Week \in Nat \ {0} /\ Today \in Nat /\ now \in Nat
  BY ReportsAssumption DEF ReportsTypeOK, Today, Day
<1>1. week \subseteq Users /\ before \subseteq Users
  BY SeenFields DEF Rolling
<1>2. ActiveEver(Trailing(Today)) \subseteq week
  BY <1>0, HalfDays DEF ActiveEver, Trailing, Rolling
<1>3. week \subseteq ActiveEver((Today - Week)..Today)
  <2> SUFFICES ASSUME NEW e \in seen, e[2] >= now - 2 * Week
               PROVE  e[1] \in ActiveEver((Today - Week)..Today)
    BY DEF Rolling
  <2>1. Day(e[2]) \in (Today - Week)..Today /\ e[1] \in Users
    BY <1>0, HalfDays, SeenFields
  <2> QED BY <2>1 DEF ActiveEver
<1>4. ActiveEver((Today - 2 * Week + 1)..Today) \subseteq week \cup before
  <2> SUFFICES ASSUME NEW e \in seen, Day(e[2]) \in (Today - 2 * Week + 1)..Today
               PROVE  e[1] \in week \cup before
    BY DEF ActiveEver
  <2>1. e[2] \in Nat /\ e[2] < now + 1 /\ e[2] >= now - 2 * (2 * Week)
    BY <1>0, HalfDays, SeenFields
  <2>2. CASE e[2] >= now - 2 * Week
    BY <2>1, <2>2 DEF Rolling
  <2>3. CASE e[2] < now - 2 * Week
    <3>1. e[2] >= now - 4 * Week
      BY <1>0, <2>1
    <3> QED BY <2>3, <3>1 DEF Rolling
  <2> QED BY <1>0, <2>1, <2>2, <2>3
<1>5. opens \subseteq week /\ listed \subseteq week
  <2>1. \A e \in seen : e[2] < now + 1
    BY HalfDays
  <2> QED BY <2>1 DEF Rolling
<1>6. trailed \subseteq listed
  BY <1>0, HalfDays DEF With, Trailing
<1> HIDE DEF week, before, opens, listed, trailed
<1>7. Cardinality(ActiveEver(Trailing(Today))) <= Cardinality(week)
  BY <1>1, <1>2, FewerUsers
<1>8. Cardinality(week) <= Cardinality(ActiveEver((Today - Week)..Today))
  BY <1>3, FewerUsers DEF ActiveEver
<1>9. Cardinality(ActiveEver((Today - 2 * Week + 1)..Today))
        <= Cardinality(week) + Cardinality(before)
  <2>1. IsFiniteSet(week) /\ IsFiniteSet(before)
    BY <1>1, ReportsAssumption, FS_Subset
  <2>2. /\ IsFiniteSet(week \cap before) /\ week \cup before \subseteq Users
        /\ Cardinality(week \cup before)
             = Cardinality(week) + Cardinality(before) - Cardinality(week \cap before)
    BY <1>1, <2>1, FS_Union, FS_Intersection
  <2>3. Cardinality(ActiveEver((Today - 2 * Week + 1)..Today)) <= Cardinality(week \cup before)
    BY <1>4, <2>2, FewerUsers
  <2> QED BY <2>1, <2>2, <2>3, <1>4, FewerUsers, FS_CardinalityType
<1>10. LiveOpenRate = Rate(Cardinality(opens), Cardinality(listed))
  BY DEF LiveOpenRate, opens, listed
<1>11. /\ Cardinality(opens) <= Cardinality(week) /\ Cardinality(listed) <= Cardinality(week)
       /\ Cardinality(trailed) <= Cardinality(listed)
       /\ Cardinality(listed) = 0 => trailed = {}
  BY <1>1, <1>5, <1>6, FewerUsers
<1>12. /\ Cardinality(listed) # 0 => LiveOpenRate = <<Cardinality(opens), Cardinality(listed)>>
       /\ LiveOpenRate = NoRate => Cardinality(listed) = 0
  BY <1>10 DEF Rate, NoRate
<1>13. Cardinality(listed) = 0 => LiveOpenRate = NoRate
  BY <1>10 DEF Rate
<1> QED BY <1>7, <1>8, <1>9, <1>11, <1>12, <1>13
        DEF LiveBrackets, LiveWau, PreviousWau, week, before, trailed

\* What is stored of a day or a week is what the events say, if the day or the week was
\* over and the run had read it, after any runs with any windows; the two series agree,
\* and the rolling figures lie between those of whole days.
THEOREM ReportsCorrect == ReportsSpec => []ReportsExact
<1>1. ReportsInv => ReportsExact
  BY SeriesFollow, LiveFollows DEF ReportsInv, ReportsExact
<1> QED BY <1>1, ReportsInvInit, ReportsInvStep, PTL DEF ReportsSpec

-----------------------------------------------------------------------------
(* Performance *)

\* The inductive invariant: the trades are well typed and finitely many.
PerformanceInv == PerformanceTypeOK /\ IsFiniteSet(trades)

LEMMA PerformanceInvInit == PerformanceInit => PerformanceInv
  BY FS_EmptySet DEF PerformanceInit, PerformanceInv, PerformanceTypeOK

LEMMA PerformanceInvStep == PerformanceInv /\ [PerformanceNext]_performanceVars => PerformanceInv'
<1> SUFFICES ASSUME PerformanceInv, [PerformanceNext]_performanceVars  PROVE PerformanceInv'
  OBVIOUS
<1> USE DEF PerformanceInv, PerformanceTypeOK
<1>1. ASSUME NEW t \in Trades, Ingest(t)  PROVE PerformanceInv'
  BY <1>1, FS_AddElement DEF Ingest
<1>2. ASSUME NEW c \in Conditions, NEW token \in Tokens, Settle(c, token)  PROVE PerformanceInv'
  BY <1>2 DEF Settle
<1>3. CASE UNCHANGED performanceVars
  BY <1>3 DEF performanceVars
<1> QED BY <1>1, <1>2, <1>3 DEF PerformanceNext

\* Wallets, sides, prices and conditions of the trades.
LEMMA TradeFields ==
  ASSUME PerformanceInv, NEW t \in trades
  PROVE  /\ t.wallet \in Traders /\ t.condition \in Conditions /\ t.side \in {"YES", "NO"}
         /\ t.price \in Int /\ t.price >= 0
<1>1. t \in Trades
  BY DEF PerformanceInv, PerformanceTypeOK
<1>2. t.price \in Prices /\ t.condition \in Conditions /\ t.side \in {"YES", "NO"} /\ t.wallet \in Traders
  BY <1>1 DEF Trades
<1>3. Unit \in Nat /\ t.price \in 0..Unit
  BY <1>2, PerformanceAssumption
<1>4. t.price \in Int /\ t.price >= 0
  BY <1>3
<1> QED BY <1>2, <1>4

PriceOf(ts) == [t \in ts |-> t.price]

\* Costs are whole, are not negative and add up.
LEMMA CostType ==
  ASSUME PerformanceInv, NEW ts, ts \subseteq trades
  PROVE  Summable(PriceOf(ts), ts) /\ Cost(ts) \in Int /\ Cost(ts) >= 0 /\ IsFiniteSet(ts)
<1>1. IsFiniteSet(ts)
  BY FS_Subset DEF PerformanceInv
<1>2. \A t \in ts : PriceOf(ts)[t] \in Int /\ PriceOf(ts)[t] >= 0
  BY TradeFields DEF PriceOf
<1>3. Summable(PriceOf(ts), ts)
  BY <1>1, <1>2 DEF Summable
<1>4. Cost(ts) = SumFunctionOnSet(PriceOf(ts), ts)
  BY DEF Cost, PriceOf
<1> QED BY <1>1, <1>2, <1>3, <1>4, SumType, SumSign

LEMMA CostOfPart ==
  ASSUME PerformanceInv, NEW ts, ts \subseteq trades, NEW us, us \subseteq ts
  PROVE  Cost(us) = SumFunctionOnSet(PriceOf(ts), us) /\ Cost(us) <= Cost(ts)
<1>1. Summable(PriceOf(ts), ts) /\ Summable(PriceOf(us), us)
  BY CostType
<1>2. \A t \in us : PriceOf(us)[t] = PriceOf(ts)[t]
  BY DEF PriceOf
<1>3. Cost(us) = SumFunctionOnSet(PriceOf(us), us) /\ Cost(ts) = SumFunctionOnSet(PriceOf(ts), ts)
  BY DEF Cost, PriceOf
<1>4. SumFunctionOnSet(PriceOf(us), us) = SumFunctionOnSet(PriceOf(ts), us)
  BY <1>1, <1>2, SumSame
<1>5. \A t \in ts : PriceOf(ts)[t] >= 0
  BY TradeFields DEF PriceOf
<1> QED BY <1>1, <1>3, <1>4, <1>5, SumOfPart

LEMMA CostAddsUp ==
  ASSUME PerformanceInv, NEW ts, NEW us, ts \cup us \subseteq trades, ts \cap us = {}
  PROVE  Cost(ts \cup us) = Cost(ts) + Cost(us)
<1> DEFINE both == ts \cup us
<1>1. Summable(PriceOf(both), both)
  BY CostType
<1>2. Cost(both) = SumFunctionOnSet(PriceOf(both), both)
  BY DEF Cost, PriceOf
<1>3. Cost(ts) = SumFunctionOnSet(PriceOf(both), ts) /\ Cost(us) = SumFunctionOnSet(PriceOf(both), us)
  BY CostOfPart
<1> QED BY <1>1, <1>2, <1>3, SumDisjoint
-----------------------------------------------------------------------------
\* The settled trades of a wallet, a market and a token, and the cash they brought.
Position(w, c, k) == {t \in Rows(w) : t.condition = c /\ t.token = k}
CashIn(ts) == SumFunctionOnSet([t \in ts |-> CashOf(t)], ts)
Pays(c, k) == IF outcomes[c] = k THEN Unit ELSE 0

LEMMA CashType ==
  ASSUME PerformanceInv, NEW ts, ts \subseteq trades
  PROVE  /\ Summable([t \in ts |-> CashOf(t)], ts) /\ CashIn(ts) \in Int
         /\ \A us \in SUBSET ts : CashIn(us) = SumFunctionOnSet([t \in ts |-> CashOf(t)], us)
<1> DEFINE f == [t \in ts |-> CashOf(t)]
<1>1. ASSUME NEW t \in trades  PROVE CashOf(t) \in Int
  <2>1. t.price \in Int /\ Unit \in Int
    BY TradeFields, PerformanceAssumption
  <2> QED BY <2>1 DEF CashOf
<1>2. Summable(f, ts)
  BY <1>1, FS_Subset DEF Summable, PerformanceInv
<1>3. ASSUME NEW us \in SUBSET ts  PROVE CashIn(us) = SumFunctionOnSet(f, us)
  <2> DEFINE g == [t \in us |-> CashOf(t)]
  <2>1. Summable(f, us) /\ \A t \in us : f[t] = g[t]
    BY <1>2, SummableSubset
  <2>2. CashIn(us) = SumFunctionOnSet(g, us)
    BY DEF CashIn
  <2> HIDE DEF f, g
  <2> QED BY <2>1, <2>2, SumSame
<1>4. CashIn(ts) \in Int
  <2>1. CashIn(ts) = SumFunctionOnSet(f, ts)
    BY <1>3
  <2> HIDE DEF f
  <2> QED BY <1>2, <2>1, SumType
<1> QED BY <1>2, <1>3, <1>4

\* The cash of trades of one token: what its shares pay and what was paid for them.
LEMMA CashOfPosition ==
  ASSUME PerformanceInv, NEW ts, ts \subseteq trades, NEW v \in Int,
         \A t \in ts : v = IF outcomes[t.condition] = t.token THEN Unit ELSE 0
  PROVE  CashIn(ts) = v * (Cardinality(Bought(ts)) - Cardinality(Sold(ts)))
                      + Cost(Sold(ts)) - Cost(Bought(ts))
<1> DEFINE f == [t \in ts |-> CashOf(t)]
           B == Bought(ts)
           S == Sold(ts)
<1>1. B \cap S = {} /\ B \cup S = ts /\ B \subseteq trades /\ S \subseteq trades
  BY TradeFields DEF Bought, Sold
<1>2. CashIn(ts) = CashIn(B) + CashIn(S)
  <2>1. Summable(f, ts) /\ B \in SUBSET ts /\ S \in SUBSET ts
    BY CashType, <1>1
  <2>2. CashIn(ts) = SumFunctionOnSet(f, ts) /\ CashIn(B) = SumFunctionOnSet(f, B)
        /\ CashIn(S) = SumFunctionOnSet(f, S)
    BY CashType, <2>1 DEF CashIn
  <2> HIDE DEF f, B, S
  <2>3. SumFunctionOnSet(f, B \cup S) = SumFunctionOnSet(f, B) + SumFunctionOnSet(f, S)
    BY <1>1, <2>1, SumDisjoint
  <2> QED BY <1>1, <2>2, <2>3
<1>3. IsFiniteSet(B) /\ IsFiniteSet(S) /\ Cardinality(B) \in Nat /\ Cardinality(S) \in Nat
  BY <1>1, CostType, FS_CardinalityType
<1>4. CashIn(B) = v * Cardinality(B) - Cost(B)
  <2> DEFINE pay == [t \in B |-> v]
             owe == [t \in B |-> (-1) * t.price]
             cash == [t \in B |-> CashOf(t)]
  <2>1. /\ Summable(pay, B) /\ Summable(owe, B) /\ Summable(PriceOf(B), B)
        /\ \A t \in B : owe[t] = (-1) * PriceOf(B)[t]
    BY <1>1, <1>3, TradeFields DEF Summable, PriceOf
  <2>2. ASSUME NEW t \in B  PROVE cash[t] = pay[t] + owe[t]
    <3>1. t \in ts /\ t.side = "YES" /\ t.price \in Int
      BY <1>1, TradeFields DEF Bought
    <3>2. CashOf(t) = v - t.price
      BY <3>1 DEF CashOf
    <3> QED BY <3>1, <3>2
  <2>3. SumFunctionOnSet(pay, B) = v * Cardinality(B)
    <3>1. \A t \in B : pay[t] = v
      OBVIOUS
    <3> HIDE DEF pay, B
    <3> QED BY <1>3, <3>1, SumConstant
  <2>4. SumFunctionOnSet(owe, B) = (-1) * Cost(B)
    <3>1. Cost(B) = SumFunctionOnSet(PriceOf(B), B)
      BY DEF Cost, PriceOf
    <3> HIDE DEF owe, B
    <3> QED BY <2>1, <3>1, SumTimes
  <2>5. SumFunctionOnSet(cash, B) = SumFunctionOnSet(pay, B) + SumFunctionOnSet(owe, B)
    <3> HIDE DEF pay, owe, cash, B
    <3> QED BY <2>1, <2>2, SumOfSums
  <2>6. Cost(B) \in Int /\ CashIn(B) = SumFunctionOnSet(cash, B)
    BY <1>1, CostType DEF CashIn
  <2>7. v * Cardinality(B) \in Int
    BY <1>3
  <2> QED BY <2>3, <2>4, <2>5, <2>6, <2>7
<1>5. CashIn(S) = Cost(S) - v * Cardinality(S)
  <2> DEFINE pay == [t \in S |-> -v]
             cash == [t \in S |-> CashOf(t)]
  <2>1. Summable(pay, S) /\ Summable(PriceOf(S), S)
    BY <1>1, <1>3, TradeFields DEF Summable, PriceOf
  <2>2. ASSUME NEW t \in S  PROVE cash[t] = pay[t] + PriceOf(S)[t]
    <3>1. t \in ts /\ t.side = "NO" /\ t.price \in Int
      BY <1>1, TradeFields DEF Sold
    <3>2. CashOf(t) = t.price - v
      BY <3>1 DEF CashOf
    <3> QED BY <3>1, <3>2 DEF PriceOf
  <2>3. SumFunctionOnSet(pay, S) = (-v) * Cardinality(S)
    <3>1. -v \in Int /\ \A t \in S : pay[t] = -v
      OBVIOUS
    <3> HIDE DEF pay, S
    <3> QED BY <1>3, <3>1, SumConstant
  <2>4. Cost(S) = SumFunctionOnSet(PriceOf(S), S)
    BY DEF Cost, PriceOf
  <2>5. SumFunctionOnSet(cash, S) = SumFunctionOnSet(pay, S) + SumFunctionOnSet(PriceOf(S), S)
    <3> HIDE DEF pay, cash, S
    <3> QED BY <2>1, <2>2, SumOfSums
  <2>6. Cost(S) \in Int /\ CashIn(S) = SumFunctionOnSet(cash, S)
    BY <1>1, CostType DEF CashIn
  <2>7. (-v) * Cardinality(S) = -(v * Cardinality(S)) /\ v * Cardinality(S) \in Int
    <3> DEFINE n == Cardinality(S)
    <3>1. n \in Int
      BY <1>3
    <3> HIDE DEF n
    <3>2. (-v) * n = -(v * n) /\ v * n \in Int
      BY <3>1
    <3> QED BY <3>2 DEF n
  <2> QED BY <2>3, <2>4, <2>5, <2>6, <2>7
<1>6. v * (Cardinality(B) - Cardinality(S)) = v * Cardinality(B) - v * Cardinality(S)
      /\ v * Cardinality(B) \in Int /\ v * Cardinality(S) \in Int
  <2> DEFINE m == Cardinality(B)
             n == Cardinality(S)
  <2>1. m \in Int /\ n \in Int
    BY <1>3
  <2> HIDE DEF m, n
  <2>2. v * (m - n) = v * m - v * n /\ v * m \in Int /\ v * n \in Int
    BY <2>1
  <2> QED BY <2>2 DEF m, n
<1>7. Cost(B) \in Int /\ Cost(S) \in Int
  BY <1>1, CostType
<1> HIDE DEF B, S
<1>8. CashIn(ts) = v * (Cardinality(B) - Cardinality(S)) + Cost(S) - Cost(B)
  BY <1>2, <1>4, <1>5, <1>6, <1>7
<1> QED BY <1>8 DEF B, S

LEMMA PositionParts ==
  ASSUME PerformanceInv, NEW w, NEW c, NEW k, k \in Tokens
  PROVE  LET ts == Position(w, c, k) IN
           /\ ts \subseteq trades
           /\ Group(w, c, k) = [buy_cost |-> Cost(Bought(ts)), sell_proceeds |-> Cost(Sold(ts)),
                                net_shares |-> Cardinality(Bought(ts)) - Cardinality(Sold(ts))]
           /\ Cost(Bought(ts)) \in Int /\ Cost(Sold(ts)) \in Int
           /\ Cost(Bought(ts)) >= 0 /\ Cost(Sold(ts)) >= 0
           /\ Group(w, c, k).net_shares \in Int
           /\ outcomes[c] \in Tokens => Group(w, c, k).net_shares = Net(w, c, k)
<1> DEFINE ts == Position(w, c, k)
<1>1. ts \subseteq trades /\ Bought(ts) \subseteq trades /\ Sold(ts) \subseteq trades
  BY DEF Position, Rows, Bought, Sold
<1>2. Group(w, c, k) = [buy_cost |-> Cost(Bought(ts)), sell_proceeds |-> Cost(Sold(ts)),
                        net_shares |-> Cardinality(Bought(ts)) - Cardinality(Sold(ts))]
  BY DEF Group, Position
<1>3. /\ Cost(Bought(ts)) \in Int /\ Cost(Sold(ts)) \in Int
      /\ Cost(Bought(ts)) >= 0 /\ Cost(Sold(ts)) >= 0
  BY <1>1, CostType
<1>4. Cardinality(Bought(ts)) \in Nat /\ Cardinality(Sold(ts)) \in Nat
  BY <1>1, CostType, FS_CardinalityType
<1>5. ASSUME outcomes[c] \in Tokens
      PROVE  Cardinality(Bought(ts)) - Cardinality(Sold(ts)) = Net(w, c, k)
  <2>1. ts = {t \in trades : t.wallet = w /\ t.condition = c /\ t.token = k}
    BY <1>5 DEF Position, Rows
  <2> QED BY <2>1 DEF Net
<1> QED BY <1>1, <1>2, <1>3, <1>4, <1>5

\* What one token's position adds to the figure, from its cash.
LEMMA PnlFromCash ==
  ASSUME PerformanceInv, NEW w, NEW c, NEW k \in Tokens, outcomes[c] \in Tokens
  PROVE  /\ Pnl(Group(w, c, k), outcomes[c] = k) \in Int
         /\ CashIn(Position(w, c, k)) \in Int
         /\ Pnl(Group(w, c, k), outcomes[c] = k) =
              CashIn(Position(w, c, k)) + (IF outcomes[c] = k THEN Unit * Oversold(w, c) ELSE 0)
<1> DEFINE ts == Position(w, c, k)
           net == Net(w, c, k)
           v == Pays(c, k)
           cost == Cost(Bought(ts))
           gained == Cost(Sold(ts))
<1>1. Unit \in Nat \ {0} /\ v \in Int
  BY PerformanceAssumption DEF Pays
<1>2. /\ ts \subseteq trades
      /\ Group(w, c, k) = [buy_cost |-> cost, sell_proceeds |-> gained, net_shares |-> net]
      /\ Cardinality(Bought(ts)) - Cardinality(Sold(ts)) = net
      /\ cost \in Int /\ gained \in Int /\ net \in Int
  BY PositionParts
<1>3. \A t \in ts : v = IF outcomes[t.condition] = t.token THEN Unit ELSE 0
  BY DEF Position, Pays
<1>4. CashIn(ts) = v * net + gained - cost
  <2> HIDE DEF ts, v
  <2>1. CashIn(ts) = v * (Cardinality(Bought(ts)) - Cardinality(Sold(ts)))
                     + Cost(Sold(ts)) - Cost(Bought(ts))
    BY <1>1, <1>2, <1>3, CashOfPosition
  <2> QED BY <1>2, <2>1
<1>5. Pnl(Group(w, c, k), outcomes[c] = k) =
        gained - cost + (IF outcomes[c] = k /\ net > 0 THEN net * Unit ELSE 0)
  BY <1>2 DEF Pnl, Payoff
<1>6. outcomes[c] = k => Oversold(w, c) = IF net < 0 THEN -net ELSE 0
  BY DEF Oversold
<1>7. (outcomes[c] = k => v = Unit) /\ (outcomes[c] # k => v = 0)
  BY DEF Pays
<1> HIDE DEF ts, net, v, cost, gained
<1>8. CASE outcomes[c] # k
  <2>1. v * net = 0
    BY <1>2, <1>7, <1>8
  <2> QED BY <1>2, <1>4, <1>5, <1>8, <2>1 DEF ts
<1>9. CASE outcomes[c] = k /\ net > 0
  <2>1. v * net = net * Unit /\ net * Unit \in Int /\ Unit * 0 = 0
    BY <1>1, <1>2, <1>7, <1>9
  <2>2. Oversold(w, c) = 0
    BY <1>2, <1>6, <1>9
  <2> QED BY <1>1, <1>2, <1>4, <1>5, <1>9, <2>1, <2>2 DEF ts
<1>10. CASE outcomes[c] = k /\ ~(net > 0)
  <2>1. Oversold(w, c) = -net
    BY <1>2, <1>6, <1>10
  <2>2. v * net = -(Unit * (-net)) /\ Unit * (-net) \in Int
    BY <1>1, <1>2, <1>7, <1>10
  <2>3. CashIn(ts) = gained - cost - Unit * (-net)
    BY <1>2, <1>4, <2>2
  <2>4. Pnl(Group(w, c, k), outcomes[c] = k) = gained - cost
    BY <1>2, <1>5, <1>10
  <2> QED BY <1>2, <1>10, <2>1, <2>2, <2>3, <2>4 DEF ts
<1> QED BY <1>8, <1>9, <1>10
-----------------------------------------------------------------------------
InMarket(w, c) == {t \in Rows(w) : t.condition = c}

\* A market's rows are those of its two tokens.
LEMMA TwoTokens ==
  ASSUME NEW w, NEW c
  PROVE  /\ InMarket(w, c) = Position(w, c, "YES") \cup Position(w, c, "NO")
         /\ Position(w, c, "YES") \cap Position(w, c, "NO") = {}
         /\ InMarket(w, c) \subseteq trades /\ InMarket(w, c) \subseteq Rows(w)
  BY DEF InMarket, Position, Rows, Tokens

\* The figure of a market is the cash of its rows and what was sold too much of the winner.
LEMMA MarketFromCash ==
  ASSUME PerformanceInv, NEW w, NEW c, outcomes[c] \in Tokens
  PROVE  /\ MarketPnl(w, c) =
              Pnl(Group(w, c, "YES"), outcomes[c] = "YES") + Pnl(Group(w, c, "NO"), outcomes[c] = "NO")
         /\ MarketPnl(w, c) = CashIn(InMarket(w, c)) + Unit * Oversold(w, c)
         /\ MarketPnl(w, c) \in Int /\ CashIn(InMarket(w, c)) \in Int
         /\ Oversold(w, c) \in Int
<1> DEFINE f == [t \in Tokens |-> Pnl(Group(w, c, t), outcomes[c] = t)]
           Y == Position(w, c, "YES")
           N == Position(w, c, "NO")
           over == Unit * Oversold(w, c)
<1>1. /\ f["YES"] \in Int /\ f["NO"] \in Int /\ CashIn(Y) \in Int /\ CashIn(N) \in Int
      /\ f["YES"] = CashIn(Y) + (IF outcomes[c] = "YES" THEN over ELSE 0)
      /\ f["NO"] = CashIn(N) + (IF outcomes[c] = "NO" THEN over ELSE 0)
  BY PnlFromCash DEF Tokens
<1>2. MarketPnl(w, c) = f["YES"] + f["NO"]
  <2>1. MarketPnl(w, c) = SumFunctionOnSet(f, {"YES", "NO"})
    BY DEF MarketPnl, Tokens
  <2> HIDE DEF f
  <2> QED BY <1>1, <2>1, SumOfPair
<1>3. CashIn(InMarket(w, c)) = CashIn(Y) + CashIn(N)
  <2> DEFINE ts == InMarket(w, c)
             g == [t \in ts |-> CashOf(t)]
  <2>1. ts \subseteq trades /\ Y \in SUBSET ts /\ N \in SUBSET ts /\ ts \in SUBSET ts
    BY TwoTokens
  <2>2. /\ Summable(g, ts) /\ CashIn(ts) = SumFunctionOnSet(g, ts)
        /\ CashIn(Y) = SumFunctionOnSet(g, Y) /\ CashIn(N) = SumFunctionOnSet(g, N)
    BY <2>1, CashType
  <2>3. ts = Y \cup N /\ Y \cap N = {}
    BY TwoTokens
  <2> HIDE DEF g, ts, Y, N
  <2>4. SumFunctionOnSet(g, Y \cup N) = SumFunctionOnSet(g, Y) + SumFunctionOnSet(g, N)
    BY <2>2, <2>3, SumDisjoint
  <2>5. CashIn(ts) = CashIn(Y) + CashIn(N)
    BY <2>2, <2>3, <2>4
  <2> QED BY <2>5 DEF ts
<1>4. Oversold(w, c) \in Int /\ over \in Int
  <2>1. outcomes[c] \in Tokens => Net(w, c, outcomes[c]) \in Int
    BY PositionParts
  <2>2. Oversold(w, c) \in Int
    BY <2>1 DEF Oversold
  <2> QED BY <2>2, PerformanceAssumption
<1>5. f["YES"] = Pnl(Group(w, c, "YES"), outcomes[c] = "YES") /\ f["NO"] = Pnl(Group(w, c, "NO"), outcomes[c] = "NO")
  BY DEF Tokens
<1>6. outcomes[c] = "YES" \/ outcomes[c] = "NO"
  BY DEF Tokens
<1> HIDE DEF f, Y, N, over
<1>7. MarketPnl(w, c) = CashIn(InMarket(w, c)) + over /\ MarketPnl(w, c) \in Int /\ CashIn(InMarket(w, c)) \in Int
  BY <1>1, <1>2, <1>3, <1>4, <1>6
<1> QED BY <1>2, <1>4, <1>5, <1>7 DEF over
-----------------------------------------------------------------------------
MarketsOf(w) == {t.condition : t \in Rows(w)}

LEMMA MarketsAreSettled ==
  ASSUME PerformanceInv, NEW w
  PROVE  /\ MarketsOf(w) \subseteq Conditions /\ IsFiniteSet(MarketsOf(w)) /\ IsFiniteSet(Rows(w))
         /\ \A c \in MarketsOf(w) : outcomes[c] \in Tokens
         /\ Cardinality(MarketsOf(w)) <= Cardinality(Rows(w))
<1>1. Rows(w) \subseteq trades
  BY DEF Rows
<1>2. IsFiniteSet(Rows(w))
  BY <1>1, CostType
<1>3. MarketsOf(w) \subseteq Conditions /\ \A c \in MarketsOf(w) : outcomes[c] \in Tokens
  BY <1>1, TradeFields DEF MarketsOf, Rows
<1>4. IsFiniteSet(MarketsOf(w)) /\ Cardinality(MarketsOf(w)) <= Cardinality(Rows(w))
  <2> DEFINE f == [t \in Rows(w) |-> t.condition]
  <2>1. f \in Surjection(Rows(w), MarketsOf(w))
    BY DEF Surjection, MarketsOf
  <2> QED BY <1>2, <2>1, FS_Surjection
<1> QED BY <1>2, <1>3, <1>4

\* Where a wallet has no settled trade it has not oversold the winner either.
LEMMA OversoldHasRows ==
  ASSUME PerformanceInv, NEW w, NEW c \in Conditions, c \notin MarketsOf(w)
  PROVE  Oversold(w, c) = 0
<1>1. SUFFICES ASSUME outcomes[c] \in Tokens  PROVE Net(w, c, outcomes[c]) = 0
  BY DEF Oversold
<1> DEFINE ts == {t \in trades : t.wallet = w /\ t.condition = c /\ t.token = outcomes[c]}
<1>2. ts = {}
  BY <1>1 DEF MarketsOf, Rows
<1>3. Bought(ts) = {} /\ Sold(ts) = {}
  BY <1>2 DEF Bought, Sold
<1>4. Net(w, c, outcomes[c]) = Cardinality(Bought(ts)) - Cardinality(Sold(ts))
  BY DEF Net
<1> QED BY <1>3, <1>4, FS_EmptySet

\* The profit of all markets, from the cash of all rows.
LEMMA ProfitFromCash ==
  ASSUME PerformanceInv, NEW w
  PROVE  LET pnl == [c \in MarketsOf(w) |-> MarketPnl(w, c)] IN
           /\ Summable(pnl, MarketsOf(w))
           /\ SumFunctionOnSet(pnl, MarketsOf(w)) =
                CashIn(Rows(w)) + Unit * SumFunctionOnSet([c \in Conditions |-> Oversold(w, c)], Conditions)
<1> DEFINE M == MarketsOf(w)
           R == Rows(w)
           pnl == [c \in M |-> MarketPnl(w, c)]
           cash == [c \in M |-> CashIn(InMarket(w, c))]
           over == [c \in Conditions |-> Oversold(w, c)]
           owed == [c \in M |-> Unit * over[c]]
           f == [t \in R |-> CashOf(t)]
           key == [t \in R |-> t.condition]
<1>1. M \subseteq Conditions /\ IsFiniteSet(M) /\ IsFiniteSet(R) /\ R \subseteq trades
  BY MarketsAreSettled DEF Rows
<1>2. ASSUME NEW c \in M
      PROVE  /\ pnl[c] \in Int /\ cash[c] \in Int /\ over[c] \in Int /\ owed[c] \in Int
             /\ pnl[c] = cash[c] + owed[c]
  <2>1. outcomes[c] \in Tokens
    BY MarketsAreSettled
  <2>2. /\ MarketPnl(w, c) = CashIn(InMarket(w, c)) + Unit * Oversold(w, c)
        /\ MarketPnl(w, c) \in Int /\ CashIn(InMarket(w, c)) \in Int /\ Oversold(w, c) \in Int
    BY <2>1, MarketFromCash
  <2>3. Unit * Oversold(w, c) \in Int
    BY <2>2, PerformanceAssumption
  <2> QED BY <1>1, <2>2, <2>3
<1>3. Summable(pnl, M) /\ Summable(cash, M) /\ Summable(over, M) /\ Summable(owed, M)
  BY <1>1, <1>2 DEF Summable
<1>4. SumFunctionOnSet(pnl, M) = SumFunctionOnSet(cash, M) + SumFunctionOnSet(owed, M)
  <2>1. \A c \in M : pnl[c] = cash[c] + owed[c]
    BY <1>2
  <2> HIDE DEF pnl, cash, owed, M
  <2> QED BY <1>3, <2>1, SumOfSums
<1>5. SumFunctionOnSet(owed, M) = Unit * SumFunctionOnSet(over, M)
  <2>1. Unit \in Int /\ \A c \in M : owed[c] = Unit * over[c]
    BY PerformanceAssumption
  <2> HIDE DEF owed, over, M
  <2> QED BY <1>3, <2>1, SumTimes
<1>6. SumFunctionOnSet(over, Conditions) = SumFunctionOnSet(over, M)
  <2> DEFINE rest == Conditions \ M
  <2>1. \A c \in rest : over[c] = 0
    BY OversoldHasRows
  <2>2. IsFiniteSet(Conditions) /\ IsFiniteSet(rest)
    BY PerformanceAssumption, FS_Subset
  <2>3. Summable(over, M \cup rest) /\ M \cap rest = {} /\ M \cup rest = Conditions
    <3>1. M \cap rest = {} /\ M \cup rest = Conditions
      BY <1>1
    <3>2. ASSUME NEW c \in Conditions  PROVE over[c] \in Int
      <4>1. CASE c \in M
        BY <1>2, <4>1
      <4>2. CASE c \notin M
        BY <2>1, <4>2
      <4> QED BY <4>1, <4>2
    <3> HIDE DEF over, M, rest
    <3> QED BY <2>2, <3>1, <3>2 DEF Summable
  <2>4. SumFunctionOnSet(over, rest) = 0 * Cardinality(rest)
    <3> HIDE DEF over, rest
    <3>1. 0 \in Int
      OBVIOUS
    <3> QED BY <2>1, <2>2, <3>1, SumConstant
  <2>5. Cardinality(rest) \in Nat
    BY <2>2, FS_CardinalityType
  <2> HIDE DEF over, M, rest
  <2>6. SumFunctionOnSet(over, M \cup rest) = SumFunctionOnSet(over, M) + SumFunctionOnSet(over, rest)
    BY <2>3, SumDisjoint
  <2>7. SumFunctionOnSet(over, M) \in Int
    BY <1>3, SumType
  <2>8. SumFunctionOnSet(over, rest) = 0
    BY <2>4, <2>5
  <2>9. SumFunctionOnSet(over, Conditions) = SumFunctionOnSet(over, M \cup rest)
    BY <2>3
  <2>10. SumFunctionOnSet(over, Conditions) = SumFunctionOnSet(over, M) + SumFunctionOnSet(over, rest)
    BY <2>6, <2>9
  <2> QED BY <2>7, <2>8, <2>10
<1>7. CashIn(R) = SumFunctionOnSet(cash, M)
  <2>1. Summable(f, R) /\ CashIn(R) = SumFunctionOnSet(f, R)
    BY <1>1, CashType DEF CashIn
  <2>2. \A t \in R : key[t] \in M
    BY DEF MarketsOf
  <2>3. ASSUME NEW c \in M
        PROVE  cash[c] = SumFunctionOnSet(f, OfKey(R, key, c))
    <3> DEFINE ts == OfKey(R, key, c)
    <3>1. ts = InMarket(w, c)
      BY DEF InMarket, OfKey
    <3>2. ts \in SUBSET R
      BY DEF OfKey
    <3>3. CashIn(ts) = SumFunctionOnSet(f, ts)
      <4> HIDE DEF ts
      <4> QED BY <1>1, <3>2, CashType
    <3>4. cash[c] = CashIn(InMarket(w, c))
      OBVIOUS
    <3> HIDE DEF ts
    <3> QED BY <3>1, <3>3, <3>4 DEF ts
  <2> HIDE DEF f, M, R, key, cash
  <2>4. SumFunctionOnSet(f, R) = SumFunctionOnSet(cash, M)
    <3>1. IsFiniteSet(M) /\ Summable(f, R)
      BY <1>1, <2>1
    <3>2. \A c \in M : cash[c] = SumFunctionOnSet(f, OfKey(R, key, c))
      BY <2>3
    <3> QED BY <2>2, <3>1, <3>2, SumByGroup
  <2> QED BY <2>1, <2>4
<1> HIDE DEF pnl, over, owed, cash
<1>8. SumFunctionOnSet(pnl, M) = CashIn(R) + Unit * SumFunctionOnSet(over, Conditions)
  BY <1>4, <1>5, <1>6, <1>7
<1> QED BY <1>3, <1>8 DEF pnl, over

LEMMA PerformanceCash == PerformanceInv => CashPlusOversold
<1> SUFFICES ASSUME PerformanceInv, NEW w \in Traders
    PROVE  WalletPerf(w).realized_pnl =
             CashIn(Rows(w)) + Unit * SumFunctionOnSet([c \in Conditions |-> Oversold(w, c)], Conditions)
  BY DEF CashPlusOversold, CashIn
<1> DEFINE pnl == [c \in MarketsOf(w) |-> MarketPnl(w, c)]
<1>1. SumFunctionOnSet(pnl, MarketsOf(w)) =
        CashIn(Rows(w)) + Unit * SumFunctionOnSet([c \in Conditions |-> Oversold(w, c)], Conditions)
  BY ProfitFromCash
<1>2. WalletPerf(w).realized_pnl = SumFunctionOnSet(pnl, MarketsOf(w))
  <2>1. CASE Rows(w) = {}
    <3>1. MarketsOf(w) = {}
      BY <2>1 DEF MarketsOf
    <3>2. SumFunctionOnSet(pnl, MarketsOf(w)) = 0
      BY <3>1, SumEmpty
    <3> QED BY <2>1, <3>2 DEF WalletPerf, EmptyPerf
  <2>2. CASE Rows(w) # {}
    BY <2>2 DEF WalletPerf, Perf, MarketsOf
  <2> QED BY <2>1, <2>2
<1> QED BY <1>1, <1>2

LEMMA PerformanceHedged == PerformanceInv => HedgedIsNeutral
<1> SUFFICES ASSUME PerformanceInv, NEW w \in Traders, NEW c \in Conditions, outcomes[c] \in Tokens,
                    Net(w, c, "YES") = Net(w, c, "NO"), Net(w, c, "YES") >= 0
             PROVE  MarketPnl(w, c) = Unit * Net(w, c, "YES")
                      + Cost(Sold(InMarket(w, c))) - Cost(Bought(InMarket(w, c)))
  BY DEF HedgedIsNeutral, InMarket
<1> DEFINE Y == Position(w, c, "YES")
           N == Position(w, c, "NO")
           ts == InMarket(w, c)
           n == Net(w, c, "YES")
<1>1. Unit \in Nat
  BY PerformanceAssumption
<1>2. /\ Group(w, c, "YES") = [buy_cost |-> Cost(Bought(Y)), sell_proceeds |-> Cost(Sold(Y)), net_shares |-> n]
      /\ Cost(Bought(Y)) \in Int /\ Cost(Sold(Y)) \in Int /\ n \in Int
  <2>1. "YES" \in Tokens
    BY DEF Tokens
  <2> QED BY <2>1, PositionParts
<1>3. /\ Group(w, c, "NO") = [buy_cost |-> Cost(Bought(N)), sell_proceeds |-> Cost(Sold(N)), net_shares |-> n]
      /\ Cost(Bought(N)) \in Int /\ Cost(Sold(N)) \in Int
  <2>1. "NO" \in Tokens
    BY DEF Tokens
  <2> QED BY <2>1, PositionParts
<1>4. MarketPnl(w, c) =
        Pnl(Group(w, c, "YES"), outcomes[c] = "YES") + Pnl(Group(w, c, "NO"), outcomes[c] = "NO")
  BY MarketFromCash
<1>5. Cost(Bought(ts)) = Cost(Bought(Y)) + Cost(Bought(N))
  <2>1. Bought(ts) = Bought(Y) \cup Bought(N) /\ Bought(Y) \cap Bought(N) = {}
        /\ Bought(Y) \cup Bought(N) \subseteq trades
    BY TwoTokens DEF Bought
  <2> QED BY <2>1, CostAddsUp
<1>6. Cost(Sold(ts)) = Cost(Sold(Y)) + Cost(Sold(N))
  <2>1. Sold(ts) = Sold(Y) \cup Sold(N) /\ Sold(Y) \cap Sold(N) = {}
        /\ Sold(Y) \cup Sold(N) \subseteq trades
    BY TwoTokens DEF Sold
  <2> QED BY <2>1, CostAddsUp
<1>7. Pnl(Group(w, c, "YES"), outcomes[c] = "YES") =
        Cost(Sold(Y)) - Cost(Bought(Y)) + (IF outcomes[c] = "YES" /\ n > 0 THEN n * Unit ELSE 0)
  BY <1>2 DEF Pnl, Payoff
<1>8. Pnl(Group(w, c, "NO"), outcomes[c] = "NO") =
        Cost(Sold(N)) - Cost(Bought(N)) + (IF outcomes[c] = "NO" /\ n > 0 THEN n * Unit ELSE 0)
  BY <1>3 DEF Pnl, Payoff
<1>9. outcomes[c] = "YES" \/ outcomes[c] = "NO"
  BY DEF Tokens
<1>10. n >= 0
  OBVIOUS
<1> HIDE DEF Y, N, ts, n
<1>11. n * Unit = Unit * n /\ n * Unit \in Int /\ (n = 0 => Unit * n = 0)
  BY <1>1, <1>2
<1>12. MarketPnl(w, c) = Unit * n + Cost(Sold(ts)) - Cost(Bought(ts))
  BY <1>2, <1>3, <1>4, <1>5, <1>6, <1>7, <1>8, <1>9, <1>10, <1>11
<1> QED BY <1>12 DEF n, ts

\* Without a purchase there is no loss: every position brings something or nothing.
LEMMA NoLossUnpaid ==
  ASSUME PerformanceInv, NEW w, NEW c \in MarketsOf(w), Cost(Bought(Rows(w))) <= 0
  PROVE  MarketPnl(w, c) >= 0
<1>1. outcomes[c] \in Tokens
  BY MarketsAreSettled
<1>2. ASSUME NEW k \in Tokens
      PROVE  Pnl(Group(w, c, k), outcomes[c] = k) \in Int /\ Pnl(Group(w, c, k), outcomes[c] = k) >= 0
  <2> DEFINE ts == Position(w, c, k)
             g == Group(w, c, k)
  <2>1. Bought(ts) \subseteq Bought(Rows(w)) /\ Bought(Rows(w)) \subseteq trades
    BY DEF Bought, Position, Rows
  <2>2. Cost(Bought(ts)) <= Cost(Bought(Rows(w))) /\ Cost(Bought(Rows(w))) \in Int
    BY <2>1, CostOfPart, CostType
  <2>3. /\ Cost(Bought(ts)) \in Int /\ Cost(Sold(ts)) \in Int
        /\ Cost(Bought(ts)) >= 0 /\ Cost(Sold(ts)) >= 0 /\ g.net_shares \in Int
        /\ g.buy_cost = Cost(Bought(ts)) /\ g.sell_proceeds = Cost(Sold(ts))
    BY PositionParts
  <2>4. Payoff(g, outcomes[c] = k) \in Int /\ Payoff(g, outcomes[c] = k) >= 0
    <3> DEFINE n == g.net_shares
    <3>1. Unit \in Nat /\ n \in Int /\ Payoff(g, outcomes[c] = k) = IF outcomes[c] = k /\ n > 0 THEN n * Unit ELSE 0
      BY <2>3, PerformanceAssumption DEF Payoff
    <3> HIDE DEF n
    <3>2. n > 0 => n * Unit \in Int /\ n * Unit >= 0
      BY <3>1
    <3> QED BY <3>1, <3>2
  <2>5. Pnl(g, outcomes[c] = k) = Cost(Sold(ts)) - Cost(Bought(ts)) + Payoff(g, outcomes[c] = k)
    BY <2>3 DEF Pnl
  <2> QED BY <2>2, <2>3, <2>4, <2>5
<1>3. MarketPnl(w, c) =
        Pnl(Group(w, c, "YES"), outcomes[c] = "YES") + Pnl(Group(w, c, "NO"), outcomes[c] = "NO")
  BY <1>1, MarketFromCash
<1> QED BY <1>2, <1>3 DEF Tokens

LEMMA PerformanceVerdicts == PerformanceInv => VerdictsExplainPnl
<1> SUFFICES ASSUME PerformanceInv, NEW w \in Traders
    PROVE  LET p == WalletPerf(w) IN
             /\ p.markets_won + p.markets_lost <= p.resolved_markets
             /\ p.resolved_markets <= p.resolved_trades
             /\ p.realized_pnl > 0 => p.markets_won > 0
             /\ p.realized_pnl < 0 => p.markets_lost > 0 /\ p.has_data
  BY DEF VerdictsExplainPnl
<1>1. CASE Rows(w) = {}
  BY <1>1 DEF WalletPerf, EmptyPerf
<1>2. CASE Rows(w) # {}
  <2> DEFINE M == MarketsOf(w)
             pnl == [c \in M |-> MarketPnl(w, c)]
             won == {c \in M : pnl[c] > 0}
             lost == {c \in M : pnl[c] < 0}
             total == SumFunctionOnSet(pnl, M)
             invested == Cost(Bought(Rows(w)))
  <2>1. WalletPerf(w) = [has_data |-> M # {} /\ invested > 0, realized_pnl |-> total,
                         total_invested |-> invested, markets_won |-> Cardinality(won),
                         markets_lost |-> Cardinality(lost), resolved_markets |-> Cardinality(M),
                         resolved_trades |-> Cardinality(Rows(w))]
    BY <1>2 DEF WalletPerf, Perf, MarketsOf
  <2>2. Cardinality(M) <= Cardinality(Rows(w)) /\ IsFiniteSet(M)
    BY MarketsAreSettled
  <2>3. Summable(pnl, M) /\ \A c \in M : pnl[c] \in Int
    BY ProfitFromCash DEF Summable
  <2>4. IsFiniteSet(won) /\ IsFiniteSet(lost) /\ Cardinality(won) \in Nat /\ Cardinality(lost) \in Nat
        /\ Cardinality(M) \in Nat /\ IsFiniteSet(won \cup lost) /\ won \cup lost \subseteq M
    BY <2>2, FS_Subset, FS_CardinalityType
  <2>5. Cardinality(won) + Cardinality(lost) <= Cardinality(M)
    <3>1. won \cap lost = {}
      BY <2>3
    <3>2. Cardinality(won \cup lost) = Cardinality(won) + Cardinality(lost) - Cardinality(won \cap lost)
      BY <2>4, FS_Union
    <3>3. Cardinality(won \cup lost) <= Cardinality(M)
      BY <2>2, <2>4, FS_Subset
    <3>4. Cardinality(won \cap lost) = 0
      BY <3>1, FS_EmptySet
    <3> HIDE DEF won, lost, M
    <3> QED BY <2>4, <3>2, <3>3, <3>4
  <2>6. total > 0 => Cardinality(won) > 0
    <3>1. total \in Int /\ ((\A c \in M : pnl[c] <= 0) => total <= 0)
      <4> HIDE DEF pnl, M
      <4> QED BY <2>3, SumType, SumSign
    <3>2. total > 0 => won # {}
      BY <2>3, <3>1
    <3> HIDE DEF won, total
    <3> QED BY <2>4, <3>2, FS_EmptySet
  <2>7. total < 0 => Cardinality(lost) > 0 /\ M # {} /\ invested > 0
    <3>1. total \in Int /\ ((\A c \in M : pnl[c] >= 0) => total >= 0)
      <4> HIDE DEF pnl, M
      <4> QED BY <2>3, SumType, SumSign
    <3>2. total < 0 => lost # {} /\ M # {}
      BY <2>3, <3>1
    <3>3. lost # {} => invested > 0
      <4>1. invested \in Int
        <5>1. Bought(Rows(w)) \subseteq trades
          BY DEF Bought, Rows
        <5> QED BY <5>1, CostType
      <4>2. \A c \in M : invested <= 0 => pnl[c] >= 0
        BY NoLossUnpaid
      <4> HIDE DEF invested, M, pnl
      <4> QED BY <2>3, <4>1, <4>2
    <3>4. lost # {} => Cardinality(lost) > 0
      <4> HIDE DEF lost
      <4> QED BY <2>4, FS_EmptySet
    <3> QED BY <3>2, <3>3, <3>4
  <2> DEFINE p == WalletPerf(w)
  <2>8. /\ p.markets_won = Cardinality(won) /\ p.markets_lost = Cardinality(lost)
        /\ p.resolved_markets = Cardinality(M) /\ p.resolved_trades = Cardinality(Rows(w))
        /\ p.realized_pnl = total /\ p.has_data = (M # {} /\ invested > 0)
    <3> HIDE DEF M, won, lost, total, invested, pnl
    <3> QED BY <2>1
  <2>9. p.realized_pnl < 0 => p.has_data
    <3> HIDE DEF M, total, invested, p
    <3> QED BY <2>7, <2>8
  <2> HIDE DEF M, won, lost, total, invested, pnl, p
  <2>10. /\ p.markets_won + p.markets_lost <= p.resolved_markets
         /\ p.resolved_markets <= p.resolved_trades
         /\ p.realized_pnl > 0 => p.markets_won > 0
         /\ p.realized_pnl < 0 => p.markets_lost > 0 
    BY <2>2, <2>5, <2>6, <2>7, <2>8
  <2> QED BY <2>9, <2>10 DEF p
<1> QED BY <1>1, <1>2

\* The stored trades and outcomes have their types, whatever is ingested and settled.
THEOREM PerformanceTypeCorrect == PerformanceSpec => []PerformanceTypeOK
<1>1. PerformanceInv => PerformanceTypeOK
  BY DEF PerformanceInv
<1> QED BY <1>1, PerformanceInvInit, PerformanceInvStep, PTL DEF PerformanceSpec

\* The realized profit is the cash of the known trades plus what the winning shares that
\* were sold and not known to be bought would have taken back, and nothing else; a hedged
\* market earns what its prices left; and gains and losses come from won and lost markets
\* (compute_wallet_performance in app/analytics.py), for every set of trades and outcomes.
THEOREM PnlCorrect == PerformanceSpec => []PnlAddsUp
<1>1. PerformanceInv => PnlAddsUp
  BY PerformanceCash, PerformanceHedged, PerformanceVerdicts DEF PnlAddsUp
<1> QED BY <1>1, PerformanceInvInit, PerformanceInvStep, PTL DEF PerformanceSpec

-----------------------------------------------------------------------------
(* Explanations *)

\* The inductive invariant: the trades are well typed and finitely many.
ToldInv == ToldTypeOK /\ IsFiniteSet(told)

\* Trades of any kind, a finite set of them, and the same trades on the other side.
Told == [who : Authors, condition : Questions,
         kind : [side : {"YES", "NO"}, price : 1..99, value : Nat \ {0}], at : 0..LastHour]
Some(T) == T \in SUBSET Told /\ IsFiniteSet(T)
Mirror(T) == {Other(t) : t \in T}

LEMMA ToldInvInit == ToldInit => ToldInv
  BY FS_EmptySet, ExplanationsAssumption DEF ToldInit, ToldInv, ToldTypeOK

LEMMA ToldInvStep == ToldInv /\ [ToldNext]_told => ToldInv'
<1> SUFFICES ASSUME ToldInv, [ToldNext]_told  PROVE ToldInv'
  OBVIOUS
<1>1. ASSUME NEW w \in Authors, NEW c \in Questions, NEW k \in Kinds, NEW t \in 0..LastHour,
             Tell(w, c, k, t)
      PROVE  ToldInv'
  <2> DEFINE e == [who |-> w, condition |-> c, kind |-> k, at |-> t]
  <2>1. told' = told \cup {e} /\ Cardinality(told) < MaxStored /\ IsFiniteSet(told)
    BY <1>1 DEF Tell, ToldInv
  <2>2. e \in [who : Authors, condition : Questions, kind : Kinds, at : 0..LastHour]
    OBVIOUS
  <2> HIDE DEF e
  <2>3. IsFiniteSet(told') /\ Cardinality(told) \in Nat
        /\ Cardinality(told') \in {Cardinality(told), Cardinality(told) + 1}
    BY <2>1, FS_AddElement, FS_CardinalityType
  <2> QED BY <2>1, <2>2, <2>3, ExplanationsAssumption DEF ToldInv, ToldTypeOK
<1>2. CASE UNCHANGED told
  BY <1>2 DEF ToldInv, ToldTypeOK
<1> QED BY <1>1, <1>2 DEF ToldNext

LEMMA ToldSome == ToldInv => Some(told)
<1> SUFFICES ASSUME ToldInv  PROVE \A t \in told : t \in Told
  BY DEF ToldInv, Some
<1>1. \A t \in told : t \in [who : Authors, condition : Questions, kind : Kinds, at : 0..LastHour]
  BY DEF ToldInv, ToldTypeOK
<1>2. Kinds \subseteq [side : {"YES", "NO"}, price : 1..99, value : Nat \ {0}]
  BY ExplanationsAssumption
<1> QED BY <1>1, <1>2 DEF Told

-----------------------------------------------------------------------------
\* Rounding.
LEMMA RoundType == ASSUME NEW a \in Int, NEW n \in Nat \ {0}  PROVE Round(a, n) \in Int
  BY DivMod DEF Round

\* Two shares that make up the whole are rounded to two that make up 100 per cent,
\* because a half goes to the even neighbour on both sides.
LEMMA RoundOpposite ==
  ASSUME NEW n \in Nat \ {0}, NEW a \in Int, NEW b \in Int, a + b = 100 * n
  PROVE  Round(b, n) = 100 - Round(a, n)
<1> DEFINE q == a \div n
           r == a % n
<1>1. q \in Int /\ r \in 0..(n - 1) /\ a = n * q + r
  BY DivMod
<1>2. r = 0 => b \div n = 100 - q /\ b % n = 0
  <2>1. SUFFICES ASSUME r = 0  PROVE b \div n = 100 - q /\ b % n = 0
    OBVIOUS
  <2>2. 100 - q \in Int /\ n * (100 - q) = 100 * n - n * q
    BY <1>1
  <2>3. b = n * (100 - q) + 0 /\ 0 \in 0..(n - 1)
    BY <1>1, <2>1, <2>2
  <2> HIDE DEF q, r
  <2> QED BY <2>2, <2>3, DivModUnique
<1>3. r # 0 => b \div n = 99 - q /\ b % n = n - r
  <2>1. SUFFICES ASSUME r # 0  PROVE b \div n = 99 - q /\ b % n = n - r
    OBVIOUS
  <2>2. 99 - q \in Int /\ n * (99 - q) = 99 * n - n * q /\ n - r \in 0..(n - 1)
    BY <1>1, <2>1
  <2>3. b = n * (99 - q) + (n - r)
    BY <1>1, <2>1, <2>2
  <2> HIDE DEF q, r
  <2> QED BY <2>2, <2>3, DivModUnique
<1>4. Round(a, n) = IF 2 * r > n \/ (2 * r = n /\ q % 2 = 1) THEN q + 1 ELSE q
  BY DEF Round
<1>5. Round(b, n) = IF 2 * (b % n) > n \/ (2 * (b % n) = n /\ (b \div n) % 2 = 1)
                    THEN (b \div n) + 1 ELSE b \div n
  BY DEF Round
<1>6. (99 - q) % 2 = 1 <=> q % 2 # 1
  BY <1>1
<1> HIDE DEF q, r
<1>7. CASE r = 0
  BY <1>1, <1>2, <1>4, <1>5, <1>7
<1>8. CASE r # 0 /\ 2 * r = n
  BY <1>1, <1>3, <1>4, <1>5, <1>6, <1>8
<1>9. CASE r # 0 /\ 2 * r # n
  BY <1>1, <1>3, <1>4, <1>5, <1>9
<1> QED BY <1>7, <1>8, <1>9



\* A trade on the other side.
LEMMA OtherOf ==
  ASSUME NEW t \in Told
  PROVE  /\ Other(t) \in Told /\ Other(Other(t)) = t
         /\ Other(t).who = t.who /\ Other(t).condition = t.condition /\ Other(t).at = t.at
         /\ Other(t).kind.price = t.kind.price /\ Other(t).kind.value = t.kind.value
         /\ Other(t).kind.side = "YES" <=> t.kind.side = "NO"
         /\ Other(t).kind.side = "NO" <=> t.kind.side = "YES"
<1>1. /\ t = [who |-> t.who, condition |-> t.condition, kind |-> t.kind, at |-> t.at]
      /\ t.kind \in [side : {"YES", "NO"}, price : 1..99, value : Nat \ {0}]
      /\ t.who \in Authors /\ t.condition \in Questions /\ t.at \in 0..LastHour
  BY DEF Told
<1>2. t.kind.side \in {"YES", "NO"} /\ t.kind.price \in 1..99 /\ t.kind.value \in Nat \ {0}
      /\ t.kind = [side |-> t.kind.side, price |-> t.kind.price, value |-> t.kind.value]
  BY <1>1
<1> DEFINE flip(s) == IF s = "YES" THEN "NO" ELSE "YES"
<1>3. \A u : u = [who |-> u.who, condition |-> u.condition, kind |-> u.kind, at |-> u.at]
             /\ u.kind = [side |-> u.kind.side, price |-> u.kind.price, value |-> u.kind.value]
      => Other(u) = [who |-> u.who, condition |-> u.condition, at |-> u.at,
                     kind |-> [side |-> flip(u.kind.side), price |-> u.kind.price, value |-> u.kind.value]]
  BY DEF Other
<1> DEFINE o == [who |-> t.who, condition |-> t.condition, at |-> t.at,
                 kind |-> [side |-> flip(t.kind.side), price |-> t.kind.price, value |-> t.kind.value]]
<1>4. Other(t) = o
  BY <1>1, <1>2, <1>3
<1>5. o \in Told
  BY <1>1, <1>2 DEF Told
<1>6. /\ o = [who |-> o.who, condition |-> o.condition, kind |-> o.kind, at |-> o.at]
      /\ o.kind = [side |-> o.kind.side, price |-> o.kind.price, value |-> o.kind.value]
      /\ o.who = t.who /\ o.condition = t.condition /\ o.at = t.at /\ o.kind.side = flip(t.kind.side)
      /\ o.kind.price = t.kind.price /\ o.kind.value = t.kind.value
  OBVIOUS
<1>7. flip(flip(t.kind.side)) = t.kind.side
  BY <1>2
<1>8. Other(o) = t
  <2>1. Other(o) = [who |-> t.who, condition |-> t.condition, at |-> t.at,
                    kind |-> [side |-> t.kind.side, price |-> t.kind.price, value |-> t.kind.value]]
    <3> HIDE DEF o, flip
    <3> QED BY <1>3, <1>6, <1>7
  <2> QED BY <2>1, <1>1, <1>2
<1> HIDE DEF o
<1> QED BY <1>2, <1>4, <1>5, <1>6, <1>8

\* Turning every trade round is one to one.
LEMMA MirrorMap ==
  ASSUME NEW T, Some(T)
  PROVE  [t \in T |-> Other(t)] \in Bijection(T, Mirror(T))
<1>1. \A t \in T : t \in Told
  BY DEF Some
<1>2. \A t, u \in T : Other(t) = Other(u) => t = u
  BY <1>1, OtherOf
<1> DEFINE b == [t \in T |-> Other(t)]
<1>3. b \in [T -> Mirror(T)] /\ \A m \in Mirror(T) : \E t \in T : b[t] = m
  BY DEF Mirror
<1>4. \A t, u \in T : b[t] = b[u] => t = u
  BY <1>2
<1> HIDE DEF b
<1>5. b \in Bijection(T, Mirror(T))
  BY <1>3, <1>4 DEF Bijection, Injection, IsInjective, Surjection
<1> QED BY <1>5 DEF b

\* Turning trades round keeps their number, their values and their prices.
LEMMA MirrorSame ==
  ASSUME NEW T, Some(T)
  PROVE  /\ Some(Mirror(T)) /\ Cardinality(Mirror(T)) = Cardinality(T)
         /\ ValueSum(Mirror(T)) = ValueSum(T) /\ PriceSum(Mirror(T)) = PriceSum(T)
<1> DEFINE M == Mirror(T)
           b == [t \in T |-> Other(t)]
           v == [e \in T |-> e.kind.value]
           w == [e \in M |-> e.kind.value]
           p == [e \in T |-> e.kind.price]
           q == [e \in M |-> e.kind.price]
<1>1. \A t \in T : /\ t \in Told /\ Other(t) \in Told /\ Other(t) \in M
                   /\ Other(t).kind.price = t.kind.price /\ Other(t).kind.value = t.kind.value
                   /\ t.kind.value \in Int /\ t.kind.price \in Int
  <2>1. \A t \in T : t \in Told
    BY DEF Some
  <2>2. \A t \in Told : t.kind.value \in Int /\ t.kind.price \in Int
    BY DEF Told
  <2> QED BY <2>1, <2>2, OtherOf DEF Mirror
<1>2. M \in SUBSET Told
  BY <1>1 DEF Mirror
<1>3. IsFiniteSet(T) /\ b \in Bijection(T, M)
  BY MirrorMap DEF Some
<1>4. IsFiniteSet(M) /\ Cardinality(M) = Cardinality(T)
  <2> HIDE DEF b, M
  <2> QED BY <1>3, FS_Bijection DEF ExistsBijection
<1>5. Summable(v, T) /\ Summable(p, T)
  BY <1>1, <1>3 DEF Summable
<1>6. \A t \in T : w[b[t]] = v[t] /\ q[b[t]] = p[t]
  BY <1>1
<1>7. SumFunctionOnSet(w, M) = SumFunctionOnSet(v, T) /\ SumFunctionOnSet(q, M) = SumFunctionOnSet(p, T)
  <2> HIDE DEF b, M, v, w, p, q
  <2> QED BY <1>3, <1>4, <1>5, <1>6, SumRenamed
<1> QED BY <1>2, <1>4, <1>7 DEF Some, ValueSum, PriceSum

\* The parts of a turned set are the turned parts.
LEMMA MirrorParts ==
  ASSUME NEW T, Some(T), NEW t \in Told
  PROVE  /\ OnMarket(Mirror(T), Other(t)) = Mirror(OnMarket(T, t))
         /\ OfWallet(Mirror(T), Other(t)) = Mirror(OfWallet(T, t))
         /\ OnSide(Mirror(T), Other(t).kind.side) = Mirror(OnSide(T, t.kind.side))
         /\ OnSide(Mirror(T), "YES") = Mirror(OnSide(T, "NO"))
<1>1. \A e \in T : e \in Told
  BY DEF Some
<1>2. t.kind.side \in {"YES", "NO"} /\ \A e \in Told : e.kind.side \in {"YES", "NO"}
  BY DEF Told
<1>3. \A e \in T : Other(e).kind.side = Other(t).kind.side <=> e.kind.side = t.kind.side
  BY <1>1, <1>2, OtherOf
<1>4. /\ Other(t).condition = t.condition /\ Other(t).who = t.who
      /\ \A e \in T : Other(e).condition = e.condition /\ Other(e).who = e.who
                      /\ (Other(e).kind.side = "YES" <=> e.kind.side = "NO")
  BY <1>1, OtherOf
<1> QED BY <1>3, <1>4 DEF Mirror, OnMarket, OfWallet, OnSide

LEMMA MirrorShared ==
  ASSUME NEW A, NEW B, Some(A), Some(B)
  PROVE  Mirror(A) \cap Mirror(B) = Mirror(A \cap B)
<1>1. \A t \in A \cup B : t \in Told
  BY DEF Some
<1>2. \A t, u \in A \cup B : Other(t) = Other(u) => t = u
  BY <1>1, OtherOf
<1> QED BY <1>2 DEF Mirror

LEMMA SomePart == ASSUME NEW T, Some(T), NEW S, S \subseteq T  PROVE Some(S)
  BY FS_Subset DEF Some

\* The share of YES is mirrored.
LEMMA ShareMirrored ==
  ASSUME NEW T, Some(T), T # {}
  PROVE  /\ YesPct(T) \in Int /\ YesPct(Mirror(T)) = 100 - YesPct(T)
<1> DEFINE n == Cardinality(T)
           y == Cardinality(OnSide(T, "YES"))
           z == Cardinality(OnSide(T, "NO"))
<1>1. /\ IsFiniteSet(T) /\ OnSide(T, "YES") \subseteq T /\ OnSide(T, "NO") \subseteq T
      /\ IsFiniteSet(OnSide(T, "YES")) /\ IsFiniteSet(OnSide(T, "NO"))
      /\ Some(OnSide(T, "NO"))
  BY FS_Subset, SomePart DEF OnSide, Some
<1>2. /\ OnSide(T, "YES") \cup OnSide(T, "NO") = T
      /\ OnSide(T, "YES") \cap OnSide(T, "NO") = {}
  BY DEF OnSide, Some, Told
<1>3. n \in Nat \ {0} /\ y \in Nat /\ z \in Nat
  BY <1>1, FS_CardinalityType, FS_EmptySet
<1>4. n = y + z
  <2>1. Cardinality(OnSide(T, "YES") \cup OnSide(T, "NO")) = y + z - Cardinality({})
    BY <1>1, <1>2, FS_Union
  <2>2. n = Cardinality(OnSide(T, "YES") \cup OnSide(T, "NO")) /\ Cardinality({}) = 0
    BY <1>2, FS_EmptySet
  <2> HIDE DEF n, y, z
  <2> QED BY <1>3, <2>1, <2>2
<1>5. /\ Cardinality(Mirror(T)) = n
      /\ Cardinality(OnSide(Mirror(T), "YES")) = z
  <2>1. OnSide(Mirror(T), "YES") = Mirror(OnSide(T, "NO"))
    <3>1. \A e \in T : Other(e).kind.side = "YES" <=> e.kind.side = "NO"
      BY OtherOf DEF Some
    <3> QED BY <3>1 DEF Mirror, OnSide
  <2> QED BY <1>1, <2>1, MirrorSame
<1> HIDE DEF n, y, z
<1>6. YesPct(T) = Round(100 * y, n) /\ YesPct(Mirror(T)) = Round(100 * z, n)
  BY <1>5 DEF YesPct, n, y
<1>7. 100 * y \in Int /\ 100 * z \in Int /\ 100 * y + 100 * z = 100 * n
  BY <1>3, <1>4
<1>8. Round(100 * z, n) = 100 - Round(100 * y, n) /\ Round(100 * y, n) \in Int
  BY <1>3, <1>7, RoundOpposite, RoundType
<1> QED BY <1>6, <1>8

LEMMA PeersMirrored ==
  ASSUME NEW T, Some(T), NEW t \in Told
  PROVE  AgainstPeers(Mirror(T), Other(t)) = AgainstPeers(T, t)
<1> DEFINE market == OnMarket(T, t)
           peers == OnSide(market, t.kind.side)
<1>1. Some(market) /\ Some(peers)
  BY SomePart DEF OnMarket, OnSide
<1>2. OnSide(OnMarket(Mirror(T), Other(t)), Other(t).kind.side) = Mirror(peers)
  <2>1. OnMarket(Mirror(T), Other(t)) = Mirror(market)
    BY MirrorParts
  <2>2. OnSide(Mirror(market), Other(t).kind.side) = Mirror(peers)
    <3> HIDE DEF market
    <3> QED BY <1>1, MirrorParts
  <2> QED BY <2>1, <2>2
<1>3. Cardinality(Mirror(peers)) = Cardinality(peers) /\ PriceSum(Mirror(peers)) = PriceSum(peers)
  BY <1>1, MirrorSame
<1>4. Other(t).kind.price = t.kind.price
  BY OtherOf
<1> HIDE DEF market
<1> QED BY <1>2, <1>3, <1>4 DEF AgainstPeers, market

LEMMA CrowdMirrored ==
  ASSUME NEW s \in {"YES", "NO"}, NEW o \in {"YES", "NO"}, o # s, NEW pct \in Int
  PROVE  /\ AgainstCrowd(o, 100 - pct) = AgainstCrowd(s, pct)
         /\ WithCrowd(o, 100 - pct) = WithCrowd(s, pct)
<1>1. (100 - pct < 40 <=> pct > 60) /\ (100 - pct > 60 <=> pct < 40)
      /\ (100 - pct >= 60 <=> pct <= 40) /\ (100 - pct <= 40 <=> pct >= 60)
  OBVIOUS
<1> QED BY <1>1 DEF AgainstCrowd, WithCrowd

LEMMA ContextMirrored ==
  ASSUME NEW T, Some(T), NEW t \in T
  PROVE  LET here  == Context(T, t)
             there == Context(Mirror(T), Other(t)) IN
           /\ here.market_yes_pct \in Int /\ there.market_yes_pct = 100 - here.market_yes_pct
           /\ here.market_sentiment = Mood(here.market_yes_pct)
           /\ there.market_sentiment = Mood(100 - here.market_yes_pct)
           /\ \E pct \in Int : /\ here.wallet_bias = Leaning(pct)
                             /\ there.wallet_bias = Leaning(100 - pct)
           /\ there.market_total = here.market_total /\ there.size = here.size
           /\ there.first = here.first /\ there.price_vs_consensus = here.price_vs_consensus
<1> DEFINE M == Mirror(T)
           o == Other(t)
           market == OnMarket(T, t)
           wallet == OfWallet(T, t)
           both == market \cap wallet
           here == Context(T, t)
           there == Context(M, o)
<1>1. t \in Told /\ Some(market) /\ Some(wallet) /\ Some(both) /\ t \in both
  BY SomePart DEF OnMarket, OfWallet, Some
<1>2. OnMarket(M, o) = Mirror(market) /\ OfWallet(M, o) = Mirror(wallet)
  BY <1>1, MirrorParts
<1>3. OnMarket(M, o) \cap OfWallet(M, o) = Mirror(both)
  <2> HIDE DEF market, wallet
  <2> QED BY <1>1, <1>2, MirrorShared
<1>4. /\ YesPct(market) \in Int /\ YesPct(Mirror(market)) = 100 - YesPct(market)
      /\ YesPct(wallet) \in Int /\ YesPct(Mirror(wallet)) = 100 - YesPct(wallet)
  <2> HIDE DEF market, wallet
  <2> QED BY <1>1, ShareMirrored
<1>5. /\ Cardinality(Mirror(market)) = Cardinality(market)
      /\ Cardinality(Mirror(wallet)) = Cardinality(wallet)
      /\ Cardinality(Mirror(both)) = Cardinality(both)
      /\ ValueSum(Mirror(wallet)) = ValueSum(wallet)
  <2> HIDE DEF market, wallet, both
  <2> QED BY <1>1, MirrorSame
<1>6. o.kind.value = t.kind.value /\ o.at = t.at
  BY <1>1, OtherOf
<1>7. there.market_yes_pct = 100 - here.market_yes_pct /\ here.market_yes_pct \in Int
  BY <1>2, <1>4 DEF Context
<1>8. /\ here.market_sentiment = Mood(here.market_yes_pct)
      /\ there.market_sentiment = Mood(there.market_yes_pct)
  BY DEF Context
<1>9. here.wallet_bias = Leaning(YesPct(wallet)) /\ there.wallet_bias = Leaning(YesPct(Mirror(wallet)))
  BY <1>2 DEF Context
<1>10. there.market_total = here.market_total
  BY <1>2, <1>5 DEF Context
<1>11. there.size = here.size
  <2>1. /\ here.size = Round(10 * t.kind.value * Cardinality(wallet), ValueSum(wallet))
        /\ there.size = Round(10 * o.kind.value * Cardinality(OfWallet(M, o)), ValueSum(OfWallet(M, o)))
    BY DEF Context
  <2> HIDE DEF here, there, wallet, M, o
  <2> QED BY <2>1, <1>2, <1>5, <1>6
<1>12. there.first = here.first
  <2> DEFINE shared == OnMarket(M, o) \cap OfWallet(M, o)
             none(S, u) == \A e \in S : e.at >= u.at
  <2>1. here.first = (Cardinality(both) <= 1 \/ none(both, t))
    BY Zenon DEF Context
  <2>2. there.first = (Cardinality(shared) <= 1 \/ none(shared, o))
    BY Zenon DEF Context
  <2>3. none(shared, o) <=> none(both, t)
    <3>1. \A e \in both : Other(e).at = e.at
      BY <1>1, OtherOf DEF Some
    <3> HIDE DEF both, shared
    <3> QED BY <3>1, <1>3, <1>6 DEF Mirror, shared
  <2>4. Cardinality(shared) = Cardinality(both)
    BY <1>3, <1>5
  <2> DEFINE X == Cardinality(both) <= 1 \/ none(both, t)
             Y == Cardinality(shared) <= 1 \/ none(shared, o)
  <2>5. X <=> Y
    <3> HIDE DEF both, shared, none, M, o
    <3> QED BY <2>3, <2>4
  <2>6. X \in BOOLEAN /\ Y \in BOOLEAN
    OBVIOUS
  <2>7. here.first = X /\ there.first = Y
    BY <2>1, <2>2
  <2> HIDE DEF here, there, both, shared, none, M, o, X, Y
  <2> QED BY <2>5, <2>6, <2>7
<1>13. there.price_vs_consensus = here.price_vs_consensus
  <2>1. AgainstPeers(M, o) = AgainstPeers(T, t)
    BY <1>1, PeersMirrored
  <2> QED BY <2>1 DEF Context
<1> HIDE DEF here, there, M, o, wallet
<1> QED BY <1>4, <1>7, <1>8, <1>9, <1>10, <1>11, <1>12, <1>13 DEF here, there, M, o

LEMMA StanceMirrored ==
  ASSUME NEW T, Some(T), NEW t \in T
  PROVE  Stance(Mirror(T), Other(t)) = Stance(T, t)
<1> DEFINE here == Context(T, t)
           there == Context(Mirror(T), Other(t))
           o == Other(t)
           pct == here.market_yes_pct
<1>1. pct \in Int /\ there.market_yes_pct = 100 - pct
  BY ContextMirrored
<1>2. /\ t.kind.side \in {"YES", "NO"} /\ o.kind.side \in {"YES", "NO"}
      /\ o.kind.side = "YES" <=> t.kind.side = "NO"
  BY OtherOf DEF Some, Told
<1>3. AgainstCrowd(o.kind.side, 100 - pct) = AgainstCrowd(t.kind.side, pct)
  <2> HIDE DEF pct, o
  <2> QED BY <1>1, <1>2, CrowdMirrored
<1>4. (o.kind.side = "YES" /\ 100 - pct > 70) \/ (o.kind.side = "NO" /\ 100 - pct < 30)
      <=> (t.kind.side = "YES" /\ pct > 70) \/ (t.kind.side = "NO" /\ pct < 30)
  <2> HIDE DEF pct, o
  <2> QED BY <1>1, <1>2
<1>5. /\ Stance(T, t) = CASE AgainstCrowd(t.kind.side, pct) -> "CONTRARIAN"
        [] (t.kind.side = "YES" /\ pct > 70) \/ (t.kind.side = "NO" /\ pct < 30) -> "MOMENTUM"
        [] OTHER -> "none"
      /\ Stance(Mirror(T), o) = CASE AgainstCrowd(o.kind.side, there.market_yes_pct) -> "CONTRARIAN"
        [] (o.kind.side = "YES" /\ there.market_yes_pct > 70)
           \/ (o.kind.side = "NO" /\ there.market_yes_pct < 30) -> "MOMENTUM"
        [] OTHER -> "none"
  BY Zenon DEF Stance
<1> HIDE DEF pct, there, o
<1>6. Stance(Mirror(T), o) = Stance(T, t)
  BY <1>1, <1>3, <1>4, <1>5
<1> QED BY <1>6 DEF o

\* The words for a share, range by range, and their opposites.
LEMMA MoodOf ==
  ASSUME NEW p \in Int
  PROVE  /\ p >= 65 => Mood(p) = "strongly bullish"
         /\ 55 <= p /\ p <= 64 => Mood(p) = "bullish"
         /\ 46 <= p /\ p <= 54 => Mood(p) = "neutral"
         /\ 36 <= p /\ p <= 45 => Mood(p) = "bearish"
         /\ p <= 35 => Mood(p) = "strongly bearish"
  BY DEF Mood

LEMMA LeaningOf ==
  ASSUME NEW p \in Int
  PROVE  /\ p >= 70 => Leaning(p) = "strong YES"
         /\ 55 <= p /\ p <= 69 => Leaning(p) = "mild YES"
         /\ 46 <= p /\ p <= 54 => Leaning(p) = "balanced"
         /\ 31 <= p /\ p <= 45 => Leaning(p) = "mild NO"
         /\ p <= 30 => Leaning(p) = "strong NO"
  BY DEF Leaning

LEMMA Opposites ==
  /\ Opposite["strongly bullish"] = "strongly bearish" /\ Opposite["bullish"] = "bearish"
  /\ Opposite["strongly bearish"] = "strongly bullish" /\ Opposite["bearish"] = "bullish"
  /\ Opposite["strong YES"] = "strong NO" /\ Opposite["mild YES"] = "mild NO"
  /\ Opposite["strong NO"] = "strong YES" /\ Opposite["mild NO"] = "mild YES"
  /\ Opposite["neutral"] = "neutral" /\ Opposite["balanced"] = "balanced"
  BY DEF Opposite

LEMMA MoodsOppose ==
  ASSUME NEW p \in Int, NEW q \in Int, p + q = 100
  PROVE  Mood(q) = Opposite[Mood(p)] /\ Leaning(q) = Opposite[Leaning(p)]
<1>1. Mood(q) = Opposite[Mood(p)]
  <2>1. CASE p >= 65
    <3>1. q <= 35
      BY <2>1
    <3>2. Mood(p) = "strongly bullish"
      BY <2>1, MoodOf
    <3>3. Mood(q) = "strongly bearish"
      BY <3>1, MoodOf
    <3> QED BY <3>2, <3>3, Opposites
  <2>2. CASE 55 <= p /\ p <= 64
    <3>1. 36 <= q /\ q <= 45
      BY <2>2
    <3>2. Mood(p) = "bullish"
      BY <2>2, MoodOf
    <3>3. Mood(q) = "bearish"
      BY <3>1, MoodOf
    <3> QED BY <3>2, <3>3, Opposites
  <2>3. CASE 46 <= p /\ p <= 54
    <3>1. 46 <= q /\ q <= 54
      BY <2>3
    <3>2. Mood(p) = "neutral"
      BY <2>3, MoodOf
    <3>3. Mood(q) = "neutral"
      BY <3>1, MoodOf
    <3> QED BY <3>2, <3>3, Opposites
  <2>4. CASE 36 <= p /\ p <= 45
    <3>1. 55 <= q /\ q <= 64
      BY <2>4
    <3>2. Mood(p) = "bearish"
      BY <2>4, MoodOf
    <3>3. Mood(q) = "bullish"
      BY <3>1, MoodOf
    <3> QED BY <3>2, <3>3, Opposites
  <2>5. CASE p <= 35
    <3>1. q >= 65
      BY <2>5
    <3>2. Mood(p) = "strongly bearish"
      BY <2>5, MoodOf
    <3>3. Mood(q) = "strongly bullish"
      BY <3>1, MoodOf
    <3> QED BY <3>2, <3>3, Opposites
  <2> QED BY <2>1, <2>2, <2>3, <2>4, <2>5
<1>2. Leaning(q) = Opposite[Leaning(p)]
  <2>1. CASE p >= 70
    <3>1. q <= 30
      BY <2>1
    <3>2. Leaning(p) = "strong YES"
      BY <2>1, LeaningOf
    <3>3. Leaning(q) = "strong NO"
      BY <3>1, LeaningOf
    <3> QED BY <3>2, <3>3, Opposites
  <2>2. CASE 55 <= p /\ p <= 69
    <3>1. 31 <= q /\ q <= 45
      BY <2>2
    <3>2. Leaning(p) = "mild YES"
      BY <2>2, LeaningOf
    <3>3. Leaning(q) = "mild NO"
      BY <3>1, LeaningOf
    <3> QED BY <3>2, <3>3, Opposites
  <2>3. CASE 46 <= p /\ p <= 54
    <3>1. 46 <= q /\ q <= 54
      BY <2>3
    <3>2. Leaning(p) = "balanced"
      BY <2>3, LeaningOf
    <3>3. Leaning(q) = "balanced"
      BY <3>1, LeaningOf
    <3> QED BY <3>2, <3>3, Opposites
  <2>4. CASE 31 <= p /\ p <= 45
    <3>1. 55 <= q /\ q <= 69
      BY <2>4
    <3>2. Leaning(p) = "mild NO"
      BY <2>4, LeaningOf
    <3>3. Leaning(q) = "mild YES"
      BY <3>1, LeaningOf
    <3> QED BY <3>2, <3>3, Opposites
  <2>5. CASE p <= 30
    <3>1. q >= 70
      BY <2>5
    <3>2. Leaning(p) = "strong NO"
      BY <2>5, LeaningOf
    <3>3. Leaning(q) = "strong YES"
      BY <3>1, LeaningOf
    <3> QED BY <3>2, <3>3, Opposites
  <2> QED BY <2>1, <2>2, <2>3, <2>4, <2>5
<1> QED BY <1>1, <1>2

LEMMA ToldAlike == Some(told) => SidesAreAlike
<1> SUFFICES ASSUME Some(told)  PROVE SidesAreAlike
  OBVIOUS
<1> DEFINE mirror == Mirror(told)
<1> SUFFICES ASSUME NEW t \in told, NEW s \in Marks
    PROVE  LET here  == Context(told, t)
               there == Context(mirror, Other(t)) IN
             /\ Analysis(mirror, Other(t), s) = Analysis(told, t, s)
             /\ Stance(mirror, Other(t)) = Stance(told, t)
             /\ there.market_sentiment = Opposite[here.market_sentiment]
             /\ there.wallet_bias = Opposite[here.wallet_bias]
             /\ there.price_vs_consensus = here.price_vs_consensus
  BY DEF SidesAreAlike, Mirror
<1> DEFINE here == Context(told, t)
           there == Context(mirror, Other(t))
           o == Other(t)
           pct == here.market_yes_pct
<1>1. /\ pct \in Int /\ there.market_yes_pct = 100 - pct
      /\ here.market_sentiment = Mood(pct) /\ there.market_sentiment = Mood(100 - pct)
      /\ \E p \in Int : here.wallet_bias = Leaning(p) /\ there.wallet_bias = Leaning(100 - p)
      /\ there.market_total = here.market_total /\ there.size = here.size
      /\ there.first = here.first /\ there.price_vs_consensus = here.price_vs_consensus
  BY ContextMirrored
<1>2. Stance(mirror, o) = Stance(told, t)
  BY StanceMirrored
<1>3. /\ t.kind.side \in {"YES", "NO"} /\ o.kind.side \in {"YES", "NO"}
      /\ o.kind.side # t.kind.side /\ o.kind.price = t.kind.price
  BY OtherOf DEF Some, Told
<1> HIDE DEF pct, here, there, o, mirror
<1>4. /\ AgainstCrowd(o.kind.side, there.market_yes_pct) = AgainstCrowd(t.kind.side, pct)
      /\ WithCrowd(o.kind.side, there.market_yes_pct) = WithCrowd(t.kind.side, pct)
  BY <1>1, <1>3, CrowdMirrored
<1>5. Analysis(mirror, o, s) = Analysis(told, t, s)
  <2>1. /\ Context(mirror, o).market_total = Context(told, t).market_total
        /\ Context(mirror, o).size = Context(told, t).size
        /\ Context(mirror, o).first = Context(told, t).first
    BY <1>1 DEF here, there, o
  <2>2. /\ AgainstCrowd(o.kind.side, Context(mirror, o).market_yes_pct)
             = AgainstCrowd(t.kind.side, Context(told, t).market_yes_pct)
        /\ WithCrowd(o.kind.side, Context(mirror, o).market_yes_pct)
             = WithCrowd(t.kind.side, Context(told, t).market_yes_pct)
    BY <1>4, Zenon DEF here, there, pct, o
  <2> QED BY <1>3, <2>1, <2>2, Zenon DEF Analysis
<1>6. there.market_sentiment = Opposite[here.market_sentiment]
  <2>1. 100 - pct \in Int /\ pct + (100 - pct) = 100
    BY <1>1
  <2>2. Mood(100 - pct) = Opposite[Mood(pct)]
    BY <1>1, <2>1, MoodsOppose
  <2> QED BY <1>1, <2>2
<1>7. there.wallet_bias = Opposite[here.wallet_bias]
  <2>1. PICK p \in Int : here.wallet_bias = Leaning(p) /\ there.wallet_bias = Leaning(100 - p)
    BY <1>1
  <2>2. 100 - p \in Int /\ p + (100 - p) = 100
    OBVIOUS
  <2> QED BY <2>1, <2>2, MoodsOppose
<1> QED BY <1>1, <1>2, <1>5, <1>6, <1>7 DEF here, there, o
-----------------------------------------------------------------------------
\* The tables, at every percentage.
LEMMA ToldTables == TablesAreAlike
<1> SUFFICES ASSUME NEW pct \in 0..100
    PROVE  /\ AgainstCrowd("YES", pct) = AgainstCrowd("NO", 100 - pct)
           /\ WithCrowd("YES", pct) = WithCrowd("NO", 100 - pct)
           /\ ~(AgainstCrowd("YES", pct) /\ WithCrowd("YES", pct))
           /\ Mood(100 - pct) = Opposite[Mood(pct)] /\ Leaning(100 - pct) = Opposite[Leaning(pct)]
  BY DEF TablesAreAlike
<1>1. pct \in Int /\ 100 - pct \in Int /\ pct + (100 - pct) = 100
  OBVIOUS
<1>2. ~(AgainstCrowd("YES", pct) /\ WithCrowd("YES", pct))
  BY DEF AgainstCrowd, WithCrowd
<1> QED BY <1>1, <1>2, CrowdMirrored, MoodsOppose

\* The panel reads the wallet's earlier trades and nothing else.
LEMMA ToldPast == ToldInv => PanelIsPast
<1> SUFFICES ASSUME ToldInv, NEW t \in told, NEW s \in Marks
    PROVE  Panel(told, t, s) = Panel({e \in told : e.at < t.at} \cup {t}, t, s)
  BY DEF PanelIsPast
<1>1. t.at \in Int
  BY ToldSome DEF Some, Told
<1>2. Prior(told, t) = Prior({e \in told : e.at < t.at} \cup {t}, t)
  BY <1>1 DEF Prior, OfWallet
<1> QED BY <1>2 DEF Panel

LEMMA ReasonHere ==
  ASSUME NEW p, NEW t, NEW s
  PROVE  "first here" \in PanelFrom(p, t, s).reasons
         <=> Cardinality(p) # 0 /\ Cardinality(OnMarket(p, t)) = 0
<1> DEFINE
      n       == Cardinality(p)
      excess  == n * t.kind.value - ValueSum(p)
      square  == SumFunctionOnSet([e \in p |-> e.kind.value * e.kind.value], p)
      spread  == n * square - ValueSum(p) * ValueSum(p)
      here    == Cardinality(OnMarket(p, t))
      edge    == IF t.kind.price > 50 THEN 2 * t.kind.price - 100 ELSE 100 - 2 * t.kind.price
      scored  == s >= FlagLine
      extreme == edge >= 70
      big     == 2 * n * t.kind.value >= 5 * ValueSum(p)
      far     == n >= 2 /\ spread > 0 /\ excess >= 0 /\ excess * excess >= 4 * spread
      near    == t.at - Max({e.at : e \in p}) <= ShortGap
      pace    == Cardinality({e \in p : e.at >= t.at - DaySpan}) >= Busy
      again   == here > 0 /\ 4 * here >= n
      says(word, holds) == IF holds THEN {word} ELSE {}
<1>1. PanelFrom(p, t, s).reasons =
        says("score", scored) \cup says("extreme price", extreme)
        \cup (IF n = 0 THEN {}
              ELSE says("value", big) \cup says("deviation", far)
                   \cup says("gap", near) \cup says("pace", pace)
                   \cup says("first here", here = 0) \cup says("again here", again))
  BY DEF PanelFrom
<1> HIDE DEF scored, extreme, big, far, near, pace, again, here, n
<1>2. "first here" \in PanelFrom(p, t, s).reasons <=> n # 0 /\ here = 0
  BY <1>1
<1> QED BY <1>2 DEF n, here

\* The wallet's trades on the trade's market.
LEMMA ToldHere ==
  ASSUME ToldInv, NEW t \in told, NEW s
  PROVE  LET panel == Panel(told, t, s)
             local == Analysis(told, t, s) IN
           /\ "first here" \in panel.reasons => local.first
           /\ local.first /\ panel.prior > 0 => "first here" \in panel.reasons
<1> DEFINE p == Prior(told, t)
           n == Cardinality(p)
           past == OnMarket(p, t)
           here == OnMarket(told, t) \cap OfWallet(told, t)
           first == Cardinality(here) <= 1 \/ \A e \in here : e.at >= t.at
<1>0. \A e \in told : e.at \in Int
  BY ToldSome DEF Some, Told
<1>1. past = {e \in here : e.at < t.at} /\ t \in here /\ here \subseteq told /\ past \subseteq told
  BY DEF Prior, OnMarket, OfWallet
<1>2. IsFiniteSet(here) /\ IsFiniteSet(past) /\ IsFiniteSet(p) /\ n \in Nat
  <2>1. p \subseteq told
    BY DEF Prior, OfWallet
  <2> QED BY <1>1, <2>1, FS_Subset, FS_CardinalityType DEF ToldInv
<1>3. Analysis(told, t, s).first = first
  BY Zenon DEF Analysis, Context
<1>4. Panel(told, t, s).prior = n
  BY DEF Panel, PanelFrom
<1>5. "first here" \in Panel(told, t, s).reasons <=> n # 0 /\ Cardinality(past) = 0
  BY ReasonHere DEF Panel
<1>6. Cardinality(past) = 0 <=> past = {}
  BY <1>2, FS_EmptySet
<1>7. past = {} <=> first
  <2>1. (\A e \in here : e.at >= t.at) <=> past = {}
    BY <1>0, <1>1
  <2>2. ASSUME Cardinality(here) <= 1  PROVE past = {}
    <3>1. SUFFICES ASSUME NEW e \in past  PROVE FALSE
      OBVIOUS
    <3>2. e \in here /\ e # t
      BY <1>0, <1>1, <3>1
    <3>3. {t, e} \subseteq here /\ IsFiniteSet({t}) /\ Cardinality({t}) = 1
      BY <1>1, <3>2, FS_Singleton
    <3>4. Cardinality({t} \cup {e}) = 2 /\ {t} \cup {e} \subseteq here
      BY <3>2, <3>3, FS_AddElement
    <3>5. Cardinality({t} \cup {e}) <= Cardinality(here) /\ Cardinality(here) \in Nat
      BY <1>2, <3>4, FS_Subset, FS_CardinalityType
    <3> QED BY <2>2, <3>4, <3>5
  <2> QED BY <2>1, <2>2
<1>8. Analysis(told, t, s).first <=> first
  BY <1>3
<1> DEFINE panel == Panel(told, t, s)
           local == Analysis(told, t, s)
<1> HIDE DEF p, n, past, here, first, panel, local
<1>9. Analysis(told, t, s).first <=> Cardinality(past) = 0
  BY <1>6, <1>7, <1>8
<1>10. panel.prior > 0 => n # 0
  BY <1>2, <1>4 DEF panel
<1>11. /\ "first here" \in panel.reasons => local.first
       /\ local.first /\ panel.prior > 0 => "first here" \in panel.reasons
  BY <1>5, <1>9, <1>10, Zenon DEF panel, local
<1> QED BY <1>11 DEF panel, local

\* The flag and the crowd.
LEMMA ToldSignals ==
  ASSUME ToldInv, NEW t \in told, NEW s
  PROVE  LET panel == Panel(told, t, s)
             local == Analysis(told, t, s) IN
           /\ panel.flagged => local.signal \in {"CONVICTION", "CONTRARIAN"} /\ local.risk # "LOW"
           /\ local.signal = "CONTRARIAN" => Stance(told, t) = "CONTRARIAN"
           /\ Stance(told, t) = "MOMENTUM" => local.signal # "CONTRARIAN"
<1> DEFINE ctx == Context(told, t)
           deep == ctx.market_total >= Depth
           flagged == s >= FlagLine
           oversized == ctx.size >= 25
           against == AgainstCrowd(t.kind.side, ctx.market_yes_pct)
           with == WithCrowd(t.kind.side, ctx.market_yes_pct)
           marks == {f \in {<<1, flagged>>, <<2, oversized>>, <<3, deep /\ against>>,
                            <<4, t.kind.price <= 15>>} : f[2]}
           points == Cardinality(marks)
           local == Analysis(told, t, s)
<1>1. Panel(told, t, s).flagged = flagged
  BY DEF Panel, PanelFrom
<1>2. local.signal = CASE deep /\ against -> "CONTRARIAN"
                       [] ~(deep /\ against) /\ (flagged \/ oversized) -> "CONVICTION"
                       [] ~(deep /\ against) /\ ~flagged /\ ~oversized /\ deep /\ with -> "CONSENSUS"
                       [] OTHER -> "SPECULATIVE"
  BY Zenon DEF Analysis
<1>3. local.risk = CASE points >= 2 -> "HIGH" [] points = 1 -> "MEDIUM" [] OTHER -> "LOW"
  BY Zenon DEF Analysis
<1>4. /\ Stance(told, t) = "MOMENTUM" => ~against
      /\ against => Stance(told, t) = "CONTRARIAN"
  <2> DEFINE pct == ctx.market_yes_pct
             running == (t.kind.side = "YES" /\ pct > 70) \/ (t.kind.side = "NO" /\ pct < 30)
  <2>1. Stance(told, t) = CASE against -> "CONTRARIAN" [] running -> "MOMENTUM" [] OTHER -> "none"
    BY Zenon DEF Stance
  <2>2. pct \in Int
    BY ToldSome, ContextMirrored
  <2>3. ~(against /\ running)
    <3>1. against <=> \/ t.kind.side = "YES" /\ pct < 40
                      \/ t.kind.side = "NO" /\ pct > 60
      BY DEF AgainstCrowd
    <3> HIDE DEF pct, against
    <3> QED BY <2>2, <3>1
  <2> HIDE DEF against, running
  <2> QED BY <2>1, <2>3
<1>6. flagged => points \in Nat /\ points >= 1
  <2>1. SUFFICES ASSUME flagged  PROVE points \in Nat /\ points >= 1
    OBVIOUS
  <2>2. <<1, flagged>> \in marks
    BY <2>1
  <2>3. IsFiniteSet(marks)
    <3> DEFINE all == {<<1, flagged>>, <<2, oversized>>, <<3, deep /\ against>>, <<4, t.kind.price <= 15>>}
    <3>1. IsFiniteSet({<<1, flagged>>}) /\ IsFiniteSet({<<2, oversized>>})
          /\ IsFiniteSet({<<3, deep /\ against>>}) /\ IsFiniteSet({<<4, t.kind.price <= 15>>})
      BY FS_Singleton
    <3>2. IsFiniteSet(({<<1, flagged>>} \cup {<<2, oversized>>})
                      \cup ({<<3, deep /\ against>>} \cup {<<4, t.kind.price <= 15>>}))
      <4> HIDE DEF flagged, oversized, deep, against
      <4> QED BY <3>1, FS_Union
    <3>3. marks \subseteq ({<<1, flagged>>} \cup {<<2, oversized>>})
                          \cup ({<<3, deep /\ against>>} \cup {<<4, t.kind.price <= 15>>})
      <4> HIDE DEF flagged, oversized, deep, against
      <4> QED BY Zenon
    <3> QED BY <3>2, <3>3, FS_Subset
  <2> HIDE DEF marks
  <2> QED BY <2>2, <2>3, FS_EmptySet, FS_CardinalityType
<1> HIDE DEF ctx, deep, flagged, oversized, against, with, points, local
<1>5. flagged => (points >= 2 \/ points = 1)
  BY <1>6
<1>7. flagged => local.signal \in {"CONVICTION", "CONTRARIAN"}
  BY <1>2
<1>8. flagged => local.risk # "LOW"
  BY <1>3, <1>5
<1>9. local.signal = "CONTRARIAN" => against
  BY <1>2
<1> QED BY <1>1, <1>4, <1>7, <1>8, <1>9 DEF local

LEMMA ToldStory == ToldInv => TellsOneStory
  BY ToldHere, ToldSignals DEF TellsOneStory
-----------------------------------------------------------------------------
LEMMA ToldHolds == ToldSpec => []ToldInv
  BY ToldInvInit, ToldInvStep, PTL DEF ToldSpec

\* What is stored of the trades a page speaks of is well typed, whatever refreshes
\* store (refresh_wallet in app/ingest.py).
THEOREM ToldTypeCorrect == ToldSpec => []ToldTypeOK
<1>1. ToldInv => ToldTypeOK
  BY DEF ToldInv
<1> QED BY <1>1, ToldHolds, PTL

\* The panel is about the past, the panel, the signal and the prompt do not
\* contradict each other, and YES and NO are treated alike, for every set of trades
\* and every score (build_trade_context, explain_trade_signal, _local_model_analysis
\* and _build_prompt in app/ai_analysis.py).
THEOREM ExplainedCorrect == ToldSpec => []ExplainedAlike
<1>1. ToldInv => ExplainedAlike
  BY ToldTables, ToldPast, ToldStory, ToldAlike, ToldSome DEF ExplainedAlike
<1> QED BY <1>1, ToldHolds, PTL

(* Activity *)

\* Trades with times, those that are as late as some time, and the later ones.
Dated(R)     == IsFiniteSet(R) /\ \A f \in R : f.traded_at \in Int
AsLate(R, t) == {f \in R : f.traded_at >= t}
Later(R, t)  == {f \in R : f.traded_at > t}

\* The list: its i-th time is as late as any that i trades reach.
LEMMA NewestFirstTimes ==
  ASSUME NEW R, Dated(R), NEW i \in 1..Cardinality(R)
  PROVE  /\ NewestFirst(R)[i] \in {f.traded_at : f \in R}
         /\ Cardinality(Later(R, NewestFirst(R)[i])) < i
         /\ Cardinality(AsLate(R, NewestFirst(R)[i])) >= i
<1> DEFINE n == Cardinality(R)
           V == {f.traded_at : f \in R}
           B == {t \in V : Cardinality(AsLate(R, t)) >= i}
<1>1. IsFiniteSet(R) /\ n \in Nat /\ \A f \in R : f.traded_at \in Int
  BY FS_CardinalityType DEF Dated
<1>2. IsFiniteSet(V) /\ V \in SUBSET Int
  <2> DEFINE at == [f \in R |-> f.traded_at]
  <2>1. IsFiniteSet({at[f] : f \in R})
    <3> HIDE DEF at
    <3> QED BY <1>1, FiniteImage
  <2>2. V = {at[f] : f \in R}
    OBVIOUS
  <2> HIDE DEF V
  <2>3. IsFiniteSet(V)
    BY <2>1, <2>2
  <2> QED BY <2>3, <1>1 DEF V
<1>3. V # {}
  BY <1>1, FS_EmptySet
<1>4. PICK m \in V : \A t \in V : m <= t
  <2> HIDE DEF V
  <2> QED BY <1>2, <1>3, FiniteExtremes
<1>5. AsLate(R, m) = R
  BY <1>1, <1>2, <1>4 DEF AsLate
<1>6. B # {} /\ B \in SUBSET Int /\ IsFiniteSet(B)
  <2>1. m \in B
    BY <1>1, <1>4, <1>5
  <2>2. B \subseteq V
    OBVIOUS
  <2> HIDE DEF B, V
  <2> QED BY <1>2, <2>1, <2>2, FS_Subset
<1>7. PICK t \in B : \A u \in B : t >= u
  <2> HIDE DEF B
  <2> QED BY <1>6, FiniteExtremes
<1>8. t \in V /\ t \in Int /\ Cardinality(AsLate(R, t)) >= i
  BY <1>2, <1>7
<1>9. Cardinality(Later(R, t)) < i
  <2>0. Later(R, t) \subseteq R
    BY DEF Later
  <2>1. IsFiniteSet(Later(R, t)) /\ Cardinality(Later(R, t)) \in Nat
    BY <1>1, <2>0, FS_Subset, FS_CardinalityType
  <2>2. SUFFICES ASSUME Cardinality(Later(R, t)) >= i  PROVE FALSE
    BY <1>1, <2>1
  <2>3. Later(R, t) # {}
    <3>1. i \in Int /\ i >= 1
      BY <1>1
    <3>2. Cardinality(Later(R, t)) # 0
      BY <2>1, <2>2, <3>1
    <3> QED BY <3>2, FS_EmptySet
  <2> DEFINE W == {u \in V : u > t}
  <2>4. W # {} /\ W \in SUBSET Int /\ IsFiniteSet(W)
    <3>1. W # {}
      BY <2>3 DEF Later
    <3>2. W \subseteq V
      OBVIOUS
    <3> HIDE DEF W, V
    <3> QED BY <1>2, <3>1, <3>2, FS_Subset
  <2>5. PICK u \in W : \A v \in W : u <= v
    <3> HIDE DEF W
    <3> QED BY <2>4, FiniteExtremes
  <2>6. AsLate(R, u) = Later(R, t)
    BY <1>1, <1>8, <2>4, <2>5 DEF AsLate, Later
  <2>7. u \in B /\ u > t
    BY <2>2, <2>5, <2>6
  <2> QED BY <1>7, <1>8, <2>4, <2>5, <2>7
<1> DEFINE Right(u) == Cardinality(Later(R, u)) < i /\ Cardinality(AsLate(R, u)) >= i
<1>10. NewestFirst(R)[i] = CHOOSE u \in V : Right(u)
  BY DEF NewestFirst, Later, AsLate
<1>11. t \in V /\ Right(t)
  BY <1>8, <1>9
<1> HIDE DEF V, Right
<1>12. NewestFirst(R)[i] \in V /\ Right(NewestFirst(R)[i])
  BY <1>10, <1>11
<1> QED BY <1>12 DEF V, Right

LEMMA NewestFirstOrder ==
  ASSUME NEW R, Dated(R)
  PROVE  /\ DOMAIN NewestFirst(R) = 1..Cardinality(R) /\ Len(NewestFirst(R)) = Cardinality(R)
         /\ \A i \in 1..Cardinality(R) :
              /\ NewestFirst(R)[i] \in Int
              /\ \A t \in Int : NewestFirst(R)[i] >= t <=> Cardinality(AsLate(R, t)) >= i
<1> DEFINE n == Cardinality(R)
           T == NewestFirst(R)
<1>1. IsFiniteSet(R) /\ n \in Nat /\ \A f \in R : f.traded_at \in Int
  BY FS_CardinalityType DEF Dated
<1>2. DOMAIN T = 1..n /\ Len(T) = n
  BY <1>1 DEF NewestFirst
<1>3. \A t : /\ IsFiniteSet(AsLate(R, t)) /\ Cardinality(AsLate(R, t)) \in Nat
             /\ IsFiniteSet(Later(R, t)) /\ Cardinality(Later(R, t)) \in Nat
  <2>1. \A t : AsLate(R, t) \subseteq R /\ Later(R, t) \subseteq R
    BY DEF AsLate, Later
  <2> QED BY <1>1, <2>1, FS_Subset, FS_CardinalityType
<1>4. ASSUME NEW i \in 1..n
      PROVE  T[i] \in Int /\ \A t \in Int : T[i] >= t <=> Cardinality(AsLate(R, t)) >= i
  <2>1. /\ T[i] \in Int
        /\ Cardinality(Later(R, T[i])) < i /\ Cardinality(AsLate(R, T[i])) >= i
    BY <1>1, NewestFirstTimes
  <2> HIDE DEF T
  <2>2. ASSUME NEW t \in Int, T[i] >= t  PROVE Cardinality(AsLate(R, t)) >= i
    <3>1. AsLate(R, T[i]) \subseteq AsLate(R, t)
      BY <1>1, <2>1, <2>2 DEF AsLate
    <3>2. Cardinality(AsLate(R, T[i])) <= Cardinality(AsLate(R, t))
      BY <1>3, <3>1, FS_Subset
    <3> QED BY <1>1, <1>3, <2>1, <3>2
  <2>3. ASSUME NEW t \in Int, ~(T[i] >= t)  PROVE ~(Cardinality(AsLate(R, t)) >= i)
    <3>1. AsLate(R, t) \subseteq Later(R, T[i])
      BY <1>1, <2>1, <2>3 DEF AsLate, Later
    <3>2. Cardinality(AsLate(R, t)) <= Cardinality(Later(R, T[i]))
      BY <1>3, <3>1, FS_Subset
    <3> QED BY <1>1, <1>3, <2>1, <3>2
  <2> QED BY <2>1, <2>2, <2>3
<1> QED BY <1>2, <1>4

Cluster(R, S) ==
  /\ S \in SUBSET R /\ Cardinality(S) = SpikeCount
  /\ \A f, g \in S : f.traded_at - g.traded_at <= SpikeWindow

LEMMA SpikeIndex ==
  ASSUME NEW R, Dated(R), NEW i \in Spikes(NewestFirst(R))
  PROVE  /\ i \in 1..Cardinality(R) /\ i + SpikeCount - 1 \in 1..Cardinality(R)
         /\ NewestFirst(R)[i] - NewestFirst(R)[i + SpikeCount - 1] <= SpikeWindow
         /\ Cardinality(R) \in Nat /\ SpikeCount <= Cardinality(R)
<1>1. Cardinality(R) \in Nat /\ Len(NewestFirst(R)) = Cardinality(R)
  BY NewestFirstOrder, FS_CardinalityType DEF Dated
<1> QED BY <1>1, ActivityAssumption DEF Spikes

\* A spike of the list is of that many trades: those from the time of its last position on,
\* without those that are later than the time of its first.
LEMMA SpikeHasCluster ==
  ASSUME NEW R, Dated(R), NEW i \in Spikes(NewestFirst(R))
  PROVE  \E S : Cluster(R, S)
<1> DEFINE T == NewestFirst(R)
           j == i + SpikeCount - 1
           A == AsLate(R, T[j])
           B == AsLate(R, T[i] + 1)
           D == A \ B
<1>1. /\ i \in 1..Cardinality(R) /\ j \in 1..Cardinality(R) /\ Cardinality(R) \in Nat
      /\ T[i] - T[j] <= SpikeWindow /\ T[i] \in Int /\ T[j] \in Int
  BY SpikeIndex, NewestFirstOrder
<1>2. Cardinality(A) >= j /\ ~(Cardinality(B) >= i)
  <2> HIDE DEF T, j
  <2>1. T[j] >= T[j] /\ T[i] + 1 \in Int /\ ~(T[i] >= T[i] + 1)
    BY <1>1
  <2> QED BY <1>1, <2>1, NewestFirstOrder DEF T
<1>3. /\ IsFiniteSet(A) /\ IsFiniteSet(B) /\ IsFiniteSet(D)
      /\ Cardinality(A) \in Nat /\ Cardinality(B) \in Nat /\ Cardinality(D) \in Nat
      /\ Cardinality(D) = Cardinality(A) - Cardinality(A \cap B)
      /\ Cardinality(A \cap B) <= Cardinality(B) /\ Cardinality(A \cap B) \in Nat
  <2>1. A \subseteq R /\ B \subseteq R
    BY DEF AsLate
  <2> HIDE DEF A, B
  <2>2. IsFiniteSet(A) /\ IsFiniteSet(B) /\ IsFiniteSet(A \cap B)
    BY <2>1, FS_Subset DEF Dated
  <2>3. Cardinality(A \cap B) <= Cardinality(B)
    BY <2>2, FS_Subset
  <2> QED BY <2>2, <2>3, FS_Difference, FS_CardinalityType
<1>4. Cardinality(D) >= SpikeCount /\ SpikeCount \in 0..Cardinality(D)
  <2>1. SpikeCount \in Nat /\ i \in Int /\ j = i + SpikeCount - 1
    BY <1>1, ActivityAssumption
  <2> HIDE DEF A, B, D, j
  <2> QED BY <1>2, <1>3, <2>1
<1>5. PICK S \in SUBSET D : Cardinality(S) = SpikeCount
  <2> DEFINE key == [f \in D |-> 0]
  <2>1. \A f \in D : key[f] \in Int
    OBVIOUS
  <2> HIDE DEF D, key
  <2> QED BY <1>3, <1>4, <2>1, HighestPart
<1>6. \A f \in S : f \in R /\ f.traded_at \in Int /\ f.traded_at <= T[i] /\ f.traded_at >= T[j]
  <2> HIDE DEF T, j
  <2> QED BY <1>1 DEF AsLate, Dated
<1>7. \A f, g \in S : f.traded_at - g.traded_at <= SpikeWindow
  <2> HIDE DEF T, j, D
  <2> QED BY <1>1, <1>6, ActivityAssumption
<1> QED BY <1>5, <1>6, <1>7 DEF Cluster

\* And the other way: the list has a spike that begins with the latest of such trades.
LEMMA ClusterHasSpike ==
  ASSUME NEW R, Dated(R), NEW S, Cluster(R, S)
  PROVE  \E i \in Spikes(NewestFirst(R)) : \A f \in S : f.traded_at <= NewestFirst(R)[i]
<1> DEFINE n == Cardinality(R)
           T == NewestFirst(R)
           at == [f \in S |-> f.traded_at]
           V == {at[f] : f \in S}
<1>1. /\ IsFiniteSet(R) /\ n \in Nat /\ \A f \in R : f.traded_at \in Int
      /\ S \subseteq R /\ IsFiniteSet(S) /\ Cardinality(S) = SpikeCount
      /\ SpikeCount \in Nat /\ SpikeCount >= 2
  BY FS_CardinalityType, FS_Subset, ActivityAssumption DEF Dated, Cluster
<1>2. V \in SUBSET Int /\ IsFiniteSet(V) /\ V # {}
  <2>1. S # {}
    BY <1>1, FS_EmptySet
  <2>2. V \in SUBSET Int /\ V # {}
    BY <1>1, <2>1
  <2>3. IsFiniteSet(V)
    <3> HIDE DEF at
    <3> QED BY <1>1, FiniteImage
  <2> QED BY <2>2, <2>3
<1>3. PICK hi \in V : \A v \in V : hi >= v
  <2> HIDE DEF V
  <2> QED BY <1>2, FiniteExtremes
<1>4. PICK lo \in V : \A v \in V : lo <= v
  <2> HIDE DEF V
  <2> QED BY <1>2, FiniteExtremes
<1>5. /\ hi \in Int /\ lo \in Int /\ hi - lo <= SpikeWindow
      /\ \A f \in S : f.traded_at <= hi /\ f.traded_at >= lo
      /\ \E f \in S : f.traded_at = hi
  BY <1>2, <1>3, <1>4 DEF Cluster
<1> DEFINE above == AsLate(R, hi + 1)
           i == Cardinality(above) + 1
           j == i + SpikeCount - 1
<1>6. /\ above \subseteq R /\ IsFiniteSet(above) /\ Cardinality(above) \in Nat
      /\ above \cap S = {} /\ above \subseteq AsLate(R, hi)
  <2>1. above \subseteq R /\ above \cap S = {} /\ above \subseteq AsLate(R, hi)
    BY <1>1, <1>5 DEF AsLate
  <2> HIDE DEF above
  <2> QED BY <1>1, <2>1, FS_Subset, FS_CardinalityType
<1>7. /\ Cardinality(above \cup S) = j /\ IsFiniteSet(above \cup S)
      /\ above \cup S \subseteq AsLate(R, lo) /\ above \cup S \subseteq R
  <2>1. above \cup S \subseteq AsLate(R, lo) /\ above \cup S \subseteq R
    BY <1>1, <1>5 DEF AsLate
  <2>2. Cardinality(above \cup S) = Cardinality(above) + Cardinality(S) - Cardinality({})
        /\ IsFiniteSet(above \cup S)
    <3> HIDE DEF above
    <3> QED BY <1>1, <1>6, FS_Union
  <2> HIDE DEF above
  <2> QED BY <1>1, <1>6, <2>1, <2>2, FS_EmptySet
<1>8. Cardinality(AsLate(R, lo)) >= j /\ j <= n
  <2>1. AsLate(R, lo) \subseteq R
    BY DEF AsLate
  <2>2. IsFiniteSet(AsLate(R, lo))
    BY <1>1, <2>1, FS_Subset
  <2> HIDE DEF above, j
  <2> QED BY <1>1, <1>7, <2>2, FS_Subset
<1>9. Cardinality(AsLate(R, hi)) >= i
  <2>1. PICK f \in S : f.traded_at = hi
    BY <1>5
  <2>2. f \in AsLate(R, hi) /\ f \notin above /\ AsLate(R, hi) \subseteq R
    BY <1>1, <1>5, <2>1 DEF AsLate
  <2>3. IsFiniteSet(AsLate(R, hi)) /\ above \cup {f} \subseteq AsLate(R, hi)
    BY <1>1, <1>6, <2>2, FS_Subset
  <2> HIDE DEF above
  <2>4. Cardinality(above \cup {f}) = i
    BY <1>6, <2>2, FS_AddElement
  <2> HIDE DEF i
  <2> QED BY <2>3, <2>4, FS_Subset
<1>10. i \in 1..n /\ j \in 1..n
  <2> HIDE DEF above
  <2> QED BY <1>1, <1>6, <1>8
<1>11. T[i] \in Int /\ T[j] \in Int /\ T[i] >= hi /\ ~(T[i] >= hi + 1) /\ T[j] >= lo
  <2>1. ~(Cardinality(AsLate(R, hi + 1)) >= i) /\ hi + 1 \in Int
    BY <1>5, <1>6
  <2> HIDE DEF above, i, j
  <2> QED BY <1>5, <1>8, <1>9, <1>10, <2>1, NewestFirstOrder
<1>12. T[i] - T[j] <= SpikeWindow /\ T[i] = hi
  <2> HIDE DEF i, j, T
  <2> QED BY <1>5, <1>11, ActivityAssumption
<1>13. i \in Spikes(T)
  <2>1. Len(T) = n /\ i \in 1..(n - SpikeCount + 1)
    <3> HIDE DEF above
    <3> QED BY <1>1, <1>6, <1>8, <1>10, NewestFirstOrder
  <2> HIDE DEF T, i
  <2> QED BY <1>12, <2>1 DEF Spikes
<1> HIDE DEF i
<1> QED BY <1>5, <1>12, <1>13

\* The first spike counts at least SpikeCount positions of the list.
LEMMA SpikeCounts ==
  ASSUME NEW R, Dated(R), NEW i \in Spikes(NewestFirst(R))
  PROVE  LET times == NewestFirst(R) IN
           /\ Cardinality({k \in DOMAIN times : times[i] - times[k] <= SpikeWindow}) >= SpikeCount
           /\ \A k \in Spikes(times) : i <= k => times[i] >= times[k]
<1> DEFINE T == NewestFirst(R)
           n == Cardinality(R)
           j == i + SpikeCount - 1
           near == {k \in DOMAIN T : T[i] - T[k] <= SpikeWindow}
<1>1. /\ i \in 1..n /\ j \in 1..n /\ n \in Nat /\ T[i] - T[j] <= SpikeWindow
      /\ DOMAIN T = 1..n /\ \A k \in 1..n : T[k] \in Int
  BY SpikeIndex, NewestFirstOrder
<1>2. ASSUME NEW k \in 1..n, NEW m \in 1..n, k <= m  PROVE T[k] >= T[m]
  <2>1. Cardinality(AsLate(R, T[m])) >= m
    <3>1. T[m] >= T[m]
      BY <1>1
    <3> QED BY <1>1, <3>1, NewestFirstOrder
  <2>2. Cardinality(AsLate(R, T[m])) \in Nat
    <3>1. AsLate(R, T[m]) \subseteq R
      BY DEF AsLate
    <3> QED BY <3>1, FS_Subset, FS_CardinalityType DEF Dated
  <2>3. Cardinality(AsLate(R, T[m])) >= k
    BY <1>1, <1>2, <2>1, <2>2
  <2> QED BY <1>1, <2>3, NewestFirstOrder
<1>3. i..j \subseteq near
  <2> HIDE DEF T, j
  <2>1. SUFFICES ASSUME NEW k \in i..j  PROVE k \in 1..n /\ T[i] - T[k] <= SpikeWindow
    BY <1>1
  <2>2. k \in 1..n /\ T[k] >= T[j]
    BY <1>1, <1>2
  <2> QED BY <1>1, <2>2, ActivityAssumption
<1>4. IsFiniteSet(near)
  <2>1. near \subseteq 1..n /\ IsFiniteSet(1..n)
    BY <1>1, FS_Interval
  <2> QED BY <2>1, FS_Subset
<1>5. Cardinality(i..j) = SpikeCount /\ IsFiniteSet(i..j)
  <2>1. i \in Int /\ j \in Int /\ ~(i > j) /\ j - i + 1 = SpikeCount
    BY <1>1, ActivityAssumption
  <2> HIDE DEF j
  <2> QED BY <2>1, FS_Interval
<1>6. Cardinality(near) >= SpikeCount
  <2> HIDE DEF near, j
  <2> QED BY <1>3, <1>4, <1>5, FS_Subset
<1>7. \A k \in Spikes(T) : i <= k => T[i] >= T[k]
  <2>1. \A k \in Spikes(T) : k \in 1..n
    BY SpikeIndex
  <2> HIDE DEF T, n
  <2> QED BY <1>1, <1>2, <2>1
<1> QED BY <1>6, <1>7

\* The inductive invariant: the trades are well typed and finitely many.
ActivityInv == ActivityTypeOK /\ IsFiniteSet(fills)

LEMMA ActivityInvInit == ActivityInit => ActivityInv
  BY FS_EmptySet, ActivityAssumption DEF ActivityInit, ActivityInv, ActivityTypeOK

LEMMA ActivityInvStep == ActivityInv /\ [ActivityNext]_activityVars => ActivityInv'
<1> SUFFICES ASSUME ActivityInv, [ActivityNext]_activityVars  PROVE ActivityInv'
  OBVIOUS
<1> USE DEF ActivityInv, ActivityTypeOK
<1>1. CASE Tick
  BY <1>1, ActivityAssumption DEF Tick, Fills
<1>2. ASSUME NEW w \in Accounts, NEW c \in Markets, NEW t \in 0..EndOfTime, Fill(w, c, t)
      PROVE  ActivityInv'
  <2> DEFINE same == {f \in fills : f.wallet = w /\ f.condition = c /\ f.traded_at = t}
             e == [wallet |-> w, condition |-> c, traded_at |-> t, nr |-> Cardinality(same) + 1]
  <2>1. same \subseteq fills /\ IsFiniteSet(same) /\ Cardinality(same) \in Nat
        /\ Cardinality(fills) \in Nat /\ Cardinality(same) <= Cardinality(fills)
    BY FS_Subset, FS_CardinalityType
  <2>2. /\ Cardinality(fills) < MaxFills /\ t <= clock /\ fills' = fills \cup {e}
        /\ clock' = clock
    BY <1>2 DEF Fill
  <2>3. e \in Fills
    <3>1. Cardinality(same) + 1 \in 1..MaxFills
      BY <2>1, <2>2, ActivityAssumption
    <3> QED BY <3>1 DEF Fills
  <2>4. e.traded_at = t
    OBVIOUS
  <2> HIDE DEF e, same
  <2> QED BY <2>2, <2>3, <2>4, FS_AddElement
<1>3. CASE UNCHANGED activityVars
  BY <1>3 DEF activityVars
<1> QED BY <1>1, <1>2, <1>3 DEF ActivityNext

\* What the dashboard looks at is a part of the day, all of it if the limit allows.
LEMMA RecentPart ==
  ASSUME ActivityInv
  PROVE  /\ Dated(fills) /\ clock \in Int /\ Cutoff \in Int /\ DayLength \in Nat \ {0}
         /\ TheDay \subseteq fills /\ IsFiniteSet(TheDay) /\ Recent \subseteq TheDay
         /\ Cardinality(TheDay) <= RecentLimit => Recent = TheDay
         /\ \A w : Dated(OwnRecent(w))
<1>1. Dated(fills) /\ clock \in Int /\ Cutoff \in Int /\ DayLength \in Nat \ {0}
  <2>1. \A f \in fills : f.traded_at \in 0..EndOfTime
    BY DEF ActivityInv, ActivityTypeOK, Fills
  <2> QED BY <2>1, ActivityAssumption DEF ActivityInv, ActivityTypeOK, Dated, Cutoff
<1>2. TheDay \subseteq fills /\ IsFiniteSet(TheDay) /\ Cardinality(TheDay) \in Nat
  <2>1. TheDay \subseteq fills
    BY DEF TheDay
  <2> QED BY <1>1, <2>1, FS_Subset, FS_CardinalityType DEF Dated
<1> DEFINE k == IF Cardinality(TheDay) < RecentLimit THEN Cardinality(TheDay) ELSE RecentLimit
           Right(R) == Cardinality(R) = k /\ \A f \in R, g \in TheDay \ R : f.traded_at >= g.traded_at
<1>3. k \in 0..Cardinality(TheDay) /\ (Cardinality(TheDay) <= RecentLimit => k = Cardinality(TheDay))
  BY <1>2, ActivityAssumption
<1>4. \E R \in SUBSET TheDay : Right(R)
  <2> DEFINE at == [f \in TheDay |-> f.traded_at]
  <2>1. \A f \in TheDay : at[f] \in Int
    BY <1>1, <1>2 DEF Dated
  <2>2. \E R \in SUBSET TheDay : Cardinality(R) = k /\ \A f \in R, g \in TheDay \ R : at[f] >= at[g]
    <3> HIDE DEF at, k
    <3> QED BY <1>2, <1>3, <2>1, HighestPart
  <2> QED BY <2>2
<1>5. Recent = CHOOSE R \in SUBSET TheDay : Right(R)
  BY DEF Recent
<1>6. Recent \in SUBSET TheDay /\ Right(Recent)
  <2> HIDE DEF Right
  <2> QED BY <1>4, <1>5
<1>7. Cardinality(TheDay) <= RecentLimit => Recent = TheDay
  <2> HIDE DEF k
  <2> QED BY <1>2, <1>3, <1>6, FS_Subset
<1>8. \A w : Dated(OwnRecent(w))
  <2>1. \A w : OwnRecent(w) \subseteq fills
    BY <1>2, <1>6 DEF OwnRecent
  <2> QED BY <1>1, <2>1, FS_Subset DEF Dated
<1> QED BY <1>1, <1>2, <1>6, <1>7, <1>8

\* The event of a wallet is that of its first spike.
LEMMA EventOfFirst ==
  ASSUME ActivityInv, NEW w
  PROVE  LET times == NewestFirst(OwnRecent(w)) IN
           /\ SpikeEvents(w) # {} <=> Spikes(times) # {}
           /\ \A e \in SpikeEvents(w) : \E i \in Spikes(times) :
                /\ \A j \in Spikes(times) : i <= j
                /\ e.timestamp = times[i]
                /\ e.count = Cardinality({k \in DOMAIN times : times[i] - times[k] <= SpikeWindow})
<1> DEFINE T == NewestFirst(OwnRecent(w))
           P == Spikes(T)
           i == CHOOSE i \in P : \A j \in P : i <= j
           e == [timestamp |-> T[i],
                 count |-> Cardinality({k \in DOMAIN T : T[i] - T[k] <= SpikeWindow})]
<1>1. Dated(OwnRecent(w))
  BY RecentPart
<1>2. P \in SUBSET Nat
  BY <1>1, SpikeIndex
<1>3. SpikeEvents(w) = IF P = {} THEN {} ELSE {e}
  BY DEF SpikeEvents
<1>4. P # {} => i \in P /\ \A j \in P : i <= j
  <2> HIDE DEF P
  <2> QED BY <1>2, LeastNat
<1>5. e.timestamp = T[i] /\ e.count = Cardinality({k \in DOMAIN T : T[i] - T[k] <= SpikeWindow})
  OBVIOUS
<1> HIDE DEF T, P, i, e
<1>6. SpikeEvents(w) # {} <=> P # {}
  BY <1>3
<1>7. ASSUME NEW x \in SpikeEvents(w)
      PROVE  /\ i \in P /\ \A j \in P : i <= j
             /\ x.timestamp = T[i]
             /\ x.count = Cardinality({k \in DOMAIN T : T[i] - T[k] <= SpikeWindow})
  <2>1. P # {} /\ x = e
    BY <1>3, <1>7
  <2> QED BY <1>4, <1>5, <2>1
<1> QED BY <1>6, <1>7 DEF T, P

LEMMA ActivitySpikes == ActivityInv => SpikeIffCluster
<1> SUFFICES ASSUME ActivityInv, NEW w \in Accounts
    PROVE  LET clusters == {S \in SUBSET OwnRecent(w) :
                              /\ Cardinality(S) = SpikeCount
                              /\ \A f, g \in S : f.traded_at - g.traded_at <= SpikeWindow}
               events == SpikeEvents(w) IN
             /\ events # {} <=> clusters # {}
             /\ \A e \in events :
                  /\ e.count >= SpikeCount
                  /\ \A S \in clusters : \E f \in S : f.traded_at <= e.timestamp
  BY DEF SpikeIffCluster
<1> DEFINE R == OwnRecent(w)
           T == NewestFirst(R)
           clusters == {S \in SUBSET R :
                          /\ Cardinality(S) = SpikeCount
                          /\ \A f, g \in S : f.traded_at - g.traded_at <= SpikeWindow}
<1>1. Dated(R)
  BY RecentPart
<1>2. \A S : S \in clusters <=> Cluster(R, S)
  BY DEF Cluster
<1> HIDE DEF clusters, R
<1>3. SpikeEvents(w) # {} <=> clusters # {}
  <2>1. SpikeEvents(w) # {} <=> Spikes(T) # {}
    BY EventOfFirst DEF R
  <2>2. Spikes(T) # {} => clusters # {}
    BY <1>1, <1>2, SpikeHasCluster
  <2>3. clusters # {} => Spikes(T) # {}
    BY <1>1, <1>2, ClusterHasSpike
  <2> QED BY <2>1, <2>2, <2>3
<1>4. ASSUME NEW e \in SpikeEvents(w)
      PROVE  /\ e.count >= SpikeCount
             /\ \A S \in clusters : \E f \in S : f.traded_at <= e.timestamp
  <2>1. PICK i \in Spikes(T) : /\ \A j \in Spikes(T) : i <= j
                               /\ e.timestamp = T[i]
                               /\ e.count = Cardinality({k \in DOMAIN T : T[i] - T[k] <= SpikeWindow})
    BY EventOfFirst DEF R
  <2>2. /\ e.count >= SpikeCount /\ \A k \in Spikes(T) : i <= k => T[i] >= T[k]
        /\ \A k \in Spikes(T) : T[k] \in Int
    <3>1. \A k \in Spikes(T) : T[k] \in Int
      BY <1>1, SpikeIndex, NewestFirstOrder
    <3>2. Cardinality({k \in DOMAIN T : T[i] - T[k] <= SpikeWindow}) >= SpikeCount
          /\ \A k \in Spikes(T) : i <= k => T[i] >= T[k]
      BY <1>1, SpikeCounts
    <3> QED BY <2>1, <3>1, <3>2
  <2>3. ASSUME NEW S \in clusters  PROVE \E f \in S : f.traded_at <= e.timestamp
    <3>1. Cluster(R, S)
      BY <1>2
    <3>2. PICK k \in Spikes(T) : \A f \in S : f.traded_at <= T[k]
      BY <1>1, <3>1, ClusterHasSpike
    <3>3. PICK f \in S : TRUE
      BY <3>1, FS_EmptySet, ActivityAssumption DEF Cluster
    <3>4. f.traded_at \in Int /\ f.traded_at <= T[k] /\ T[i] >= T[k] /\ T[i] \in Int /\ T[k] \in Int
      BY <1>1, <2>1, <2>2, <3>1, <3>2, <3>3 DEF Cluster, Dated
    <3> HIDE DEF T
    <3> QED BY <2>1, <3>4
  <2> QED BY <2>2, <2>3
<1> QED BY <1>3, <1>4 DEF clusters, R

LEMMA ActivityEntries == ActivityInv => NewMarketIsFirst
<1> SUFFICES ASSUME ActivityInv, Cardinality(TheDay) <= RecentLimit,
                    NEW f \in NewMarketEvents, NEW g \in fills,
                    f.wallet = g.wallet, f.condition = g.condition
    PROVE  f.traded_at <= g.traded_at
  BY DEF NewMarketIsFirst
<1>1. Recent = TheDay /\ g.traded_at \in Int /\ Cutoff \in Int
  BY RecentPart DEF Dated
<1>2. ~(g.traded_at < Cutoff)
  BY DEF NewMarketEvents
<1>3. g \in Recent
  BY <1>1, <1>2 DEF TheDay
<1> QED BY <1>3 DEF NewMarketEvents

LEMMA ActivityViews == ActivityInv => ViewsAgree
<1> SUFFICES ASSUME ActivityInv, NEW w \in Accounts
    PROVE  LET today == DayOf(clock) IN
             /\ Heat(w, today) <= LastDay(w)
             /\ LastDay(w) <= Heat(w, today) + Heat(w, today - 1)
             /\ SpikeEvents(w) # {} /\ SpikeCount >= 3 => ActivityLevel(w) \in {"Medium", "High"}
  BY DEF ViewsAgree
<1> DEFINE today == DayOf(clock)
           last == {f \in fills : f.wallet = w /\ f.traded_at >= Cutoff}
           heat(d) == {f \in fills : f.wallet = w /\ DayOf(f.traded_at) = d}
<1>1. /\ IsFiniteSet(fills) /\ clock \in Int /\ DayLength \in Nat \ {0} /\ Cutoff = clock - DayLength
      /\ \A f \in fills : f.traded_at \in Int /\ f.traded_at <= clock
  BY RecentPart DEF ActivityInv, ActivityTypeOK, Dated, Cutoff
<1>2. /\ IsFiniteSet(last) /\ Cardinality(last) \in Nat
      /\ \A d : IsFiniteSet(heat(d)) /\ Cardinality(heat(d)) \in Nat
  <2>1. last \subseteq fills /\ \A d : heat(d) \subseteq fills
    OBVIOUS
  <2> HIDE DEF last, heat
  <2> QED BY <1>1, <2>1, FS_Subset, FS_CardinalityType
<1>3. /\ LastDay(w) = Cardinality(last) /\ Heat(w, today) = Cardinality(heat(today))
      /\ Heat(w, today - 1) = Cardinality(heat(today - 1))
  BY DEF LastDay, Heat
<1>4. ASSUME NEW t \in Int, t <= clock
      PROVE  /\ DayOf(t) = today => t >= Cutoff
             /\ t >= Cutoff => DayOf(t) \in {today, today - 1}
  <2> DEFINE D == DayLength
             q == t \div D
             r == t % D
             p == clock \div D
             s == clock % D
  <2>1. /\ q \in Int /\ r \in 0..(D - 1) /\ t = D * q + r
        /\ p \in Int /\ s \in 0..(D - 1) /\ clock = D * p + s
    BY <1>1, DivMod
  <2>2. DayOf(t) = q /\ today = p
    BY DEF DayOf
  <2> HIDE DEF q, r, p, s, D
  <2>3. D \in Nat \ {0} /\ Cutoff = clock - D
    BY <1>1 DEF D
  <2> DEFINE k == p - q
  <2>4. k \in Int /\ D * p = D * q + D * k /\ D * p \in Int /\ D * q \in Int /\ D * k \in Int
    BY <2>1, <2>3
  <2>5. clock - t = D * k + (s - r)
    BY <2>1, <2>3, <2>4
  <2> HIDE DEF k
  <2>6. k = 0 => D * k = 0
    BY <2>3
  <2>7. k >= 2 => D * k >= 2 * D
    BY <2>3, <2>4
  <2>8. k <= -1 => D * k <= -D
    BY <2>3, <2>4
  <2>9. q = p => t >= Cutoff
    <3>1. q = p => k = 0
      BY <2>1 DEF k
    <3> QED BY <1>1, <2>1, <2>3, <2>5, <2>6, <3>1
  <2>10. t >= Cutoff => k \in {0, 1}
    BY <1>1, <1>4, <2>1, <2>3, <2>4, <2>5, <2>7, <2>8
  <2>11. k \in {0, 1} => q \in {p, p - 1}
    BY <2>1 DEF k
  <2> QED BY <2>2, <2>9, <2>10, <2>11
<1>5. heat(today) \subseteq last /\ last \subseteq heat(today) \cup heat(today - 1)
  <2>1. \A f \in fills : /\ DayOf(f.traded_at) = today => f.traded_at >= Cutoff
                         /\ f.traded_at >= Cutoff => DayOf(f.traded_at) \in {today, today - 1}
    BY <1>1, <1>4
  <2> HIDE DEF today
  <2> QED BY <2>1
<1>6. Cardinality(heat(today)) <= Cardinality(last)
  <2> HIDE DEF heat, last, today
  <2> QED BY <1>2, <1>5, FS_Subset
<1>7. Cardinality(last) <= Cardinality(heat(today)) + Cardinality(heat(today - 1))
  <2> DEFINE A == heat(today)
             B == heat(today - 1)
  <2>1. IsFiniteSet(A) /\ IsFiniteSet(B) /\ Cardinality(A) \in Nat /\ Cardinality(B) \in Nat
        /\ last \subseteq A \cup B
    BY <1>2, <1>5
  <2> HIDE DEF A, B, last
  <2>2. /\ IsFiniteSet(A \cup B) /\ IsFiniteSet(A \cap B) /\ Cardinality(A \cap B) \in Nat
        /\ Cardinality(A \cup B) = Cardinality(A) + Cardinality(B) - Cardinality(A \cap B)
    BY <2>1, FS_Union, FS_Intersection, FS_CardinalityType
  <2>3. Cardinality(last) <= Cardinality(A \cup B)
    BY <2>1, <2>2, FS_Subset
  <2>4. Cardinality(last) <= Cardinality(A) + Cardinality(B)
    BY <1>2, <2>1, <2>2, <2>3
  <2> QED BY <2>4 DEF A, B
<1>8. SpikeEvents(w) # {} => SpikeCount <= LastDay(w)
  <2>1. SUFFICES ASSUME SpikeEvents(w) # {}  PROVE SpikeCount <= Cardinality(last)
    BY <1>3
  <2>2. PICK i \in Spikes(NewestFirst(OwnRecent(w))) : TRUE
    BY <2>1, EventOfFirst
  <2>3. Cardinality(OwnRecent(w)) \in Nat /\ SpikeCount <= Cardinality(OwnRecent(w))
    BY <2>2, RecentPart, SpikeIndex
  <2>4. OwnRecent(w) \subseteq last
    BY RecentPart DEF OwnRecent, TheDay
  <2>5. Cardinality(OwnRecent(w)) <= Cardinality(last)
    <3> HIDE DEF last
    <3> QED BY <1>2, <2>4, FS_Subset
  <2> HIDE DEF last
  <2> QED BY <1>2, <2>3, <2>5, ActivityAssumption
<1>9. LastDay(w) >= 3 => ActivityLevel(w) \in {"Medium", "High"}
  BY <1>2, <1>3 DEF ActivityLevel
<1>10. SpikeEvents(w) # {} /\ SpikeCount >= 3 => ActivityLevel(w) \in {"Medium", "High"}
  <2>1. LastDay(w) \in Nat /\ SpikeCount \in Nat
    BY <1>2, <1>3, ActivityAssumption
  <2> QED BY <1>8, <1>9, <2>1
<1> QED BY <1>3, <1>6, <1>7, <1>10

LEMMA ActivityHolds == ActivitySpec => []ActivityInv
  BY ActivityInvInit, ActivityInvStep, PTL DEF ActivitySpec

\* Trades are stored with a time that has come, however late and out of order.
THEOREM ActivityTypeCorrect == ActivitySpec => []ActivityTypeOK
<1>1. ActivityInv => ActivityTypeOK
  BY DEF ActivityInv
<1> QED BY <1>1, ActivityHolds, PTL

\* A spike is announced if and only if so many recent trades lie within the window of
\* each other, an announced entry into a market is the first stored one, and spikes,
\* activity levels and the heatmap agree (detect_interesting_activity,
\* get_wallet_intelligence_summary and build_activity_heatmap in app/analytics.py).
THEOREM NoticedCorrect == ActivitySpec => []NoticedRightly
<1>1. ActivityInv => NoticedRightly
  BY ActivitySpikes, ActivityEntries, ActivityViews DEF NoticedRightly
<1> QED BY <1>1, ActivityHolds, PTL
-----------------------------------------------------------------------------
(* Copies *)


\* The keys of a table's rows, and its rows whatever their numbers.
KeysOf(t) == CASE t = "wallets" -> Addresses [] t = "trades" -> TradeKeys [] OTHER -> {Event}
RowsOf(t) == [id : Nat \ {0}, key : KeysOf(t)]

\* A database, and one with its sequences on the way through a copy.
Database(db) == /\ db = [t \in TableSet |-> db[t]]
                /\ \A t \in TableSet : db[t] \in SUBSET RowsOf(t)
AnyRow == [id : Nat \ {0}, key : Addresses \cup TradeKeys \cup {Event}]
Bulks  == [db : [TableSet -> SUBSET AnyRow], no : [TableSet -> Nat \ {0}], ok : BOOLEAN]
Sound(s) == s \in Bulks /\ Database(s.db) /\ Consistent(s.db)

\* What a row came for is there.
Taken(db, t, r) == IF t = "sync_events" THEN r.id \in Ids(db[t]) ELSE r.key \in Keys(db[t])

LEMMA CopyTables ==
  /\ TableSet = {"wallets", "trades", "sync_events"} /\ Len(Tables) = 3
  /\ Tables[1] = "wallets" /\ Tables[2] = "trades" /\ Tables[3] = "sync_events"
<1>1. DOMAIN Tables = 1..3
  BY DEF Tables
<1>2. Tables[1] = "wallets" /\ Tables[2] = "trades" /\ Tables[3] = "sync_events" /\ Len(Tables) = 3
  BY DEF Tables
<1> HIDE DEF Tables
<1>3. TableSet = {Tables[x] : x \in 1..3}
  BY <1>1 DEF TableSet, Range
<1>4. 1..3 = {1, 2, 3}
  OBVIOUS
<1> QED BY <1>2, <1>3, <1>4

LEMMA CopyRows == ASSUME NEW t \in TableSet  PROVE RowsOf(t) \subseteq AnyRow /\ RowOf(t) \subseteq RowsOf(t)
<1>1. KeysOf(t) \subseteq Addresses \cup TradeKeys \cup {Event}
  BY CopyTables DEF KeysOf
<1>2. 1..MaxId[t] \subseteq Nat \ {0}
  <2>1. MaxId[t] \in Int
    BY CopyTables, CopiesAssumption
  <2> QED BY <2>1
<1>3. RowOf(t) = [id : 1..MaxId[t], key : KeysOf(t)]
  BY DEF RowOf, KeysOf
<1> QED BY <1>1, <1>2, <1>3 DEF RowsOf, AnyRow

\* A row that fits and is not there yet.
LEMMA RowFits ==
  ASSUME NEW d \in [TableSet -> SUBSET AnyRow], Database(d), Consistent(d),
         NEW t \in TableSet, NEW n \in RowsOf(t), Fits(d, t, n),
         n.key # Event => n.key \notin Keys(d[t])
  PROVE  /\ [d EXCEPT ![t] = @ \cup {n}] \in [TableSet -> SUBSET AnyRow]
         /\ Database([d EXCEPT ![t] = @ \cup {n}]) /\ Consistent([d EXCEPT ![t] = @ \cup {n}])
<1> DEFINE db == [d EXCEPT ![t] = @ \cup {n}]
<1>1. \A u \in TableSet : d[u] \in SUBSET RowsOf(u)
  BY DEF Database
<1>2. /\ db[t] = d[t] \cup {n} /\ \A u \in TableSet \ {t} : db[u] = d[u]
      /\ db = [u \in TableSet |-> db[u]]
  OBVIOUS
<1>3. db \in [TableSet -> SUBSET AnyRow] /\ Database(db)
  BY <1>1, <1>2, CopyRows DEF Database
<1> HIDE DEF db
<1>4. n.id \notin Ids(d[t]) /\ (t = "trades" => OwnerOf[n.key] \in Keys(d["wallets"]))
  BY DEF Fits
<1>5. ASSUME NEW u \in TableSet, NEW x \in db[u], NEW y \in db[u],
             x.id = y.id \/ (x.key = y.key /\ x.key # Event)
      PROVE  x = y
  <2>1. CASE u # t \/ (x \in d[t] /\ y \in d[t])
    BY <1>2, <1>5, <2>1 DEF Consistent
  <2>2. ASSUME NEW z \in d[t]  PROVE z.id # n.id /\ ~(z.key = n.key /\ z.key # Event)
    BY <1>4 DEF Ids, Keys
  <2> QED BY <1>2, <1>5, <2>1, <2>2
<1>6. ASSUME NEW x \in db["trades"]  PROVE OwnerOf[x.key] \in Keys(db["wallets"])
  <2>1. Keys(d["wallets"]) \subseteq Keys(db["wallets"])
    BY <1>2, CopyTables DEF Keys
  <2>2. CASE x \in d["trades"]
    BY <2>1, <2>2 DEF Consistent
  <2>3. CASE x \notin d["trades"]
    <3>1. t = "trades" /\ x = n
      BY <1>2, <2>3, CopyTables
    <3> QED BY <1>4, <2>1, <3>1
  <2> QED BY <2>2, <2>3
<1>7. Consistent(db)
  BY <1>5, <1>6 DEF Consistent
<1> QED BY <1>3, <1>7 DEF db

\* The row that is put, and the sequences after it has its number.
NewRow(s, t, r, numbered) == IF numbered THEN r ELSE [r EXCEPT !.id = s.no[t]]
NewNo(s, t, numbered)     == IF numbered THEN s.no ELSE [s.no EXCEPT ![t] = @ + 1]

\* What becomes of a row, of which n is the row that is put.
RowPut(s, t, n, no, q) ==
  /\ Sound(q)
  /\ ~s.ok => q = s
  /\ s.ok => /\ q.no = no
             /\ q.ok => Taken(q.db, t, n)
             /\ ~q.ok => q.db = s.db /\ ~Fits(s.db, t, n)
  /\ \A u \in TableSet \ {t} : q.db[u] = s.db[u]
  /\ s.db[t] \subseteq q.db[t] /\ q.db[t] \subseteq s.db[t] \cup {n}

LEMMA PutRowCases ==
  ASSUME NEW s, Sound(s), NEW t \in TableSet, NEW r \in RowsOf(t), NEW numbered \in BOOLEAN
  PROVE  /\ RowPut(s, t, NewRow(s, t, r, numbered), NewNo(s, t, numbered), PutRow(s, t, r, numbered))
         /\ NewRow(s, t, r, numbered) \in RowsOf(t) /\ NewRow(s, t, r, numbered).key = r.key
         /\ NewRow(s, t, r, numbered).id = IF numbered THEN r.id ELSE s.no[t]
         /\ numbered => NewRow(s, t, r, numbered) = r
<1> DEFINE n == NewRow(s, t, r, numbered)
           no == NewNo(s, t, numbered)
           q == PutRow(s, t, r, numbered)
<1>1. /\ s.db \in [TableSet -> SUBSET AnyRow] /\ s.no \in [TableSet -> Nat \ {0}] /\ s.ok \in BOOLEAN
      /\ s = [db |-> s.db, no |-> s.no, ok |-> s.ok]
      /\ \A u \in TableSet : s.db[u] \in SUBSET RowsOf(u)
      /\ Consistent(s.db) /\ Database(s.db)
  BY DEF Sound, Bulks, Database
<1>2. r.id \in Nat \ {0} /\ r.key \in KeysOf(t) /\ r = [id |-> r.id, key |-> r.key]
  BY DEF RowsOf
<1>3. n = [id |-> IF numbered THEN r.id ELSE s.no[t], key |-> r.key]
  <2>1. [r EXCEPT !.id = s.no[t]] = [id |-> s.no[t], key |-> r.key]
    BY <1>2
  <2> QED BY <1>2, <2>1 DEF NewRow
<1>4. n \in RowsOf(t) /\ n.key = r.key /\ (n.id = IF numbered THEN r.id ELSE s.no[t]) /\ (numbered => n = r)
  BY <1>1, <1>2, <1>3 DEF RowsOf
<1>5. no \in [TableSet -> Nat \ {0}]
  BY <1>1 DEF NewNo
<1>6. Duplicate(s.db, t, n) <=> Taken(s.db, t, n)
  BY DEF Duplicate, Taken
<1>7. q = IF ~s.ok THEN s
          ELSE IF Duplicate(s.db, t, n) THEN [s EXCEPT !.no = no]
          ELSE IF Fits(s.db, t, n) THEN [s EXCEPT !.no = no, !.db[t] = @ \cup {n}]
          ELSE [s EXCEPT !.no = no, !.ok = FALSE]
  BY DEF PutRow, NewRow, NewNo
<1> HIDE DEF n, no, q
<1>8. CASE ~s.ok
  BY <1>4, <1>7, <1>8 DEF n, q, no, RowPut
<1>9. CASE s.ok /\ Duplicate(s.db, t, n)
  <2>1. q = [db |-> s.db, no |-> no, ok |-> s.ok]
    BY <1>1, <1>7, <1>9
  <2>2. q \in Bulks /\ Sound(q)
    BY <1>1, <1>5, <2>1 DEF Bulks, Sound
  <2> QED BY <1>4, <1>6, <1>9, <2>1, <2>2 DEF n, q, no, RowPut
<1>10. CASE s.ok /\ ~Duplicate(s.db, t, n) /\ ~Fits(s.db, t, n)
  <2>1. q = [db |-> s.db, no |-> no, ok |-> FALSE]
    BY <1>1, <1>7, <1>10
  <2>2. q \in Bulks /\ Sound(q)
    BY <1>1, <1>5, <2>1 DEF Bulks, Sound
  <2> QED BY <1>4, <1>6, <1>10, <2>1, <2>2 DEF n, q, no, RowPut
<1>11. CASE s.ok /\ ~Duplicate(s.db, t, n) /\ Fits(s.db, t, n)
  <2> DEFINE db == [s.db EXCEPT ![t] = @ \cup {n}]
  <2>1. q = [db |-> db, no |-> no, ok |-> s.ok]
    BY <1>1, <1>7, <1>11
  <2>2. db \in [TableSet -> SUBSET AnyRow] /\ Database(db) /\ Consistent(db)
    <3>1. n.key # Event => n.key \notin Keys(s.db[t])
      BY <1>4, <1>11, CopyTables DEF Duplicate, RowsOf, KeysOf
    <3> QED BY <1>1, <1>4, <1>11, <3>1, RowFits
  <2>3. db[t] = s.db[t] \cup {n} /\ \A u \in TableSet \ {t} : db[u] = s.db[u]
    BY <1>1
  <2> HIDE DEF db
  <2>8. q \in Bulks /\ Sound(q)
    BY <1>1, <1>5, <2>1, <2>2 DEF Bulks, Sound
  <2>9. Taken(q.db, t, n)
    BY <2>1, <2>3 DEF Taken, Ids, Keys
  <2> QED BY <1>4, <1>11, <2>1, <2>3, <2>8, <2>9 DEF n, q, no, RowPut
<1> QED BY <1>8, <1>9, <1>10, <1>11

\* A table on the way through a copy: base was there before, and the rows of S came.
Filled(base, t, R, numbered, S, s) ==
  /\ Sound(s)
  /\ \A u \in TableSet \ {t} : s.db[u] = base.db[u] /\ s.no[u] = base.no[u]
  /\ base.db[t] \subseteq s.db[t]
  /\ s.no[t] >= base.no[t] /\ s.no[t] <= base.no[t] + Cardinality(S)
  /\ numbered => s.db[t] \subseteq base.db[t] \cup S /\ s.no[t] = base.no[t]
  /\ ~numbered => \A r \in s.db[t] \ base.db[t] : r.id < s.no[t]
  /\ s.ok => base.ok /\ \A r \in S : Taken(s.db, t, r)
  /\ ~s.ok /\ base.ok /\ base.db[t] = {} /\ (\A r, q \in R : r.id = q.id => r = q) =>
       t = "trades" /\ \E r \in S : OwnerOf[r.key] \notin Keys(base.db["wallets"])

LEMMA PutStep ==
  ASSUME NEW base, Sound(base), NEW t \in TableSet, NEW R, R \subseteq RowsOf(t), IsFiniteSet(R),
         NEW numbered \in BOOLEAN, t = "sync_events" => numbered,
         NEW S \in SUBSET R, NEW m \in S, NEW s, Filled(base, t, R, numbered, S \ {m}, s)
  PROVE  Filled(base, t, R, numbered, S, PutRow(s, t, m, numbered))
<1> DEFINE n == NewRow(s, t, m, numbered)
           no == NewNo(s, t, numbered)
           q == PutRow(s, t, m, numbered)
           T == S \ {m}
<1>1. Sound(s) /\ m \in RowsOf(t) /\ Filled(base, t, R, numbered, T, s)
  BY DEF Filled
<1>2. /\ RowPut(s, t, n, no, q) /\ n \in RowsOf(t) /\ n.key = m.key
      /\ n.id = IF numbered THEN m.id ELSE s.no[t]
      /\ numbered => n = m
  BY <1>1, PutRowCases
<1>3. /\ IsFiniteSet(T) /\ Cardinality(T) \in Nat /\ Cardinality(S) = Cardinality(T) + 1
  <2>1. IsFiniteSet(S)
    BY FS_Subset
  <2>2. IsFiniteSet(S \ {m}) /\ Cardinality(S \ {m}) = Cardinality(S) - 1
    BY <2>1, FS_RemoveElement
  <2>3. Cardinality(S) \in Nat /\ Cardinality(S \ {m}) \in Nat
    BY <2>1, <2>2, FS_CardinalityType
  <2> QED BY <2>2, <2>3 DEF T
<1>4. /\ s.no \in [TableSet -> Nat \ {0}] /\ base.no[t] \in Nat /\ s.no[t] \in Nat
      /\ \A u \in TableSet \ {t} : no[u] = s.no[u]
      /\ no[t] = IF numbered THEN s.no[t] ELSE s.no[t] + 1
  BY <1>1 DEF Sound, Bulks, NewNo
<1> HIDE DEF n, no, q, T
<1>5. CASE ~s.ok
  <2>1. q = s
    BY <1>2, <1>5 DEF RowPut
  <2>2. T \subseteq S
    BY DEF T
  <2>3. s.no[t] <= base.no[t] + Cardinality(S)
    BY <1>1, <1>3, <1>4 DEF Filled
  <2>4. Filled(base, t, R, numbered, S, s)
    BY <1>1, <1>5, <2>2, <2>3 DEF Filled
  <2> QED BY <2>1, <2>4 DEF q
<1>6. CASE s.ok
  <2>1. /\ q.no = no /\ Sound(q) /\ \A u \in TableSet \ {t} : q.db[u] = s.db[u]
        /\ s.db[t] \subseteq q.db[t] /\ q.db[t] \subseteq s.db[t] \cup {n}
        /\ q.ok => Taken(q.db, t, n)
        /\ ~q.ok => q.db = s.db /\ ~Fits(s.db, t, n)
    BY <1>2, <1>6 DEF RowPut
  <2>2. \A u \in TableSet \ {t} : q.db[u] = base.db[u] /\ q.no[u] = base.no[u]
    BY <1>1, <1>4, <2>1 DEF Filled
  <2>3. q.no[t] >= base.no[t] /\ q.no[t] <= base.no[t] + Cardinality(S) /\ (numbered => q.no[t] = base.no[t])
    BY <1>1, <1>3, <1>4, <2>1 DEF Filled
  <2>4. numbered => q.db[t] \subseteq base.db[t] \cup S
    BY <1>1, <1>2, <2>1 DEF Filled, T
  <2>5. ASSUME ~numbered, NEW r \in q.db[t] \ base.db[t]  PROVE r.id < q.no[t]
    <3>1. s.db[t] \subseteq RowsOf(t) /\ q.no[t] = s.no[t] + 1
      BY <1>1, <1>4, <2>1, <2>5 DEF Sound, Database
    <3>2. CASE r \in s.db[t]
      <4>1. r.id < s.no[t] /\ r.id \in Nat
        BY <1>1, <2>5, <3>1, <3>2 DEF Filled, RowsOf
      <4> QED BY <1>4, <3>1, <4>1
    <3>3. CASE r = n
      BY <1>2, <1>4, <2>5, <3>1, <3>3
    <3> QED BY <2>1, <2>5, <3>2, <3>3
  <2>6. q.ok => base.ok /\ \A r \in S : Taken(q.db, t, r)
    <3>1. SUFFICES ASSUME q.ok, NEW r \in S  PROVE base.ok /\ Taken(q.db, t, r)
      BY <1>1, <1>6 DEF Filled
    <3>2. CASE r = m
      <4>1. Taken(q.db, t, n) /\ base.ok
        BY <1>1, <1>6, <2>1, <3>1 DEF Filled
      <4> QED BY <1>2, <3>2, <4>1 DEF Taken
    <3>3. CASE r # m
      <4>1. Taken(s.db, t, r) /\ base.ok
        BY <1>1, <1>6, <3>3 DEF Filled, T
      <4> QED BY <2>1, <4>1 DEF Taken, Ids, Keys
    <3> QED BY <3>2, <3>3
  <2>7. ASSUME ~q.ok, base.ok, base.db[t] = {}, \A x, y \in R : x.id = y.id => x = y
        PROVE  t = "trades" /\ \E r \in S : OwnerOf[r.key] \notin Keys(base.db["wallets"])
    <3>1. ~Fits(s.db, t, n)
      BY <2>1, <2>7
    <3>2. n.id \notin Ids(s.db[t])
      <4>1. SUFFICES ASSUME NEW x \in s.db[t], x.id = n.id  PROVE FALSE
        BY DEF Ids
      <4>2. CASE numbered
        <5>1. x \in T /\ m \in R /\ m \notin T /\ T \subseteq R
          BY <1>1, <2>7, <4>1, <4>2 DEF Filled, T
        <5>2. x.id = m.id
          BY <1>2, <4>1, <4>2
        <5> QED BY <2>7, <5>1, <5>2
      <4>3. CASE ~numbered
        <5>1. x.id < s.no[t] /\ x.id = s.no[t]
          BY <1>1, <1>2, <2>7, <4>1, <4>3 DEF Filled
        <5> QED BY <1>4, <5>1
      <4> QED BY <4>2, <4>3
    <3>3. t = "trades" /\ OwnerOf[m.key] \notin Keys(s.db["wallets"])
      BY <1>2, <3>1, <3>2 DEF Fits
    <3>4. s.db["wallets"] = base.db["wallets"]
      BY <1>1, <3>3, CopyTables DEF Filled
    <3> QED BY <3>3, <3>4
  <2>8. base.db[t] \subseteq q.db[t]
    BY <1>1, <2>1 DEF Filled
  <2>9. Filled(base, t, R, numbered, S, q)
    BY <2>1, <2>2, <2>3, <2>4, <2>5, <2>6, <2>7, <2>8 DEF Filled
  <2> QED BY <2>9 DEF q
<1>7. s.ok \in BOOLEAN
  BY <1>1 DEF Sound, Bulks
<1> QED BY <1>5, <1>6, <1>7

\* The row of a set that is taken last.
LastRow(S) == CHOOSE x \in S : \A y \in S : y.id <= x.id

LEMMA LastRowExists ==
  ASSUME NEW t \in TableSet, NEW S, S \subseteq RowsOf(t), IsFiniteSet(S), S # {}
  PROVE  LastRow(S) \in S
<1> DEFINE ids == [r \in S |-> r.id]
           I == {ids[r] : r \in S}
<1>1. IsFiniteSet(I)
  <2> HIDE DEF ids
  <2> QED BY FiniteImage
<1>2. I \in SUBSET Int /\ I # {}
  BY DEF RowsOf
<1>3. PICK i \in I : \A j \in I : i >= j
  <2> HIDE DEF I
  <2> QED BY <1>1, <1>2, FiniteExtremes
<1>4. PICK x \in S : x.id = i
  BY <1>3
<1>5. \A y \in S : y.id \in I /\ y.id \in Nat
  BY DEF RowsOf
<1>6. \A y \in S : y.id <= x.id
  BY <1>3, <1>4, <1>5
<1> QED BY <1>4, <1>6 DEF LastRow

\* What becomes of a table.
LEMMA PutTableFills ==
  ASSUME NEW base, Sound(base), NEW t \in TableSet, NEW R, R \subseteq RowsOf(t), IsFiniteSet(R),
         NEW numbered \in BOOLEAN, t = "sync_events" => numbered
  PROVE  Filled(base, t, R, numbered, R, PutTable(base, t, R, numbered))
<1> DEFINE V == {s \in Bulks : Sound(s)}
           step == [p \in (SUBSET R) \X V |-> IF p[1] = {} THEN base ELSE PutRow(p[2], t, LastRow(p[1]), numbered)]
           last == [S \in SUBSET R |-> LastRow(S)]
           Runs(g) == g = [S \in SUBSET R |-> IF S = {} THEN base
                                               ELSE PutRow(g[S \ {LastRow(S)}], t, LastRow(S), numbered)]
<1>1. base \in V
  BY DEF Sound
<1>2. ASSUME NEW S \in SUBSET R, S # {}  PROVE LastRow(S) \in S /\ LastRow(S) \in RowsOf(t)
  BY <1>2, FS_Subset, LastRowExists
<1>3. step \in [(SUBSET R) \X V -> V]
  <2>1. ASSUME NEW p \in (SUBSET R) \X V, p[1] # {}  PROVE PutRow(p[2], t, LastRow(p[1]), numbered) \in V
    <3>1. LastRow(p[1]) \in RowsOf(t) /\ Sound(p[2])
      BY <1>2, <2>1
    <3>2. Sound(PutRow(p[2], t, LastRow(p[1]), numbered))
      BY <3>1, PutRowCases DEF RowPut
    <3> QED BY <3>2 DEF Sound
  <2> HIDE DEF V
  <2> QED BY <1>1, <2>1
<1>4. PICK h : Loops(step, last, base, R, V, h)
  <2>1. \A S \in SUBSET R : S # {} => last[S] \in S
    BY <1>2
  <2> HIDE DEF step, last, V
  <2> QED BY <1>1, <1>3, <2>1, LoopsExist
<1>5. Runs(h)
  <2>1. ASSUME NEW S \in SUBSET R
        PROVE  h[S] = IF S = {} THEN base ELSE PutRow(h[S \ {LastRow(S)}], t, LastRow(S), numbered)
    <3>1. h[S] = IF S = {} THEN base ELSE step[<<S, h[S \ {last[S]}]>>]
      BY <1>4 DEF Loops
    <3>2. CASE S # {}
      <4> DEFINE r == S \ {LastRow(S)}
      <4>1. h[r] \in V /\ S \ {last[S]} = r
        BY <1>4 DEF Loops
      <4>2. step[<<S, h[r]>>] = PutRow(h[r], t, LastRow(S), numbered)
        <5> HIDE DEF r, V
        <5> QED BY <3>2, <4>1
      <4> HIDE DEF r, step, last
      <4> QED BY <3>1, <3>2, <4>1, <4>2 DEF r
    <3> QED BY <3>1, <3>2
  <2>2. h = [S \in SUBSET R |-> h[S]]
    BY <1>4 DEF Loops
  <2> QED BY <2>1, <2>2
<1> DEFINE g == CHOOSE g : Runs(g)
<1>6. Runs(g)
  <2> HIDE DEF Runs
  <2> QED BY <1>5
<1>7. PutTable(base, t, R, numbered) = g[R]
  BY DEF PutTable, LastRow
<1> HIDE DEF g
<1>8. Filled(base, t, R, numbered, R, g[R])
  <2> DEFINE P == {S \in SUBSET R : ~Filled(base, t, R, numbered, S, g[S])}
  <2>1. SUFFICES ASSUME P # {}  PROVE FALSE
    OBVIOUS
  <2>2. PICK S \in P : \A u \in P : u \subseteq S => u = S
    <3>1. P \in SUBSET SUBSET R
      OBVIOUS
    <3> HIDE DEF P
    <3> QED BY <2>1, <3>1, SmallestSet
  <2>3. g[S] = IF S = {} THEN base ELSE PutRow(g[S \ {LastRow(S)}], t, LastRow(S), numbered)
    BY <1>6
  <2>4. CASE S = {}
    <3>1. base.no[t] \in Nat /\ Cardinality({}) = 0 /\ base.ok \in BOOLEAN
      BY FS_EmptySet DEF Sound, Bulks
    <3>2. Filled(base, t, R, numbered, {}, base)
      BY <3>1 DEF Filled
    <3> QED BY <2>3, <2>4, <3>2
  <2>5. CASE S # {}
    <3> DEFINE m == LastRow(S)
    <3>1. m \in S
      BY <1>2, <2>5
    <3> HIDE DEF m
    <3>2. S \ {m} \notin P
      BY <2>2, <3>1
    <3>3. Filled(base, t, R, numbered, S \ {m}, g[S \ {m}])
      BY <3>2
    <3>4. Filled(base, t, R, numbered, S, PutRow(g[S \ {m}], t, m, numbered))
      BY <3>1, <3>3, PutStep
    <3>5. g[S] = PutRow(g[S \ {m}], t, m, numbered)
      BY <2>3, <2>5 DEF m
    <3> QED BY <3>4, <3>5
  <2> QED BY <2>4, <2>5
<1> QED BY <1>7, <1>8
-----------------------------------------------------------------------------
\* A stored database, and what was read of one.
Stored(db) ==
  /\ db \in [TableSet -> SUBSET AnyRow] /\ Database(db) /\ Consistent(db)
  /\ \A t \in TableSet : db[t] \subseteq RowOf(t)
CopiesInv ==
  /\ rows = [s \in Sites |-> rows[s]] /\ \A s \in Sites : Stored(rows[s])
  /\ nextNo \in [TableSet -> Nat \ {0}] /\ \A t \in TableSet : nextNo[t] <= MaxNo + 1
  /\ file = [t \in TableSet |-> file[t]]
  /\ \A t \in TableSet : file[t] \subseteq RowOf(t) /\ \A r, q \in file[t] : r.id = q.id => r = q
  /\ reading \in 0..(Len(Tables) + 1) /\ outcome \in {"none", "ok", "failed"}

LEMMA StoredEmpty == Stored(Empty)
<1>1. \A t \in TableSet : Empty[t] = {}
  BY DEF Empty
<1>2. Empty = [t \in TableSet |-> Empty[t]] /\ Empty \in [TableSet -> SUBSET AnyRow]
  BY <1>1 DEF Empty
<1> QED BY <1>1, <1>2, CopyTables DEF Stored, Database, Consistent

LEMMA CopiesInvInit == CopiesInit => CopiesInv
<1> SUFFICES ASSUME CopiesInit  PROVE CopiesInv
  OBVIOUS
<1>1. rows = [s \in Sites |-> rows[s]] /\ \A s \in Sites : rows[s] = Empty
  BY DEF CopiesInit
<1>2. nextNo \in [TableSet -> Nat \ {0}] /\ \A t \in TableSet : nextNo[t] <= MaxNo + 1
  BY CopiesAssumption DEF CopiesInit
<1>3. file = [t \in TableSet |-> file[t]] /\ \A t \in TableSet : file[t] = {}
  BY DEF CopiesInit, Empty
<1> QED BY <1>1, <1>2, <1>3, StoredEmpty, CopyTables DEF CopiesInv, CopiesInit

\* Numbered rows are finitely many.
LEMMA NumberedFinite ==
  ASSUME NEW t \in TableSet, NEW R, R \subseteq RowOf(t), \A r, q \in R : r.id = q.id => r = q
  PROVE  IsFiniteSet(R)
<1> DEFINE f == [r \in R |-> r.id]
<1>1. MaxId[t] \in Nat
  BY CopyTables, CopiesAssumption
<1>2. IsFiniteSet(1..MaxId[t])
  BY <1>1, FS_Interval
<1>3. f \in Injection(R, 1..MaxId[t])
  BY DEF Injection, IsInjective, RowOf
<1> QED BY <1>2, <1>3, FS_Injection

\* A copy as a whole.
LEMMA PutAllFills ==
  ASSUME CopiesInv, NEW numbered, "sync_events" \in numbered
  PROVE  /\ Sound(PutAll(numbered))
         /\ \A t \in TableSet : rows["new"][t] \subseteq PutAll(numbered).db[t]
         /\ PutAll(numbered).ok =>
              \A t \in TableSet : \A r \in file[t] : Taken(PutAll(numbered).db, t, r)
         /\ ~PutAll(numbered).ok /\ rows["new"] = Empty =>
              \E r \in file["trades"] : OwnerOf[r.key] \notin Keys(file["wallets"])
<1> DEFINE nw == "wallets" \in numbered
           nt == "trades" \in numbered
           ne == "sync_events" \in numbered
           s == [db |-> rows["new"], no |-> nextNo, ok |-> TRUE]
           w == PutTable(s, "wallets", file["wallets"], nw)
           x == PutTable(w, "trades", file["trades"], nt)
           y == PutTable(x, "sync_events", file["sync_events"], ne)
<1>1. PutAll(numbered) = y
  BY DEF PutAll
<1>2. Sound(s) /\ s.db = rows["new"] /\ s.ok
  BY DEF CopiesInv, Stored, Sound, Bulks, Sites
<1>3. /\ "wallets" \in TableSet /\ "trades" \in TableSet /\ "sync_events" \in TableSet
      /\ \A t \in TableSet : t \in {"wallets", "trades", "sync_events"}
  BY CopyTables
<1>4. \A t \in TableSet : /\ file[t] \subseteq RowsOf(t) /\ IsFiniteSet(file[t])
                         /\ \A r, q \in file[t] : r.id = q.id => r = q
  BY CopyRows, NumberedFinite DEF CopiesInv
<1>0. nw \in BOOLEAN /\ nt \in BOOLEAN /\ ne \in BOOLEAN /\ ne
  OBVIOUS
<1> HIDE DEF s, nw, nt, ne
<1>5. Filled(s, "wallets", file["wallets"], nw, file["wallets"], w)
  <2>1. "wallets" # "sync_events"
    OBVIOUS
  <2>2. Filled(s, "wallets", file["wallets"], nw, file["wallets"], PutTable(s, "wallets", file["wallets"], nw))
    BY <1>0, <1>2, <1>3, <1>4, <2>1, PutTableFills
  <2> QED BY <2>2
<1>6. Sound(w)
  BY <1>5 DEF Filled
<1> HIDE DEF w
<1>7. Filled(w, "trades", file["trades"], nt, file["trades"], x)
  <2>1. "trades" # "sync_events"
    OBVIOUS
  <2>2. Filled(w, "trades", file["trades"], nt, file["trades"], PutTable(w, "trades", file["trades"], nt))
    BY <1>0, <1>3, <1>4, <1>6, <2>1, PutTableFills
  <2> QED BY <2>2
<1>8. Sound(x)
  BY <1>7 DEF Filled
<1> HIDE DEF x
<1>9. Filled(x, "sync_events", file["sync_events"], ne, file["sync_events"], y)
  <2>1. Filled(x, "sync_events", file["sync_events"], ne, file["sync_events"],
               PutTable(x, "sync_events", file["sync_events"], ne))
    BY <1>0, <1>3, <1>4, <1>8, PutTableFills
  <2> QED BY <2>1
<1> HIDE DEF y
<1>10. /\ s.db["wallets"] \subseteq w.db["wallets"] /\ x.db["wallets"] = w.db["wallets"]
       /\ y.db["wallets"] = w.db["wallets"]
       /\ w.db["trades"] = s.db["trades"] /\ w.db["trades"] \subseteq x.db["trades"]
       /\ y.db["trades"] = x.db["trades"]
       /\ w.db["sync_events"] = s.db["sync_events"] /\ x.db["sync_events"] = s.db["sync_events"]
       /\ x.db["sync_events"] \subseteq y.db["sync_events"]
  BY <1>3, <1>5, <1>7, <1>9 DEF Filled
<1>11. Sound(y) /\ \A t \in TableSet : rows["new"][t] \subseteq y.db[t]
  BY <1>2, <1>3, <1>9, <1>10 DEF Filled
<1>12. ASSUME y.ok, NEW t \in TableSet, NEW r \in file[t]  PROVE Taken(y.db, t, r)
  <2>1. x.ok /\ w.ok
    BY <1>7, <1>9, <1>12 DEF Filled
  <2>2. (t = "wallets" => Taken(w.db, t, r)) /\ (t = "trades" => Taken(x.db, t, r))
        /\ (t = "sync_events" => Taken(y.db, t, r))
    BY <1>5, <1>7, <1>9, <1>12, <2>1 DEF Filled
  <2> QED BY <1>3, <1>10, <2>2 DEF Taken
<1>13. ASSUME ~y.ok, rows["new"] = Empty
       PROVE  \E r \in file["trades"] : OwnerOf[r.key] \notin Keys(file["wallets"])
  <2>1. s.db["wallets"] = {} /\ s.db["trades"] = {} /\ s.db["sync_events"] = {}
    BY <1>2, <1>3, <1>13 DEF Empty
  <2>2. w.ok
    BY <1>2, <1>3, <1>4, <1>5, <2>1 DEF Filled
  <2>3. ~x.ok
    BY <1>3, <1>4, <1>9, <1>10, <1>13, <2>1 DEF Filled
  <2>4. PICK r \in file["trades"] : OwnerOf[r.key] \notin Keys(w.db["wallets"])
    BY <1>3, <1>4, <1>7, <1>10, <2>1, <2>2, <2>3 DEF Filled
  <2>5. Keys(file["wallets"]) \subseteq Keys(w.db["wallets"])
    BY <1>5, <2>2 DEF Filled, Taken, Keys
  <2> QED BY <2>4, <2>5
<1> QED BY <1>1, <1>11, <1>12, <1>13
-----------------------------------------------------------------------------
LEMMA CopiesAdd ==
  ASSUME CopiesInv, NEW s \in Sites, NEW t \in TableSet, NEW k \in KeysOf(t), AddTo(s, t, k)
  PROVE  CopiesInv'
<1> DEFINE d  == rows[s]
           no == IF s = "old" THEN Max(Ids(d[t]) \cup {0}) + 1 ELSE nextNo[t]
           n  == [id |-> no, key |-> k]
           e  == [d EXCEPT ![t] = @ \cup {n}]
<1>1. /\ no <= MaxId[t] /\ (k # Event => k \notin Keys(d[t]))
      /\ rows' = IF Fits(d, t, n) THEN [rows EXCEPT ![s][t] = @ \cup {n}] ELSE rows
      /\ nextNo' = IF s = "new" THEN [nextNo EXCEPT ![t] = @ + 1] ELSE nextNo
      /\ file' = file /\ reading' = reading /\ outcome' = outcome
  BY DEF AddTo
<1>2. /\ d \in [TableSet -> SUBSET AnyRow] /\ Database(d) /\ Consistent(d)
      /\ \A u \in TableSet : d[u] \subseteq RowOf(u)
      /\ rows = [z \in Sites |-> rows[z]] /\ \A z \in Sites : Stored(rows[z])
      /\ nextNo \in [TableSet -> Nat \ {0}] /\ \A u \in TableSet : nextNo[u] <= MaxNo + 1
  BY DEF CopiesInv, Stored
<1>3. MaxId[t] \in Nat /\ MaxNo \in Nat /\ MaxId[t] <= MaxNo
  BY CopyTables, CopiesAssumption
<1>4. no \in Nat \ {0}
  <2>1. CASE s = "old"
    <3> DEFINE I == Ids(d[t]) \cup {0}
    <3>1. I \in SUBSET (0..MaxId[t]) /\ I # {}
      BY <1>2, <1>3 DEF Ids, RowOf
    <3>2. IsFiniteSet(I) /\ I \in SUBSET Nat
      <4> HIDE DEF I
      <4>1. IsFiniteSet(0..MaxId[t])
        <5>1. 0 \in Int /\ MaxId[t] \in Int
          BY <1>3
        <5> QED BY <5>1, FS_Interval
      <4>2. IsFiniteSet(I)
        BY <3>1, <4>1, FS_Subset
      <4>3. I \in SUBSET Nat
        <5>1. 0..MaxId[t] \subseteq Nat
          BY <1>3
        <5> QED BY <3>1, <5>1
      <4> QED BY <4>2, <4>3
    <3> HIDE DEF I
    <3>3. PICK m \in I : \A x \in I : m >= x
      BY <3>1, <3>2, FiniteExtremes
    <3>4. Max(I) \in I
      BY <3>3 DEF Max
    <3>5. Max(I) \in Nat
      BY <3>2, <3>4
    <3> QED BY <2>1, <3>5 DEF I
  <2>2. CASE s # "old"
    BY <1>2, <2>2
  <2> QED BY <2>1, <2>2
<1> HIDE DEF no
<1>5. n \in RowOf(t) /\ n \in RowsOf(t) /\ n.key = k
  BY <1>1, <1>3, <1>4 DEF RowOf, RowsOf, KeysOf
<1> HIDE DEF n, d
<1>6. rows' = [z \in Sites |-> rows'[z]] /\ \A z \in Sites : Stored(rows'[z])
  <2>1. CASE Fits(d, t, n)
    <3>1. rows' = [rows EXCEPT ![s] = e] 
      BY <1>1, <2>1 DEF d
    <3>2. e \in [TableSet -> SUBSET AnyRow] /\ Database(e) /\ Consistent(e)
      BY <1>1, <1>2, <1>5, <2>1, RowFits
    <3>3. \A u \in TableSet : e[u] \subseteq RowOf(u)
      BY <1>2, <1>5
    <3> HIDE DEF e
    <3>4. Stored(e)
      BY <3>2, <3>3 DEF Stored
    <3> QED BY <1>2, <3>1, <3>4
  <2>2. CASE ~Fits(d, t, n)
    BY <1>1, <1>2, <2>2
  <2> QED BY <2>1, <2>2
<1>7. nextNo' \in [TableSet -> Nat \ {0}] /\ \A u \in TableSet : nextNo'[u] <= MaxNo + 1
  <2>1. CASE s = "new"
    <3>1. nextNo[t] <= MaxId[t]
      BY <1>1, <2>1 DEF no
    <3>2. nextNo' = [nextNo EXCEPT ![t] = @ + 1]
      BY <1>1, <2>1
    <3>3. nextNo' \in [TableSet -> Nat \ {0}] /\ nextNo'[t] = nextNo[t] + 1
          /\ \A u \in TableSet \ {t} : nextNo'[u] = nextNo[u]
      BY <1>2, <3>2
    <3> QED BY <1>2, <1>3, <3>1, <3>3
  <2> QED BY <1>1, <1>2, <2>1
<1> QED BY <1>1, <1>6, <1>7 DEF CopiesInv

LEMMA CopiesDelete ==
  ASSUME CopiesInv, NEW s \in Sites, NEW a \in Addresses, Delete(s, a)
  PROVE  CopiesInv'
<1> DEFINE d == rows[s]
           e == [d EXCEPT !["wallets"] = {r \in @ : r.key # a}, !["trades"] = {r \in @ : OwnerOf[r.key] # a}]
<1>1. /\ d \in [TableSet -> SUBSET AnyRow] /\ Database(d) /\ Consistent(d)
      /\ \A u \in TableSet : d[u] \subseteq RowOf(u)
      /\ rows = [z \in Sites |-> rows[z]] /\ \A z \in Sites : Stored(rows[z])
  BY DEF CopiesInv, Stored
<1>2. rows' = [rows EXCEPT ![s] = e] /\ file' = file /\ reading' = reading /\ outcome' = outcome
      /\ nextNo' = nextNo
  BY <1>1 DEF Delete
<1>3. /\ e \in [TableSet -> SUBSET AnyRow] /\ \A u \in TableSet : e[u] \subseteq d[u]
      /\ e["wallets"] = {r \in d["wallets"] : r.key # a}
      /\ e["trades"] = {r \in d["trades"] : OwnerOf[r.key] # a}
  BY <1>1, CopyTables
<1> HIDE DEF e, d
<1>4. Database(e) /\ \A u \in TableSet : e[u] \subseteq RowOf(u)
  BY <1>1, <1>3 DEF Database
<1>5. Consistent(e)
  <2>1. \A t \in TableSet : \A r, q \in e[t] : r.id = q.id \/ (r.key = q.key /\ r.key # Event) => r = q
    BY <1>1, <1>3 DEF Consistent
  <2>2. \A r \in e["trades"] : OwnerOf[r.key] \in Keys(e["wallets"])
    BY <1>1, <1>3 DEF Consistent, Keys
  <2> QED BY <2>1, <2>2 DEF Consistent
<1>6. Stored(e)
  BY <1>3, <1>4, <1>5 DEF Stored
<1>7. rows' = [z \in Sites |-> rows'[z]] /\ \A z \in Sites : Stored(rows'[z])
  BY <1>1, <1>2, <1>6
<1> QED BY <1>2, <1>7 DEF CopiesInv

\* A new deployment puts rows of its own into a table.
SeededBy(t, K) == PutTable([db |-> rows["new"], no |-> nextNo, ok |-> TRUE], t,
                           {[id |-> 1, key |-> k] : k \in K}, FALSE)

LEMMA SeedPut ==
  ASSUME CopiesInv, NEW t \in {"wallets", "trades"}, NEW K, K \subseteq KeysOf(t), IsFiniteSet(K),
         nextNo[t] + Cardinality(K) - 1 <= MaxId[t]
  PROVE  /\ SeededBy(t, K).no \in [TableSet -> Nat \ {0}]
         /\ \A u \in TableSet : SeededBy(t, K).no[u] <= MaxNo + 1
         /\ Stored(SeededBy(t, K).db)
<1> DEFINE s == [db |-> rows["new"], no |-> nextNo, ok |-> TRUE]
           fresh == [k \in K |-> [id |-> 1, key |-> k]]
           R == {fresh[k] : k \in K}
           put == SeededBy(t, K)
           x == put.no[t]
           y == nextNo[t]
           i == MaxId[t]
           card == Cardinality(K)
<1>1. t \in TableSet /\ t # "sync_events"
  BY CopyTables
<1>2. /\ Stored(rows["new"]) /\ rows = [z \in Sites |-> rows[z]] /\ \A z \in Sites : Stored(rows[z])
      /\ nextNo \in [TableSet -> Nat \ {0}] /\ \A u \in TableSet : nextNo[u] <= MaxNo + 1
  BY DEF CopiesInv, Sites
<1>3. Sound(s) /\ s.db = rows["new"] /\ s.no = nextNo
  BY <1>2 DEF Stored, Sound, Bulks
<1>4. IsFiniteSet(R) /\ Cardinality(R) <= Cardinality(K)
  <2> HIDE DEF fresh
  <2> QED BY FiniteImage
<1>5. R \subseteq RowsOf(t)
  BY DEF RowsOf
<1>6. put = PutTable(s, t, R, FALSE)
  <2>1. R = {[id |-> 1, key |-> k] : k \in K}
    OBVIOUS
  <2> HIDE DEF R
  <2> QED BY <2>1 DEF SeededBy
<1> HIDE DEF R, s, fresh, put
<1>7. Filled(s, t, R, FALSE, R, put)
  BY <1>1, <1>3, <1>4, <1>5, <1>6, PutTableFills
<1>8. /\ Sound(put) /\ \A u \in TableSet \ {t} : put.db[u] = s.db[u] /\ put.no[u] = s.no[u]
      /\ put.no[t] <= s.no[t] + Cardinality(R) /\ \A r \in put.db[t] \ s.db[t] : r.id < put.no[t]
  BY <1>7 DEF Filled
<1>9. /\ put.db \in [TableSet -> SUBSET AnyRow] /\ put.no \in [TableSet -> Nat \ {0}]
      /\ Database(put.db) /\ Consistent(put.db)
  BY <1>8 DEF Sound, Bulks
<1>10. Cardinality(R) \in Nat /\ card \in Nat /\ i \in Nat /\ MaxNo \in Nat /\ i <= MaxNo
  BY <1>1, <1>4, FS_CardinalityType, CopyTables, CopiesAssumption
<1>11. x \in Nat /\ y \in Nat /\ x <= y + Cardinality(R) /\ y + card - 1 <= i
  BY <1>1, <1>2, <1>3, <1>8, <1>9
<1>12. x <= i + 1 /\ x <= MaxNo + 1
  <2> HIDE DEF x, y, i, card
  <2>1. Cardinality(R) <= card
    BY <1>4 DEF card
  <2> QED BY <1>10, <1>11, <2>1
<1>13. \A u \in TableSet : put.no[u] <= MaxNo + 1
  BY <1>2, <1>3, <1>8, <1>12
<1>14. \A u \in TableSet : put.db[u] \subseteq RowOf(u)
  <2>1. \A u \in TableSet : rows["new"][u] \subseteq RowOf(u)
    BY <1>2 DEF Stored
  <2>2. ASSUME NEW r \in put.db[t] \ s.db[t]  PROVE r \in RowOf(t)
    <3>1. r \in RowsOf(t) /\ r.id < x
      BY <1>1, <1>8, <1>9, <2>2 DEF Database
    <3>2. r.id \in Nat \ {0}
      BY <3>1 DEF RowsOf
    <3> HIDE DEF x, i
    <3>3. r.id \in 1..i
      BY <1>10, <1>11, <1>12, <3>1, <3>2
    <3> QED BY <3>1, <3>3 DEF RowsOf, RowOf, KeysOf, i
  <2> QED BY <1>3, <1>8, <2>1, <2>2
<1> QED BY <1>9, <1>13, <1>14 DEF Stored, put

LEMMA CopiesSeed ==
  ASSUME CopiesInv, NEW t \in {"wallets", "trades"}, NEW K, K \subseteq KeysOf(t), IsFiniteSet(K),
         nextNo[t] + Cardinality(K) - 1 <= MaxId[t],
         rows' = (IF SeededBy(t, K).ok THEN [rows EXCEPT !["new"] = SeededBy(t, K).db] ELSE rows),
         nextNo' = SeededBy(t, K).no, file' = file, reading' = reading, outcome' = outcome
  PROVE  CopiesInv'
<1> DEFINE put == SeededBy(t, K)
<1>1. /\ put.no \in [TableSet -> Nat \ {0}] /\ \A u \in TableSet : put.no[u] <= MaxNo + 1
      /\ Stored(put.db)
  BY SeedPut
<1>2. rows = [z \in Sites |-> rows[z]] /\ \A z \in Sites : Stored(rows[z])
  BY DEF CopiesInv
<1> HIDE DEF put
<1>3. rows' = (IF put.ok THEN [rows EXCEPT !["new"] = put.db] ELSE rows) /\ nextNo' = put.no
  BY DEF put
<1>4. rows' = [z \in Sites |-> rows'[z]] /\ \A z \in Sites : Stored(rows'[z])
  BY <1>1, <1>2, <1>3
<1> QED BY <1>1, <1>3, <1>4 DEF CopiesInv

\* A copy that is put into the new database.
LEMMA CopiesApply ==
  ASSUME CopiesInv, NEW numbered, "sync_events" \in numbered, Apply(numbered)
  PROVE  CopiesInv' /\ CopyIsWhole
<1> DEFINE put == PutAll(numbered)
<1>1. /\ Sound(put)
      /\ \A t \in TableSet : rows["new"][t] \subseteq put.db[t]
      /\ put.ok => \A t \in TableSet : \A r \in file[t] : Taken(put.db, t, r)
      /\ ~put.ok /\ rows["new"] = Empty =>
           \E r \in file["trades"] : OwnerOf[r.key] \notin Keys(file["wallets"])
  BY PutAllFills
<1>2. /\ rows' = (IF put.ok THEN [rows EXCEPT !["new"] = put.db] ELSE rows)
      /\ nextNo' = put.no /\ file' = file /\ reading' = reading
      /\ \A t \in TableSet : nextNo'[t] <= MaxNo + 1 /\ \A r \in rows'["new"][t] : r.id <= MaxId[t]
      /\ outcome' = IF put.ok THEN "ok" ELSE "failed"
  BY DEF Apply
<1> HIDE DEF put
<1>3. /\ put.db \in [TableSet -> SUBSET AnyRow] /\ put.no \in [TableSet -> Nat \ {0}]
      /\ Database(put.db) /\ Consistent(put.db)
  BY <1>1 DEF Sound, Bulks
<1>4. rows = [z \in Sites |-> rows[z]] /\ (\A z \in Sites : Stored(rows[z])) /\ "new" \in Sites
  BY DEF CopiesInv, Sites
<1>5. put.ok => rows'["new"] = put.db /\ Stored(put.db)
  <2>1. SUFFICES ASSUME put.ok  PROVE rows'["new"] = put.db /\ Stored(put.db)
    OBVIOUS
  <2>2. rows'["new"] = put.db
    BY <1>2, <1>4, <2>1
  <2>3. ASSUME NEW t \in TableSet, NEW r \in put.db[t]  PROVE r \in RowOf(t)
    <3>1. r \in RowsOf(t) /\ r.id <= MaxId[t]
      BY <1>2, <1>3, <2>2, <2>3 DEF Database
    <3>2. MaxId[t] \in Nat
      BY CopyTables, CopiesAssumption
    <3>3. r.id \in 1..MaxId[t]
      BY <3>1, <3>2 DEF RowsOf
    <3> QED BY <3>1, <3>3 DEF RowsOf, RowOf, KeysOf
  <2> QED BY <1>3, <2>2, <2>3 DEF Stored
<1>6. rows' = [z \in Sites |-> rows'[z]] /\ \A z \in Sites : Stored(rows'[z])
  BY <1>2, <1>4, <1>5
<1>7. CopiesInv'
  BY <1>2, <1>3, <1>6 DEF CopiesInv
<1>8. \A s \in Sites : Consistent(rows'[s])
  BY <1>6 DEF Stored
<1>9. ASSUME outcome' = "ok"  PROVE Complete' /\ \A t \in TableSet : rows["new"][t] \subseteq rows'["new"][t]
  <2>1. put.ok /\ rows'["new"] = put.db
    BY <1>2, <1>5, <1>9
  <2>2. \A t \in TableSet : \A r \in file[t] : Taken(rows'["new"], t, r)
    BY <1>1, <2>1
  <2>3. \A t \in {"wallets", "trades"} : Keys(file[t]) \subseteq Keys(rows'["new"][t])
    BY <2>2, CopyTables DEF Taken, Keys
  <2>4. Ids(file["sync_events"]) \subseteq Ids(rows'["new"]["sync_events"])
    BY <2>2, CopyTables DEF Taken, Ids
  <2>5. Complete'
    BY <1>2, <2>3, <2>4 DEF Complete, Keys, Ids
  <2> QED BY <1>1, <2>1, <2>5
<1>10. ASSUME outcome' = "failed", rows["new"] = Empty
       PROVE  \E r \in file["trades"] : OwnerOf[r.key] \notin Keys(file["wallets"])
  BY <1>1, <1>2, <1>10
<1> QED BY <1>7, <1>8, <1>9, <1>10 DEF CopyIsWhole

\* The other steps, and no step.
LEMMA CopiesStep == CopiesInv /\ [CopiesNext]_copyVars => CopiesInv' /\ CopyIsWhole
<1> SUFFICES ASSUME CopiesInv, [CopiesNext]_copyVars  PROVE CopiesInv' /\ CopyIsWhole
  OBVIOUS
<1>1. /\ "wallets" \in TableSet /\ "trades" \in TableSet /\ "sync_events" \in TableSet
      /\ KeysOf("wallets") = Addresses /\ KeysOf("trades") = TradeKeys /\ KeysOf("sync_events") = {Event}
      /\ "old" \in Sites /\ "new" \in Sites
  BY CopyTables DEF KeysOf, Sites
<1>2. ASSUME CopiesInv', outcome' \in {outcome, "none"}  PROVE CopyIsWhole
  BY <1>2 DEF CopiesInv, Stored, CopyIsWhole
<1>3. ASSUME NEW s \in Sites, NEW t \in TableSet, NEW k \in KeysOf(t), AddTo(s, t, k)
      PROVE  CopiesInv' /\ CopyIsWhole
  <2>1. CopiesInv'
    BY <1>3, CopiesAdd
  <2> QED BY <1>2, <1>3, <2>1 DEF AddTo
<1>4. ASSUME NEW a \in Addresses, Delete("old", a)  PROVE CopiesInv' /\ CopyIsWhole
  <2>1. CopiesInv'
    BY <1>1, <1>4, CopiesDelete
  <2> QED BY <1>2, <1>4, <2>1 DEF Delete
<1>5. CASE SeedTrades
  <2> DEFINE K == {k \in TradeKeys : OwnerOf[k] \in Keys(rows["new"]["wallets"])}
  <2>1. K \subseteq KeysOf("trades") /\ IsFiniteSet(K)
    BY <1>1, CopiesAssumption, FS_Subset
  <2>2. /\ nextNo["trades"] + Cardinality(K) - 1 <= MaxId["trades"]
        /\ rows' = (IF SeededBy("trades", K).ok THEN [rows EXCEPT !["new"] = SeededBy("trades", K).db] ELSE rows)
        /\ nextNo' = SeededBy("trades", K).no /\ file' = file /\ reading' = reading /\ outcome' = outcome
    BY <1>5 DEF SeedTrades, SeededBy
  <2> HIDE DEF K
  <2>3. CopiesInv'
    BY <2>1, <2>2, CopiesSeed
  <2> QED BY <1>2, <2>2, <2>3
<1>6. CASE SeedWatchlist
  <2> DEFINE K == SeedWallets \ Keys(rows["new"]["wallets"])
  <2>1. K \subseteq KeysOf("wallets") /\ IsFiniteSet(K)
    BY <1>1, CopiesAssumption, FS_Subset
  <2>2. /\ nextNo["wallets"] + Cardinality(K) - 1 <= MaxId["wallets"]
        /\ rows' = (IF SeededBy("wallets", K).ok THEN [rows EXCEPT !["new"] = SeededBy("wallets", K).db] ELSE rows)
        /\ nextNo' = SeededBy("wallets", K).no /\ file' = file /\ reading' = reading /\ outcome' = outcome
    BY <1>6 DEF SeedWatchlist, SeededBy
  <2> HIDE DEF K
  <2>3. CopiesInv'
    BY <2>1, <2>2, CopiesSeed
  <2> QED BY <1>2, <2>2, <2>3
<1>7. CASE StartCopy
  <2>1. file' = [t \in TableSet |-> file'[t]] /\ \A t \in TableSet : file'[t] = {}
    BY <1>7 DEF StartCopy, Empty
  <2>2. CopiesInv'
    BY <1>7, <2>1, CopyTables DEF StartCopy, CopiesInv
  <2> QED BY <1>2, <1>7, <2>2 DEF StartCopy
<1>8. CASE ReadTable
  <2>1. reading \in 1..3 /\ Tables[reading] \in TableSet /\ reading' \in 0..4
    BY <1>8, CopyTables DEF ReadTable
  <2> DEFINE t == Tables[reading]
  <2>2. rows["old"][t] \subseteq RowOf(t) /\ \A r, q \in rows["old"][t] : r.id = q.id => r = q
    BY <1>1, <2>1 DEF CopiesInv, Stored, Consistent
  <2>3. file' = [file EXCEPT ![t] = rows["old"][t]]
    BY <1>8 DEF ReadTable
  <2>4. /\ file' = [u \in TableSet |-> file'[u]] /\ file'[t] = rows["old"][t]
        /\ \A u \in TableSet \ {t} : file'[u] = file[u]
    BY <2>1, <2>3 DEF CopiesInv
  <2> HIDE DEF t
  <2>5. \A u \in TableSet : file'[u] \subseteq RowOf(u) /\ \A r, q \in file'[u] : r.id = q.id => r = q
    BY <2>2, <2>4 DEF CopiesInv
  <2>6. CopiesInv'
    <3>1. reading' \in 0..(Len(Tables) + 1)
      BY <2>1, CopyTables
    <3>2. rows' = rows /\ nextNo' = nextNo /\ outcome' = outcome
      BY <1>8 DEF ReadTable
    <3>3. /\ rows' = [s \in Sites |-> rows'[s]] /\ \A s \in Sites : Stored(rows'[s])
          /\ nextNo' \in [TableSet -> Nat \ {0}] /\ \A u \in TableSet : nextNo'[u] <= MaxNo + 1
          /\ outcome' \in {"none", "ok", "failed"}
      BY <3>2 DEF CopiesInv
    <3> QED BY <2>4, <2>5, <3>1, <3>3 DEF CopiesInv
  <2> QED BY <1>2, <1>8, <2>6 DEF ReadTable
<1>9. CASE Import
  BY <1>1, <1>9, CopiesApply DEF Import
<1>10. CASE Migrate
  BY <1>10, CopiesApply DEF Migrate
<1>11. CASE UNCHANGED copyVars
  <2>1. CopiesInv'
    BY <1>11 DEF copyVars, CopiesInv
  <2> QED BY <1>2, <1>11, <2>1 DEF copyVars
<1> QED
  <2>1. CASE \E a \in Addresses : AddTo("old", "wallets", a) \/ Delete("old", a)
    BY <1>1, <1>3, <1>4, <2>1
  <2>2. CASE \E k \in TradeKeys : AddTo("old", "trades", k)
    BY <1>1, <1>3, <2>2
  <2>3. CASE \E s \in Sites : AddTo(s, "sync_events", Event)
    BY <1>1, <1>3, <2>3
  <2> QED BY <1>5, <1>6, <1>7, <1>8, <1>9, <1>10, <1>11, <2>1, <2>2, <2>3 DEF CopiesNext

LEMMA CopiesHolds == CopiesSpec => [](CopiesInv) /\ CopiedWhole
<1>1. CopiesInv /\ [CopiesNext]_copyVars => [CopyIsWhole]_copyVars
  BY CopiesStep
<1> QED BY CopiesInvInit, CopiesStep, <1>1, PTL DEF CopiesSpec, CopiedWhole
-----------------------------------------------------------------------------
\* What is stored, read and numbered is well typed (app/backup.py,
\* scripts/migrate_to_postgres.py).
THEOREM CopiesTypeCorrect == CopiesSpec => []CopiesTypeOK
<1>1. CopiesInv => CopiesTypeOK
  <2>1. ASSUME CopiesInv, NEW t \in TableSet  PROVE nextNo[t] \in 1..(MaxNo + 1)
    BY <2>1, CopiesAssumption DEF CopiesInv
  <2> QED BY <2>1 DEF CopiesInv, Stored, CopiesTypeOK
<1> QED BY <1>1, CopiesHolds, PTL

\* Keys and numbers stay unique and trades keep their wallets in both databases; a copy
\* that reports success has everything it read and has taken nothing away, and one into
\* an empty database fails only for a trade without its wallet (import_backup_payload
\* in app/backup.py, _copy_table in scripts/migrate_to_postgres.py).
THEOREM CopiedCorrect == CopiesSpec => CopiedWhole
  BY CopiesHolds
-----------------------------------------------------------------------------
(* All of them *)

\* Each part runs by its own specification, or rests.
LEMMA PartsRun ==
  Spec => /\ ReportsSpec /\ PerformanceSpec /\ ActivitySpec /\ NotableSpec /\ OutcomeSpec
          /\ ScoresSpec /\ AnalysesSpec /\ ToldSpec /\ CopiesSpec
<1>1. Init => /\ ReportsInit /\ PerformanceInit /\ ActivityInit /\ NotableInit /\ OutcomeInit
              /\ ScoresInit /\ AnalysesInit /\ ToldInit /\ CopiesInit
  BY DEF Init
<1>2. [Next]_allVars => /\ [ReportsNext]_reportVars /\ [PerformanceNext]_performanceVars
                        /\ [ActivityNext]_activityVars /\ [NotableNext]_notableVars
                        /\ [OutcomeNext]_outcomeVars /\ [ScoresNext]_sample
                        /\ [AnalysesNext]_allAnalysisVars /\ [ToldNext]_told
                        /\ [CopiesNext]_copyVars
  BY DEF Next, allVars
<1> QED
  BY <1>1, <1>2, PTL DEF Spec, ReportsSpec, PerformanceSpec, ActivitySpec, NotableSpec,
     OutcomeSpec, ScoresSpec, AnalysesSpec, ToldSpec, CopiesSpec

\* Every variable of every part has its type, whatever the parts do.
THEOREM DataTypeCorrect == Spec => []TypesOK
  BY PartsRun, ReportsTypeCorrect, PerformanceTypeCorrect, ActivityTypeCorrect, NotableTypeCorrect,
     OutcomeTypeCorrect, ScoresTypeCorrect, AnalysesTypeCorrect, ToldTypeCorrect, CopiesTypeCorrect,
     PTL DEF TypesOK
=============================================================================
