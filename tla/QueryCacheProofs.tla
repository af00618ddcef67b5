-------------------------- MODULE QueryCacheProofs --------------------------
(***************************************************************************)
(* Theorems about QueryCache.  An entry expires one TTL after the call     *)
(* that computed it, and its query came after that call, so the value is   *)
(* at least as new as the data was at expires - TTL: that is what makes    *)
(* staleness bounded although a late Save may undo an invalidation.        *)
(***************************************************************************)
EXTENDS QueryCache, TLAPS

LEMMA TypeInit == Init => TypeOK
BY CacheAssumption DEF CacheAssumption, Init, TypeOK, NoEntry, Entry

LEMMA TypeNext == TypeOK /\ [Next]_vars => TypeOK'
<1> SUFFICES ASSUME TypeOK, [Next]_vars  PROVE TypeOK'
  OBVIOUS
<1> USE CacheAssumption DEF CacheAssumption, TypeOK
<1>1. CASE Tick
  <2>1. clock' \in 0..MaxClock /\ before' \in [0..MaxClock -> 0..MaxVersion]
    BY <1>1 DEF Tick
  <2> QED BY <1>1, <2>1 DEF Tick, reader
<1>2. ASSUME NEW p \in Procs, Call(p) \/ Miss(p) \/ Return(p)  PROVE TypeOK'
  <2>1. pc' \in [Procs -> {"idle", "lookup", "compute", "save", "done"}]
    BY <1>2 DEF Call, Miss, Return
  <2>2. now' = now \/ now' = [now EXCEPT ![p] = clock]
    BY <1>2 DEF Call, Miss, Return
  <2>3. need' = need \/ need' = [need EXCEPT ![p] = promised[p]]
    BY <1>2 DEF Call, Miss, Return
  <2>4. now' \in [Procs -> 0..MaxClock]
    BY <2>2
  <2>5. need' \in [Procs -> 0..MaxVersion]
    BY <2>3
  <2> QED BY <1>2, <2>1, <2>4, <2>5 DEF Call, Miss, Return, data
<1>8. ASSUME NEW p \in Procs, Compute(p)  PROVE TypeOK'
  <2>1. pc' \in [Procs -> {"idle", "lookup", "compute", "save", "done"}]
    BY <1>8 DEF Compute
  <2>2. got' = got \/ got' = [got EXCEPT ![p] = version]
    BY <1>8 DEF Compute
  <2>3. raced' = raced \/ raced' = [raced EXCEPT ![p] = FALSE]
    BY <1>8 DEF Compute
  <2>4. got' \in [Procs -> 0..MaxVersion]
    BY <2>2
  <2>5. raced' \in [Procs -> BOOLEAN]
    BY <2>3
  <2> QED BY <1>8, <2>1, <2>4, <2>5 DEF Compute, data
<1>9. ASSUME NEW p \in Procs, SilentChange(p)  PROVE TypeOK'
  <2>1. version' \in 0..MaxVersion
    BY <1>9 DEF SilentChange
  <2> QED BY <1>9, <2>1 DEF SilentChange, reader
<1>3. ASSUME NEW p \in Procs, Hit(p)  PROVE TypeOK'
  BY <1>3 DEF Hit, data, Entry
<1>4. ASSUME NEW p \in Procs, Save(p)  PROVE TypeOK'
  <2>1. [expires |-> now[p] + TTL, value |-> got[p], raced |-> raced[p]] \in Entry
    BY DEF Entry
  <2> QED BY <1>4, <2>1 DEF Save, data
<1>5. ASSUME NEW w \in Refreshers, CommitChange(w)  PROVE TypeOK'
  BY <1>5 DEF CommitChange, reader
<1>6. ASSUME NEW w \in Refreshers, Invalidate(w)  PROVE TypeOK'
  <2>1. NoEntry \in Entry
    BY DEF NoEntry, Entry
  <2>2. raced' \in [Procs -> BOOLEAN]
    BY <1>6 DEF Invalidate
  <2> QED BY <1>6, <2>1, <2>2 DEF Invalidate, data
<1>7. CASE UNCHANGED vars
  BY <1>7 DEF vars
<1> QED BY <1>1, <1>2, <1>3, <1>4, <1>5, <1>6, <1>7, <1>8, <1>9 DEF Next

\* Every reachable state has the types the module declares.
THEOREM TypeCorrect == Spec => []TypeOK
<1> QED BY TypeInit, TypeNext, PTL DEF Spec

\* All times and versions are natural numbers.
LEMMA Numbers ==
  ASSUME TypeOK
  PROVE  /\ clock \in Nat /\ version \in Nat /\ TTL \in Nat /\ TTL >= 1
         /\ \A c \in 0..clock : before[c] \in Nat
         /\ \A p \in Procs : /\ now[p] \in Nat /\ got[p] \in Nat
                             /\ need[p] \in Nat /\ promised[p] \in Nat
                             /\ store[p].expires \in Nat /\ store[p].value \in Nat
         /\ \A w \in Refreshers : committed[w] \in Nat
<1> USE CacheAssumption DEF CacheAssumption, TypeOK
<1>1. clock \in Nat /\ version \in Nat /\ TTL \in Nat /\ TTL >= 1
  OBVIOUS
<1>2. \A c \in 0..clock : c \in 0..MaxClock
  OBVIOUS
<1>3. \A c \in 0..clock : before[c] \in Nat
  BY <1>2
<1>4. \A p \in Procs : now[p] \in Nat /\ got[p] \in Nat /\ need[p] \in Nat /\ promised[p] \in Nat
  OBVIOUS
<1>5. \A p \in Procs : store[p].expires \in Nat /\ store[p].value \in Nat
  BY DEF Entry
<1>6. \A w \in Refreshers : committed[w] \in Nat
  OBVIOUS
<1> QED BY <1>1, <1>3, <1>4, <1>5, <1>6
-----------------------------------------------------------------------------
\* The past is a growing sequence of versions, and a value is never older than
\* the call it was computed for.
StaleInv ==
  /\ TypeOK
  /\ \A c \in 0..clock : before[c] <= version
  /\ \A c, d \in 0..clock : c <= d => before[c] <= before[d]
  /\ \A p \in Procs : now[p] <= clock
  /\ \A p \in Procs : store[p].expires > 0 =>
       /\ store[p].expires - TTL \in 0..clock
       /\ store[p].value >= before[store[p].expires - TTL]
  /\ \A p \in Procs : pc[p] = "save" => got[p] >= before[now[p]]
  /\ BoundedStaleness

LEMMA StaleNext == StaleInv /\ [Next]_vars => StaleInv'
<1> SUFFICES ASSUME StaleInv, [Next]_vars  PROVE StaleInv'
  OBVIOUS
<1>0. TypeOK /\ TypeOK'
  BY TypeNext DEF StaleInv
<1> USE Numbers DEF StaleInv, BoundedStaleness
<1>1. CASE Tick
  <2>1. clock' = clock + 1 /\ before' = [before EXCEPT ![clock + 1] = version]
        /\ UNCHANGED <<version, store, reader>>
    BY <1>1 DEF Tick
  <2>2. \A c \in 0..clock : before'[c] = before[c]
    BY <1>0, <2>1 DEF TypeOK
  <2>3. before'[clock'] = version
    BY <1>0, <2>1 DEF TypeOK
  <2>4. \A c, d \in 0..clock' : c <= d => before'[c] <= before'[d]
    BY <1>0, <2>1, <2>2, <2>3 DEF TypeOK
  <2>5. \A c \in 0..clock' : before'[c] <= version'
    BY <1>0, <2>1, <2>2, <2>3 DEF TypeOK
  <2>6. \A p \in Procs : pc[p] = "done" /\ now[p] >= TTL => now[p] - TTL + 1 \in 0..clock
    BY <1>0
  <2>7. \A p \in Procs : now[p] \in 0..clock /\ now[p] <= clock'
    BY <1>0, <2>1
  <2>8. 0..clock \subseteq 0..clock'
    BY <1>0, <2>1
  <2> QED BY <1>0, <2>1, <2>2, <2>4, <2>5, <2>6, <2>7, <2>8 DEF reader
<1>2. ASSUME NEW p \in Procs, Call(p) \/ Miss(p) \/ Return(p)  PROVE StaleInv'
  <2>1. clock \in Nat
    BY <1>0
  <2>2. CASE Call(p)
    <3>1. now' = [now EXCEPT ![p] = clock] /\ pc' = [pc EXCEPT ![p] = "lookup"]
          /\ UNCHANGED <<data, store, got>>
      BY <2>2 DEF Call
    <3>2. \A q \in Procs : pc'[q] \in {"save", "done"} => pc'[q] = pc[q] /\ now'[q] = now[q]
      BY <1>0, <3>1 DEF TypeOK
    <3>3. \A q \in Procs : now'[q] <= clock
      BY <1>0, <2>1, <3>1 DEF TypeOK
    <3> QED BY <1>0, <3>1, <3>2, <3>3 DEF data
  <2>3. CASE Miss(p) \/ Return(p)
    <3>1. \A q \in Procs : pc'[q] \in {"save", "done"} => pc'[q] = pc[q]
      BY <1>0, <2>3 DEF Miss, Return, TypeOK
    <3>2. UNCHANGED <<data, store, now, got>>
      BY <2>3 DEF Miss, Return
    <3> QED BY <1>0, <3>1, <3>2 DEF data
  <2> QED BY <1>2, <2>2, <2>3
<1>3. ASSUME NEW p \in Procs, SilentChange(p)  PROVE StaleInv'
  <2>1. UNCHANGED <<clock, before, store, reader>> /\ version' = version + 1
    BY <1>3 DEF SilentChange
  <2>2. \A c \in 0..clock : before[c] <= version + 1
    BY <1>0
  <2> QED BY <1>0, <2>1, <2>2 DEF reader
<1>4. ASSUME NEW p \in Procs, Compute(p)  PROVE StaleInv'
  <2>1. now[p] \in 0..clock
    BY <1>0
  <2>2. before[now[p]] <= version
    BY <2>1
  <2> QED BY <1>0, <1>4, <2>2 DEF Compute, data, TypeOK
<1>5. ASSUME NEW p \in Procs, Hit(p)  PROVE StaleInv'
  <2>1. /\ store[p].expires > now[p]
        /\ got' = [got EXCEPT ![p] = store[p].value]
        /\ pc' = [pc EXCEPT ![p] = "done"]
        /\ UNCHANGED <<data, store, now>>
    BY <1>5 DEF Hit, Fresh
  <2>2. now[p] \in 0..clock /\ store[p].expires \in Nat /\ store[p].value \in Nat
    BY <1>0
  <2>3. store[p].expires - TTL \in 0..clock
        /\ store[p].value >= before[store[p].expires - TTL]
    BY <2>1, <2>2
  <2>4. ASSUME now[p] >= TTL  PROVE store[p].value >= before[now[p] - TTL + 1]
    <3>1. now[p] - TTL + 1 \in 0..clock /\ now[p] - TTL + 1 <= store[p].expires - TTL
      BY <1>0, <2>1, <2>2, <2>4
    <3>2. before[now[p] - TTL + 1] <= before[store[p].expires - TTL]
      BY <2>3, <3>1
    <3>3. before[now[p] - TTL + 1] \in Nat /\ before[store[p].expires - TTL] \in Nat
      BY <1>0, <2>3, <3>1
    <3> QED BY <2>2, <2>3, <3>2, <3>3
  <2> QED BY <1>0, <2>1, <2>4 DEF data, TypeOK
<1>6. ASSUME NEW p \in Procs, Save(p)  PROVE StaleInv'
  <2> DEFINE entry == [expires |-> now[p] + TTL, value |-> got[p], raced |-> raced[p]]
  <2>1. /\ pc[p] = "save" /\ pc' = [pc EXCEPT ![p] = "done"]
        /\ store' = [store EXCEPT ![p] = entry]
        /\ UNCHANGED <<data, now, got>>
    BY <1>6 DEF Save
  <2>2. now[p] \in 0..clock /\ got[p] \in Nat /\ got[p] >= before[now[p]]
    BY <1>0, <2>1 DEF TypeOK
  <2>3. entry.expires - TTL = now[p] /\ entry.value = got[p]
    BY <2>2
  <2>4. ASSUME now[p] >= TTL  PROVE got[p] >= before[now[p] - TTL + 1]
    <3>1. now[p] - TTL + 1 \in 0..clock /\ now[p] - TTL + 1 <= now[p]
      BY <1>0, <2>2, <2>4
    <3>2. before[now[p] - TTL + 1] <= before[now[p]]
      BY <2>2, <3>1
    <3>3. before[now[p] - TTL + 1] \in Nat /\ before[now[p]] \in Nat
      BY <1>0, <2>2, <3>1
    <3> QED BY <2>2, <3>2, <3>3
  <2> HIDE DEF entry
  <2> QED BY <1>0, <2>1, <2>2, <2>3, <2>4 DEF data, TypeOK
<1>7. ASSUME NEW w \in Refreshers, CommitChange(w)  PROVE StaleInv'
  <2>1. UNCHANGED <<clock, before, store, reader>> /\ version' = version + 1
    BY <1>7 DEF CommitChange
  <2>2. \A c \in 0..clock : before[c] <= version + 1
    BY <1>0
  <2> QED BY <1>0, <2>1, <2>2 DEF reader
<1>8. ASSUME NEW w \in Refreshers, Invalidate(w)  PROVE StaleInv'
  <2>1. \A p \in Procs : store'[p] = store[p] \/ store'[p].expires = 0
    BY <1>0, <1>8 DEF Invalidate, NoEntry, TypeOK
  <2>2. UNCHANGED <<data, pc, now, got>>
    BY <1>8 DEF Invalidate
  <2>3. ~ (0 > 0)
    OBVIOUS
  <2> QED BY <1>0, <2>1, <2>2, <2>3 DEF data
<1>9. CASE UNCHANGED vars
  BY <1>0, <1>9 DEF vars
<1> QED BY <1>1, <1>2, <1>3, <1>4, <1>5, <1>6, <1>7, <1>8, <1>9 DEF Next

\* However many processes, slow queries, late stores and writers that do not
\* invalidate there are, no page shows data that was replaced a TTL ago.
THEOREM StalenessIsBounded == Spec => []BoundedStaleness
<1>1. Init => StaleInv
  <2>1. ASSUME Init  PROVE StaleInv
    <3>1. clock = 0 /\ version = 0 /\ \A c \in 0..0 : before[c] = 0
      BY <2>1, CacheAssumption DEF Init, CacheAssumption
    <3> QED BY <2>1, <3>1, TypeInit DEF Init, StaleInv, BoundedStaleness, NoEntry
  <2> QED BY <2>1
<1>2. StaleInv => BoundedStaleness
  BY DEF StaleInv
<1> QED BY <1>1, <1>2, StaleNext, PTL DEF Spec
-----------------------------------------------------------------------------
\* What a process keeps is as new as what it promised, or was computed across
\* an invalidation.
RaceInv ==
  /\ TypeOK
  /\ \A w \in Refreshers : committed[w] <= version
  /\ \A p \in Procs : need[p] <= promised[p] /\ promised[p] <= version
  /\ \A p \in Procs : store[p].expires > 0 => store[p].value >= promised[p] \/ store[p].raced
  /\ \A p \in Procs : pc[p] = "save" => got[p] >= promised[p] \/ raced[p]
  /\ FreshUnlessRaced

LEMMA RaceNext == RaceInv /\ [Next]_vars => RaceInv'
<1> SUFFICES ASSUME RaceInv, [Next]_vars  PROVE RaceInv'
  OBVIOUS
<1>0. TypeOK /\ TypeOK'
  BY TypeNext DEF RaceInv
<1> USE DEF RaceInv, FreshUnlessRaced
<1>1. CASE Tick
  BY <1>0, <1>1 DEF Tick, reader
<1>2. ASSUME NEW p \in Procs, Call(p) \/ Miss(p) \/ Return(p)  PROVE RaceInv'
  <2>1. CASE Call(p)
    <3>1. promised[p] \in Nat
      BY <1>0, Numbers
    <3> QED BY <1>0, <2>1, <3>1 DEF Call, data, TypeOK
  <2>2. CASE Miss(p) \/ Return(p)
    BY <1>0, <2>2 DEF Miss, Return, data, TypeOK
  <2> QED BY <1>2, <2>1, <2>2
<1>3. ASSUME NEW p \in Procs, SilentChange(p)  PROVE RaceInv'
  <2>1. /\ \A w \in Refreshers : committed[w] <= version + 1
        /\ \A q \in Procs : promised[q] <= version + 1
    BY <1>0, Numbers
  <2> QED BY <1>0, <1>3, <2>1 DEF SilentChange, reader
<1>4. ASSUME NEW p \in Procs, Compute(p)  PROVE RaceInv'
  <2>1. version >= promised[p]
    BY <1>0, Numbers
  <2> QED BY <1>0, <1>4, <2>1 DEF Compute, data, TypeOK
<1>5. ASSUME NEW p \in Procs, Hit(p)  PROVE RaceInv'
  <2>1. store[p].expires > 0
    BY <1>0, <1>5, Numbers DEF Hit, Fresh
  <2>2. store[p].value >= need[p] \/ store[p].raced
    BY <1>0, <2>1, Numbers
  <2> QED BY <1>0, <1>5, <2>2 DEF Hit, data, TypeOK
<1>6. ASSUME NEW p \in Procs, Save(p)  PROVE RaceInv'
  <2> DEFINE entry == [expires |-> now[p] + TTL, value |-> got[p], raced |-> raced[p]]
  <2>1. entry.value = got[p] /\ entry.raced = raced[p]
    OBVIOUS
  <2>2. store' = [store EXCEPT ![p] = entry] /\ pc[p] = "save"
        /\ pc' = [pc EXCEPT ![p] = "done"]
        /\ UNCHANGED <<data, now, got, raced, need, promised, committed>>
    BY <1>6 DEF Save
  <2>3. got[p] >= need[p] \/ raced[p]
    BY <1>0, <2>2, Numbers
  <2> HIDE DEF entry
  <2> QED BY <1>0, <2>1, <2>2, <2>3 DEF data, TypeOK
<1>7. ASSUME NEW w \in Refreshers, CommitChange(w)  PROVE RaceInv'
  <2>1. /\ \A v \in Refreshers : committed[v] <= version + 1
        /\ \A q \in Procs : promised[q] <= version + 1
        /\ version + 1 <= version + 1
    BY <1>0, Numbers
  <2> QED BY <1>0, <1>7, <2>1 DEF CommitChange, reader, TypeOK
<1>8. ASSUME NEW w \in Refreshers, Invalidate(w)  PROVE RaceInv'
  <2> DEFINE p == Home[w]
             next == IF promised[p] < committed[w] THEN committed[w] ELSE promised[p]
  <2>1. p \in Procs
    BY CacheAssumption DEF CacheAssumption
  <2>2. 0 <= version /\ ~ (0 > 0) /\ next <= version /\ need[p] <= next
    BY <1>0, <2>1, Numbers
  <2>3. promised' = [promised EXCEPT ![p] = next]
        /\ committed' = [committed EXCEPT ![w] = 0]
        /\ raced' = [raced EXCEPT ![p] = raced[p] \/ pc[p] = "save"]
        /\ store' = [store EXCEPT ![p] = NoEntry]
        /\ UNCHANGED <<data, pc, now, got, need>>
    BY <1>8 DEF Invalidate
  <2>4. NoEntry.expires = 0
    BY DEF NoEntry
  <2> HIDE DEF p, next
  <2>5. \A q \in Procs : raced[q] => raced'[q]
    BY <1>0, <2>1, <2>3 DEF TypeOK
  <2>6. \A q \in Procs \ {p} : promised'[q] = promised[q] /\ store'[q] = store[q]
    BY <1>0, <2>1, <2>3 DEF TypeOK
  <2>7. promised'[p] = next /\ store'[p].expires = 0 /\ (pc[p] = "save" => raced'[p])
    BY <1>0, <2>1, <2>3, <2>4 DEF TypeOK
  <2>8. \A v \in Refreshers : committed'[v] <= version
    BY <1>0, <2>2, <2>3 DEF TypeOK
  <2> QED BY <1>0, <2>2, <2>3, <2>5, <2>6, <2>7, <2>8 DEF data
<1>9. CASE UNCHANGED vars
  BY <1>0, <1>9 DEF vars
<1> QED BY <1>1, <1>2, <1>3, <1>4, <1>5, <1>6, <1>7, <1>8, <1>9 DEF Next

\* In the process of the refresh, the one way to be served data from before it
\* is a value that was being computed when the cache was invalidated.
THEOREM OnlyRacesAreStale == Spec => []FreshUnlessRaced
<1>1. Init => RaceInv
  BY TypeInit DEF Init, RaceInv, FreshUnlessRaced, NoEntry
<1>2. RaceInv => FreshUnlessRaced
  BY DEF RaceInv
<1> QED BY <1>1, <1>2, RaceNext, PTL DEF Spec
=============================================================================
