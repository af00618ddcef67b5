------------------------- MODULE ResolutionsProofs -------------------------
(***************************************************************************)
(* Proofs about Resolutions and the lock it runs under: types, that a      *)
(* result in the table is the market's, who can lose one, and when two     *)
(* backfills can run at once.  They hold for any markets, ranks, limits,   *)
(* refreshes and backfills, whoever is killed.                             *)
(***************************************************************************)
EXTENDS Resolutions, TLAPS

\* The lock's variables alone keep their types, whatever moves a stage.
LEMMA GotoType ==
  ASSUME LockTypeOK, NEW p \in Backfills,
         NEW next \in {"exists", "check", "stale", "retry", "created", "run",
                       "leave", "unlink", "over", "dead"},
         Goto(p, next)
  PROVE  stage' \in [Backfills -> {"new", "exists", "check", "stale", "retry", "created",
                                   "run", "leave", "unlink", "over", "dead"}]
  BY DEF LockTypeOK, Goto

LEMMA LockStepType ==
  ASSUME LockTypeOK, NEW p \in Backfills, Start(p) \/ LockStep(p)
  PROVE  LockTypeOK'
<1>1. stage' \in [Backfills -> {"new", "exists", "check", "stale", "retry", "created",
                                "run", "leave", "unlink", "over", "dead"}]
  BY GotoType DEF Start, LockStep, ReadPid, CheckPid, RemoveStale, Recreate, WritePid,
                  ReadOwn, RemoveOwn
<1>2. file' \in Backfills \cup {None}
  BY DEF LockTypeOK, Start, LockStep, ReadPid, CheckPid, RemoveStale, Recreate, WritePid,
         ReadOwn, RemoveOwn, Remove
<1>3. signed' \subseteq Backfills
  BY DEF LockTypeOK, Start, LockStep, ReadPid, CheckPid, RemoveStale, Recreate, WritePid,
         ReadOwn, RemoveOwn
<1>4. seen' \in [Backfills -> Backfills \cup {None}]
  BY DEF LockTypeOK, Start, LockStep, ReadPid, CheckPid, RemoveStale, Recreate, WritePid,
         ReadOwn, RemoveOwn
<1>5. stolen' \in BOOLEAN
  BY DEF LockTypeOK, Start, LockStep, ReadPid, CheckPid, RemoveStale, Recreate, WritePid,
         ReadOwn, RemoveOwn, Remove
<1> QED BY <1>1, <1>2, <1>3, <1>4, <1>5 DEF LockTypeOK

\* A lock step does not take a process out of its run, nor touch another one.
LEMMA LockStepStage ==
  ASSUME LockTypeOK, NEW p \in Backfills, Start(p) \/ LockStep(p)
  PROVE  /\ stage[p] # "run"
         /\ \A q \in Backfills \ {p} : stage'[q] = stage[q]
<1>1. stage[p] # "run"
  BY DEF Start, LockStep, ReadPid, CheckPid, RemoveStale, Recreate, WritePid, ReadOwn, RemoveOwn
<1>2. \A q \in Backfills \ {p} : stage'[q] = stage[q]
  BY DEF LockTypeOK, Goto, Start, LockStep, ReadPid, CheckPid, RemoveStale, Recreate,
         WritePid, ReadOwn, RemoveOwn
<1> QED BY <1>1, <1>2
-----------------------------------------------------------------------------
LEMMA TypeInit == Init => TypeOK
<1> SUFFICES ASSUME Init  PROVE TypeOK
  OBVIOUS
<1>1. LockTypeOK
  BY DEF Init, LockInit, LockTypeOK
<1>2. /\ market \in [Markets -> {"open", "YES", "NO", "unclear"}]
      /\ outcome \in [Markets -> Results \cup {"none"}]
  BY DEF Init
<1>3. /\ phase \in [Jobs -> {"idle", "ask", "store", "commit"}]
      /\ asked \in [Jobs -> Nat]
  BY DEF Init
<1>4. /\ todo \in [Jobs -> SUBSET Markets] /\ answer \in [Jobs -> SUBSET Answer]
      /\ unit \in [Jobs -> SUBSET Dirty]
  BY DEF Init
<1>5. \A p \in Backfills : phase[p] = "idle"
  BY DEF Init, Jobs
<1> QED BY <1>1, <1>2, <1>3, <1>4, <1>5 DEF TypeOK

LEMMA TypeNext == TypeOK /\ [Next]_vars => TypeOK'
<1> SUFFICES ASSUME TypeOK, [Next]_vars  PROVE TypeOK'
  OBVIOUS
<1>1. ASSUME NEW m \in Markets, Close(m)  PROVE TypeOK'
  BY <1>1, ResolutionsAssumption
  DEF Close, TypeOK, LockTypeOK, lock, loop, ResolutionsAssumption
<1>2. ASSUME NEW j \in Jobs, Select(j)  PROVE TypeOK'
  <2>1. PICK C \in SUBSET Markets : todo' = [todo EXCEPT ![j] = C]
    BY <1>2 DEF Select, First, Unresolved
  <2>2. todo' \in [Jobs -> SUBSET Markets]
    BY <2>1 DEF TypeOK
  <2>3. phase' \in [Jobs -> {"idle", "ask", "store", "commit"}]
    BY <1>2 DEF Select, TypeOK
  <2>4. \A p \in Backfills : phase'[p] # "idle" => stage'[p] = "run"
    BY <1>2, ResolutionsAssumption DEF Select, TypeOK, lock, Jobs, ResolutionsAssumption
  <2> QED BY <1>2, <2>2, <2>3, <2>4 DEF Select, TypeOK, LockTypeOK, lock, table
<1>3. ASSUME NEW j \in Jobs, Ask(j)  PROVE TypeOK'
  <2>1. todo' \in [Jobs -> SUBSET Markets]
    BY <1>3 DEF Ask, TypeOK
  <2>2. asked' \in [Jobs -> Nat]
    BY <1>3 DEF Ask, TypeOK
  <2>3. PICK m \in Markets :
          \/ /\ answer' = [answer EXCEPT ![j] = {[market |-> m, outcome |-> Parse(m)]}]
             /\ phase' = [phase EXCEPT ![j] = "store"]
          \/ UNCHANGED <<answer, phase>>
    BY <1>3 DEF Ask, TypeOK
  <2>4. [market |-> m, outcome |-> Parse(m)] \in Answer
    BY DEF Answer, Parse, Results
  <2>5. answer' \in [Jobs -> SUBSET Answer] /\ phase' \in [Jobs -> {"idle", "ask", "store", "commit"}]
    BY <2>3, <2>4 DEF TypeOK
  <2>6. phase[j] = "ask" /\ \A i \in Jobs \ {j} : phase'[i] = phase[i]
    BY <1>3, <2>3 DEF Ask, TypeOK
  <2>7. stage' = stage
    BY <1>3 DEF Ask, lock
  <2>8. \A p \in Backfills : phase'[p] # "idle" => stage'[p] = "run"
    BY <2>6, <2>7 DEF TypeOK, Jobs
  <2> QED BY <1>3, <2>1, <2>2, <2>5, <2>8 DEF Ask, TypeOK, LockTypeOK, lock, table
<1>4. ASSUME NEW j \in Jobs, Store(j)  PROVE TypeOK'
  <2>1. \A a \in answer[j] :
          [market |-> a.market, found |-> outcome[a.market], outcome |-> a.outcome] \in Dirty
    BY DEF TypeOK, Answer, Dirty
  <2>2. unit' \in [Jobs -> SUBSET Dirty]
    BY <1>4, <2>1 DEF Store, TypeOK
  <2>3. answer' \in [Jobs -> SUBSET Answer] /\ phase' \in [Jobs -> {"idle", "ask", "store", "commit"}]
    BY <1>4 DEF Store, TypeOK
  <2>4. \A p \in Backfills : phase'[p] # "idle" => stage'[p] = "run"
    BY <1>4 DEF Store, TypeOK, lock
  <2> QED BY <1>4, <2>2, <2>3, <2>4 DEF Store, TypeOK, LockTypeOK, lock, table
<1>5. ASSUME NEW j \in Jobs, Commit(j)  PROVE TypeOK'
  <2>1. \A u \in Written(j) : u.outcome \in Results
    BY DEF Written, TypeOK, Dirty
  <2>2. outcome' \in [Markets -> Results \cup {"none"}]
    BY <1>5, <2>1 DEF Commit, TypeOK
  <2>3. /\ unit' \in [Jobs -> SUBSET Dirty]
        /\ asked' \in [Jobs -> Nat]
        /\ phase' \in [Jobs -> {"idle", "ask", "store", "commit"}]
    BY <1>5 DEF Commit, TypeOK
  <2>4. LockTypeOK'
    BY <1>5, GotoType DEF Commit, TypeOK, LockTypeOK, lock
  <2>5. \A p \in Backfills : phase'[p] # "idle" => stage'[p] = "run"
    BY <1>5 DEF Commit, Goto, TypeOK, LockTypeOK, lock
  <2> QED BY <1>5, <2>2, <2>3, <2>4, <2>5 DEF Commit, TypeOK
<1>6. ASSUME NEW j \in Jobs, Reset(j), UNCHANGED <<file, signed, seen, stolen, market, outcome>>,
             \/ UNCHANGED stage /\ j \notin Backfills
             \/ j \in Backfills /\ (Goto(j, "leave") \/ Goto(j, "dead"))
      PROVE  TypeOK'
  <2>1. /\ unit' \in [Jobs -> SUBSET Dirty] /\ answer' \in [Jobs -> SUBSET Answer]
        /\ asked' \in [Jobs -> Nat] /\ todo' \in [Jobs -> SUBSET Markets]
        /\ phase' \in [Jobs -> {"idle", "ask", "store", "commit"}]
    BY <1>6 DEF Reset, TypeOK
  <2>2. LockTypeOK'
    BY <1>6, GotoType DEF TypeOK, LockTypeOK
  <2>3. \A p \in Backfills : phase'[p] # "idle" => stage'[p] = "run"
    BY <1>6 DEF Reset, Goto, TypeOK, LockTypeOK
  <2> QED BY <1>6, <2>1, <2>2, <2>3 DEF TypeOK
<1>7. ASSUME NEW j \in Jobs, Abort(j)  PROVE TypeOK'
  BY <1>6, <1>7 DEF Abort, lock, table
<1>8. ASSUME NEW p \in Backfills, Die(p)  PROVE TypeOK'
  BY <1>6, <1>8 DEF Die, table, Jobs
<1>9. ASSUME NEW p \in Backfills, Start(p) \/ LockStep(p), UNCHANGED <<table, loop>>
      PROVE  TypeOK'
  <2>1. LockTypeOK'
    BY <1>9, LockStepType DEF TypeOK
  <2>2. \A q \in Backfills : phase'[q] # "idle" => stage'[q] = "run"
    BY <1>9, LockStepStage DEF TypeOK, loop
  <2> QED BY <1>9, <2>1, <2>2 DEF TypeOK, table, loop
<1>10. CASE UNCHANGED vars
  BY <1>10 DEF vars, lock, TypeOK, LockTypeOK
<1> QED
  BY <1>1, <1>2, <1>3, <1>4, <1>5, <1>7, <1>8, <1>9, <1>10 DEF Next, Work

\* Every state is well typed, and a backfill works only between the writing of
\* its pid and its release.
THEOREM TypeCorrect == Spec => []TypeOK
<1> QED BY TypeInit, TypeNext, PTL DEF Spec
-----------------------------------------------------------------------------
\* What is known of the markets, in answers, in sessions and in the table, is
\* true of them: a market that has ended does not change.
Result(m, x) == x \in {"YES", "NO"} => market[m] = x

Truth ==
  /\ \A m \in Markets : Result(m, outcome[m])
  /\ \A j \in Jobs : /\ \A a \in answer[j] : Result(a.market, a.outcome)
                     /\ \A u \in unit[j] : Result(u.market, u.outcome) /\ Result(u.market, u.found)

TruthInv == TypeOK /\ Truth

LEMMA TruthNext == TruthInv /\ [Next]_vars => TruthInv'
<1> SUFFICES ASSUME TypeOK, Truth, [Next]_vars  PROVE Truth'
  BY TypeNext DEF TruthInv
<1>1. ASSUME NEW m \in Markets, Close(m)  PROVE Truth'
  <2>1. UNCHANGED <<outcome, answer, unit>>
    BY <1>1 DEF Close, loop
  <2>2. \A n \in Markets : market[n] # "open" => market'[n] = market[n]
    BY <1>1 DEF Close, TypeOK
  <2>3. ASSUME NEW n \in Markets, NEW x, Result(n, x)  PROVE Result(n, x)'
    BY <2>2, <2>3 DEF Result
  <2>4. \A j \in Jobs : /\ \A a \in answer[j] : a.market \in Markets
                        /\ \A u \in unit[j] : u.market \in Markets
    BY DEF TypeOK, Answer, Dirty
  <2> QED BY <2>1, <2>3, <2>4 DEF Truth, Result
<1>2. ASSUME NEW j \in Jobs, Select(j)  PROVE Truth'
  BY <1>2 DEF Select, table, Truth, Result
<1>3. ASSUME NEW j \in Jobs, Ask(j)  PROVE Truth'
  <2>1. PICK m \in Markets :
          \/ answer' = [answer EXCEPT ![j] = {[market |-> m, outcome |-> Parse(m)]}]
          \/ UNCHANGED answer
    BY <1>3 DEF Ask, TypeOK
  <2>2. UNCHANGED <<market, outcome, unit>>
    BY <1>3 DEF Ask, table
  <2>3. Result(m, Parse(m))
    BY DEF Result, Parse
  <2>4. \A i \in Jobs : \A a \in answer'[i] :
          a \in answer[i] \/ a = [market |-> m, outcome |-> Parse(m)]
    BY <2>1 DEF TypeOK
  <2> QED BY <2>2, <2>3, <2>4 DEF Truth, Result
<1>4. ASSUME NEW j \in Jobs, Store(j)  PROVE Truth'
  <2>1. UNCHANGED <<market, outcome>>
    BY <1>4 DEF Store, table
  <2>2. \A i \in Jobs : answer'[i] \subseteq answer[i]
    BY <1>4 DEF Store, TypeOK
  <2>3. \A i \in Jobs : \A u \in unit'[i] :
          \/ u \in unit[i]
          \/ \E a \in answer[i] :
               u = [market |-> a.market, found |-> outcome[a.market], outcome |-> a.outcome]
    BY <1>4 DEF Store, TypeOK
  <2>4. \A i \in Jobs : \A a \in answer[i] : a.market \in Markets
    BY DEF TypeOK, Answer
  <2> QED BY <2>1, <2>2, <2>3, <2>4 DEF Truth, Result
<1>5. ASSUME NEW j \in Jobs, Commit(j)  PROVE Truth'
  <2>1. UNCHANGED <<market, answer>> /\ \A i \in Jobs : unit'[i] \subseteq unit[i]
    BY <1>5 DEF Commit, TypeOK
  <2>2. \A m \in Markets :
          \/ outcome'[m] = outcome[m]
          \/ \E u \in unit[j] : u.market = m /\ outcome'[m] = u.outcome
    BY <1>5 DEF Commit, Written
  <2> QED BY <2>1, <2>2 DEF Truth, Result
<1>6. ASSUME NEW j \in Jobs, Reset(j), UNCHANGED table  PROVE Truth'
  <2>1. \A i \in Jobs : answer'[i] \subseteq answer[i] /\ unit'[i] \subseteq unit[i]
    BY <1>6 DEF Reset, TypeOK
  <2> QED BY <1>6, <2>1 DEF table, Truth, Result
<1>7. ASSUME NEW j \in Jobs, Abort(j)  PROVE Truth'
  BY <1>6, <1>7 DEF Abort
<1>8. ASSUME NEW p \in Backfills, Die(p)  PROVE Truth'
  BY <1>6, <1>8 DEF Die, table, Jobs
<1>9. CASE UNCHANGED <<table, loop>>
  BY <1>9 DEF table, loop, Truth, Result
<1> QED
  BY <1>1, <1>2, <1>3, <1>4, <1>5, <1>7, <1>8, <1>9 DEF Next, Work, vars, table, loop

LEMMA TruthInit == Init => TruthInv
  BY TypeInit DEF Init, TruthInv, Truth, Result

\* No result is ever made up, whichever jobs overlap, fail or are killed.
THEOREM ResultsCorrect == Spec => []NeverFabricated
<1>1. TruthInv => NeverFabricated
  BY DEF TruthInv, Truth, Result, NeverFabricated
<1> QED BY <1>1, TruthInit, TruthNext, PTL DEF Spec

LEMMA LostStep ==
  ASSUME TruthInv, [Next]_vars, NEW m \in Markets,
         outcome[m] \in {"YES", "NO"}, outcome'[m] # outcome[m]
  PROVE  \E j \in Jobs : \E u \in unit[j] :
           u.market = m /\ u.found = outcome[m] /\ u.outcome = "UNRESOLVED"
<1>1. PICK j \in Jobs : Commit(j)
  BY DEF Next, vars, Work, Close, Select, Ask, Store, Abort, Die, table
<1>2. PICK u \in Written(j) : u.market = m /\ outcome'[m] = u.outcome
  BY <1>1 DEF Commit
<1>3. u \in unit[j] /\ u.found # u.outcome
  BY <1>2 DEF Written
<1>4. u.found \in Results \cup {"none"} /\ u.outcome \in Results
  BY <1>3 DEF TruthInv, TypeOK, Dirty
<1>5. u.found # "none"
  BY <1>1, <1>2, <1>3 DEF Commit
<1>6. Result(m, outcome[m]) /\ Result(m, u.outcome) /\ Result(m, u.found)
  BY <1>2, <1>3 DEF TruthInv, Truth
<1> QED BY <1>2, <1>3, <1>4, <1>5, <1>6 DEF Result, Results

\* A result is lost only by the one path there is: an answer from before the
\* end, stored over a row that was read with the result.
THEOREM LostCorrect == Spec => LostOnlyIfSeen
<1>1. TruthInv /\ [Next]_vars =>
        [\A m \in Markets :
           outcome[m] \in {"YES", "NO"} /\ outcome'[m] # outcome[m]
             => \E j \in Jobs : \E u \in unit[j] :
                  u.market = m /\ u.found = outcome[m] /\ u.outcome = "UNRESOLVED"]_vars
  BY LostStep
<1> QED BY <1>1, TruthInit, TruthNext, PTL DEF Spec, LostOnlyIfSeen
-----------------------------------------------------------------------------
\* As long as no file was taken from a live process, the file is that of the one
\* process which has created it and not released it.
Holds(p) == stage[p] \in {"created", "run", "leave", "unlink"}
FileOfHolder == ~ stolen => \A p \in Backfills : Holds(p) => file = p
HolderInv == TypeOK /\ FileOfHolder

LEMMA HolderNext == HolderInv /\ [Next]_vars => HolderInv'
<1> SUFFICES ASSUME TypeOK, FileOfHolder, [Next]_vars  PROVE FileOfHolder'
  BY TypeNext DEF HolderInv
<1>0. stage \in [Backfills -> {"new", "exists", "check", "stale", "retry", "created",
                               "run", "leave", "unlink", "over", "dead"}]
  BY DEF TypeOK, LockTypeOK
<1>1. ASSUME NEW p \in Backfills, UNCHANGED <<file, stolen>>,
             \A q \in Backfills \ {p} : stage'[q] = stage[q], Holds(p)' => Holds(p)
      PROVE  FileOfHolder'
  BY <1>1 DEF FileOfHolder, Holds
<1>2. ASSUME NEW p \in Backfills, file = None, file' = p, Goto(p, "created"), UNCHANGED stolen
      PROVE  FileOfHolder'
  BY <1>0, <1>2, RunLockAssumption DEF FileOfHolder, Holds, Goto, RunLockAssumption
<1>3. ASSUME NEW p \in Backfills, Remove(p),
             NEW next \in {"retry", "over"}, Goto(p, next)
      PROVE  FileOfHolder'
  <2> SUFFICES ASSUME ~ stolen', NEW q \in Backfills, Holds(q)'  PROVE file' = q
    BY DEF FileOfHolder
  <2>1. q # p /\ stage[q] = stage'[q]
    BY <1>0, <1>3 DEF Goto, Holds
  <2>2. ~ stolen /\ file # q
    BY <1>3, <2>1 DEF Remove, Alive, Holds
  <2> QED BY <2>1, <2>2 DEF FileOfHolder, Holds
<1>4. ASSUME NEW p \in Backfills, Start(p)  PROVE FileOfHolder'
  BY <1>0, <1>1, <1>2, <1>4 DEF Start, Goto, Holds
<1>5. ASSUME NEW p \in Backfills, ReadPid(p) \/ CheckPid(p) \/ WritePid(p) \/ ReadOwn(p)
      PROVE  FileOfHolder'
  BY <1>0, <1>1, <1>5 DEF ReadPid, CheckPid, WritePid, ReadOwn, Goto, Holds
<1>6. ASSUME NEW p \in Backfills, Recreate(p)  PROVE FileOfHolder'
  BY <1>0, <1>1, <1>2, <1>6 DEF Recreate, Goto, Holds
<1>7. ASSUME NEW p \in Backfills, RemoveStale(p) \/ RemoveOwn(p)  PROVE FileOfHolder'
  BY <1>3, <1>7 DEF RemoveStale, RemoveOwn
<1>8. ASSUME NEW j \in Jobs, Commit(j) \/ Abort(j)  PROVE FileOfHolder'
  <2>1. CASE UNCHANGED lock
    BY <2>1 DEF lock, FileOfHolder, Holds
  <2>2. CASE j \in Backfills /\ Goto(j, "leave") /\ UNCHANGED <<file, stolen>>
    <3>1. stage[j] = "run"
      BY <1>8, <2>2 DEF Commit, Abort, TypeOK
    <3> QED BY <1>0, <1>1, <2>2, <3>1 DEF Goto, Holds
  <2> QED BY <1>8, <2>1, <2>2 DEF Commit, Abort
<1>9. ASSUME NEW p \in Backfills, Die(p)  PROVE FileOfHolder'
  BY <1>0, <1>1, <1>9 DEF Die, Goto, Holds
<1>10. CASE UNCHANGED lock
  BY <1>10 DEF lock, FileOfHolder, Holds
<1> QED
  BY <1>4, <1>5, <1>6, <1>7, <1>8, <1>9, <1>10
  DEF Next, Work, LockStep, Close, Select, Ask, Store, vars, lock

\* Two backfills at once need a file that was taken from a live process.
THEOREM OneCorrect == Spec => []OneUnlessStolen
<1>1. Init => HolderInv
  BY TypeInit DEF HolderInv, FileOfHolder, Holds, Init, LockInit
<1>2. HolderInv => OneUnlessStolen
  BY DEF HolderInv, FileOfHolder, Holds, OneUnlessStolen, OneBackfill
<1> QED BY <1>1, <1>2, HolderNext, PTL DEF Spec
=============================================================================
