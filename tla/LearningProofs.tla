--------------------------- MODULE LearningProofs ---------------------------
(***************************************************************************)
(* Proofs about the signal and outcome models: how they are trained, loaded *)
(* and asked.                                                              *)
(*                                                                         *)
(* Analyses, with the model singleton: an analysis is made by one model, for *)
(* any number of requests and of training runs.  OutcomeFeatures: what comes *)
(* after a trade does not change its features.  NotableFeatures: a training *)
(* row is made from the trades before it.  Scores: the threshold, the      *)
(* precision and the separation are what the sorted scores define.         *)
(***************************************************************************)
EXTENDS Analyses, OutcomeFeatures, NotableFeatures, Scores, Facts, SequenceTheorems

(* Analyses and SignalModel: where a thread is *)

\* Where a thread can be, by what it does next.
CallSteps == {"no", "check", "wait", "inside", "store", "return", "done"}
TrainerSteps == {"idle", "train", "write", "finish", "reset", "reload", "show"}

\* A training run may begin while models are left to be made, and writes one: with the
\* types this bounds their number.
OneRunWrites ==
  \A t \in Trainers :
    /\ trainer[t] \in {"train", "write", "finish"} =>
         /\ training = "running"
         /\ \A u \in Trainers : trainer[u] \in {"train", "write", "finish"} => u = t
    /\ trainer[t] \in {"train", "write"} => made < MaxModels

AnalysesTypeInv == SignalTypeOK /\ AnalysesTypeOK /\ OneRunWrites

LEMMA AnalysesTypeInit == AnalysesInit => AnalysesTypeInv
<1> SUFFICES ASSUME AnalysesInit  PROVE AnalysesTypeInv
  OBVIOUS
<1> USE SignalAssumption DEF AnalysesInit, SignalInit
<1>1. SignalTypeOK
  <2>1. /\ weights \in Models \cup {None, Torn} /\ cacheModel \in Models \cup {None}
        /\ made \in 0..MaxModels /\ shown \in Models \cup {None}
    BY DEF None
  <2>2. /\ call \in [Threads -> CallSteps] /\ got \in [Threads -> Models \cup {None}]
        /\ trainer \in [Trainers -> TrainerSteps]
    BY DEF CallSteps, TrainerSteps
  <2> QED BY <2>1, <2>2 DEF SignalTypeOK, CallSteps, TrainerSteps
<1>2. AnalysesTypeOK
  BY DEF AnalysesTypeOK, NoDraft, NoRow, None
<1>3. OneRunWrites
  BY DEF OneRunWrites
<1> QED BY <1>1, <1>2, <1>3 DEF AnalysesTypeInv

\* What the steps of get_signal_model leave alone and how they move its caller.
LEMMA GetTypes ==
  ASSUME SignalTypeOK, NEW t \in Threads, Get(t)
  PROVE  SignalTypeOK' /\ UNCHANGED <<training, trainer, made>>
<1> USE DEF SignalTypeOK, GoTo, At
<1>1. CASE GetCheck(t)
  BY <1>1 DEF GetCheck
<1>2. CASE GetLock(t)
  BY <1>2 DEF GetLock
<1>3. CASE GetLoad(t)
  BY <1>3 DEF GetLoad, LoadModel
<1>4. CASE GetStore(t)
  BY <1>4 DEF GetStore
<1>5. CASE GetReturn(t)
  BY <1>5 DEF GetReturn
<1> QED BY <1>1, <1>2, <1>3, <1>4, <1>5 DEF Get

LEMMA TrainTypes ==
  ASSUME SignalTypeOK, OneRunWrites, NEW t \in Trainers, Train(t)
  PROVE  SignalTypeOK' /\ OneRunWrites'
<1> USE SignalAssumption DEF SignalTypeOK, TrainerGoes, Begins, GoTo, At, Threads, Models, None, Torn, OneRunWrites
<1>1. CASE StartTraining(t)
  BY <1>1 DEF StartTraining
<1>2. CASE TrainFails(t)
  BY <1>2 DEF TrainFails
<1>3. CASE OpenFile(t)
  BY <1>3 DEF OpenFile
<1>4. CASE WriteFile(t)
  BY <1>4 DEF WriteFile
<1>5. CASE FinishTraining(t)
  BY <1>5 DEF FinishTraining
<1>6. CASE ResetCache(t)
  BY <1>6 DEF ResetCache
<1>7. CASE Reload(t)
  BY <1>7 DEF Reload
<1>8. CASE ShowThreshold(t)
  BY <1>8 DEF ShowThreshold
<1>9. CASE Get(t)
  BY <1>9, GetTypes
<1> QED BY <1>1, <1>2, <1>3, <1>4, <1>5, <1>6, <1>7, <1>8, <1>9 DEF Train

\* A request that goes on asks for the model, or has its answer.
LEMMA GoesOnTypes ==
  ASSUME SignalTypeOK, AnalysesTypeOK, NEW r \in Readers,
         NEW next \in {"idle", "compare", "model", "score", "limit", "save", "commit"},
         Asks(r, next) \/ Answers(r, next)
  PROVE  /\ SignalTypeOK' /\ UNCHANGED <<training, trainer, made>>
         /\ stage' \in [Readers -> {"idle", "compare", "model", "score", "limit", "save", "commit"}]
<1>1. /\ call' \in [Threads -> CallSteps] /\ got' \in [Threads -> Models \cup {None}]
      /\ stage' \in [Readers -> {"idle", "compare", "model", "score", "limit", "save", "commit"}]
  BY DEF SignalTypeOK, AnalysesTypeOK, Asks, Answers, Begins, GoTo, Threads, CallSteps
<1>2. UNCHANGED <<weights, cacheModel, cacheLoaded, modelLock, training, trainer, made,
                  shown, overlapped>>
  BY DEF Asks, Answers
<1> QED BY <1>1, <1>2 DEF SignalTypeOK, CallSteps

\* A model's number or none, and what is drafted of them.
SomeModel == Models \cup {None}
Drafts == [tag : SomeModel, score : SomeModel, limit : SomeModel, seen : BOOLEAN]
RowTags == [by : {"none", "local", "provider"}, tag : SomeModel, score : SomeModel,
            limit : SomeModel, old : BOOLEAN]

LEMMA AnalyseTypes ==
  ASSUME SignalTypeOK, AnalysesTypeOK, NEW r \in Readers, Analyse(r)
  PROVE  SignalTypeOK' /\ AnalysesTypeOK' /\ UNCHANGED <<training, trainer, made>>
<1>0. /\ got[r] \in SomeModel /\ None \in SomeModel /\ NoDraft \in Drafts /\ NoRow \in RowTags
      /\ External \in RowTags /\ row \in RowTags /\ stored \in SomeModel /\ scorable \in BOOLEAN
      /\ draft \in [Readers -> Drafts] /\ draft[r] \in Drafts
  BY DEF SignalTypeOK, AnalysesTypeOK, Threads, SomeModel, Drafts, RowTags, NoDraft, NoRow, External
<1>1. ASSUME draft' \in [Readers -> Drafts], row' \in RowTags, stored' \in SomeModel,
             scorable' = scorable,
             NEW next \in {"idle", "compare", "model", "score", "limit", "save", "commit"},
             Asks(r, next) \/ Answers(r, next)
      PROVE  SignalTypeOK' /\ AnalysesTypeOK' /\ UNCHANGED <<training, trainer, made>>
  BY <1>0, <1>1, GoesOnTypes DEF AnalysesTypeOK, Drafts, RowTags, SomeModel
<1>2. CASE LookUpRow(r)
  BY <1>0, <1>1, <1>2 DEF LookUpRow, Drafts, RowTags
<1>3. CASE CompareVersion(r)
  BY <1>0, <1>1, <1>3 DEF CompareVersion
<1>4. CASE TakeModel(r)
  <2>1. [NoDraft EXCEPT !.tag = got[r]] \in Drafts
    BY <1>0 DEF Drafts
  <2> QED BY <1>0, <1>1, <1>4, <2>1 DEF TakeModel
<1>5. CASE TakeScore(r)
  <2> DEFINE live == IF scorable THEN got[r] ELSE None
             best == IF live # None THEN live ELSE stored
  <2>1. best \in SomeModel
    BY <1>0
  <2>2. draft' = [draft EXCEPT ![r].score = best] /\ stored' = best /\ row' = row
        /\ scorable' = scorable /\ (Asks(r, "limit") \/ Answers(r, "save"))
    BY <1>5 DEF TakeScore
  <2> HIDE DEF best
  <2>3. draft' \in [Readers -> Drafts]
    BY <1>0, <2>1, <2>2 DEF Drafts
  <2> QED BY <1>0, <1>1, <2>1, <2>2, <2>3
<1>6. CASE TakeLimit(r)
  <2>1. draft' \in [Readers -> Drafts]
    <3> DEFINE s == IF draft[r].score = None THEN stored ELSE draft[r].score
    <3>1. s \in SomeModel
      BY <1>0 DEF Drafts
    <3>2. draft' = [draft EXCEPT ![r].limit = got[r], ![r].score = s]
      BY <1>6 DEF TakeLimit
    <3> HIDE DEF s
    <3> QED BY <1>0, <3>1, <3>2 DEF Drafts
  <2> QED BY <1>0, <1>1, <1>6, <2>1 DEF TakeLimit
<1>7. CASE SaveLooks(r)
  <2>1. draft' \in [Readers -> Drafts]
    <3> DEFINE v == row.by # "none"
    <3>1. v \in BOOLEAN
      OBVIOUS
    <3>2. draft' = [draft EXCEPT ![r].seen = v] \/ draft' = [draft EXCEPT ![r] = NoDraft]
      BY <1>7 DEF SaveLooks
    <3> HIDE DEF v
    <3>3. [draft[r] EXCEPT !.seen = v] \in Drafts
      BY <1>0, <3>1 DEF Drafts
    <3> QED BY <1>0, <3>2, <3>3
  <2> QED BY <1>0, <1>1, <1>7, <2>1 DEF SaveLooks
<1>8. CASE SaveCommits(r)
  <2>1. row' \in RowTags
    BY <1>0, <1>8 DEF SaveCommits, TagOf, Drafts, RowTags
  <2>2. draft' = [draft EXCEPT ![r] = NoDraft] /\ Answers(r, "idle")
        /\ stored' = stored /\ scorable' = scorable
    BY <1>8 DEF SaveCommits
  <2>3. draft' \in [Readers -> Drafts]
    BY <1>0, <2>2
  <2> QED BY <1>0, <1>1, <2>1, <2>2, <2>3
<1> QED BY <1>2, <1>3, <1>4, <1>5, <1>6, <1>7, <1>8 DEF Analyse

LEMMA AnalysesTypeStep == AnalysesTypeInv /\ [AnalysesNext]_allAnalysisVars => AnalysesTypeInv'
<1> SUFFICES ASSUME AnalysesTypeInv, [AnalysesNext]_allAnalysisVars  PROVE AnalysesTypeInv'
  OBVIOUS
<1> USE DEF AnalysesTypeInv
<1>1. ASSUME NEW r \in Readers, Analyse(r)  PROVE AnalysesTypeInv'
  BY <1>1, AnalyseTypes DEF OneRunWrites
<1>2. ASSUME UNCHANGED analysisVars  PROVE AnalysesTypeOK'
  BY <1>2 DEF analysisVars, AnalysesTypeOK
<1>3. ASSUME NEW r \in Readers, Get(r), UNCHANGED analysisVars  PROVE AnalysesTypeInv'
  BY <1>2, <1>3, GetTypes DEF OneRunWrites, Threads
<1>4. ASSUME NEW t \in Trainers, Train(t), UNCHANGED analysisVars  PROVE AnalysesTypeInv'
  BY <1>2, <1>4, TrainTypes
<1>5. ASSUME UNCHANGED signalVars, AnalysesTypeOK'  PROVE AnalysesTypeInv'
  BY <1>5 DEF signalVars, SignalTypeOK, OneRunWrites
<1>6. CASE RowExpires \/ Invalidate \/ HistoryGrows
  <2>1. row' \in RowTags /\ scorable' \in BOOLEAN
    <3>1. row \in RowTags /\ scorable \in BOOLEAN /\ NoRow \in RowTags
      BY DEF AnalysesTypeOK, NoRow, RowTags, SomeModel
    <3>2. [row EXCEPT !.old = TRUE] \in RowTags
      BY <3>1 DEF RowTags
    <3> QED BY <1>6, <3>1, <3>2 DEF RowExpires, Invalidate, HistoryGrows
  <2>2. UNCHANGED <<stage, draft, stored>>
    BY <1>6 DEF RowExpires, Invalidate, HistoryGrows
  <2>3. AnalysesTypeOK'
    BY <2>1, <2>2 DEF AnalysesTypeOK, RowTags, SomeModel
  <2> QED BY <1>5, <1>6, <2>3 DEF RowExpires, Invalidate, HistoryGrows
<1>7. CASE ScoreAll
  <2>1. AnalysesTypeOK'
    BY <1>7 DEF ScoreAll, AnalysesTypeOK, LoadModel
  <2> QED BY <1>5, <1>7, <2>1 DEF ScoreAll
<1>8. CASE UNCHANGED allAnalysisVars
  BY <1>2, <1>5, <1>8 DEF allAnalysisVars
<1> QED BY <1>1, <1>3, <1>4, <1>6, <1>7, <1>8 DEF AnalysesNext

\* Every variable of the model singleton and of the requests has its type; what a thread
\* reads is a model that was made, or none.
THEOREM AnalysesTypeCorrect == AnalysesSpec => [](SignalTypeOK /\ AnalysesTypeOK)
<1>1. AnalysesTypeInv => SignalTypeOK /\ AnalysesTypeOK
  BY DEF AnalysesTypeInv
<1> QED BY <1>1, AnalysesTypeInit, AnalysesTypeStep, PTL DEF AnalysesSpec
-----------------------------------------------------------------------------
\* A thread asks for the model only where its caller waits for the answer.
AskedOnlyHere ==
  /\ \A t \in Trainers : trainer[t] \notin {"reload", "show"} => call[t] = "no"
  /\ \A r \in Readers : stage[r] \in {"idle", "save", "commit"} => call[r] = "no"

\* Whoever is inside get_signal_model's lock holds it, and has seen that nothing is
\* loaded when it has read the file.
LockIsHeld ==
  \A t \in Threads :
    /\ call[t] \in {"inside", "store"} => modelLock = t
    /\ call[t] = "store" => ~cacheLoaded

\* What is in the file, and what was read from it, has been exported.
ReadsExported ==
  /\ weights \in Models => weights <= made
  /\ \A t \in Threads : call[t] = "store" => got[t] <= made

\* Only a run between its export and its reset leaves a model that is not the file's in
\* the cache, or on the way there.
StaleIsForgotten ==
  weights \in Models /\ (\A t \in Trainers : trainer[t] \notin {"finish", "reset"}) =>
    /\ cacheLoaded => cacheModel = weights
    /\ \A t \in Threads : call[t] = "store" => got[t] = weights

CacheInv ==
  AnalysesTypeInv /\ AskedOnlyHere /\ LockIsHeld /\ ReadsExported /\ StaleIsForgotten

LEMMA CacheInit == AnalysesInit => CacheInv
<1> SUFFICES ASSUME AnalysesInit  PROVE CacheInv
  OBVIOUS
<1> USE SignalAssumption DEF AnalysesInit, SignalInit, None, Models, Threads
<1>1. AskedOnlyHere /\ LockIsHeld
  BY DEF AskedOnlyHere, LockIsHeld
<1>2. ReadsExported /\ StaleIsForgotten
  BY DEF ReadsExported, StaleIsForgotten
<1> QED BY <1>1, <1>2, AnalysesTypeInit DEF CacheInv

\* A request that takes a step was not asking, or has its answer; it asks next, or not.
LEMMA AnalyseShape ==
  ASSUME CacheInv, NEW r \in Readers, Analyse(r)
  PROVE  /\ call[r] \in {"no", "done"}
         /\ \/ \E next \in {"compare", "model", "score", "limit"} : Asks(r, next)
            \/ \E next \in {"idle", "save", "commit"} : Answers(r, next)
<1> USE DEF CacheInv, AskedOnlyHere, At
<1>1. CASE LookUpRow(r)
  BY <1>1 DEF LookUpRow
<1>2. CASE CompareVersion(r)
  BY <1>2 DEF CompareVersion
<1>3. CASE TakeModel(r)
  BY <1>3 DEF TakeModel
<1>4. CASE TakeScore(r)
  <2>1. Asks(r, "limit") \/ Answers(r, "save")
    BY <1>4 DEF TakeScore
  <2> QED BY <1>4, <2>1 DEF TakeScore
<1>5. CASE TakeLimit(r)
  BY <1>5 DEF TakeLimit
<1>6. CASE SaveLooks(r)
  BY <1>6 DEF SaveLooks
<1>7. CASE SaveCommits(r)
  <2>1. Answers(r, "idle") /\ stage[r] = "commit"
    BY <1>7 DEF SaveCommits
  <2> QED BY <2>1
<1> QED BY <1>1, <1>2, <1>3, <1>4, <1>5, <1>6, <1>7 DEF Analyse

LEMMA CacheGet ==
  ASSUME CacheInv, NEW t \in Threads, Get(t), UNCHANGED stage
  PROVE  AskedOnlyHere' /\ LockIsHeld' /\ ReadsExported' /\ StaleIsForgotten'
<1> USE SignalAssumption
    DEF CacheInv, AnalysesTypeInv, SignalTypeOK, Threads, Models, None, GoTo, At,
        AskedOnlyHere, LockIsHeld, ReadsExported, StaleIsForgotten
<1>1. CASE GetCheck(t)
  BY <1>1 DEF GetCheck
<1>2. CASE GetLock(t)
  BY <1>2 DEF GetLock
<1>3. CASE GetLoad(t)
  BY <1>3 DEF GetLoad, LoadModel
<1>4. CASE GetStore(t)
  BY <1>4 DEF GetStore
<1>5. CASE GetReturn(t)
  BY <1>5 DEF GetReturn
<1> QED BY <1>1, <1>2, <1>3, <1>4, <1>5 DEF Get

LEMMA CacheTrain ==
  ASSUME CacheInv, NEW t \in Trainers, Train(t), UNCHANGED stage
  PROVE  AskedOnlyHere' /\ LockIsHeld' /\ ReadsExported' /\ StaleIsForgotten'
<1> USE SignalAssumption
    DEF CacheInv, AnalysesTypeInv, SignalTypeOK, Threads, Models, None, Torn, GoTo, At, Begins,
        TrainerGoes, AskedOnlyHere, LockIsHeld, ReadsExported, StaleIsForgotten
<1>1. CASE StartTraining(t)
  BY <1>1 DEF StartTraining
<1>2. CASE TrainFails(t)
  BY <1>2 DEF TrainFails
<1>3. CASE OpenFile(t)
  BY <1>3 DEF OpenFile
<1>4. CASE WriteFile(t)
  BY <1>4 DEF WriteFile, OneRunWrites
<1>5. CASE FinishTraining(t)
  BY <1>5 DEF FinishTraining
<1>6. CASE ResetCache(t)
  BY <1>6 DEF ResetCache
<1>7. CASE Reload(t)
  BY <1>7 DEF Reload
<1>8. CASE ShowThreshold(t)
  BY <1>8 DEF ShowThreshold
<1>9. CASE Get(t)
  BY <1>9, CacheGet
<1> QED BY <1>1, <1>2, <1>3, <1>4, <1>5, <1>6, <1>7, <1>8, <1>9 DEF Train

LEMMA CacheAnalyse ==
  ASSUME CacheInv, NEW r \in Readers, Analyse(r)
  PROVE  AskedOnlyHere' /\ LockIsHeld' /\ ReadsExported' /\ StaleIsForgotten'
<1> USE SignalAssumption
    DEF CacheInv, AnalysesTypeInv, SignalTypeOK, AnalysesTypeOK, Threads, Models, None, GoTo,
        Begins, AskedOnlyHere, LockIsHeld, ReadsExported, StaleIsForgotten
<1>1. call[r] \in {"no", "done"}
  BY AnalyseShape
<1>2. ASSUME NEW next \in {"compare", "model", "score", "limit"}, Asks(r, next)
      PROVE  AskedOnlyHere' /\ LockIsHeld' /\ ReadsExported' /\ StaleIsForgotten'
  BY <1>1, <1>2 DEF Asks
<1>3. ASSUME NEW next \in {"idle", "save", "commit"}, Answers(r, next)
      PROVE  AskedOnlyHere' /\ LockIsHeld' /\ ReadsExported' /\ StaleIsForgotten'
  BY <1>1, <1>3 DEF Answers
<1> QED BY <1>2, <1>3, AnalyseShape

LEMMA CacheStep == CacheInv /\ [AnalysesNext]_allAnalysisVars => CacheInv'
<1> SUFFICES ASSUME CacheInv, [AnalysesNext]_allAnalysisVars  PROVE CacheInv'
  OBVIOUS
<1>0. AnalysesTypeInv'
  BY AnalysesTypeStep DEF CacheInv
<1> SUFFICES AskedOnlyHere' /\ LockIsHeld' /\ ReadsExported' /\ StaleIsForgotten'
  BY <1>0 DEF CacheInv
<1>1. ASSUME NEW r \in Readers, Analyse(r)
      PROVE  AskedOnlyHere' /\ LockIsHeld' /\ ReadsExported' /\ StaleIsForgotten'
  BY <1>1, CacheAnalyse
<1>2. ASSUME NEW r \in Readers, Get(r), UNCHANGED analysisVars
      PROVE  AskedOnlyHere' /\ LockIsHeld' /\ ReadsExported' /\ StaleIsForgotten'
  BY <1>2, CacheGet DEF analysisVars, Threads
<1>3. ASSUME NEW t \in Trainers, Train(t), UNCHANGED analysisVars
      PROVE  AskedOnlyHere' /\ LockIsHeld' /\ ReadsExported' /\ StaleIsForgotten'
  BY <1>3, CacheTrain DEF analysisVars
<1>4. ASSUME UNCHANGED <<signalVars, stage>>
      PROVE  AskedOnlyHere' /\ LockIsHeld' /\ ReadsExported' /\ StaleIsForgotten'
  BY <1>4 DEF signalVars, CacheInv, AskedOnlyHere, LockIsHeld, ReadsExported, StaleIsForgotten
<1>5. CASE RowExpires \/ Invalidate \/ HistoryGrows \/ ScoreAll
  BY <1>4, <1>5 DEF RowExpires, Invalidate, HistoryGrows, ScoreAll
<1>6. CASE UNCHANGED allAnalysisVars
  BY <1>4, <1>6 DEF allAnalysisVars, analysisVars
<1> QED BY <1>1, <1>2, <1>3, <1>5, <1>6 DEF AnalysesNext
-----------------------------------------------------------------------------
\* As long as no run is started before the last one has shown its model, there is one at
\* a time, the cache is empty only until it has reloaded, and then it has its model.
RunsAlone ==
  /\ \A t, u \in Trainers : trainer[t] # "idle" /\ trainer[u] # "idle" => t = u
  /\ \A t \in Trainers :
       /\ trainer[t] \in {"finish", "reset", "reload", "show"} => weights \in Models /\ weights = made
       /\ trainer[t] = "reload" /\ call[t] \in {"return", "done"} => cacheLoaded
       /\ trainer[t] = "show" => cacheLoaded
       /\ trainer[t] \in {"reload", "show"} /\ call[t] = "done" => got[t] = weights
  /\ ~cacheLoaded => cacheModel = None /\ \E t \in Trainers : trainer[t] = "reload"
  /\ weights \in Models =>
       \/ shown = weights
       \/ \E t \in Trainers : trainer[t] \in {"finish", "reset", "reload", "show"}

AloneInv == CacheInv /\ (~overlapped => RunsAlone)

LEMMA AloneInit == AnalysesInit => AloneInv
  BY CacheInit DEF AnalysesInit, SignalInit, AloneInv, RunsAlone, None, Models

LEMMA AloneGet ==
  ASSUME CacheInv, RunsAlone, NEW t \in Threads, Get(t)
  PROVE  RunsAlone'
<1> USE SignalAssumption
    DEF CacheInv, AnalysesTypeInv, SignalTypeOK, Threads, Models, None, GoTo, At,
        LockIsHeld, StaleIsForgotten, RunsAlone
<1>1. CASE GetCheck(t)
  BY <1>1 DEF GetCheck
<1>2. CASE GetLock(t)
  BY <1>2 DEF GetLock
<1>3. CASE GetLoad(t)
  BY <1>3 DEF GetLoad, LoadModel
<1>4. CASE GetStore(t)
  BY <1>4 DEF GetStore
<1>5. CASE GetReturn(t)
  BY <1>5 DEF GetReturn
<1> QED BY <1>1, <1>2, <1>3, <1>4, <1>5 DEF Get

LEMMA AloneTrain ==
  ASSUME CacheInv, ~overlapped => RunsAlone, NEW t \in Trainers, Train(t), ~overlapped'
  PROVE  RunsAlone'
<1> USE SignalAssumption
    DEF CacheInv, AnalysesTypeInv, SignalTypeOK, Threads, Models, None, Torn, GoTo, At, Begins,
        TrainerGoes, RunsAlone
<1>1. CASE StartTraining(t)
  BY <1>1 DEF StartTraining
<1>2. CASE TrainFails(t)
  BY <1>2 DEF TrainFails
<1>3. CASE OpenFile(t)
  BY <1>3 DEF OpenFile
<1>4. CASE WriteFile(t)
  BY <1>4 DEF WriteFile, OneRunWrites
<1>5. CASE FinishTraining(t)
  BY <1>5 DEF FinishTraining
<1>6. CASE ResetCache(t)
  BY <1>6 DEF ResetCache
<1>7. CASE Reload(t)
  BY <1>7 DEF Reload
<1>8. CASE ShowThreshold(t)
  BY <1>8 DEF ShowThreshold
<1>9. CASE Get(t)
  <2>1. overlapped' = overlapped
    BY <1>9 DEF Get, GetCheck, GetLock, GetLoad, GetStore, GetReturn
  <2> QED BY <1>9, <2>1, AloneGet
<1> QED BY <1>1, <1>2, <1>3, <1>4, <1>5, <1>6, <1>7, <1>8, <1>9 DEF Train

LEMMA AloneAnalyse ==
  ASSUME CacheInv, RunsAlone, NEW r \in Readers, Analyse(r)
  PROVE  RunsAlone'
<1> USE SignalAssumption
    DEF CacheInv, AnalysesTypeInv, SignalTypeOK, Threads, GoTo, Begins, RunsAlone
<1>1. ASSUME NEW next, Asks(r, next)  PROVE RunsAlone'
  BY <1>1 DEF Asks
<1>2. ASSUME NEW next, Answers(r, next)  PROVE RunsAlone'
  BY <1>2 DEF Answers
<1> QED BY <1>1, <1>2, AnalyseShape

LEMMA AloneStep == AloneInv /\ [AnalysesNext]_allAnalysisVars => AloneInv'
<1> SUFFICES ASSUME AloneInv, [AnalysesNext]_allAnalysisVars, ~overlapped'  PROVE RunsAlone'
  BY CacheStep DEF AloneInv
<1>0. CacheInv /\ (~overlapped => RunsAlone)
  BY DEF AloneInv
<1>1. ASSUME NEW r \in Readers, Analyse(r)  PROVE RunsAlone'
  <2>1. overlapped' = overlapped
    BY <1>0, <1>1, AnalyseShape DEF Asks, Answers
  <2> QED BY <1>0, <1>1, <2>1, AloneAnalyse
<1>2. ASSUME NEW r \in Readers, Get(r)  PROVE RunsAlone'
  <2>1. overlapped' = overlapped
    BY <1>2 DEF Get, GetCheck, GetLock, GetLoad, GetStore, GetReturn
  <2> QED BY <1>0, <1>2, <2>1, AloneGet DEF Threads
<1>3. ASSUME NEW t \in Trainers, Train(t)  PROVE RunsAlone'
  BY <1>0, <1>3, AloneTrain
<1>4. ASSUME UNCHANGED signalVars  PROVE RunsAlone'
  BY <1>0, <1>4 DEF signalVars, RunsAlone
<1>5. CASE RowExpires \/ Invalidate \/ HistoryGrows \/ ScoreAll
  BY <1>4, <1>5 DEF RowExpires, Invalidate, HistoryGrows, ScoreAll
<1>6. CASE UNCHANGED allAnalysisVars
  BY <1>4, <1>6 DEF allAnalysisVars
<1> QED BY <1>1, <1>2, <1>3, <1>5, <1>6 DEF AnalysesNext

\* Between training runs the process uses the model that is in the file, whatever it
\* had cached before; and its templates show that model's threshold.
LEMMA CurrentFollows == AloneInv => ModelIsCurrent
  BY DEF AloneInv, CacheInv, RunsAlone, StaleIsForgotten, ModelIsCurrent, NoTraining
-----------------------------------------------------------------------------
\* The models whose number is in use somewhere: cached, read by a thread, or the version
\* of a row or a draft.
Tags ==
  {cacheModel, row.tag} \cup {draft[r].tag : r \in Readers}
    \cup {got[t] : t \in {u \in Threads : call[u] = "done"}}

\* A model has been exported that the process has still to load.
Renewed == ~cacheLoaded \/ \E t \in Trainers : trainer[t] \in {"finish", "reset"}

\* Then every number in use is of an older model, and so the cache never comes back to
\* one it has left.
TagsAreOlder == \A x \in Tags : x <= made /\ (Renewed => x < made)

\* What a request of the cached model's version has found so far is of that model.
DraftsAgree ==
  \A r \in Readers :
    draft[r].tag # None /\ draft[r].tag = cacheModel =>
      /\ stage[r] \in {"score", "limit"} /\ call[r] = "done" => got[r] = draft[r].tag
      /\ stage[r] = "limit" => draft[r].score = draft[r].tag
      /\ stage[r] \in {"save", "commit"} /\ draft[r].score # None =>
           draft[r].score = draft[r].tag /\ draft[r].limit = draft[r].tag

RowAgrees ==
  row.by = "local" /\ row.tag # None /\ row.tag = cacheModel =>
    row.score = row.tag /\ row.limit = row.tag

\* A score is stored only for a trade that has enough history.
StoredIsScorable == ~scorable => stored = None

AnalysesInv ==
  /\ AloneInv /\ StoredIsScorable
  /\ ~overlapped => TagsAreOlder /\ DraftsAgree /\ RowAgrees

LEMMA AnalysesInvInit == AnalysesInit => AnalysesInv
<1> SUFFICES ASSUME AnalysesInit  PROVE AnalysesInv
  OBVIOUS
<1> USE DEF AnalysesInit, SignalInit, None, NoRow, NoDraft
<1>1. Tags \subseteq {0} /\ ~Renewed
  BY DEF Tags, Renewed
<1>2. TagsAreOlder /\ DraftsAgree /\ RowAgrees /\ StoredIsScorable
  BY <1>1 DEF TagsAreOlder, DraftsAgree, RowAgrees, StoredIsScorable
<1> QED BY <1>2, AloneInit DEF AnalysesInv

\* A request's own steps: its draft gets a tag that was read, or loses it.
LEMMA TagsByGet ==
  ASSUME AnalysesInv, ~overlapped, NEW t \in Threads, Get(t), UNCHANGED analysisVars
  PROVE  TagsAreOlder' /\ DraftsAgree' /\ RowAgrees'
<1> USE SignalAssumption
    DEF AnalysesInv, AloneInv, CacheInv, AnalysesTypeInv, SignalTypeOK, AnalysesTypeOK,
        analysisVars, Threads, Models, None, GoTo, At
<1>1. CASE GetCheck(t) \/ GetLock(t) \/ GetLoad(t)
  <2>1. /\ UNCHANGED <<cacheModel, cacheLoaded, trainer, made>>
        /\ \A u \in Threads : call'[u] = "done" => call[u] = "done" /\ got'[u] = got[u]
    BY <1>1 DEF GetCheck, GetLock, GetLoad
  <2>2. Tags' \subseteq Tags /\ Renewed' = Renewed
    BY <2>1 DEF Tags, Renewed
  <2>3. TagsAreOlder'
    BY <2>1, <2>2 DEF TagsAreOlder
  <2>4. DraftsAgree' /\ RowAgrees'
    BY <2>1 DEF DraftsAgree, RowAgrees
  <2> QED BY <2>3, <2>4
<1>2. CASE GetStore(t)
  <2>1. ~cacheLoaded /\ got[t] <= made
    BY <1>2 DEF GetStore, LockIsHeld, ReadsExported
  <2>2. \A x \in Tags : x < made
    BY <2>1 DEF TagsAreOlder, Renewed
  <2>3. PICK u \in Trainers : trainer[u] = "reload" /\ weights = made /\ weights \in Models
    BY <2>1 DEF RunsAlone
  <2>4. got[t] = made /\ \A v \in Trainers : trainer[v] \notin {"finish", "reset"}
    BY <1>2, <2>3 DEF GetStore, StaleIsForgotten, RunsAlone
  <2>5. /\ UNCHANGED <<trainer, made>> /\ cacheModel' = made /\ cacheLoaded'
        /\ \A v \in Threads : call'[v] = "done" => call[v] = "done" /\ got'[v] = got[v]
    BY <1>2, <2>4 DEF GetStore
  <2>6. Tags' \subseteq Tags \cup {made} /\ ~Renewed'
    BY <2>4, <2>5 DEF Tags, Renewed
  <2>7. TagsAreOlder'
    BY <2>2, <2>5, <2>6 DEF TagsAreOlder
  <2>8. \A r \in Readers : draft[r].tag # made
    <3>1. made \in Int
      BY DEF AnalysesInv, AloneInv, CacheInv, AnalysesTypeInv, SignalTypeOK
    <3>2. made \notin Tags
      BY <2>2, <3>1
    <3> QED BY <3>2 DEF Tags
  <2>9. row.tag # made
    BY <2>2 DEF Tags
  <2> QED BY <2>5, <2>7, <2>8, <2>9 DEF DraftsAgree, RowAgrees
<1>3. CASE GetReturn(t)
  <2>1. /\ UNCHANGED <<cacheModel, cacheLoaded, trainer, made>>
        /\ \A u \in Threads : call'[u] = "done" =>
             got'[u] = cacheModel \/ (u # t /\ call[u] = "done" /\ got'[u] = got[u])
        /\ call'[t] = "done" /\ got'[t] = cacheModel
    BY <1>3 DEF GetReturn
  <2>2. Tags' \subseteq Tags /\ Renewed' = Renewed
    BY <2>1 DEF Tags, Renewed
  <2>3. TagsAreOlder'
    BY <2>1, <2>2 DEF TagsAreOlder
  <2>4. DraftsAgree' /\ RowAgrees'
    BY <2>1 DEF DraftsAgree, RowAgrees
  <2> QED BY <2>3, <2>4
<1> QED BY <1>1, <1>2, <1>3 DEF Get

LEMMA TagsByTrain ==
  ASSUME AnalysesInv, ~overlapped, NEW t \in Trainers, Train(t), UNCHANGED analysisVars
  PROVE  TagsAreOlder' /\ DraftsAgree' /\ RowAgrees'
<1> USE SignalAssumption
    DEF AnalysesInv, AloneInv, CacheInv, AnalysesTypeInv, SignalTypeOK, AnalysesTypeOK,
        analysisVars, Threads, Models, None, GoTo, At, Begins, TrainerGoes
<1>0. ASSUME UNCHANGED <<cacheModel, cacheLoaded, call, got, made>>, Renewed' => Renewed
      PROVE  TagsAreOlder' /\ DraftsAgree' /\ RowAgrees'
  <2>1. Tags' = Tags
    BY <1>0 DEF Tags
  <2> QED BY <1>0, <2>1 DEF TagsAreOlder, DraftsAgree, RowAgrees
<1>1. CASE StartTraining(t) \/ TrainFails(t) \/ OpenFile(t) \/ FinishTraining(t)
  <2>1. Renewed' => Renewed
    BY <1>1 DEF StartTraining, TrainFails, OpenFile, FinishTraining, Renewed
  <2>2. UNCHANGED <<cacheModel, cacheLoaded, call, got, made>>
    BY <1>1 DEF StartTraining, TrainFails, OpenFile, FinishTraining
  <2> QED BY <1>0, <2>1, <2>2
<1>2. CASE WriteFile(t)
  <2>1. UNCHANGED <<cacheModel, cacheLoaded, call, got>> /\ made' = made + 1
    BY <1>2 DEF WriteFile
  <2>2. Tags' = Tags
    BY <2>1 DEF Tags
  <2>3. Tags \subseteq Nat /\ made \in Nat
    BY DEF Tags
  <2>4. TagsAreOlder'
    BY <2>1, <2>2, <2>3 DEF TagsAreOlder
  <2> QED BY <2>1, <2>4 DEF DraftsAgree, RowAgrees
<1>3. CASE ResetCache(t)
  <2>1. Renewed
    BY <1>3 DEF ResetCache, Renewed
  <2>2. /\ cacheModel' = None /\ made' = made
        /\ \A u \in Threads : call'[u] = "done" => call[u] = "done" /\ got'[u] = got[u]
    BY <1>3 DEF ResetCache
  <2>3. Tags' \subseteq Tags \cup {0}
    BY <2>2 DEF Tags
  <2>4. 0 < made
    <3>1. cacheModel \in Tags /\ cacheModel >= 0
      BY DEF Tags
    <3> QED BY <2>1, <3>1 DEF TagsAreOlder
  <2>5. TagsAreOlder'
    BY <2>1, <2>2, <2>3, <2>4 DEF TagsAreOlder
  <2> QED BY <2>2, <2>5 DEF DraftsAgree, RowAgrees
<1>4. CASE Reload(t) \/ ShowThreshold(t)
  <2>1. /\ UNCHANGED <<cacheModel, cacheLoaded, made>>
        /\ \A u \in Threads : call'[u] = "done" => call[u] = "done" /\ got'[u] = got[u]
        /\ \A u \in Readers : call'[u] = call[u] /\ got'[u] = got[u]
    BY <1>4 DEF Reload, ShowThreshold
  <2>2. Renewed' => Renewed
    BY <1>4 DEF Reload, ShowThreshold, Renewed
  <2>3. Tags' \subseteq Tags
    BY <2>1 DEF Tags
  <2>4. TagsAreOlder'
    BY <2>1, <2>2, <2>3 DEF TagsAreOlder
  <2>5. DraftsAgree' /\ RowAgrees'
    BY <2>1 DEF DraftsAgree, RowAgrees
  <2> QED BY <2>4, <2>5
<1>5. CASE Get(t)
  BY <1>5, TagsByGet
<1> QED BY <1>1, <1>2, <1>3, <1>4, <1>5 DEF Train

\* A request's step moves only its own draft: to a tag that was in use, with what agrees
\* with it.
LEMMA TagsByAnalyse ==
  ASSUME AnalysesInv, NEW r \in Readers, Analyse(r),
         \A q \in Readers \ {r} : draft'[q] = draft[q] /\ stage'[q] = stage[q],
         draft'[r].tag \in Tags \cup {None}, row'.tag \in Tags \cup {None}
  PROVE  /\ UNCHANGED <<cacheModel, overlapped>>
         /\ \A t \in Threads : call'[t] = "done" => call[t] = "done" /\ got'[t] = got[t] /\ t # r
         /\ ~overlapped => TagsAreOlder'
<1> USE SignalAssumption
    DEF AnalysesInv, AloneInv, CacheInv, AnalysesTypeInv, SignalTypeOK, AnalysesTypeOK,
        Threads, Models, None, GoTo, Begins
<1>1. /\ UNCHANGED <<cacheModel, cacheLoaded, trainer, made, overlapped>>
      /\ \A t \in Threads : call'[t] = "done" => call[t] = "done" /\ got'[t] = got[t] /\ t # r
  <2>1. ASSUME NEW next, Asks(r, next)
        PROVE  /\ UNCHANGED <<cacheModel, cacheLoaded, trainer, made, overlapped>>
               /\ \A t \in Threads : call'[t] = "done" => call[t] = "done" /\ got'[t] = got[t] /\ t # r
    BY <2>1 DEF Asks
  <2>2. ASSUME NEW next, Answers(r, next)
        PROVE  /\ UNCHANGED <<cacheModel, cacheLoaded, trainer, made, overlapped>>
               /\ \A t \in Threads : call'[t] = "done" => call[t] = "done" /\ got'[t] = got[t] /\ t # r
    BY <2>2 DEF Answers
  <2> QED BY <2>1, <2>2, AnalyseShape
<1>2. Tags' \subseteq Tags \cup {None}
  BY <1>1 DEF Tags
<1>3. ASSUME ~overlapped  PROVE TagsAreOlder'
  <2>1. Renewed' = Renewed
    BY <1>1 DEF Renewed
  <2>2. cacheModel \in Tags /\ cacheModel >= 0
    BY DEF Tags
  <2> QED BY <1>1, <1>2, <1>3, <2>1, <2>2 DEF TagsAreOlder
<1> QED BY <1>1, <1>3

LEMMA AnalyseAgrees ==
  ASSUME AnalysesInv, NEW r \in Readers, Analyse(r)
  PROVE  /\ overlapped' = overlapped /\ StoredIsScorable'
         /\ ~overlapped => TagsAreOlder' /\ DraftsAgree' /\ RowAgrees'
<1> USE DEF AnalysesInv, AloneInv, CacheInv, AnalysesTypeInv
<1>0. /\ draft \in [Readers -> Drafts] /\ NoDraft \in Drafts /\ row \in RowTags /\ row.tag \in Tags
      /\ stage \in [Readers -> {"idle", "compare", "model", "score", "limit", "save", "commit"}]
      /\ draft[r].tag \in Tags /\ (call[r] = "done" => got[r] \in Tags)
      /\ stored \in SomeModel /\ got[r] \in SomeModel /\ draft[r] \in Drafts
  BY DEF AnalysesTypeOK, SignalTypeOK, Drafts, RowTags, SomeModel, NoDraft, Tags, Threads
<1>1. ASSUME \A q \in Readers \ {r} : draft'[q] = draft[q] /\ stage'[q] = stage[q],
             draft'[r].tag \in Tags \cup {None}, row'.tag \in Tags \cup {None},
             StoredIsScorable',
             ~overlapped /\ draft'[r].tag # None /\ draft'[r].tag = cacheModel =>
               /\ stage'[r] = "limit" => draft'[r].score = draft'[r].tag
               /\ stage'[r] \in {"save", "commit"} /\ draft'[r].score # None =>
                    draft'[r].score = draft'[r].tag /\ draft'[r].limit = draft'[r].tag,
             ~overlapped /\ row'.by = "local" /\ row'.tag # None /\ row'.tag = cacheModel =>
               row'.score = row'.tag /\ row'.limit = row'.tag
      PROVE  /\ overlapped' = overlapped /\ StoredIsScorable'
             /\ ~overlapped => TagsAreOlder' /\ DraftsAgree' /\ RowAgrees'
  <2>1. /\ UNCHANGED <<cacheModel, overlapped>> /\ (~overlapped => TagsAreOlder')
        /\ \A t \in Threads : call'[t] = "done" => call[t] = "done" /\ got'[t] = got[t] /\ t # r
    BY <1>1, TagsByAnalyse
  <2>2. ASSUME ~overlapped  PROVE RowAgrees'
    BY <1>1, <2>1, <2>2 DEF RowAgrees
  <2>3. ASSUME ~overlapped, NEW q \in Readers, draft'[q].tag # None, draft'[q].tag = cacheModel
        PROVE  /\ stage'[q] \in {"score", "limit"} /\ call'[q] = "done" => got'[q] = draft'[q].tag
               /\ stage'[q] = "limit" => draft'[q].score = draft'[q].tag
               /\ stage'[q] \in {"save", "commit"} /\ draft'[q].score # None =>
                    draft'[q].score = draft'[q].tag /\ draft'[q].limit = draft'[q].tag
    <3>1. CASE q = r
      BY <1>1, <2>1, <2>3, <3>1 DEF Threads
    <3>2. CASE q # r
      BY <1>1, <2>1, <2>3, <3>2 DEF Threads, DraftsAgree
    <3> QED BY <3>1, <3>2
  <2>4. ASSUME ~overlapped  PROVE DraftsAgree'
    BY <2>1, <2>3, <2>4 DEF DraftsAgree
  <2> QED BY <1>1, <2>1, <2>2, <2>4
<1>2. CASE LookUpRow(r)
  BY <1>0, <1>1, <1>2 DEF LookUpRow, Asks, RowAgrees, DraftsAgree, NoRow, NoDraft, StoredIsScorable, Drafts
<1>3. CASE CompareVersion(r)
  BY <1>0, <1>1, <1>3 DEF CompareVersion, Asks, Answers, RowAgrees, NoRow, NoDraft, StoredIsScorable
<1>4. CASE TakeModel(r)
  BY <1>0, <1>1, <1>4 DEF TakeModel, Asks, Answers, At, RowAgrees, NoDraft, StoredIsScorable
<1>5. CASE TakeScore(r)
  BY <1>0, <1>1, <1>5 DEF TakeScore, Asks, Answers, At, RowAgrees, DraftsAgree, Drafts, StoredIsScorable
<1>6. CASE TakeLimit(r)
  BY <1>0, <1>1, <1>6 DEF TakeLimit, Answers, At, RowAgrees, DraftsAgree, Drafts, StoredIsScorable
<1>7. CASE SaveLooks(r)
  BY <1>0, <1>1, <1>7 DEF SaveLooks, Answers, RowAgrees, DraftsAgree, NoDraft, Drafts, StoredIsScorable
<1>8. CASE SaveCommits(r)
  BY <1>0, <1>1, <1>8 DEF SaveCommits, TagOf, External, Answers, RowAgrees, DraftsAgree, NoDraft, StoredIsScorable
<1> QED BY <1>2, <1>3, <1>4, <1>5, <1>6, <1>7, <1>8 DEF Analyse

LEMMA AnalysesInvStep == AnalysesInv /\ [AnalysesNext]_allAnalysisVars => AnalysesInv'
<1> SUFFICES ASSUME AnalysesInv, [AnalysesNext]_allAnalysisVars
             PROVE  StoredIsScorable' /\ (~overlapped' => TagsAreOlder' /\ DraftsAgree' /\ RowAgrees')
  BY AloneStep DEF AnalysesInv
<1> DEFINE Goal == StoredIsScorable' /\ (~overlapped' => TagsAreOlder' /\ DraftsAgree' /\ RowAgrees')
<1>1. ASSUME NEW r \in Readers, Analyse(r)  PROVE Goal
  BY <1>1, AnalyseAgrees
<1>2. ASSUME UNCHANGED analysisVars  PROVE StoredIsScorable'
  BY <1>2 DEF AnalysesInv, analysisVars, StoredIsScorable
<1>3. ASSUME NEW r \in Readers, Get(r), UNCHANGED analysisVars  PROVE Goal
  <2>1. overlapped' = overlapped
    BY <1>3 DEF Get, GetCheck, GetLock, GetLoad, GetStore, GetReturn
  <2> QED BY <1>2, <1>3, <2>1, TagsByGet DEF Threads
<1>4. ASSUME NEW t \in Trainers, Train(t), UNCHANGED analysisVars  PROVE Goal
  <2>1. ~overlapped' => ~overlapped
    BY <1>4 DEF Train, StartTraining, TrainFails, OpenFile, WriteFile, FinishTraining, ResetCache,
                Reload, ShowThreshold, Get, GetCheck, GetLock, GetLoad, GetStore, GetReturn
  <2> QED BY <1>2, <1>4, <2>1, TagsByTrain
\* What the environment does to the row and the score makes them no more than they were.
<1>5. ASSUME UNCHANGED <<signalVars, stage, draft>>, StoredIsScorable',
             row' = row \/ row' = NoRow \/ row' = [row EXCEPT !.old = TRUE]
      PROVE  Goal
  <2>1. row \in RowTags /\ made \in Nat /\ Tags \subseteq Nat /\ cacheModel \in Tags
    BY DEF AnalysesInv, AloneInv, CacheInv, AnalysesTypeInv, AnalysesTypeOK, SignalTypeOK, RowTags,
           SomeModel, Tags, Models, None, Threads
  <2>2. row'.tag \in {row.tag, None} /\ (row'.tag # None => row' = row \/ row' = [row EXCEPT !.old = TRUE])
    BY <1>5, <2>1 DEF NoRow, RowTags
  <2>3. Tags' \subseteq Tags \cup {0} /\ Renewed' = Renewed
    BY <1>5, <2>2 DEF Tags, Renewed, signalVars, None
  <2>4. ASSUME ~overlapped  PROVE TagsAreOlder' /\ DraftsAgree' /\ RowAgrees'
    <3>1. TagsAreOlder'
      BY <1>5, <2>1, <2>3, <2>4 DEF AnalysesInv, TagsAreOlder, signalVars
    <3>2. DraftsAgree'
      BY <1>5, <2>4 DEF AnalysesInv, DraftsAgree, signalVars
    <3>3. RowAgrees'
      BY <1>5, <2>1, <2>2, <2>4 DEF AnalysesInv, RowAgrees, signalVars, RowTags
    <3> QED BY <3>1, <3>2, <3>3
  <2> QED BY <1>5, <2>4 DEF signalVars
<1>6. CASE RowExpires \/ Invalidate \/ HistoryGrows
  <2>1. StoredIsScorable'
    BY <1>6 DEF AnalysesInv, StoredIsScorable, RowExpires, Invalidate, HistoryGrows
  <2>2. /\ UNCHANGED <<signalVars, stage, draft>>
        /\ row' = row \/ row' = NoRow \/ row' = [row EXCEPT !.old = TRUE]
    BY <1>6 DEF RowExpires, Invalidate, HistoryGrows
  <2> QED BY <1>5, <2>1, <2>2
<1>7. CASE ScoreAll
  BY <1>5, <1>7 DEF ScoreAll, StoredIsScorable
<1>8. CASE UNCHANGED allAnalysisVars
  <2>1. UNCHANGED <<signalVars, stage, draft, row>>
    BY <1>8 DEF allAnalysisVars, analysisVars
  <2> QED BY <1>2, <1>5, <1>8, <2>1 DEF allAnalysisVars
<1> QED BY <1>1, <1>3, <1>4, <1>6, <1>7, <1>8 DEF AnalysesNext

\* An analysis that passes for the loaded model's was scored by it and flagged by its
\* threshold, whatever was trained meanwhile, and the loaded model is the file's once no
\* run is in flight.
THEOREM OneModelCorrect == AnalysesSpec => []ScoredByOneModel
<1>1. AnalysesInv => ScoredByOneModel
  BY CurrentFollows DEF AnalysesInv, RowAgrees, ScoredByOneModel
<1> QED BY <1>1, AnalysesInvInit, AnalysesInvStep, PTL DEF AnalysesSpec

-----------------------------------------------------------------------------
(* OutcomeFeatures *)

\* Bets are placed on announced markets, at the current time.
BetsArePast ==
  /\ ends = <<>> => bets = <<>>
  /\ \A i \in DOMAIN bets : bets[i].at <= time

OutcomeInv == OutcomeTypeOK /\ BetsArePast

LEMMA OutcomeInvInit == OutcomeInit => OutcomeInv
<1> SUFFICES ASSUME OutcomeInit  PROVE OutcomeInv
  OBVIOUS
<1>1. bets = <<>> /\ <<>> \in Seq(Bet) /\ DOMAIN bets = {}
  BY DEF OutcomeInit
<1>2. OutcomeTypeOK
  BY <1>1, OutcomeAssumption DEF OutcomeInit, OutcomeTypeOK
<1> QED BY <1>1, <1>2 DEF OutcomeInv, BetsArePast

\* What is known of a stored trade from its type.
LEMMA BetFields ==
  ASSUME OutcomeTypeOK, NEW i \in DOMAIN bets
  PROVE  bets[i].at \in Nat /\ bets[i].condition \in Events
<1>1. bets \in Seq(Bet)
  BY DEF OutcomeTypeOK
<1>2. bets[i] \in Bet
  BY <1>1, LenProperties
<1> QED BY <1>2 DEF Bet

\* The trade that is placed comes after the others and leaves them as they are.
LEMMA PlaceBetAppends ==
  ASSUME OutcomeTypeOK, NEW w \in Bettors, NEW c \in Events, NEW s \in Sorts, PlaceBet(w, c, s)
  PROVE  /\ bets' \in Seq(Bet) /\ DOMAIN bets = 1..Len(bets) /\ Len(bets) \in Nat
         /\ DOMAIN bets' = 1..(Len(bets) + 1)
         /\ \A i \in DOMAIN bets : bets'[i] = bets[i]
         /\ bets'[Len(bets) + 1].at = time /\ bets'[Len(bets) + 1].condition = c
<1> DEFINE new == [wallet |-> w, condition |-> c, sort |-> s, at |-> time]
<1>1. new \in Bet /\ bets \in Seq(Bet) /\ bets' = Append(bets, new)
  BY DEF OutcomeTypeOK, Bet, PlaceBet
<1> HIDE DEF new
<1>2. /\ Append(bets, new) \in Seq(Bet) /\ Len(Append(bets, new)) = Len(bets) + 1
      /\ \A i \in 1..Len(bets) : Append(bets, new)[i] = bets[i]
      /\ Append(bets, new)[Len(bets) + 1] = new
  BY <1>1, AppendProperties
<1>3. DOMAIN bets = 1..Len(bets) /\ Len(bets) \in Nat
  BY <1>1, LenProperties
<1>4. DOMAIN Append(bets, new) = 1..(Len(bets) + 1)
  BY <1>1, <1>2, LenProperties
<1>5. new.at = time /\ new.condition = c
  BY DEF new
<1> QED BY <1>1, <1>2, <1>3, <1>4, <1>5

LEMMA OutcomeInvStep == OutcomeInv /\ [OutcomeNext]_outcomeVars => OutcomeInv'
<1> SUFFICES ASSUME OutcomeInv, [OutcomeNext]_outcomeVars  PROVE OutcomeInv'
  OBVIOUS
<1> USE OutcomeAssumption DEF OutcomeInv, OutcomeTypeOK, BetsArePast
<1>1. CASE Announce
  <2>1. DOMAIN bets = {}
    BY <1>1 DEF Announce
  <2> QED BY <1>1, <2>1 DEF Announce
<1>2. CASE TimePasses
  <2>1. \A i \in DOMAIN bets : bets[i].at \in Int
    BY BetFields
  <2> QED BY <1>2, <2>1 DEF TimePasses
<1>3. ASSUME NEW w \in Bettors, NEW c \in Events, NEW s \in Sorts, PlaceBet(w, c, s)
      PROVE  OutcomeInv'
  <2>1. UNCHANGED <<time, ends, winner>> /\ ends # <<>>
    BY <1>3 DEF PlaceBet
  <2> DEFINE n == Len(bets) + 1
  <2>2. /\ bets' \in Seq(Bet) /\ DOMAIN bets = 1..(n - 1) /\ n \in Nat /\ DOMAIN bets' = 1..n
        /\ \A i \in DOMAIN bets : bets'[i] = bets[i]
        /\ bets'[n].at = time
    <3>1. bets \in Seq(Bet)
      OBVIOUS
    <3> QED BY <1>3, <3>1, PlaceBetAppends, LenProperties
  <2> HIDE DEF n
  <2>3. \A i \in DOMAIN bets' : bets'[i].at <= time
    BY <2>2
  <2>4. \A i, j \in DOMAIN bets' : i < j => bets'[i].at <= bets'[j].at
    <3> SUFFICES ASSUME NEW i \in 1..n, NEW j \in 1..n, i < j  PROVE bets'[i].at <= bets'[j].at
      BY <2>2
    <3>1. i \in DOMAIN bets
      BY <2>2
    <3>2. CASE j = n
      BY <2>2, <3>1, <3>2
    <3>3. CASE j # n
      <4>1. j \in DOMAIN bets
        BY <2>2, <3>3
      <4>2. bets[i].at <= bets[j].at
        BY <3>1, <4>1
      <4> QED BY <2>2, <3>1, <4>1, <4>2
    <3> QED BY <3>2, <3>3
  <2> QED BY <2>1, <2>2, <2>3, <2>4
<1>4. ASSUME NEW c \in Events, NEW token \in {"YES", "NO"}, Resolve(c, token)  PROVE OutcomeInv'
  BY <1>4 DEF Resolve
<1>5. CASE UNCHANGED outcomeVars
  BY <1>5 DEF outcomeVars
<1> QED BY <1>1, <1>2, <1>3, <1>4, <1>5 DEF OutcomeNext

\* Trades are kept in the order of their times, and none is of the future.
THEOREM OutcomeTypeCorrect == OutcomeSpec => []OutcomeTypeOK
<1>1. OutcomeInv => OutcomeTypeOK
  BY DEF OutcomeInv
<1> QED BY <1>1, OutcomeInvInit, OutcomeInvStep, PTL DEF OutcomeSpec
-----------------------------------------------------------------------------
\* The columns are functions of the trades before and of the known ones and their
\* outcomes.
LEMMA SameRow ==
  ASSUME NEW i \in DOMAIN bets,
         bets'[i] = bets[i], \A j \in 1..(i - 1) : bets'[j] = bets[j],
         Known(i)' = Known(i),
         \A j \in Known(i) : Won(bets[j])' = Won(bets[j])
  PROVE  Row(i)' = Row(i)
<1>1. OwnBefore(i)' = OwnBefore(i) /\ MarketBefore(i)' = MarketBefore(i)
  BY DEF OwnBefore, MarketBefore
<1>2. {j \in OwnBefore(i) : bets[j].at >= bets[i].at - PaceTicks}'
        = {j \in OwnBefore(i) : bets[j].at >= bets[i].at - PaceTicks}
  BY <1>1 DEF OwnBefore
<1>3. {j \in Known(i) : Won(bets[j])}' = {j \in Known(i) : Won(bets[j])}
  OBVIOUS
<1>4. {bets[j].wallet : j \in MarketBefore(i)}' = {bets[j].wallet : j \in MarketBefore(i)}
  BY <1>1 DEF MarketBefore
<1> QED BY <1>1, <1>2, <1>3, <1>4 DEF Row

LEMMA LaterStep ==
  ASSUME OutcomeInv, OutcomeNext, NEW i \in DOMAIN bets, Row(i)' # Row(i)
  PROVE  \E c \in Events : ends[c] < bets[i].at /\ winner'[c] # winner[c]
<1> USE OutcomeAssumption DEF OutcomeInv, OutcomeTypeOK
<1>1. CASE Announce
  <2>1. bets = <<>> /\ DOMAIN bets = {}
    BY <1>1 DEF Announce, BetsArePast
  <2> QED BY <2>1
<1>2. CASE TimePasses
  <2>1. UNCHANGED <<ends, winner, bets>>
    BY <1>2 DEF TimePasses
  <2>2. Row(i)' = Row(i)
    BY <2>1 DEF Row, Known, OwnBefore, MarketBefore, Won, Decided
  <2> QED BY <2>2
<1>3. ASSUME NEW w \in Bettors, NEW c \in Events, NEW s \in Sorts, PlaceBet(w, c, s)
      PROVE  FALSE
  <2>0. /\ DOMAIN bets = 1..Len(bets) /\ Len(bets) \in Nat /\ DOMAIN bets' = 1..(Len(bets) + 1)
        /\ \A j \in DOMAIN bets : bets'[j] = bets[j]
        /\ bets'[Len(bets) + 1].condition = c
    BY <1>3, PlaceBetAppends
  <2>1. winner[c] = "UNRESOLVED" /\ UNCHANGED <<ends, winner>>
    BY <1>3 DEF PlaceBet
  <2>2. Known(i)' = Known(i)
    <3>1. ASSUME NEW j \in Known(i)'  PROVE j \in Known(i)
      <4>1. j # Len(bets) + 1
        BY <2>0, <2>1, <3>1 DEF Known, Decided
      <4> QED BY <2>0, <2>1, <3>1, <4>1 DEF Known, Decided
    <3>2. ASSUME NEW j \in Known(i)  PROVE j \in Known(i)'
      BY <2>0, <2>1, <3>2 DEF Known, Decided
    <3> QED BY <3>1, <3>2
  <2>3. \A j \in Known(i) : Won(bets[j])' = Won(bets[j])
    BY <2>0, <2>1 DEF Known, Won
  <2>4. bets'[i] = bets[i] /\ \A j \in 1..(i - 1) : bets'[j] = bets[j]
    BY <2>0
  <2>5. Row(i)' = Row(i)
    BY <2>2, <2>3, <2>4, SameRow
  <2> QED BY <2>5
<1>4. ASSUME NEW c \in Events, NEW token \in {"YES", "NO"}, Resolve(c, token)
      PROVE  ends[c] < bets[i].at /\ winner'[c] # winner[c]
  <2>0. /\ UNCHANGED <<ends, bets>> /\ winner[c] = "UNRESOLVED" /\ winner'[c] = token
        /\ \A d \in Events : d # c => winner'[d] = winner[d]
    BY <1>4 DEF Resolve
  <2>1. SUFFICES ASSUME ~(ends[c] < bets[i].at)  PROVE FALSE
    BY <2>0
  <2>2. \A j \in DOMAIN bets : bets[j].condition \in Events
    BY BetFields
  <2>3. Known(i)' = Known(i) /\ \A j \in Known(i) : bets[j].condition # c
    BY <2>0, <2>1, <2>2 DEF Known, Decided
  <2>4. \A j \in Known(i) : Won(bets[j])' = Won(bets[j])
    BY <2>0, <2>2, <2>3 DEF Known, Won
  <2> QED BY <2>0, <2>3, <2>4, SameRow
<1> QED BY <1>1, <1>2, <1>3, <1>4 DEF OutcomeNext

\* No later trade and no later outcome changes the features of an earlier trade, except
\* through a market whose announced end had passed before it.
THEOREM LaterChangesCorrect == OutcomeSpec => LaterChangesNothing
<1>1. OutcomeInv /\ [OutcomeNext]_outcomeVars => [RowsStand]_outcomeVars
  BY LaterStep DEF RowsStand
<1> QED BY <1>1, OutcomeInvInit, OutcomeInvStep, PTL DEF OutcomeSpec, LaterChangesNothing

-----------------------------------------------------------------------------
(* NotableFeatures *)

\* A stored trade of the wallet.
HistoryRow == [condition : Places, value : Values, at : 0..LastTick]

\* The trades are in the order of their times.
ByTime == \A i, j \in DOMAIN history : i <= j => history[i].at <= history[j].at

NotableInv == HistoryTypeOK /\ ByTime

LEMMA HistoryRows ==
  ASSUME HistoryTypeOK
  PROVE  /\ history \in Seq(HistoryRow) /\ Len(history) \in Nat /\ DOMAIN history = 1..Len(history)
         /\ \A i \in DOMAIN history : /\ history[i] \in HistoryRow /\ history[i].at \in 0..LastTick
                                      /\ history[i].value \in Nat \ {0}
<1>1. history \in Seq(HistoryRow)
  BY DEF HistoryTypeOK, HistoryRow
<1>2. /\ Len(history) \in Nat /\ DOMAIN history = 1..Len(history)
      /\ \A i \in DOMAIN history : history[i] \in HistoryRow
  BY <1>1, LenProperties, ElementOfSeq
<1>3. \A i \in DOMAIN history : history[i].at \in 0..LastTick /\ history[i].value \in Values
  BY <1>2 DEF HistoryRow
<1> QED BY <1>1, <1>2, <1>3, NotableAssumption

\* A stored trade comes after those of its time and before the later ones.
LEMMA StorePlace ==
  ASSUME NotableInv, NEW t \in 0..LastTick
  PROVE  LET before == Cardinality({j \in DOMAIN history : history[j].at <= t}) IN
           /\ before \in 0..Len(history)
           /\ \A j \in DOMAIN history : history[j].at <= t <=> j <= before
<1> DEFINE B == {j \in DOMAIN history : history[j].at <= t}
<1>1. DOMAIN history = 1..Len(history) /\ Len(history) \in Nat
      /\ \A i \in DOMAIN history : history[i].at \in Int
  BY HistoryRows DEF NotableInv
<1>2. t \in Int
  OBVIOUS
<1>0. SUFFICES /\ Cardinality(B) \in 0..Len(history)
               /\ \A j \in DOMAIN history : j \in B <=> j <= Cardinality(B)
  OBVIOUS
<1>3. CASE B = {}
  <2>1. Cardinality(B) = 0
    BY <1>3, FS_EmptySet
  <2> HIDE DEF B
  <2> QED BY <1>1, <1>3, <2>1
<1>4. CASE B # {}
  <2>1. PICK m \in B : \A j \in B : m >= j
    <3>1. B \in SUBSET Nat /\ \A n \in B : n <= Len(history)
      BY <1>1
    <3> HIDE DEF B
    <3> QED BY <1>1, <1>4, <3>1, GreatestNat
  <2>2. B = 1..m
    <3>1. ASSUME NEW j \in 1..m  PROVE j \in B
      <4>1. j \in DOMAIN history /\ m \in DOMAIN history /\ j <= m
        BY <1>1
      <4>2. history[j].at <= history[m].at /\ history[m].at <= t
        BY <4>1 DEF NotableInv, ByTime
      <4> QED BY <1>1, <1>2, <4>1, <4>2
    <3>2. ASSUME NEW j \in B  PROVE j \in 1..m
      BY <1>1, <2>1
    <3> QED BY <3>1, <3>2
  <2>3. m \in 1..Len(history) /\ m \in Int
    BY <1>1
  <2>4. Cardinality(1..m) = IF 1 > m THEN 0 ELSE m - 1 + 1
    BY <2>3, FS_Interval
  <2> HIDE DEF B
  <2>5. Cardinality(B) = m
    <3>1. m >= 1 /\ m - 1 + 1 = m
      BY <2>3
    <3>2. Cardinality(1..m) = m
      BY <2>3, <2>4, <3>1
    <3> QED BY <2>2, <3>2
  <2>6. \A j \in DOMAIN history : j \in B <=> j <= m
    BY <1>1, <2>2, <2>3
  <2> QED BY <1>1, <2>3, <2>5, <2>6
<1> QED BY <1>3, <1>4

LEMMA NotableInvInit == NotableInit => NotableInv
<1> SUFFICES ASSUME NotableInit  PROVE NotableInv
  OBVIOUS
<1>1. history = <<>> /\ Len(history) = 0 /\ history \in Seq(HistoryRow) /\ DOMAIN history = {}
  BY EmptySeq DEF NotableInit
<1> QED BY <1>1, NotableAssumption DEF NotableInv, HistoryTypeOK, ByTime, HistoryRow

LEMMA NotableInvStep == NotableInv /\ [NotableNext]_notableVars => NotableInv'
<1> SUFFICES ASSUME NotableInv, [NotableNext]_notableVars  PROVE NotableInv'
  OBVIOUS
<1>1. ASSUME NEW c \in Places, NEW v \in Values, NEW t \in 0..LastTick, StoreTrade(c, v, t)
      PROVE  NotableInv'
  <2> DEFINE k == Cardinality({j \in DOMAIN history : history[j].at <= t})
             e == [condition |-> c, value |-> v, at |-> t]
             pre == SubSeq(history, 1, k)
             post == SubSeq(history, k + 1, Len(history))
             n == Len(history)
  <2>1. /\ history \in Seq(HistoryRow) /\ n \in Nat /\ DOMAIN history = 1..n
        /\ \A i \in 1..n : history[i] \in HistoryRow /\ history[i].at \in Int
    BY HistoryRows DEF NotableInv
  <2>2. k \in 0..n /\ \A j \in 1..n : history[j].at <= t <=> j <= k
    BY <2>1, StorePlace
  <2>3. history' = (SubSeq(history, 1, (k + 1) - 1) \o <<e>>) \o SubSeq(history, k + 1, n) /\ n < MaxLength
    BY <1>1 DEF StoreTrade, InsertAt
  <2> HIDE DEF k
  <2>4. (k + 1) - 1 = k
    BY <2>2
  <2>5. history' = (pre \o <<e>>) \o post
    BY <2>3, <2>4
  <2>6. e \in HistoryRow /\ e.at = t
    BY DEF HistoryRow
  <2>7. /\ pre \in Seq(HistoryRow) /\ Len(pre) = k /\ \A i \in 1..k : pre[i] = history[i]
    BY <2>1, <2>2, SubSeqProperties
  <2>8. /\ post \in Seq(HistoryRow) /\ Len(post) = n - k /\ \A i \in 1..(n - k) : post[i] = history[k + i]
    <3> DEFINE m == k + 1
    <3>1. m \in Int /\ n \in Int /\ \A i \in m..n : history[i] \in HistoryRow
      BY <2>1, <2>2
    <3>2. n - m + 1 = n - k /\ (m <= n <=> n - k > 0) /\ n - k \in Nat
          /\ \A i \in 1..(n - k) : m + i - 1 = k + i
      BY <2>1, <2>2
    <3> HIDE DEF m
    <3> DEFINE p == SubSeq(history, m, n)
    <3>3. /\ p \in Seq(HistoryRow) /\ Len(p) = (IF m <= n THEN n - m + 1 ELSE 0)
          /\ \A i \in 1..(n - m + 1) : p[i] = history[m + i - 1]
      BY <3>1, SubSeqProperties
    <3> HIDE DEF p
    <3>4. p \in Seq(HistoryRow) /\ Len(p) = n - k /\ \A i \in 1..(n - k) : p[i] = history[k + i]
      BY <3>2, <3>3
    <3> QED BY <3>4 DEF p, m
  <2> HIDE DEF e, pre, post, n
  <2> DEFINE one == <<e>>
  <2>9. one \in Seq(HistoryRow) /\ Len(one) = 1 /\ one[1] = e
    BY <2>6
  <2> HIDE DEF one
  <2> DEFINE mid == pre \o one
  <2>10. /\ mid \in Seq(HistoryRow) /\ Len(mid) = k + 1
         /\ \A i \in 1..(k + 1) : mid[i] = IF i <= k THEN pre[i] ELSE one[i - k]
    <3>1. /\ mid \in Seq(HistoryRow) /\ Len(mid) = Len(pre) + Len(one)
          /\ \A i \in 1..(Len(pre) + Len(one)) :
               mid[i] = IF i <= Len(pre) THEN pre[i] ELSE one[i - Len(pre)]
      BY <2>7, <2>9, ConcatProperties
    <3> HIDE DEF mid
    <3> QED BY <2>7, <2>9, <3>1
  <2>11. history' = mid \o post
    BY <2>5 DEF one
  <2> HIDE DEF mid
  <2>12. /\ history' \in Seq(HistoryRow) /\ Len(history') = (k + 1) + (n - k)
         /\ \A i \in 1..((k + 1) + (n - k)) :
              history'[i] = IF i <= k + 1 THEN mid[i] ELSE post[i - (k + 1)]
    <3> DEFINE all == mid \o post
    <3>1. /\ all \in Seq(HistoryRow) /\ Len(all) = Len(mid) + Len(post)
          /\ \A i \in 1..(Len(mid) + Len(post)) :
               all[i] = IF i <= Len(mid) THEN mid[i] ELSE post[i - Len(mid)]
      BY <2>8, <2>10, ConcatProperties
    <3>2. all = history'
      BY <2>11
    <3> HIDE DEF all
    <3> QED BY <2>8, <2>10, <3>1, <3>2
  <2>13. Len(history') = n + 1 /\ DOMAIN history' = 1..(n + 1)
    <3>1. (k + 1) + (n - k) = n + 1
      BY <2>1, <2>2
    <3> QED BY <2>12, <3>1, LenProperties
  <2>14. \A i \in 1..(n + 1) : /\ i <= k => history'[i] = history[i] /\ i \in 1..n
                               /\ i = k + 1 => history'[i] = e
                               /\ i > k + 1 => history'[i] = history[i - 1] /\ i - 1 \in 1..n
    <3> TAKE i \in 1..(n + 1)
    <3>1. i \in 1..((k + 1) + (n - k)) /\ n \in Nat /\ k \in 0..n
      BY <2>1, <2>2
    <3>2. CASE i <= k
      <4>1. history'[i] = mid[i] /\ mid[i] = pre[i] /\ pre[i] = history[i]
        BY <2>7, <2>10, <2>12, <3>1, <3>2
      <4> QED BY <3>1, <3>2, <4>1
    <3>3. CASE i = k + 1
      <4>1. history'[i] = mid[i] /\ mid[i] = one[i - k] /\ i - k = 1
        BY <2>10, <2>12, <3>1, <3>3
      <4> QED BY <2>9, <3>1, <3>3, <4>1
    <3>4. CASE i > k + 1
      <4>1. history'[i] = post[i - (k + 1)] /\ i - (k + 1) \in 1..(n - k) /\ k + (i - (k + 1)) = i - 1
        BY <2>12, <3>1, <3>4
      <4>2. post[i - (k + 1)] = history[i - 1]
        BY <2>8, <4>1
      <4> QED BY <3>1, <3>4, <4>1, <4>2
    <3> QED BY <3>1, <3>2, <3>3, <3>4
  <2>15. HistoryTypeOK'
    BY <2>1, <2>3, <2>12, <2>13, NotableAssumption DEF HistoryTypeOK, HistoryRow, n
  <2>16. ASSUME NEW i \in 1..(n + 1), NEW j \in 1..(n + 1), i <= j
         PROVE  history'[i].at <= history'[j].at
    <3> DEFINE at(l) == history[l].at
    <3>1. /\ \A l \in 1..n : at(l) \in Int /\ (at(l) <= t <=> l <= k)
          /\ \A l, m \in 1..n : l <= m => at(l) <= at(m)
          /\ t \in Int /\ k \in Int
      BY <2>1, <2>2 DEF NotableInv, ByTime
    <3>2. \A l \in 1..(n + 1) : /\ l <= k => history'[l].at = at(l) /\ l \in 1..n
                                /\ l = k + 1 => history'[l].at = t
                                /\ l > k + 1 => history'[l].at = at(l - 1) /\ l - 1 \in 1..n
      BY <2>6, <2>14
    <3> HIDE DEF at
    <3>3. i \in Int /\ j \in Int
      BY <2>1
    <3>4. CASE i <= k /\ j <= k
      BY <2>16, <3>1, <3>2, <3>4
    <3>5. CASE i <= k /\ j = k + 1
      BY <3>1, <3>2, <3>5
    <3>6. CASE i <= k /\ j > k + 1
      <4>1. history'[i].at = at(i) /\ history'[j].at = at(j - 1) /\ i \in 1..n /\ j - 1 \in 1..n /\ i <= j - 1
        BY <3>1, <3>2, <3>3, <3>6
      <4> QED BY <3>1, <4>1
    <3>7. CASE i = k + 1 /\ j = k + 1
      BY <3>1, <3>2, <3>7
    <3>8. CASE i = k + 1 /\ j > k + 1
      <4>1. history'[i].at = t /\ history'[j].at = at(j - 1) /\ j - 1 \in 1..n /\ ~(j - 1 <= k)
        BY <3>1, <3>2, <3>3, <3>8
      <4>2. ~(at(j - 1) <= t) /\ at(j - 1) \in Int
        BY <3>1, <4>1
      <4> QED BY <3>1, <4>1, <4>2
    <3>9. CASE i > k + 1 /\ j > k + 1
      <4>1. history'[i].at = at(i - 1) /\ history'[j].at = at(j - 1) /\ i - 1 \in 1..n /\ j - 1 \in 1..n
            /\ i - 1 <= j - 1
        BY <2>16, <3>2, <3>3, <3>9
      <4> QED BY <3>1, <4>1
    <3> QED BY <2>16, <3>1, <3>3, <3>4, <3>5, <3>6, <3>7, <3>8, <3>9
  <2>17. ByTime'
    BY <2>13, <2>16 DEF ByTime
  <2> QED BY <2>15, <2>17 DEF NotableInv
<1>2. CASE UNCHANGED notableVars
  BY <1>2 DEF notableVars, NotableInv, HistoryTypeOK, ByTime
<1> QED BY <1>1, <1>2 DEF NotableNext
-----------------------------------------------------------------------------
\* Sums and labels look no further than the trade.
LEMMA SameSums ==
  ASSUME NEW h, NEW k, NEW i \in Nat, \A j \in 1..(i - 1) : h[j].value = k[j].value
  PROVE  SumBefore(h, i) = SumBefore(k, i) /\ SpreadBefore(h, i) = SpreadBefore(k, i)
<1>1. /\ [j \in 1..(i - 1) |-> h[j].value] = [j \in 1..(i - 1) |-> k[j].value]
      /\ [j \in 1..(i - 1) |-> h[j].value * h[j].value] = [j \in 1..(i - 1) |-> k[j].value * k[j].value]
  OBVIOUS
<1> QED BY <1>1 DEF SumBefore, SumSqBefore, SpreadBefore

LEMMA SameNotable ==
  ASSUME NEW h, NEW k, NEW i \in Nat, \A j \in 1..i : h[j].value = k[j].value, i >= 1
  PROVE  Notable(h, i) = Notable(k, i)
<1>1. SumBefore(h, i) = SumBefore(k, i) /\ SpreadBefore(h, i) = SpreadBefore(k, i)
  <2>1. \A j \in 1..(i - 1) : h[j].value = k[j].value
    OBVIOUS
  <2> QED BY <2>1, SameSums
<1>2. h[i].value = k[i].value
  OBVIOUS
<1> QED BY <1>1, <1>2, Zenon DEF Notable

LEMMA SameSafeRow ==
  ASSUME NEW h, NEW k, NEW i \in Nat, i >= 2, \A j \in 1..(i - 1) : h[j] = k[j],
         h[i].at = k[i].at, h[i].condition = k[i].condition
  PROVE  SafeRow(h, i) = SafeRow(k, i)
<1>1. SumBefore(h, i) = SumBefore(k, i) /\ SpreadBefore(h, i) = SpreadBefore(k, i)
  BY SameSums
<1>2. h[i].at - h[i - 1].at = k[i].at - k[i - 1].at
  OBVIOUS
<1>3. Pace(h, i) = Pace(k, i)
  <2>1. {j \in 1..(i - 1) : h[j].at >= h[i].at - PaceWindow}
          = {j \in 1..(i - 1) : k[j].at >= k[i].at - PaceWindow}
    OBVIOUS
  <2> QED BY <2>1 DEF Pace
<1>4. {j \in 2..(i - 1) : Notable(h, j)} = {j \in 2..(i - 1) : Notable(k, j)}
  <2>1. ASSUME NEW j \in 2..(i - 1)  PROVE Notable(h, j) = Notable(k, j)
    <3>1. j \in Nat /\ j >= 1 /\ \A l \in 1..j : h[l].value = k[l].value
      OBVIOUS
    <3> QED BY <3>1, SameNotable
  <2> QED BY <2>1
<1>5. {j \in 1..(i - 1) : h[j].condition = h[i].condition}
        = {j \in 1..(i - 1) : k[j].condition = k[i].condition}
  OBVIOUS
<1> QED BY <1>1, <1>2, <1>3, <1>4, <1>5, Zenon DEF SafeRow

LEMMA NotableBlind == HistoryTypeOK => SafeIsBlind
<1> SUFFICES ASSUME HistoryTypeOK, NEW v \in Values, Len(history) \in Emitted(history)
    PROVE  SafeRow([history EXCEPT ![Len(history)].value = v], Len(history)) = SafeRow(history, Len(history))
  BY DEF SafeIsBlind
<1> DEFINE i == Len(history)
           h == [history EXCEPT ![i].value = v]
<1>1. i \in Nat /\ i >= 2 /\ DOMAIN history = 1..i
  BY HistoryRows, NotableAssumption DEF Emitted
<1>2. history[i] \in HistoryRow
  BY <1>1, HistoryRows
<1>3. \A j \in 1..(i - 1) : h[j] = history[j]
  BY <1>1
<1>4. h[i] = [history[i] EXCEPT !.value = v]
  BY <1>1
<1>5. h[i].at = history[i].at /\ h[i].condition = history[i].condition
  BY <1>2, <1>4 DEF HistoryRow
<1> HIDE DEF h
<1>6. SafeRow(h, i) = SafeRow(history, i)
  BY <1>1, <1>3, <1>5, SameSafeRow
<1> QED BY <1>6 DEF h

LEMMA NotablePast == HistoryTypeOK => NoLookAhead
<1> SUFFICES ASSUME HistoryTypeOK, NEW i \in Emitted(history)
    PROVE  LET past == SubSeq(history, 1, i) IN
             DataRow(history, i) = [x |-> ScoreRow(past, i), y |-> Notable(past, i), at |-> past[i].at]
  BY DEF NoLookAhead
<1> DEFINE past == SubSeq(history, 1, i)
<1>1. i \in Nat /\ i >= 2 /\ i <= Len(history) /\ Len(history) \in Nat /\ i >= MinPrior + 1
  BY HistoryRows, NotableAssumption DEF Emitted
<1>2. Len(past) = i /\ \A j \in 1..i : past[j] = history[j]
  <2>1. history \in Seq(HistoryRow) /\ 1 \in 1..(Len(history) + 1) /\ i \in (1 - 1)..Len(history)
    BY <1>1, HistoryRows
  <2>2. Len(past) = i - 1 + 1 /\ \A j \in 1..(i - 1 + 1) : past[j] = history[1 + j - 1]
    BY <2>1, SubSeqProperties
  <2> HIDE DEF past
  <2> QED BY <1>1, <2>2
<1> HIDE DEF past
<1>3. SafeRow(past, i) = SafeRow(history, i)
  <2>1. /\ \A j \in 1..(i - 1) : past[j] = history[j]
        /\ past[i].at = history[i].at /\ past[i].condition = history[i].condition
    BY <1>1, <1>2
  <2> QED BY <1>1, <2>1, SameSafeRow
<1>4. Notable(past, i) = Notable(history, i)
  <2>1. \A j \in 1..i : past[j].value = history[j].value
    BY <1>2
  <2> QED BY <1>1, <2>1, SameNotable
<1>5. i \in Emitted(past) /\ past[i].at = history[i].at
  BY <1>1, <1>2, NotableAssumption DEF Emitted
<1>6. DataRow(history, i) = [x |-> ScoreRow(past, i), y |-> Notable(past, i), at |-> past[i].at]
  BY <1>3, <1>4, <1>5, Zenon DEF DataRow, ScoreRow
<1> QED BY <1>6 DEF past

LEMMA NotableConstant == HistoryTypeOK => ConstantIsNeverNotable
<1> SUFFICES ASSUME HistoryTypeOK, NEW i \in 2..Len(history),
                    \A j \in 1..(i - 1) : history[j].value = history[i].value
             PROVE  ~Notable(history, i)
  BY DEF ConstantIsNeverNotable
<1> DEFINE n == i - 1
           v == history[i].value
           S == 1..n
           f == [j \in S |-> history[j].value]
           g == [j \in S |-> history[j].value * history[j].value]
<1>1. n \in Nat \ {0} /\ v \in Nat \ {0} /\ i \in DOMAIN history /\ v * v \in Int
  <2>1. i \in DOMAIN history /\ n \in Nat \ {0}
    BY HistoryRows
  <2>2. v \in Nat \ {0}
    BY <2>1, HistoryRows
  <2> HIDE DEF v
  <2> QED BY <2>1, <2>2
<1>2. IsFiniteSet(S) /\ Cardinality(S) = n
  BY <1>1, FS_Interval
<1>3. \A j \in S : f[j] = v /\ g[j] = v * v
  OBVIOUS
<1>4. SumBefore(history, i) = SumFunctionOnSet(f, S) /\ SumSqBefore(history, i) = SumFunctionOnSet(g, S)
  BY DEF SumBefore, SumSqBefore
<1>5. Notable(history, i) =>
        IF SpreadBefore(history, i) > 0 THEN TRUE ELSE n * v > 2 * SumBefore(history, i)
  BY DEF Notable
<1>6. SpreadBefore(history, i) =
        n * SumSqBefore(history, i) - SumBefore(history, i) * SumBefore(history, i)
  BY DEF SpreadBefore
<1> HIDE DEF n, v, S, f, g
<1>7. SumBefore(history, i) = v * n /\ SumSqBefore(history, i) = (v * v) * n
  <2>1. v \in Int
    BY <1>1
  <2>2. SumFunctionOnSet(f, S) = v * Cardinality(S)
    BY <1>2, <1>3, <2>1, SumConstant
  <2>3. SumFunctionOnSet(g, S) = (v * v) * Cardinality(S)
    BY <1>1, <1>2, <1>3, SumConstant
  <2> QED BY <1>2, <1>4, <2>2, <2>3
<1>8. n * ((v * v) * n) - (v * n) * (v * n) = 0
  BY <1>1
<1>9. ~(SpreadBefore(history, i) > 0)
  BY <1>6, <1>7, <1>8
<1>10. ~(n * v > 2 * (v * n))
  <2>1. n * v = v * n /\ v * n \in Nat
    BY <1>1
  <2> QED BY <2>1
<1> QED BY <1>5, <1>7, <1>9, <1>10

LEMMA NotableSplit == NotableInv => SplitByTime
<1> SUFFICES ASSUME NotableInv, Len(history) - MinPrior >= 4
    PROVE  LET n == Len(history) - MinPrior
               at(k) == history[MinPrior + k].at IN
             /\ 0 < TrainEnd(n) /\ TrainEnd(n) < ValEnd(n) /\ ValEnd(n) < n
             /\ \A k \in 1..TrainEnd(n), l \in (TrainEnd(n) + 1)..n : at(k) <= at(l)
  BY DEF SplitByTime
<1> DEFINE n == Len(history) - MinPrior
<1>1. n \in Nat /\ n >= 4 /\ Len(history) = MinPrior + n /\ DOMAIN history = 1..Len(history) /\ MinPrior \in Nat
  BY HistoryRows, NotableAssumption DEF NotableInv
<1> HIDE DEF n
<1>2. 0 < TrainEnd(n) /\ TrainEnd(n) < ValEnd(n) /\ ValEnd(n) < n /\ TrainEnd(n) \in Int
  <2>1. n \in Nat /\ n >= 4
    BY <1>1
  <2> QED BY <2>1 DEF TrainEnd, ValEnd
<1>3. ASSUME NEW k \in 1..TrainEnd(n), NEW l \in (TrainEnd(n) + 1)..n
      PROVE  history[MinPrior + k].at <= history[MinPrior + l].at
  <2>1. /\ MinPrior + k \in DOMAIN history /\ MinPrior + l \in DOMAIN history
        /\ MinPrior + k <= MinPrior + l
    <3>1. ValEnd(n) \in Int
      BY <1>1 DEF ValEnd
    <3> QED BY <1>1, <1>2, <3>1
  <2> QED BY <2>1 DEF NotableInv, ByTime
<1> QED BY <1>2, <1>3 DEF n

\* A wallet's history is well typed at every length, and so is every row drawn from it
\* (app/ml/features.py).
THEOREM NotableTypeCorrect == NotableSpec => []HistoryTypeOK
<1>1. NotableInv => HistoryTypeOK
  BY DEF NotableInv
<1> QED BY <1>1, NotableInvInit, NotableInvStep, PTL DEF NotableSpec

\* Training sees of a trade what it was scored with when it was the newest of its wallet:
\* nothing later reaches a row or a label, a row does not carry what its label is about,
\* and the parts of the split are in the order of time (build_features_for_wallet
\* in app/ml/features.py, temporal_split in app/ml/train.py).
THEOREM RowsCorrect == NotableSpec => []RowsAreHonest
<1>1. NotableInv => RowsAreHonest
  BY NotableBlind, NotablePast, NotableConstant, NotableSplit DEF NotableInv, RowsAreHonest
<1> QED BY <1>1, NotableInvInit, NotableInvStep, PTL DEF NotableSpec

-----------------------------------------------------------------------------
(* Scores *)

LEMMA ScoresTypeInit == ScoresInit => ScoresTypeOK
  BY EmptySeq, ScoresAssumption DEF ScoresInit, ScoresTypeOK

LEMMA ScoresTypeStep == ScoresTypeOK /\ [ScoresNext]_sample => ScoresTypeOK'
<1> SUFFICES ASSUME ScoresTypeOK, [ScoresNext]_sample  PROVE ScoresTypeOK'
  OBVIOUS
<1> DEFINE E == [score : Levels, label : {0, 1}]
<1>1. ASSUME NEW s \in Levels, NEW y \in {0, 1}, AddRow(s, y)  PROVE ScoresTypeOK'
  <2> DEFINE e == [score |-> s, label |-> y]
  <2>1. sample \in Seq(E) /\ e \in E /\ Len(sample) < MaxSample /\ sample' = Append(sample, e)
    BY <1>1 DEF AddRow, ScoresTypeOK
  <2>2. sample' \in Seq(E) /\ Len(sample') = Len(sample) + 1 /\ Len(sample) \in Nat
    <3> HIDE DEF E, e
    <3> QED BY <2>1, AppendProperties, LenProperties
  <2> QED BY <2>1, <2>2, ScoresAssumption DEF ScoresTypeOK
<1>2. CASE UNCHANGED sample
  BY <1>2 DEF ScoresTypeOK
<1> QED BY <1>1, <1>2 DEF ScoresNext

\* The rows, their scores and labels.
LEMMA SampleRows ==
  ASSUME ScoresTypeOK
  PROVE  /\ IsFiniteSet(DOMAIN sample) /\ DOMAIN sample = 1..Len(sample) /\ Len(sample) \in Nat
         /\ \A i \in DOMAIN sample : sample[i].score \in Nat \ {0} /\ sample[i].score \in Levels
                                     /\ sample[i].label \in {0, 1}
         /\ Positives \subseteq DOMAIN sample /\ IsFiniteSet(Positives)
<1> DEFINE E == [score : Levels, label : {0, 1}]
<1>1. sample \in Seq(E)
  BY DEF ScoresTypeOK
<1>2. DOMAIN sample = 1..Len(sample) /\ Len(sample) \in Nat /\ \A i \in DOMAIN sample : sample[i] \in E
  <2> HIDE DEF E
  <2> QED BY <1>1, LenProperties, ElementOfSeq
<1>3. IsFiniteSet(1..Len(sample))
  BY <1>2, FS_Interval
<1>4. Positives \subseteq DOMAIN sample
  BY DEF Positives
<1> QED BY <1>2, <1>3, <1>4, FS_Subset, ScoresAssumption

\* Counts of the flagged rows; a candidate flags the row it is the score of.
LEMMA FBetaType ==
  ASSUME ScoresTypeOK, NEW c \in {sample[i].score : i \in DOMAIN sample}
  PROVE  /\ FBeta(c) \in Nat \X (Nat \ {0}) /\ TP(c) \in Nat
         /\ FBeta(c)[1] = 5 * TP(c) /\ c \in Nat \ {0}
<1>1. PICK i \in DOMAIN sample : sample[i].score = c
  OBVIOUS
<1>2. i \in Flagged(c) /\ c \in Nat \ {0}
  BY <1>1, SampleRows DEF Flagged
<1>3. /\ Flagged(c) \cap Positives \subseteq DOMAIN sample
      /\ Flagged(c) \ Positives \subseteq DOMAIN sample
      /\ Positives \ Flagged(c) \subseteq DOMAIN sample
  BY SampleRows DEF Flagged
<1>4. /\ IsFiniteSet(Flagged(c) \cap Positives) /\ IsFiniteSet(Flagged(c) \ Positives)
      /\ IsFiniteSet(Positives \ Flagged(c))
  BY <1>3, SampleRows, FS_Subset
<1>5. TP(c) \in Nat /\ FP(c) \in Nat /\ FN(c) \in Nat
  BY <1>4, FS_CardinalityType DEF TP, FP, FN
<1>6. TP(c) # 0 \/ FP(c) # 0
  BY <1>2, <1>4, FS_EmptySet DEF TP, FP
<1> QED BY <1>2, <1>5, <1>6 DEF FBeta

\* Fractions are ordered by cross products.
Fractions == Nat \X (Nat \ {0})

LEMMA FractionOrder ==
  ASSUME NEW a \in Fractions, NEW b \in Fractions, NEW c \in Fractions
  PROVE  /\ ~Less(b, a) /\ ~Less(c, b) => ~Less(c, a)
         /\ Less(a, b) /\ ~Less(c, b) => Less(a, c)
         /\ ~Less(b, a) /\ Less(b, c) => Less(a, c)
         /\ ~Less(a, a) /\ (Less(a, b) => ~Less(b, a))
<1> DEFINE a1 == a[1]  a2 == a[2]  b1 == b[1]  b2 == b[2]  c1 == c[1]  c2 == c[2]
<1>1. /\ a1 \in Nat /\ b1 \in Nat /\ c1 \in Nat
      /\ a2 \in Nat \ {0} /\ b2 \in Nat \ {0} /\ c2 \in Nat \ {0}
  BY DEF Fractions
<1>2. /\ (Less(a, b) <=> a1 * b2 < b1 * a2) /\ (Less(b, a) <=> b1 * a2 < a1 * b2)
      /\ (Less(b, c) <=> b1 * c2 < c1 * b2) /\ (Less(c, b) <=> c1 * b2 < b1 * c2)
      /\ (Less(a, c) <=> a1 * c2 < c1 * a2) /\ (Less(c, a) <=> c1 * a2 < a1 * c2)
      /\ (Less(a, a) <=> a1 * a2 < a1 * a2)
  BY DEF Less
<1> HIDE DEF a1, a2, b1, b2, c1, c2
<1> DEFINE ab == a1 * b2  ba == b1 * a2  bc == b1 * c2  cb == c1 * b2  ac == a1 * c2  ca == c1 * a2
<1>3. ab \in Nat /\ ba \in Nat /\ bc \in Nat /\ cb \in Nat /\ ac \in Nat /\ ca \in Nat
  BY <1>1
<1>4. ab * c2 = ac * b2 /\ ba * c2 = bc * a2 /\ cb * a2 = ca * b2
  BY <1>1
<1> HIDE DEF ab, ba, bc, cb, ac, ca
<1>5. (ab <= ba <=> ab * c2 <= ba * c2) /\ (ab < ba <=> ab * c2 < ba * c2)
  BY <1>1, <1>3, TimesOrder
<1>6. (bc <= cb <=> bc * a2 <= cb * a2) /\ (bc < cb <=> bc * a2 < cb * a2)
  BY <1>1, <1>3, TimesOrder
<1>7. (ac <= ca <=> ac * b2 <= ca * b2) /\ (ac < ca <=> ac * b2 < ca * b2)
  BY <1>1, <1>3, TimesOrder
<1>8. /\ ab * c2 \in Nat /\ ba * c2 \in Nat /\ cb * a2 \in Nat
  BY <1>1, <1>3
<1> DEFINE x == ab * c2  y == ba * c2  z == cb * a2
<1>9. /\ (ab <= ba <=> x <= y) /\ (ab < ba <=> x < y)
      /\ (bc <= cb <=> y <= z) /\ (bc < cb <=> y < z)
      /\ (ac <= ca <=> x <= z) /\ (ac < ca <=> x < z)
  BY <1>4, <1>5, <1>6, <1>7
<1>10. x \in Nat /\ y \in Nat /\ z \in Nat
  BY <1>8
<1> HIDE DEF x, y, z
<1>11. /\ ab <= ba /\ bc <= cb => ac <= ca
       /\ ab < ba /\ bc <= cb => ac < ca
       /\ ab <= ba /\ bc < cb => ac < ca
  BY <1>9, <1>10
<1>12. /\ (Less(a, b) <=> ab < ba) /\ (Less(b, a) <=> ba < ab) /\ (Less(b, c) <=> bc < cb)
       /\ (Less(c, b) <=> cb < bc) /\ (Less(a, c) <=> ac < ca) /\ (Less(c, a) <=> ca < ac)
       /\ (Less(a, a) <=> a1 * a2 < a1 * a2)
  BY <1>2 DEF ab, ba, bc, cb, ac, ca
<1>13. a1 * a2 \in Nat
  BY <1>1
<1> QED BY <1>3, <1>11, <1>12, <1>13
-----------------------------------------------------------------------------
Start == [at |-> Default, f |-> Zero]

\* What the loop knows after the candidates S.
BestOf(S, best) ==
  \/ best = Start /\ \A c \in S : TP(c) = 0
  \/ /\ best = [at |-> best.at, f |-> FBeta(best.at)] /\ best.at \in S /\ TP(best.at) > 0
     /\ \A c \in S : ~Less(best.f, FBeta(c)) /\ (c > best.at => Less(FBeta(c), best.f))

LEMMA CandidatesOccur ==
  ASSUME ScoresTypeOK
  PROVE  /\ Candidates \subseteq {sample[i].score : i \in DOMAIN sample}
         /\ IsFiniteSet(Candidates) /\ Candidates \subseteq Nat \ {0}
         /\ \A c \in Candidates : FBeta(c) \in Fractions /\ TP(c) \in Nat /\ FBeta(c)[1] = 5 * TP(c)
<1> DEFINE all == {sample[i].score : i \in DOMAIN sample}
<1>1. Candidates \subseteq all
  BY DEF Candidates
<1>2. all \subseteq Levels /\ all \subseteq Nat \ {0}
  BY SampleRows
<1>3. IsFiniteSet(Candidates)
  BY <1>1, <1>2, FS_Subset, ScoresAssumption
<1> QED BY <1>1, <1>2, <1>3, FBetaType DEF Fractions

\* The highest candidate comes last.
LEMMA BestStep ==
  ASSUME ScoresTypeOK, NEW S, S \subseteq Candidates, NEW m \in S, \A c \in S : m >= c,
         NEW best, BestOf(S \ {m}, best)
  PROVE  BestOf(S, Better(best, m))
<1> DEFINE new == [at |-> m, f |-> FBeta(m)]
<1>1. /\ \A c \in S : c \in Nat \ {0} /\ FBeta(c) \in Fractions /\ TP(c) \in Nat
                      /\ FBeta(c)[1] = 5 * TP(c)
      /\ Zero \in Fractions /\ Zero[1] = 0 /\ Zero[2] = 1
  BY CandidatesOccur DEF Zero, Fractions
<1>2. ASSUME NEW c \in S, NEW f \in Fractions, TP(c) = 0, f[1] > 0
      PROVE  Less(FBeta(c), f) /\ ~Less(f, FBeta(c))
  <2> DEFINE d == FBeta(c)
  <2>1. d[1] = 0 /\ d[2] \in Nat \ {0} /\ f[1] \in Nat \ {0} /\ f[2] \in Nat \ {0}
    BY <1>1, <1>2 DEF Fractions
  <2> HIDE DEF d
  <2>2. (Less(d, f) <=> d[1] * f[2] < f[1] * d[2]) /\ (Less(f, d) <=> f[1] * d[2] < d[1] * f[2])
    BY DEF Less
  <2> DEFINE x == d[1] * f[2]
             y == f[1] * d[2]
  <2>3. x = 0 /\ y \in Nat \ {0}
    BY <2>1
  <2> HIDE DEF x, y
  <2>4. x < y /\ ~(y < x)
    BY <2>3
  <2>5. Less(d, f) /\ ~Less(f, d)
    BY <2>2, <2>4 DEF x, y
  <2> QED BY <2>5 DEF d
\* A candidate that finds a positive and is not worse than those before is the best.
<1>3. ASSUME TP(m) > 0, \A c \in S \ {m} : ~Less(FBeta(m), FBeta(c))
      PROVE  BestOf(S, new)
  <2>1. new.at = m /\ new.f = FBeta(m) /\ new = [at |-> new.at, f |-> FBeta(new.at)]
    OBVIOUS
  <2>2. ~Less(FBeta(m), FBeta(m))
    BY <1>1, FractionOrder
  <2>3. \A c \in S : ~(c > m)
    BY <1>1
  <2> HIDE DEF new
  <2> QED BY <1>3, <2>1, <2>2, <2>3 DEF BestOf
<1>4. CASE best = Start /\ \A c \in S \ {m} : TP(c) = 0
  <2>1. best.at = 0 /\ best.f = Zero
    BY <1>4 DEF Start, Default
  <2>2. CASE TP(m) = 0
    <3>1. FBeta(m)[1] = 0 /\ FBeta(m)[2] \in Nat
      BY <1>1, <2>2 DEF Fractions
    <3>2. ~Less(Zero, FBeta(m))
      BY <1>1, <3>1 DEF Less
    <3>3. Better(best, m) = best
      BY <2>1, <3>1, <3>2 DEF Better
    <3> QED BY <1>4, <2>2, <3>3 DEF BestOf
  <2>3. CASE TP(m) # 0
    <3>1. FBeta(m)[1] > 0 /\ FBeta(m) \in Fractions /\ TP(m) > 0
      BY <1>1, <2>3
    <3>2. Less(Zero, FBeta(m))
      BY <1>1, <3>1 DEF Less, Fractions
    <3>3. Better(best, m) = new
      BY <2>1, <3>2 DEF Better
    <3>4. \A c \in S \ {m} : ~Less(FBeta(m), FBeta(c))
      BY <1>2, <1>4, <3>1
    <3> QED BY <1>3, <3>1, <3>3, <3>4
  <2> QED BY <2>2, <2>3
<1>5. CASE /\ best = [at |-> best.at, f |-> FBeta(best.at)] /\ best.at \in S \ {m} /\ TP(best.at) > 0
           /\ \A c \in S \ {m} : ~Less(best.f, FBeta(c)) /\ (c > best.at => Less(FBeta(c), best.f))
  <2>1. best.f = FBeta(best.at) /\ best.f \in Fractions /\ best.f[1] > 0 /\ m > best.at
    BY <1>1, <1>5
  <2>2. FBeta(m) \in Fractions /\ (TP(m) > 0 <=> FBeta(m)[1] > 0)
    BY <1>1
  <2>3. CASE Less(best.f, FBeta(m)) \/ (~Less(FBeta(m), best.f) /\ FBeta(m)[1] > 0)
    <3>1. Better(best, m) = new
      BY <2>1, <2>3 DEF Better
    <3>2. ~Less(FBeta(m), best.f)
      BY <2>1, <2>2, <2>3, FractionOrder
    <3>3. TP(m) > 0
      <4>1. TP(m) = 0 => ~Less(best.f, FBeta(m))
        BY <1>2, <2>1
      <4> QED BY <1>1, <2>2, <2>3, <4>1
    <3>4. ASSUME NEW c \in S \ {m}  PROVE ~Less(FBeta(m), FBeta(c))
      <4>1. FBeta(c) \in Fractions /\ ~Less(best.f, FBeta(c))
        BY <1>1, <1>5
      <4> QED BY <2>1, <2>2, <3>2, <4>1, FractionOrder
    <3> QED BY <1>3, <3>1, <3>3, <3>4
  <2>4. CASE ~(Less(best.f, FBeta(m)) \/ (~Less(FBeta(m), best.f) /\ FBeta(m)[1] > 0))
    <3>1. Better(best, m) = best
      BY <2>4 DEF Better
    <3>2. ~Less(best.f, FBeta(m)) /\ Less(FBeta(m), best.f)
      <4>1. CASE FBeta(m)[1] > 0
        BY <2>4, <4>1
      <4>2. CASE ~(FBeta(m)[1] > 0)
        <5>1. TP(m) = 0
          BY <1>1, <2>2, <4>2
        <5> QED BY <1>2, <2>1, <5>1
      <4> QED BY <4>1, <4>2
    <3> QED BY <1>5, <3>1, <3>2 DEF BestOf
  <2> QED BY <2>3, <2>4
<1> QED BY <1>4, <1>5 DEF BestOf

LEMMA ThresholdIsLast == ScoresTypeOK => \E best : BestOf(Candidates, best) /\ Threshold = best.at
<1> SUFFICES ASSUME ScoresTypeOK  PROVE \E best : BestOf(Candidates, best) /\ Threshold = best.at
  OBVIOUS
<1> DEFINE C == Candidates
           V == [at : Nat, f : Fractions]
           step == [p \in (SUBSET C) \X V |-> IF p[1] = {} THEN Start ELSE Better(p[2], Max(p[1]))]
           last == [s \in SUBSET C |-> Max(s)]
           Runs(g) == g = [s \in SUBSET C |-> IF s = {} THEN Start ELSE Better(g[s \ {Max(s)}], Max(s))]
<1>1. IsFiniteSet(C) /\ C \subseteq Nat \ {0} /\ Start \in V
  BY CandidatesOccur DEF Start, Default, Zero, Fractions
<1>2. ASSUME NEW s \in SUBSET C, s # {}  PROVE Max(s) \in s /\ \A c \in s : Max(s) >= c
  <2>1. s \in SUBSET Int /\ IsFiniteSet(s)
    <3>1. IsFiniteSet(C) /\ s \subseteq C
      BY <1>1
    <3>2. s \subseteq Int
      BY <1>1
    <3> HIDE DEF C
    <3> QED BY <3>1, <3>2, FS_Subset
  <2>2. \E m \in s : \A x \in s : m >= x
    BY <1>2, <2>1, FiniteExtremes
  <2> QED BY <2>2 DEF Max
<1>3. step \in [(SUBSET C) \X V -> V]
  <2>1. ASSUME NEW p \in (SUBSET C) \X V, p[1] # {}  PROVE Better(p[2], Max(p[1])) \in V
    <3> DEFINE m == Max(p[1])
               b == p[2]
    <3>1. m \in C /\ b \in V
      BY <1>2, <2>1
    <3>2. m \in Nat /\ FBeta(m) \in Fractions
      BY <1>1, <3>1, CandidatesOccur
    <3> HIDE DEF m, b
    <3>3. Better(b, m) \in V
      BY <3>1, <3>2 DEF Better
    <3> QED BY <3>3 DEF b, m
  <2> QED BY <1>1, <2>1
<1>4. PICK h : Loops(step, last, Start, C, V, h)
  <2>1. \A s \in SUBSET C : s # {} => last[s] \in s
    BY <1>2
  <2> HIDE DEF step, last, C, V
  <2> QED BY <1>1, <1>3, <2>1, LoopsExist
<1>5. Runs(h)
  <2>1. ASSUME NEW s \in SUBSET C
        PROVE  h[s] = IF s = {} THEN Start ELSE Better(h[s \ {Max(s)}], Max(s))
    <3>1. h[s] = IF s = {} THEN Start ELSE step[<<s, h[s \ {last[s]}]>>]
      BY <1>4 DEF Loops
    <3>2. CASE s # {}
      <4> DEFINE r == s \ {Max(s)}
      <4>1. h[r] \in V /\ s \ {last[s]} = r
        BY <1>4 DEF Loops
      <4>2. step[<<s, h[r]>>] = Better(h[r], Max(s))
        <5> HIDE DEF r, V
        <5> QED BY <3>2, <4>1
      <4> HIDE DEF r, step, last
      <4> QED BY <3>1, <3>2, <4>1, <4>2 DEF r
    <3> QED BY <3>1, <3>2
  <2>2. h = [s \in SUBSET C |-> h[s]]
    BY <1>4 DEF Loops
  <2> HIDE DEF C
  <2> QED BY <2>1, <2>2
<1> DEFINE g == CHOOSE g : Runs(g)
<1>6. Runs(g)
  <2> HIDE DEF Runs
  <2> QED BY <1>5
<1>7. Threshold = g[C].at
  BY DEF Threshold, Start
<1> HIDE DEF g
<1>8. BestOf(C, g[C])
  <2> DEFINE P == {s \in SUBSET C : ~BestOf(s, g[s])}
  <2>1. SUFFICES ASSUME P # {}  PROVE FALSE
    OBVIOUS
  <2>2. PICK s \in P : \A u \in P : u \subseteq s => u = s
    <3>1. P \in SUBSET SUBSET C
      OBVIOUS
    <3> HIDE DEF P, C
    <3> QED BY <1>1, <2>1, <3>1, SmallestSet
  <2>3. g[s] = IF s = {} THEN Start ELSE Better(g[s \ {Max(s)}], Max(s))
    <3> HIDE DEF C
    <3> QED BY <1>6
  <2>4. CASE s = {}
    BY <2>3, <2>4 DEF BestOf
  <2>5. CASE s # {}
    <3> DEFINE m == Max(s)
    <3>1. m \in s /\ \A c \in s : m >= c
      BY <1>2, <2>5
    <3> HIDE DEF m
    <3>2. s \ {m} \notin P
      BY <2>2, <3>1
    <3>3. BestOf(s \ {m}, g[s \ {m}])
      BY <3>2
    <3>4. BestOf(s, Better(g[s \ {m}], m))
      BY <3>1, <3>3, BestStep
    <3>5. g[s] = Better(g[s \ {m}], m)
      BY <2>3, <2>5 DEF m
    <3> QED BY <3>4, <3>5
  <2> QED BY <2>4, <2>5
<1> QED BY <1>7, <1>8

LEMMA ScoresThreshold == ScoresTypeOK => ThresholdIsBest /\ FlagIsRare
<1> SUFFICES ASSUME ScoresTypeOK  PROVE ThresholdIsBest /\ FlagIsRare
  OBVIOUS
<1>1. PICK best : BestOf(Candidates, best) /\ Threshold = best.at
  BY ThresholdIsLast
<1>2. \A c \in Candidates : c \in Nat \ {0} /\ TP(c) \in Nat
  BY CandidatesOccur
<1>3. CASE best = Start /\ \A c \in Candidates : TP(c) = 0
  <2>1. Threshold = Default
    BY <1>1, <1>3 DEF Start
  <2> QED BY <1>3, <2>1 DEF ThresholdIsBest, FlagIsRare
<1>4. CASE /\ best.at \in Candidates /\ best.f = FBeta(best.at)
           /\ \A c \in Candidates : ~Less(best.f, FBeta(c)) /\ (c > best.at => Less(FBeta(c), best.f))
  <2>1. Threshold # Default /\ Threshold \in Candidates
    BY <1>1, <1>2, <1>4 DEF Default
  <2>2. ThresholdIsBest
    BY <1>1, <1>4, <2>1 DEF ThresholdIsBest
  <2>3. FlagIsRare
    <3> DEFINE all == {sample[i].score : i \in DOMAIN sample}
               rare(c) == 100 * Cardinality(Flagged(c)) <= MaxFlagPercent * Len(sample)
               allowed == {c \in all : rare(c)}
    <3>1. Candidates = IF allowed # {} THEN allowed ELSE all
      BY DEF Candidates
    <3>2. CASE allowed # {}
      <4>1. rare(Threshold)
        BY <2>1, <3>1, <3>2
      <4> QED BY <4>1 DEF FlagIsRare
    <3>3. CASE allowed = {}
      <4>1. \A c \in all : 100 * Cardinality(Flagged(c)) \in Int /\ MaxFlagPercent * Len(sample) \in Int
        <5>1. ASSUME NEW c \in all  PROVE Cardinality(Flagged(c)) \in Nat
          <6>1. IsFiniteSet(Flagged(c))
            BY SampleRows, FS_Subset DEF Flagged
          <6> QED BY <6>1, FS_CardinalityType
        <5>2. MaxFlagPercent \in Nat /\ Len(sample) \in Nat
          BY SampleRows, ScoresAssumption
        <5> HIDE DEF all
        <5> QED BY <5>1, <5>2
      <4>2. \A c \in all : ~rare(c)
        BY <3>3
      <4>3. \A c \in all : 100 * Cardinality(Flagged(c)) > MaxFlagPercent * Len(sample)
        <5> HIDE DEF all
        <5> QED BY <4>1, <4>2
      <4> QED BY <4>3 DEF FlagIsRare
    <3> QED BY <3>2, <3>3
  <2> QED BY <2>2, <2>3
<1> QED
  <2>1. \/ best = Start /\ \A c \in Candidates : TP(c) = 0
        \/ /\ best = [at |-> best.at, f |-> FBeta(best.at)] /\ best.at \in Candidates
           /\ \A c \in Candidates : ~Less(best.f, FBeta(c)) /\ (c > best.at => Less(FBeta(c), best.f))
    BY <1>1 DEF BestOf
  <2>2. best = [at |-> best.at, f |-> FBeta(best.at)] => best.f = FBeta(best.at)
    OBVIOUS
  <2> QED BY <1>3, <1>4, <2>1, <2>2
-----------------------------------------------------------------------------
\* Pairs of rows with a positive first.
Higher(X) == {p \in Positives \X X : sample[p[1]].score > sample[p[2]].score}
Tied(X)   == {p \in Positives \X X : sample[p[1]].score = sample[p[2]].score}

\* Each positive's share of the pairs.
Beats(X) == [i \in Positives |-> Cardinality({j \in X : sample[j].score < sample[i].score})]
Ties(X)  == [i \in Positives |-> Cardinality({j \in X : sample[j].score = sample[i].score})]

LEMMA PairSums ==
  ASSUME ScoresTypeOK, NEW X, X \subseteq DOMAIN sample
  PROVE  /\ Summable(Beats(X), Positives) /\ Summable(Ties(X), Positives)
         /\ SumFunctionOnSet(Beats(X), Positives) = Cardinality(Higher(X))
         /\ SumFunctionOnSet(Ties(X), Positives) = Cardinality(Tied(X))
         /\ IsFiniteSet(Higher(X)) /\ IsFiniteSet(Tied(X))
<1>1. IsFiniteSet(X) /\ IsFiniteSet(Positives)
  BY SampleRows, FS_Subset
<1>2. Higher(X) \in SUBSET (Positives \X X) /\ Tied(X) \in SUBSET (Positives \X X)
  BY DEF Higher, Tied
<1>3. ASSUME NEW i \in Positives
      PROVE  /\ Beats(X)[i] = Cardinality(Partners(Higher(X), X, i))
             /\ Ties(X)[i] = Cardinality(Partners(Tied(X), X, i))
  <2>1. \A j \in X : sample[i].score \in Nat /\ sample[j].score \in Nat
    BY SampleRows
  <2>2. {j \in X : sample[j].score < sample[i].score} = Partners(Higher(X), X, i)
    BY <2>1 DEF Higher, Partners
  <2>3. {j \in X : sample[j].score = sample[i].score} = Partners(Tied(X), X, i)
    BY <2>1 DEF Tied, Partners
  <2> QED BY <2>2, <2>3 DEF Beats, Ties
<1>4. /\ IsFiniteSet(Higher(X)) /\ Summable(Beats(X), Positives)
      /\ Cardinality(Higher(X)) = SumFunctionOnSet(Beats(X), Positives)
  BY <1>1, <1>2, <1>3, PairsByFirst
<1>5. /\ IsFiniteSet(Tied(X)) /\ Summable(Ties(X), Positives)
      /\ Cardinality(Tied(X)) = SumFunctionOnSet(Ties(X), Positives)
  BY <1>1, <1>2, <1>3, PairsByFirst
<1> QED BY <1>4, <1>5

\* Among the positives themselves, the pairs cancel out.
LEMMA PositivePairs ==
  ASSUME ScoresTypeOK
  PROVE  2 * Cardinality(Higher(Positives)) + Cardinality(Tied(Positives))
           = Cardinality(Positives) * Cardinality(Positives)
<1> DEFINE P == Positives
           H == Higher(P)
           T == Tied(P)
           L == {p \in P \X P : sample[p[1]].score < sample[p[2]].score}
           n == Cardinality(P)
           swap == [p \in H |-> <<p[2], p[1]>>]
<1>1. IsFiniteSet(P) /\ P \subseteq DOMAIN sample /\ \A i \in P : sample[i].score \in Nat
  BY SampleRows
<1>2. IsFiniteSet(H) /\ IsFiniteSet(T)
  BY <1>1, PairSums
<1>3. swap \in Bijection(H, L)
  <2>1. swap \in [H -> L]
    BY <1>1 DEF Higher
  <2>2. ASSUME NEW p \in H, NEW q \in H, swap[p] = swap[q]  PROVE p = q
    <3>1. p \in P \X P /\ q \in P \X P
      BY DEF Higher
    <3>2. p[1] = q[1] /\ p[2] = q[2]
      BY <2>2
    <3> QED BY <3>1, <3>2
  <2>3. ASSUME NEW q \in L  PROVE \E p \in H : swap[p] = q
    <3> DEFINE p == <<q[2], q[1]>>
    <3>1. q \in P \X P /\ q = <<q[1], q[2]>>
      OBVIOUS
    <3>2. p \in H
      BY <1>1, <3>1 DEF Higher
    <3>3. swap[p] = q
      BY <3>1, <3>2
    <3> QED BY <3>2, <3>3
  <2> HIDE DEF swap, H, L
  <2> QED BY <2>1, <2>2, <2>3 DEF Bijection, Injection, Surjection, IsInjective
<1>4. IsFiniteSet(L) /\ Cardinality(L) = Cardinality(H)
  <2> HIDE DEF swap, H, L
  <2> QED BY <1>2, <1>3, FS_Bijection DEF ExistsBijection
<1>5. /\ H \cap L = {} /\ (H \cup L) \cap T = {} /\ (H \cup L) \cup T = P \X P
  <2>1. ASSUME NEW p \in P \X P
        PROVE  /\ ~(p \in H /\ p \in L) /\ ~(p \in H /\ p \in T) /\ ~(p \in L /\ p \in T)
               /\ p \in H \/ p \in L \/ p \in T
    <3>1. p[1] \in P /\ p[2] \in P
      OBVIOUS
    <3>2. sample[p[1]].score \in Nat /\ sample[p[2]].score \in Nat
      <4> HIDE DEF P
      <4> QED BY <1>1, <3>1
    <3> QED BY <3>2 DEF Higher, Tied
  <2>2. H \subseteq P \X P /\ L \subseteq P \X P /\ T \subseteq P \X P
    BY DEF Higher, Tied
  <2> HIDE DEF H, L, T, P
  <2> QED BY <2>1, <2>2
<1>6. Cardinality(H) \in Nat /\ Cardinality(T) \in Nat /\ Cardinality(L) \in Nat
      /\ IsFiniteSet(H \cup L) /\ Cardinality({}) = 0
  <2> HIDE DEF H, L, T
  <2> QED BY <1>2, <1>4, FS_CardinalityType, FS_EmptySet, FS_Union
<1>7. Cardinality(H \cup L) = Cardinality(H) + Cardinality(L)
  <2> HIDE DEF H, L, T
  <2>1. Cardinality(H \cup L) = Cardinality(H) + Cardinality(L) - Cardinality(H \cap L)
    BY <1>2, <1>4, FS_Union
  <2>2. Cardinality(H \cap L) = 0
    BY <1>5, <1>6
  <2> QED BY <1>6, <2>1, <2>2
<1>8. Cardinality((H \cup L) \cup T) = Cardinality(H \cup L) + Cardinality(T)
  <2> DEFINE HL == H \cup L
  <2>1. HL \cap T = {} /\ IsFiniteSet(HL) /\ Cardinality(HL) \in Nat
    BY <1>5, <1>6, FS_CardinalityType
  <2> HIDE DEF H, L, T, HL
  <2>2. Cardinality(HL \cup T) = Cardinality(HL) + Cardinality(T) - Cardinality(HL \cap T)
    BY <1>2, <2>1, FS_Union
  <2>3. Cardinality(HL \cup T) = Cardinality(HL) + Cardinality(T)
    <3>1. Cardinality(HL \cap T) = 0
      BY <1>6, <2>1
    <3> QED BY <1>6, <2>1, <2>2, <3>1
  <2> QED BY <2>3 DEF HL
<1>9. Cardinality(P \X P) = n * n
  <2> HIDE DEF P
  <2> QED BY <1>1, FS_Product
<1>10. Cardinality((H \cup L) \cup T) = n * n
  <2> HIDE DEF H, L, T, P
  <2> QED BY <1>5, <1>9
<1> HIDE DEF H, L, T, P
<1>11. 2 * Cardinality(H) + Cardinality(T) = Cardinality((H \cup L) \cup T)
  BY <1>4, <1>6, <1>7, <1>8
<1> QED BY <1>10, <1>11 DEF H, T, P

\* The rank-based figure counts the pairs of a positive and a negative row.
LEMMA ScoresAuc == ScoresTypeOK => AucCountsPairs
<1> SUFFICES ASSUME ScoresTypeOK
    PROVE  TwiceU = 2 * Cardinality(Higher(DOMAIN sample \ Positives))
                    + Cardinality(Tied(DOMAIN sample \ Positives))
  BY DEF AucCountsPairs, Higher, Tied
<1> DEFINE P == Positives
           N == DOMAIN sample \ P
           rank == [i \in P |-> TwiceRank(i)]
           n == Cardinality(P)
           Sum(f) == SumFunctionOnSet(f, P)
<1>1. IsFiniteSet(P) /\ P \subseteq DOMAIN sample /\ N \subseteq DOMAIN sample /\ n \in Nat
      /\ IsFiniteSet(N) /\ P \cap N = {} /\ P \cup N = DOMAIN sample
  BY SampleRows, FS_CardinalityType, FS_Subset
<1> DEFINE one == [i \in P |-> 1]
           pos == [i \in P |-> 2 * Beats(P)[i] + Ties(P)[i]]
           neg == [i \in P |-> 2 * Beats(N)[i] + Ties(N)[i]]
           both == [i \in P |-> pos[i] + neg[i]]
<1>2. ASSUME NEW X, X \subseteq DOMAIN sample, NEW f, f = [i \in P |-> 2 * Beats(X)[i] + Ties(X)[i]]
      PROVE  Summable(f, P) /\ Sum(f) = 2 * Cardinality(Higher(X)) + Cardinality(Tied(X))
  <2> DEFINE b == Beats(X)
             t == Ties(X)
             b2 == [i \in P |-> 2 * b[i]]
  <2>1. /\ Summable(b, P) /\ Summable(t, P)
        /\ Sum(b) = Cardinality(Higher(X)) /\ Sum(t) = Cardinality(Tied(X))
    BY <1>2, PairSums
  <2>2. Summable(b2, P) /\ \A i \in P : b2[i] = 2 * b[i] /\ f[i] = b2[i] + t[i]
    <3> HIDE DEF b, t, P
    <3> QED BY <1>2, <2>1 DEF Summable, b, t
  <2>3. Summable(f, P)
    <3> HIDE DEF b, t, b2, P
    <3> QED BY <2>1, <2>2 DEF Summable
  <2>4. Sum(b2) = 2 * Sum(b)
    <3>1. 2 \in Int
      OBVIOUS
    <3> HIDE DEF b, b2, P
    <3> QED BY <2>1, <2>2, <3>1, SumTimes
  <2>5. Sum(f) = Sum(b2) + Sum(t)
    <3> HIDE DEF t, b2, P
    <3> QED BY <2>1, <2>2, SumOfSums
  <2> HIDE DEF b, t, b2, P, Sum
  <2> QED BY <2>1, <2>3, <2>4, <2>5
<1>3. ASSUME NEW i \in P  PROVE rank[i] = one[i] + both[i]
  <2> DEFINE sc == sample[i].score
             lowP == {j \in P : sample[j].score < sc}
             lowN == {j \in N : sample[j].score < sc}
             eqP == {j \in P : sample[j].score = sc}
             eqN == {j \in N : sample[j].score = sc}
             low == {j \in DOMAIN sample : sample[j].score < sc}
             eq == {j \in DOMAIN sample : sample[j].score = sc}
  <2>1. low = lowP \cup lowN /\ lowP \cap lowN = {} /\ eq = eqP \cup eqN /\ eqP \cap eqN = {}
    BY <1>1
  <2>2. IsFiniteSet(lowP) /\ IsFiniteSet(lowN) /\ IsFiniteSet(eqP) /\ IsFiniteSet(eqN)
    BY <1>1, FS_Subset
  <2>3. /\ Beats(P)[i] = Cardinality(lowP) /\ Beats(N)[i] = Cardinality(lowN)
        /\ Ties(P)[i] = Cardinality(eqP) /\ Ties(N)[i] = Cardinality(eqN)
    BY DEF Beats, Ties
  <2>4. rank[i] = (Cardinality(low) + 1) + (Cardinality(low) + Cardinality(eq))
    BY DEF TwiceRank
  <2>5. one[i] = 1 /\ both[i] = pos[i] + neg[i] /\ pos[i] = 2 * Beats(P)[i] + Ties(P)[i]
        /\ neg[i] = 2 * Beats(N)[i] + Ties(N)[i]
    <3> HIDE DEF P
    <3> QED OBVIOUS
  <2> HIDE DEF lowP, lowN, eqP, eqN, low, eq, rank, one, both, pos, neg
  <2>6. Cardinality(low) = Cardinality(lowP) + Cardinality(lowN) - Cardinality({})
    BY <2>1, <2>2, FS_Union
  <2>7. Cardinality(eq) = Cardinality(eqP) + Cardinality(eqN) - Cardinality({})
    BY <2>1, <2>2, FS_Union
  <2>8. /\ Cardinality({}) = 0 /\ Cardinality(lowP) \in Nat /\ Cardinality(lowN) \in Nat
        /\ Cardinality(eqP) \in Nat /\ Cardinality(eqN) \in Nat
    BY <2>2, FS_CardinalityType, FS_EmptySet
  <2> QED BY <2>3, <2>4, <2>5, <2>6, <2>7, <2>8
<1>4. /\ Summable(pos, P) /\ Sum(pos) = 2 * Cardinality(Higher(P)) + Cardinality(Tied(P))
      /\ Summable(neg, P) /\ Sum(neg) = 2 * Cardinality(Higher(N)) + Cardinality(Tied(N))
  <2> HIDE DEF N, P, Sum
  <2> QED BY <1>1, <1>2
<1>5. Sum(pos) = n * n
  BY <1>4, PositivePairs
<1>6. Summable(one, P) /\ Sum(one) = 1 * n
  <2>1. 1 \in Int /\ \A i \in P : one[i] = 1
    OBVIOUS
  <2> HIDE DEF one, P
  <2> QED BY <1>1, <2>1, SumConstant DEF Summable
<1>7. Summable(both, P) /\ Sum(both) = Sum(pos) + Sum(neg)
  <2>1. \A i \in P : both[i] = pos[i] + neg[i]
    OBVIOUS
  <2> HIDE DEF both, pos, neg, P
  <2> QED BY <1>4, <2>1, SumOfSums DEF Summable
<1>8. Sum(rank) = Sum(one) + Sum(both)
  <2> HIDE DEF rank, one, both, P
  <2> QED BY <1>3, <1>6, <1>7, SumOfSums
<1>9. TwiceU = Sum(rank) - n * (n + 1)
  BY DEF TwiceU
<1>10. Sum(neg) \in Int
  BY <1>4, SumType
<1> HIDE DEF Sum, n, rank, one, both, pos, neg
<1>11. n * (n + 1) = n * n + n /\ n * n \in Int /\ n \in Int
  BY <1>1
<1>12. TwiceU = Sum(neg)
  BY <1>5, <1>6, <1>7, <1>8, <1>9, <1>10, <1>11
<1> QED BY <1>4, <1>12

\* The scored rows of a training run have their types (app/ml/train.py).
THEOREM ScoresTypeCorrect == ScoresSpec => []ScoresTypeOK
  BY ScoresTypeInit, ScoresTypeStep, PTL DEF ScoresSpec

\* For every list of scores and labels the chosen threshold is the best permitted one, it
\* flags no more than is permitted unless the highest score alone does, and the area under
\* the curve counts the pairs in the right order (select_threshold and roc_auc in
\* app/ml/train.py).
THEOREM JudgementCorrect == ScoresSpec => []JudgedRightly
<1>1. ScoresTypeOK => JudgedRightly
  BY ScoresThreshold, ScoresAuc DEF JudgedRightly
<1> QED BY <1>1, ScoresTypeInit, ScoresTypeStep, PTL DEF ScoresSpec
=============================================================================
