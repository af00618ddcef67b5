------------------------------ MODULE Analyses ------------------------------
(***************************************************************************)
(* The analysis of one trade (app/ai_analysis.py, analyze_trade): a cached *)
(* row of trade_analysis, or one made by the local model, or by an outside *)
(* provider.  A request asks for the loaded model several times - for its  *)
(* version, for the score and for the threshold - while a training run may *)
(* replace it (SignalModel), and two requests may save at once.            *)
(***************************************************************************)
EXTENDS SignalModel

VARIABLES stage,    \* where each request is in analyze_trade
          draft,    \* what it has found so far
          row,      \* the row of trade_analysis
          stored,   \* the model whose score is in notable_score
          scorable  \* the wallet has MIN_PRIOR_TRADES trades before this one

analysisVars == <<stage, draft, row, stored, scorable>>
allAnalysisVars == <<signalVars, analysisVars>>

NoRow    == [by |-> "none", tag |-> None, score |-> None, limit |-> None, old |-> FALSE]
NoDraft  == [tag |-> None, score |-> None, limit |-> None, seen |-> FALSE]
External == [by |-> "provider", tag |-> None, score |-> None, limit |-> None, old |-> FALSE]

AnalysesTypeOK ==
  /\ stage \in [Readers -> {"idle", "compare", "model", "score", "limit", "save", "commit"}]
  /\ draft \in [Readers -> [tag : Models \cup {None}, score : Models \cup {None},
                            limit : Models \cup {None}, seen : BOOLEAN]]
  /\ row \in [by : {"none", "local", "provider"}, tag : Models \cup {None},
              score : Models \cup {None}, limit : Models \cup {None}, old : BOOLEAN]
  /\ stored \in Models \cup {None} /\ scorable \in BOOLEAN

AnalysesInit ==
  /\ SignalInit
  /\ stage = [r \in Readers |-> "idle"] /\ draft = [r \in Readers |-> NoDraft]
  /\ row = NoRow /\ stored = None /\ scorable = FALSE

\* The request goes on to a stage that asks get_signal_model first.
Asks(r, next) ==
  /\ stage' = [stage EXCEPT ![r] = next] /\ Begins(r, "check")
  /\ UNCHANGED <<weights, cacheModel, cacheLoaded, modelLock,
                 training, trainer, made, shown, overlapped>>

Answers(r, next) ==
  /\ stage' = [stage EXCEPT ![r] = next] /\ Begins(r, "no")
  /\ UNCHANGED <<weights, cacheModel, cacheLoaded, modelLock,
                 training, trainer, made, shown, overlapped>>
-----------------------------------------------------------------------------
\* _load_cached_analysis: an expired row is deleted, a provider's row is the answer,
\* and a row of the local model is compared with the model that is loaded.
LookUpRow(r) ==
  /\ stage[r] = "idle"
  /\ \/ /\ row.by = "none" \/ row.old
        /\ row' = NoRow /\ Asks(r, "model") /\ UNCHANGED draft
     \/ /\ row.by = "local" /\ ~row.old
        /\ draft' = [draft EXCEPT ![r] = [NoDraft EXCEPT !.tag = row.tag]]
        /\ Asks(r, "compare") /\ UNCHANGED row
  /\ UNCHANGED <<stored, scorable>>

\* A row of another version is deleted by its key, whatever it holds by now.
CompareVersion(r) ==
  /\ stage[r] = "compare" /\ At(r, "done")
  /\ \/ /\ got[r] = None \/ draft[r].tag = got[r]
        /\ Answers(r, "idle") /\ UNCHANGED row
     \/ /\ got[r] # None /\ draft[r].tag # got[r]
        /\ row' = NoRow /\ Asks(r, "model")
  /\ draft' = [draft EXCEPT ![r] = NoDraft]
  /\ UNCHANGED <<stored, scorable>>

\* _local_model_analysis: the version comes from the first look at the model; without
\* one the version is that of a stored score.
TakeModel(r) ==
  /\ stage[r] = "model" /\ At(r, "done")
  /\ draft' = [draft EXCEPT ![r] = [NoDraft EXCEPT !.tag = got[r]]]
  /\ \/ got[r] # None /\ Asks(r, "score")
     \/ got[r] = None /\ stored # None /\ Asks(r, "limit")
     \/ got[r] = None /\ stored = None /\ Answers(r, "save")
  /\ UNCHANGED <<row, stored, scorable>>

\* score_trade asks for the model itself; a live score replaces the stored one, and
\* the stored one is used when there is no live one.
TakeScore(r) ==
  /\ stage[r] = "score" /\ At(r, "done")
  /\ LET live == IF scorable THEN got[r] ELSE None
         best == IF live # None THEN live ELSE stored IN
       /\ draft' = [draft EXCEPT ![r].score = best]
       /\ stored' = best
       /\ IF best # None THEN Asks(r, "limit") ELSE Answers(r, "save")
  /\ UNCHANGED <<row, scorable>>

\* effective_signal_threshold asks once more.
TakeLimit(r) ==
  /\ stage[r] = "limit" /\ At(r, "done")
  /\ draft' = [draft EXCEPT ![r].limit = got[r],
                            ![r].score = IF draft[r].score = None THEN stored ELSE draft[r].score]
  /\ Answers(r, "save")
  /\ UNCHANGED <<row, stored, scorable>>

\* _save_analysis_to_db looks for a row.  Without a score the providers are asked in
\* turn: one answers, or none does and nothing is saved.
SaveLooks(r) ==
  /\ stage[r] = "save"
  /\ \/ /\ draft' = [draft EXCEPT ![r].seen = row.by # "none"]
        /\ Answers(r, "commit")
     \/ /\ draft[r].score = None /\ draft' = [draft EXCEPT ![r] = NoDraft]
        /\ Answers(r, "idle")
  /\ UNCHANGED <<row, stored, scorable>>

\* The version a row is saved with.
TagOf(r) == draft[r].tag

\* The row that was seen is updated, or one is inserted: the row may have gone, or
\* another request may have inserted one, and then nothing is saved.
SaveCommits(r) ==
  /\ stage[r] = "commit"
  /\ row' = IF draft[r].seen = (row.by # "none")
            THEN IF draft[r].score = None THEN External
                 ELSE [by |-> "local", tag |-> TagOf(r), score |-> draft[r].score,
                       limit |-> draft[r].limit, old |-> FALSE]
            ELSE row
  /\ draft' = [draft EXCEPT ![r] = NoDraft]
  /\ Answers(r, "idle")
  /\ UNCHANGED <<stored, scorable>>

Analyse(r) ==
  \/ LookUpRow(r) \/ CompareVersion(r) \/ TakeModel(r) \/ TakeScore(r) \/ TakeLimit(r)
  \/ SaveLooks(r) \/ SaveCommits(r)
-----------------------------------------------------------------------------
\* AI_CACHE_TTL_HOURS pass; invalidate_cache; and the wallet's history grows.
RowExpires ==
  /\ row.by # "none" /\ ~row.old /\ row' = [row EXCEPT !.old = TRUE]
  /\ UNCHANGED <<signalVars, stage, draft, stored, scorable>>

Invalidate ==
  /\ row.by # "none" /\ row' = NoRow
  /\ UNCHANGED <<signalVars, stage, draft, stored, scorable>>

HistoryGrows ==
  /\ ~scorable /\ scorable' = TRUE
  /\ UNCHANGED <<signalVars, stage, draft, row, stored>>

\* score_all_trades: another process scores with the file as it is.
ScoreAll ==
  /\ scorable /\ LoadModel # None
  /\ stored' = LoadModel
  /\ UNCHANGED <<signalVars, stage, draft, row, scorable>>

AnalysesNext ==
  \/ \E r \in Readers : Analyse(r) \/ (Get(r) /\ UNCHANGED analysisVars)
  \/ \E t \in Trainers : Train(t) /\ UNCHANGED analysisVars
  \/ RowExpires \/ Invalidate \/ HistoryGrows \/ ScoreAll

AnalysesSpec == AnalysesInit /\ [][AnalysesNext]_allAnalysisVars
-----------------------------------------------------------------------------
\* An analysis that passes for the loaded model's was scored by that model and flagged
\* by its threshold, whatever was trained while it was made; and the loaded model is
\* the last one that was exported, once its run has ended.
ScoredByOneModel ==
  /\ row.by = "local" /\ row.tag # None /\ row.tag = cacheModel /\ ~overlapped =>
       row.score = row.tag /\ row.limit = row.tag
  /\ ModelIsCurrent
=============================================================================
