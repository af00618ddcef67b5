------------------------------- MODULE MCData -------------------------------
(***************************************************************************)
(* Small instances of what is computed from the stored data and of how it  *)
(* is copied.  These parts have no state in common in their models and are *)
(* checked side by side: part says which of them runs, the others stay in  *)
(* their initial state.  Nothing is lost by that, since no action of one   *)
(* part reads a variable of another.                                       *)
(***************************************************************************)
EXTENDS RetentionReports, Performance, Activity, NotableFeatures, OutcomeFeatures,
        Scores, Analyses, Explanations, Copies

CONSTANTS ann, bob, cond1, cond2, thread1, thread2, reader, key1, nobody

VARIABLE part

Init ==
  /\ part \in {"reports", "performance", "activity", "notable", "outcomes", "scores",
              "analyses", "explanations", "copies"}
  /\ ReportsInit /\ PerformanceInit /\ ActivityInit /\ NotableInit /\ OutcomeInit
  /\ ScoresInit /\ AnalysesInit /\ ToldInit /\ CopiesInit

Next ==
  /\ UNCHANGED part
  /\ IF part = "reports"      THEN ReportsNext     ELSE UNCHANGED reportVars
  /\ IF part = "performance"  THEN PerformanceNext ELSE UNCHANGED performanceVars
  /\ IF part = "activity"     THEN ActivityNext    ELSE UNCHANGED activityVars
  /\ IF part = "notable"      THEN NotableNext     ELSE UNCHANGED notableVars
  /\ IF part = "outcomes"     THEN OutcomeNext     ELSE UNCHANGED outcomeVars
  /\ IF part = "scores"       THEN ScoresNext      ELSE UNCHANGED sample
  /\ IF part = "analyses"     THEN AnalysesNext    ELSE UNCHANGED allAnalysisVars
  /\ IF part = "explanations" THEN ToldNext        ELSE UNCHANGED told
  /\ IF part = "copies"       THEN CopiesNext      ELSE UNCHANGED copyVars

allVars == <<part, reportVars, performanceVars, activityVars, notableVars, outcomeVars,
             sample, allAnalysisVars, told, copyVars>>

Spec == Init /\ [][Next]_allVars
-----------------------------------------------------------------------------
MCSchedules == {[c \in Events |-> IF c = cond1 THEN 0 ELSE 1], [c \in Events |-> 1]}
MCSorts     == {<<"NO", "YES">>}
MCKinds     == {[side |-> "YES", price |-> 10, value |-> 10],
                [side |-> "YES", price |-> 50, value |-> 1],
                [side |-> "NO", price |-> 30, value |-> 1]}
MCOwnerOf   == [k \in TradeKeys |-> ann]
MCMaxId     == [wallets |-> 2, trades |-> 1, sync_events |-> 1]

\* Every variable of every part has its type.
TypesOK ==
  /\ ReportsTypeOK /\ PerformanceTypeOK /\ ActivityTypeOK /\ HistoryTypeOK /\ OutcomeTypeOK
  /\ ScoresTypeOK /\ SignalTypeOK /\ AnalysesTypeOK /\ ToldTypeOK /\ CopiesTypeOK
=============================================================================
