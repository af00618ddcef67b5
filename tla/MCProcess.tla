----------------------------- MODULE MCProcess -----------------------------
(***************************************************************************)
(* Small instances of what a server process does besides answering: it     *)
(* starts, runs the scheduled job, fetches trades and drains the usage     *)
(* events.  The four have no state in common in their models and are       *)
(* checked side by side: part says which of them runs, the others stay in  *)
(* an initial state.  Nothing is lost by that, since no action of one part *)
(* reads a variable of another.                                            *)
(***************************************************************************)
EXTENDS AutoRefresh, Paging, RetentionQueue, Startup

CONSTANTS ann, bob, cat, worker1, worker2

VARIABLE part

Init ==
  /\ part \in {"job", "pages", "events", "startup"}
  /\ JobInit /\ PagingInit /\ QueueInit /\ StartupInit
  /\ part # "job" => order = <<ann, bob, cat>> /\ archived = Wallets
  /\ part # "pages" => feed = 0

Next ==
  /\ UNCHANGED part
  /\ IF part = "job"     THEN JobNext     ELSE UNCHANGED jobVars
  /\ IF part = "pages"   THEN PagingNext  ELSE UNCHANGED pagingVars
  /\ IF part = "events"  THEN QueueNext   ELSE UNCHANGED queueVars
  /\ IF part = "startup" THEN StartupNext ELSE UNCHANGED startupVars

allVars == <<part, jobVars, pagingVars, queueVars, startupVars>>

\* The job's actions are guarded, since Ready can be taken in its initial state;
\* those of the other parts cannot be taken in theirs.
Fairness ==
  /\ WF_jobVars(part = "job" /\ Ready)
  /\ WF_jobVars(part = "job" /\ StartJob)
  /\ WF_jobVars(part = "job" /\ (RefreshNext \/ EndJob))
  /\ QueueFairness /\ StartupFairness

Spec == Init /\ [][Next]_allVars /\ Fairness
-----------------------------------------------------------------------------
MCLimits == 0..3

\* Every variable of the four has its type.
TypesOK == JobTypeOK /\ PagingTypeOK /\ QueueTypeOK /\ StartupTypeOK
=============================================================================
