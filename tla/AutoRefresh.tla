---------------------------- MODULE AutoRefresh ----------------------------
(***************************************************************************)
(* The scheduled job that refreshes wallets (app/main.py,                  *)
(* _auto_refresh_wallets), next to the manual refreshes and the archiving  *)
(* of wallets.  The job takes the wallets whose last check is the longest  *)
(* ago, at most AUTO_REFRESH_MAX_WALLETS of them.  Since it closes the     *)
(* session it loaded them with, the last_checked_at that refresh_wallet    *)
(* sets on them is never written, and the job does not move them.          *)
(***************************************************************************)
EXTENDS Naturals, Sequences, SequencesExt

CONSTANTS Wallets,    \* watched wallets
          MaxWallets, \* AUTO_REFRESH_MAX_WALLETS
          NoWallet        \* no wallet

ASSUME AutoRefreshAssumption ==
  /\ IsFiniteSet(Wallets)
  /\ MaxWallets \in Nat \ {0}
  /\ NoWallet \notin Wallets

VARIABLES order,     \* the wallets by last_checked_at, never checked first
          archived,  \* wallets with is_archived = 1
          ready,     \* app.state.ready
          job,       \* "idle", or "run" while the job is in its thread
          jobBatch,     \* the wallets the job has still to refresh
          latest     \* history: the wallet of the latest refresh, if any

jobVars == <<order, archived, ready, job, jobBatch, latest>>

Sorted == {s \in [1..Cardinality(Wallets) -> Wallets] : ToSet(s) = Wallets}

JobTypeOK ==
  /\ order \in Sorted
  /\ archived \subseteq Wallets
  /\ ready \in BOOLEAN
  /\ job \in {"idle", "run"}
  /\ jobBatch \in Seq(Wallets) /\ Len(jobBatch) <= MaxWallets
  /\ job = "idle" => jobBatch = <<>>
  /\ latest \in Wallets \cup {NoWallet}

JobInit ==
  /\ order \in Sorted
  /\ archived \in SUBSET Wallets
  /\ ready = FALSE
  /\ job = "idle"
  /\ jobBatch = <<>>
  /\ latest = NoWallet
-----------------------------------------------------------------------------
\* _background_init has initialised the database and run the maintenance.
Ready ==
  /\ ~ ready
  /\ ready' = TRUE
  /\ UNCHANGED <<order, archived, job, jobBatch, latest>>

\* The query: ORDER BY last_checked_at ASC NULLS FIRST LIMIT MaxWallets.  The k-th of
\* the batch is the active wallet that k active ones are checked no later than.
Active(w) == w \notin archived
Due ==
  LET active == {i \in DOMAIN order : Active(order[i])}
      size   == IF Cardinality(active) < MaxWallets THEN Cardinality(active) ELSE MaxWallets
  IN  [k \in 1..size |->
         order[CHOOSE i \in active : Cardinality({j \in active : j <= i}) = k]]

\* The scheduler never runs two instances (max_instances=1, coalesce).
StartJob ==
  /\ ready
  /\ job = "idle"
  /\ Due # <<>>
  /\ job' = "run"
  /\ jobBatch' = Due
  /\ UNCHANGED <<order, archived, ready, latest>>

\* Mutant: a wallet whose refresh raises ends the job.
RefreshNextOrGiveUp ==
  /\ job = "run"
  /\ jobBatch # <<>>
  /\ jobBatch' \in {Tail(jobBatch), <<>>}
  /\ latest' = Head(jobBatch)
  /\ UNCHANGED <<order, archived, ready, job>>

\* One wallet of the batch, archived meanwhile or not; its errors are caught.
\* The wallet's row is not updated.
RefreshNext ==
  /\ job = "run"
  /\ jobBatch # <<>>
  /\ jobBatch' = Tail(jobBatch)
  /\ latest' = Head(jobBatch)
  /\ UNCHANGED <<order, archived, ready, job>>

\* Mutant: the job counts as done while it still has wallets.
EndJobEarly ==
  /\ job = "run"
  /\ job' = "idle"
  /\ UNCHANGED <<order, archived, ready, jobBatch, latest>>

EndJob ==
  /\ job = "run"
  /\ jobBatch = <<>>
  /\ job' = "idle"
  /\ UNCHANGED <<order, archived, ready, jobBatch, latest>>

\* The order after a wallet was checked: it comes last, those behind it move up.
CheckedNow(w) ==
  [i \in DOMAIN order |->
     IF \A j \in 1..i : order[j] # w THEN order[i]
     ELSE IF i < Len(order) THEN order[i + 1]
     ELSE w]

\* refresh_wallet with an attached wallet, from a page or the command line.  It
\* writes last_checked_at, also when the fetch fails, unless its commit fails.
ManualRefresh(w) ==
  /\ order' \in {order, CheckedNow(w)}
  /\ latest' = w
  /\ UNCHANGED <<archived, ready, job, jobBatch>>

\* archive_wallet and unarchive_wallet.
SetArchived(w) ==
  /\ archived' \in {archived \cup {w}, archived \ {w}}
  /\ UNCHANGED <<order, ready, job, jobBatch, latest>>

JobNext ==
  \/ Ready \/ StartJob \/ RefreshNext \/ EndJob
  \/ \E w \in Wallets : ManualRefresh(w) \/ SetArchived(w)

\* The startup ends, the scheduler keeps firing, and a job that runs goes on:
\* every request of a refresh has a timeout.
JobFairness == WF_jobVars(Ready) /\ WF_jobVars(StartJob) /\ WF_jobVars(RefreshNext \/ EndJob)

JobSpec == JobInit /\ [][JobNext]_jobVars /\ JobFairness
-----------------------------------------------------------------------------
\* "refresh active non-archived wallets": a wallet that stays active is
\* refreshed again and again, by the job unless somebody else does.
EveryWalletServed == \A w \in Wallets : []<>(latest = w \/ ~ Active(w))
=============================================================================
