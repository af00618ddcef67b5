---------------------------- MODULE Resolutions ----------------------------
(***************************************************************************)
(* The table market_resolutions and the jobs that fill it: the best-effort *)
(* pass at the end of a wallet refresh (app/ingest.py,                     *)
(* refresh_resolutions_for_wallet) and the script that does it for all     *)
(* markets (scripts/backfill_resolutions.py), under the lock of RunLock.   *)
(* Each job picks markets without a result, asks the CLOB API for one      *)
(* after the other, collects rows in its session and commits.              *)
(***************************************************************************)
EXTENDS RunLock, Integers, FiniteSets

CONSTANTS Markets,   \* condition ids of the form the API accepts
          Ending,    \* how each market will end
          Refreshes, \* requests and scheduler threads that refresh the wallet
          Recency,   \* the latest trade of the wallet on each market
          Traffic,   \* the number of trades on each market
          MaxAsked,  \* _RESOLUTION_FETCH_LIMIT
          Limit,     \* --limit
          Batch      \* markets between two commits of the script

ASSUME ResolutionsAssumption ==
  /\ IsFiniteSet(Markets)
  /\ Ending \in [Markets -> {"YES", "NO", "unclear"}]
  /\ Recency \in [Markets -> Nat] /\ Traffic \in [Markets -> Nat]
  /\ MaxAsked \in Nat /\ Limit \in Nat /\ Batch \in Nat \ {0}
  /\ Refreshes \cap Backfills = {}

VARIABLES
  market,   \* the CLOB API: how each market stands
  outcome,  \* market_resolutions.outcome, "none" without a row
  phase,    \* where each job is in its loop
  todo,     \* its candidates that it has not asked for
  asked,    \* the index of its loop
  answer,   \* the market and the result it got last
  unit      \* its session: rows read and set, not flushed

Jobs == Refreshes \cup Backfills
table == <<market, outcome>>
loop  == <<phase, todo, asked, answer, unit>>
vars  == <<lock, market, outcome, phase, todo, asked, answer, unit>>

Results == {"YES", "NO", "UNRESOLVED"}
Answer == [market : Markets, outcome : Results]
Dirty  == [market : Markets, found : Results \cup {"none"}, outcome : Results]

TypeOK ==
  /\ LockTypeOK
  /\ market \in [Markets -> {"open", "YES", "NO", "unclear"}]
  /\ outcome \in [Markets -> Results \cup {"none"}]
  /\ phase \in [Jobs -> {"idle", "ask", "store", "commit"}]
  /\ todo \in [Jobs -> SUBSET Markets]
  /\ asked \in [Jobs -> Nat]
  /\ answer \in [Jobs -> SUBSET Answer]
  /\ unit \in [Jobs -> SUBSET Dirty]
  /\ \A p \in Backfills : phase[p] # "idle" => stage[p] = "run"

Init ==
  /\ LockInit
  /\ market = [m \in Markets |-> "open"]
  /\ outcome = [m \in Markets |-> "none"]
  /\ phase = [j \in Jobs |-> "idle"]
  /\ todo = [j \in Jobs |-> {}]
  /\ asked = [j \in Jobs |-> 0]
  /\ answer = [j \in Jobs |-> {}]
  /\ unit = [j \in Jobs |-> {}]
-----------------------------------------------------------------------------
\* A market closes with a winner, or without exactly one.
Close(m) ==
  /\ market[m] = "open"
  /\ market' = [market EXCEPT ![m] = Ending[m]]
  /\ UNCHANGED <<lock, outcome, loop>>

Unresolved == {m \in Markets : outcome[m] \notin {"YES", "NO"}}

\* The first n of S by rank.
First(S, rank, n) ==
  {C \in SUBSET S : /\ Cardinality(C) = n \/ (Cardinality(C) < n /\ C = S)
                    /\ \A c \in C, d \in S \ C : rank[c] >= rank[d]}

\* The query for candidates.  Without one a refresh does nothing; the script
\* commits and ends.
Select(j) ==
  /\ phase[j] = "idle"
  /\ \/ /\ j \in Refreshes
        /\ \E C \in First(Unresolved, Recency, MaxAsked) : C # {} /\ todo' = [todo EXCEPT ![j] = C]
     \/ /\ j \in Backfills /\ stage[j] = "run"
        /\ \E C \in First(Unresolved, Traffic, Limit) : todo' = [todo EXCEPT ![j] = C]
  /\ phase' = [phase EXCEPT ![j] = "ask"]
  /\ UNCHANGED <<lock, table, asked, answer, unit>>

\* Mutant: a closed market without exactly one winner counts as NO.
ParseUnclearAsNo(m) == CASE market[m] = "open" -> "UNRESOLVED"
                         [] market[m] = "unclear" -> "NO"
                         [] OTHER -> market[m]

\* parse_market_resolution.
Parse(m) == IF market[m] \in {"YES", "NO"} THEN market[m] ELSE "UNRESOLVED"

\* fetch_market_resolution never raises: without an answer the market is passed
\* over, and so is the script's look at the index.
Ask(j) ==
  /\ phase[j] = "ask"
  /\ \E m \in todo[j] :
       /\ todo' = [todo EXCEPT ![j] = @ \ {m}]
       /\ \/ /\ answer' = [answer EXCEPT ![j] = {[market |-> m, outcome |-> Parse(m)]}]
             /\ phase' = [phase EXCEPT ![j] = "store"]
          \/ UNCHANGED <<answer, phase>>
  /\ asked' = [asked EXCEPT ![j] = @ + 1]
  /\ UNCHANGED <<lock, table, unit>>

\* upsert_market_resolution: the row as committed now is loaded or a new one is
\* added; the script commits after every Batch-th market.
Store(j) ==
  /\ phase[j] = "store"
  /\ unit' = [unit EXCEPT ![j] = @ \cup
       {[market |-> a.market, found |-> outcome[a.market], outcome |-> a.outcome] : a \in answer[j]}]
  /\ answer' = [answer EXCEPT ![j] = {}]
  /\ phase' = [phase EXCEPT ![j] =
                 IF j \in Backfills /\ asked[j] % Batch = 0 THEN "commit" ELSE "ask"]
  /\ UNCHANGED <<lock, table, todo, asked>>

\* Mutant: every attribute that was set is written, changed or not.
WrittenAll(j) == unit[j]

\* The unit of work writes new rows, and the column of rows where it changed.
Written(j) == {u \in unit[j] : u.found # u.outcome}

\* Flush and COMMIT in one transaction.  A row that somebody else has added
\* since violates the primary key, and only Abort is left.
Commit(j) ==
  /\ phase[j] = "commit" \/ (phase[j] = "ask" /\ todo[j] = {})
  /\ \A u \in unit[j] : u.found = "none" => outcome[u.market] = "none"
  /\ outcome' = [m \in Markets |->
       IF \E w \in Written(j) : w.market = m
       THEN (CHOOSE u \in Written(j) : u.market = m).outcome ELSE outcome[m]]
  /\ unit' = [unit EXCEPT ![j] = {}]
  /\ LET last == phase[j] = "ask" IN
       /\ phase' = [phase EXCEPT ![j] = IF last THEN "idle" ELSE "ask"]
       /\ asked' = [asked EXCEPT ![j] = IF last THEN 0 ELSE @]
       /\ IF last /\ j \in Backfills
          THEN Goto(j, "leave") /\ UNCHANGED <<file, signed, seen, stolen>>
          ELSE UNCHANGED lock
  /\ UNCHANGED <<market, todo, answer>>

Reset(j) ==
  /\ phase' = [phase EXCEPT ![j] = "idle"]
  /\ todo' = [todo EXCEPT ![j] = {}]
  /\ answer' = [answer EXCEPT ![j] = {}]
  /\ unit' = [unit EXCEPT ![j] = {}]
  /\ asked' = [asked EXCEPT ![j] = 0]

\* Mutant: an error is caught inside the loop, after the lock was released.
AbortGoesOn(j) ==
  /\ phase[j] # "idle"
  /\ unit' = [unit EXCEPT ![j] = {}]
  /\ IF j \in Backfills
     THEN Goto(j, "leave") /\ UNCHANGED <<file, signed, seen, stolen>>
     ELSE UNCHANGED lock
  /\ UNCHANGED <<table, phase, todo, asked, answer>>

\* Any statement may fail.  The session is rolled back: refresh_wallet goes on
\* without resolutions, the script ends and releases its lock.
Abort(j) ==
  /\ phase[j] # "idle"
  /\ Reset(j)
  /\ IF j \in Backfills
     THEN Goto(j, "leave") /\ UNCHANGED <<file, signed, seen, stolen>>
     ELSE UNCHANGED lock
  /\ UNCHANGED table

\* The script is killed.
Die(p) ==
  /\ Alive(p)
  /\ Goto(p, "dead")
  /\ Reset(p)
  /\ UNCHANGED <<file, signed, seen, stolen, table>>

Work(j) == Select(j) \/ Ask(j) \/ Store(j) \/ Commit(j) \/ Abort(j)

Next ==
  \/ \E m \in Markets : Close(m)
  \/ \E j \in Jobs : Work(j)
  \/ \E p \in Backfills : (Start(p) \/ LockStep(p)) /\ UNCHANGED <<table, loop>>
  \/ \E p \in Backfills : Die(p)

Spec == Init /\ [][Next]_vars

\* A script that was started goes on.
FairSpec == Spec /\ \A p \in Backfills : WF_vars(LockStep(p) /\ UNCHANGED <<table, loop>>)
-----------------------------------------------------------------------------
\* parse_market_resolution: "so we never fabricate a result".  A result in the
\* table is the market's, however late, twice or in whatever order it came.
NeverFabricated == \A m \in Markets : outcome[m] \in {"YES", "NO"} => market[m] = outcome[m]

\* A result is lost only to a job that asked while the market was open, read
\* the row with the result, and so saw its own older answer as a change: a job
\* that read the row before the result came leaves the result alone.
LostOnlyIfSeen ==
  [][\A m \in Markets :
       outcome[m] \in {"YES", "NO"} /\ outcome'[m] # outcome[m]
         => \E j \in Jobs : \E u \in unit[j] :
              u.market = m /\ u.found = outcome[m] /\ u.outcome = "UNRESOLVED"]_vars
=============================================================================
