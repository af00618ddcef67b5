------------------------------- MODULE Alerts -------------------------------
(***************************************************************************)
(* Telegram alerts for the trades of one wallet (app/alerts.py): requests  *)
(* that refresh the wallet call fire_alerts_for_new_trades, which selects  *)
(* trades, sends a message for each, and only then commits the alert_sent  *)
(* marks of all of them.  Between the selection and the commit other       *)
(* requests run, trades are deleted, answers get lost, the process dies.   *)
(***************************************************************************)
EXTENDS Integers, FiniteSets

CONSTANTS Trades,    \* trades of the wallet
          Value,     \* price * size of each trade
          MinValue,  \* alert_min_size
          Cap,       \* _MAX_ALERTS_PER_WALLET
          Firers,    \* request threads
          Backend,   \* "sqlite" or "postgresql"
          Mishaps,   \* what may go wrong in this instance
          MaxFires,  \* bound: calls each thread makes
          MaxSends,  \* bound: messages delivered for one trade
          None       \* nobody

ASSUME AlertsAssumption ==
  /\ IsFiniteSet(Trades)
  /\ Value \in [Trades -> Nat]
  /\ MinValue \in Nat /\ Cap \in Nat /\ MaxFires \in Nat /\ MaxSends \in Nat
  /\ Backend \in {"sqlite", "postgresql"}
  /\ Mishaps \subseteq {"lost_answer", "crash", "delete", "seed_fails"}
  /\ None \notin Firers

VARIABLES
  stored,     \* trades table: committed rows of the wallet
  marked,     \* rows with alert_sent = 1
  old,        \* trades made more than 24 hours ago
  token,      \* app_settings: bot token and chat id are set
  enabled,    \* app_settings.alerts_enabled
  backlog,    \* history: the trades stored when the token was first set
  delivered,  \* Telegram: messages delivered for each trade
  writer,     \* who holds SQLite's write lock
  pc,         \* where each thread is inside fire_alerts_for_new_trades
  aged,       \* the trades older than its cutoff
  stale,      \* rows marked by its UPDATE of stale trades, not committed
  picked,     \* to_alert
  todo,       \* to_alert, not tried yet
  marks,      \* objects with alert_sent set to 1, not flushed
  gone,       \* objects whose row was deleted since they were selected
  fires,      \* calls made
  hit         \* history: the mishaps that have happened

table    == <<stored, marked>>
settings == <<token, enabled, backlog>>
call     == <<pc, aged, stale, picked, todo, marks, gone, fires>>
vars     == <<stored, marked, old, token, enabled, backlog, delivered, writer,
              pc, aged, stale, picked, todo, marks, gone, fires, hit>>

TypeOK ==
  /\ stored \subseteq Trades /\ marked \subseteq stored
  /\ old \subseteq Trades
  /\ token \in BOOLEAN /\ enabled \in BOOLEAN
  /\ backlog \subseteq Trades
  /\ delivered \in [Trades -> 0..MaxSends]
  /\ writer \in Firers \cup {None}
  /\ pc \in [Firers -> {"idle", "scan", "send"}]
  /\ aged \in [Firers -> SUBSET Trades]
  /\ stale \in [Firers -> SUBSET Trades]
  /\ picked \in [Firers -> SUBSET Trades]
  /\ todo \in [Firers -> SUBSET Trades]
  /\ marks \in [Firers -> SUBSET Trades]
  /\ gone \in [Firers -> SUBSET Trades]
  /\ fires \in [Firers -> 0..MaxFires]
  /\ hit \subseteq Mishaps

Init ==
  /\ stored = {} /\ marked = {} /\ old = {}
  /\ token = FALSE /\ enabled = FALSE /\ backlog = {}
  /\ delivered = [t \in Trades |-> 0]
  /\ writer = None
  /\ pc = [f \in Firers |-> "idle"]
  /\ aged = [f \in Firers |-> {}]
  /\ stale = [f \in Firers |-> {}]
  /\ picked = [f \in Firers |-> {}]
  /\ todo = [f \in Firers |-> {}]
  /\ marks = [f \in Firers |-> {}]
  /\ gone = [f \in Firers |-> {}]
  /\ fires = [f \in Firers |-> 0]
  /\ hit = {}
-----------------------------------------------------------------------------
(* What else writes: refreshes, cleanup, startup and the settings page *)

\* A refresh commits a trade; the column alert_sent defaults to 0.
Import(t) ==
  /\ t \notin stored
  /\ writer = None
  /\ stored' = stored \cup {t}
  /\ UNCHANGED <<marked, old, settings, delivered, writer, call, hit>>

\* Mutant: the row goes, its mark stays.
DeleteKeepsMark(t) ==
  /\ "delete" \in Mishaps
  /\ t \in stored
  /\ stored' = stored \ {t}
  /\ hit' = hit \cup {"delete"}
  /\ UNCHANGED <<marked, old, settings, delivered, writer, call>>

\* cleanup_duplicate_trades or delete_wallet; PostgreSQL waits for a row that
\* an open transaction has updated.
Delete(t) ==
  /\ "delete" \in Mishaps
  /\ t \in stored
  /\ writer = None
  /\ \A f \in Firers : t \notin stale[f]
  /\ stored' = stored \ {t}
  /\ marked' = marked \ {t}
  /\ gone' = [f \in Firers |-> IF pc[f] = "send" THEN gone[f] \cup {t} ELSE gone[f]]
  /\ hit' = hit \cup {"delete"}
  /\ UNCHANGED <<old, settings, delivered, writer,
                 pc, aged, stale, picked, todo, marks, fires>>

Age(t) ==
  /\ t \notin old
  /\ old' = old \cup {t}
  /\ UNCHANGED <<table, settings, delivered, writer, call, hit>>

\* The history: what is stored when the token is set for the first time.
FirstSetUp == IF token THEN backlog ELSE stored

\* Mutant: the first setup does not mark the trades there are.
SeedWithoutBaseline ==
  /\ \A f \in Firers : pc[f] = "idle"
  /\ token' = TRUE /\ enabled' = TRUE
  /\ backlog' = FirstSetUp
  /\ UNCHANGED <<table, old, delivered, writer, call, hit>>

\* seed_telegram_settings at startup, before the application takes requests.
\* The first time, every row there is gets marked in the same transaction.
Seed ==
  /\ \A f \in Firers : pc[f] = "idle"
  /\ token' = TRUE /\ enabled' = TRUE
  /\ marked' = IF token THEN marked ELSE stored
  /\ backlog' = FirstSetUp
  /\ UNCHANGED <<stored, old, delivered, writer, call, hit>>

\* save_settings never clears the token.  Requests come after the seeding,
\* which leaves a token unless the startup maintenance failed.
SaveSettings ==
  /\ writer = None
  /\ token \/ "seed_fails" \in Mishaps
  /\ token' = TRUE
  /\ enabled' \in BOOLEAN
  /\ backlog' = FirstSetUp
  /\ hit' = IF token THEN hit ELSE hit \cup {"seed_fails"}
  /\ UNCHANGED <<table, old, delivered, writer, call>>
-----------------------------------------------------------------------------
(* fire_alerts_for_new_trades *)

\* Mutant: without a statement that writes first, the lock is not taken.
MarkStaleWithoutLock(f) ==
  /\ pc[f] = "idle" /\ fires[f] < MaxFires
  /\ token /\ enabled
  /\ aged' = [aged EXCEPT ![f] = old]
  /\ fires' = [fires EXCEPT ![f] = @ + 1]
  /\ pc' = [pc EXCEPT ![f] = "scan"]
  /\ UNCHANGED <<table, old, settings, delivered, writer, stale, picked, todo, marks, gone, hit>>

\* Settings are read, then stale trades are marked in the database.  On SQLite
\* the UPDATE takes the write lock even if it finds none (and a call that waits
\* too long for it fails without a trace); on PostgreSQL it waits for rows that
\* another call has updated.
MarkStale(f) ==
  /\ pc[f] = "idle" /\ fires[f] < MaxFires
  /\ token /\ enabled
  /\ LET expired == (stored \cap old) \ marked
     IN /\ \A g \in Firers : stale[g] \cap expired = {}
        /\ stale' = [stale EXCEPT ![f] = expired]
  /\ Backend = "sqlite" => writer = None
  /\ writer' = IF Backend = "sqlite" THEN f ELSE writer
  /\ aged' = [aged EXCEPT ![f] = old]
  /\ fires' = [fires EXCEPT ![f] = @ + 1]
  /\ pc' = [pc EXCEPT ![f] = "scan"]
  /\ UNCHANGED <<table, old, settings, delivered, picked, todo, marks, gone, hit>>

\* The candidates as committed now; the Cap most valuable are to be sent, the
\* others are marked.
Candidates(f) == {t \in (stored \ marked) \ aged[f] : Value[t] >= MinValue}
IsTop(S, C) ==
  /\ S \subseteq C
  /\ Cardinality(S) = Cap \/ (Cardinality(S) < Cap /\ S = C)
  /\ \A s \in S, t \in C \ S : Value[s] >= Value[t]

Select(f) ==
  /\ pc[f] = "scan"
  /\ \E S \in SUBSET Candidates(f) :
       /\ IsTop(S, Candidates(f))
       /\ picked' = [picked EXCEPT ![f] = S]
       /\ todo' = [todo EXCEPT ![f] = S]
       /\ marks' = [marks EXCEPT ![f] = Candidates(f) \ S]
  /\ pc' = [pc EXCEPT ![f] = "send"]
  /\ UNCHANGED <<table, old, settings, delivered, writer, aged, stale, gone, fires, hit>>

\* Mutant: a trade is marked whether or not its message was sent.
SendMarksAnyway(f) ==
  /\ pc[f] = "send"
  /\ \E t \in todo[f] :
       /\ todo' = [todo EXCEPT ![f] = @ \ {t}]
       /\ marks' = [marks EXCEPT ![f] = @ \cup {t}]
       /\ delivered[t] < MaxSends
       /\ delivered' \in {delivered, [delivered EXCEPT ![t] = @ + 1]}
  /\ UNCHANGED <<table, old, settings, writer, pc, aged, stale, picked, gone, fires, hit>>

\* One message, the most valuable trade first: delivered; not delivered; or
\* delivered with an answer that never arrives.
Send(f) ==
  /\ pc[f] = "send"
  /\ \E t \in todo[f] :
       /\ \A s \in todo[f] : Value[t] >= Value[s]
       /\ todo' = [todo EXCEPT ![f] = @ \ {t}]
       /\ \/ /\ delivered[t] < MaxSends
             /\ delivered' = [delivered EXCEPT ![t] = @ + 1]
             /\ marks' = [marks EXCEPT ![f] = @ \cup {t}]
             /\ UNCHANGED hit
          \/ UNCHANGED <<delivered, marks, hit>>
          \/ /\ "lost_answer" \in Mishaps
             /\ delivered[t] < MaxSends
             /\ delivered' = [delivered EXCEPT ![t] = @ + 1]
             /\ hit' = hit \cup {"lost_answer"}
             /\ UNCHANGED marks
  /\ UNCHANGED <<table, old, settings, writer, pc, aged, stale, picked, gone, fires>>

EndCall(f) ==
  /\ pc' = [pc EXCEPT ![f] = "idle"]
  /\ aged' = [aged EXCEPT ![f] = {}]
  /\ stale' = [stale EXCEPT ![f] = {}]
  /\ picked' = [picked EXCEPT ![f] = {}]
  /\ todo' = [todo EXCEPT ![f] = {}]
  /\ marks' = [marks EXCEPT ![f] = {}]
  /\ gone' = [gone EXCEPT ![f] = {}]
  /\ writer' = IF writer = f THEN None ELSE writer

\* Mutant: the marks of the trades that were sent are not committed.
CommitStaleOnly(f) ==
  /\ pc[f] = "send" /\ todo[f] = {}
  /\ marked' = marked \cup stale[f]
  /\ EndCall(f)
  /\ UNCHANGED <<stored, old, settings, delivered, fires, hit>>

\* Mutant: calls lock the rows they select, in no common order.
CommitWaitsForMarks(f) ==
  /\ pc[f] = "send" /\ todo[f] = {}
  /\ \A g \in Firers \ {f} : marks[g] \cap marks[f] = {}
  /\ marked' = marked \cup stale[f] \cup marks[f]
  /\ EndCall(f)
  /\ UNCHANGED <<stored, old, settings, delivered, fires, hit>>

\* All marks in one transaction.  A marked object whose row is gone makes the
\* flush fail (StaleDataError): nothing of the call is stored.
Commit(f) ==
  /\ pc[f] = "send" /\ todo[f] = {}
  /\ \A g \in Firers \ {f} : stale[g] \cap marks[f] = {}
  /\ marked' = IF marks[f] \cap gone[f] = {} THEN marked \cup stale[f] \cup marks[f]
                                              ELSE marked
  /\ EndCall(f)
  /\ UNCHANGED <<stored, old, settings, delivered, fires, hit>>

\* The process dies; the database rolls every open transaction back.
Crash ==
  /\ "crash" \in Mishaps
  /\ \E f \in Firers : pc[f] # "idle"
  /\ pc' = [f \in Firers |-> "idle"]
  /\ aged' = [f \in Firers |-> {}]
  /\ stale' = [f \in Firers |-> {}]
  /\ picked' = [f \in Firers |-> {}]
  /\ todo' = [f \in Firers |-> {}]
  /\ marks' = [f \in Firers |-> {}]
  /\ gone' = [f \in Firers |-> {}]
  /\ writer' = None
  /\ hit' = hit \cup {"crash"}
  /\ UNCHANGED <<table, old, settings, delivered, fires>>

FireStep(f) == Select(f) \/ Send(f) \/ Commit(f)
-----------------------------------------------------------------------------
Next ==
  \/ \E t \in Trades : Import(t) \/ Delete(t) \/ Age(t)
  \/ Seed \/ SaveSettings \/ Crash
  \/ \E f \in Firers : MarkStale(f) \/ FireStep(f)

Spec == Init /\ [][Next]_vars

\* Sends have a timeout and the request thread runs: a call that has selected
\* its trades goes on.  Nobody has to make a call.
FairSpec == Spec /\ \A f \in Firers : WF_vars(FireStep(f))
-----------------------------------------------------------------------------
\* README: "deduped so each trade alerts at most once".
AlertOnce == \A t \in Trades : delivered[t] <= 1

\* No answer of Telegram was lost, no process died with a call open, and no
\* trade was deleted (and fetched again) so far.
Unharmed == hit \subseteq {"seed_fails"}

\* SQLite: until then each trade alerts at most once, although the candidates
\* are read long before their marks are committed.
OnceUnlessHit == Backend = "sqlite" /\ Unharmed => AlertOnce

\* A trade whose message was delivered is marked, or will be by the commit of a
\* call that is still open: calls that overlap may each send it (PostgreSQL),
\* but no call that begins after they have ended does.
DeliveredIsMarked ==
  Unharmed => \A t \in Trades :
                delivered[t] > 0 => t \in marked \/ \E f \in Firers : t \in marks[f]

\* Whatever fails or overlaps, a trade is marked without a message only if it
\* is old, was there before alerts were set up, or is outranked by Cap other
\* trades of one call: a failed send never silences a trade.
NeverSilenced ==
  [][\A t \in marked' \ marked :
       \/ t \in old \/ delivered[t] > 0 \/ t \in backlog'
       \/ \E f \in Firers : /\ t \notin picked[f] /\ Cardinality(picked[f]) = Cap
                           /\ \A s \in picked[f] : Value[s] >= Value[t]]_vars

\* README: "going live never floods the chat with historical trades": a trade
\* stored before the first setup is never sent, unless the setup was not the
\* startup's or the trade was deleted and fetched again.
BacklogSilent ==
  hit \cap {"delete", "seed_fails"} = {} => \A t \in backlog : delivered[t] = 0

\* A call that has begun ends: no call waits for ever for another one's rows.
FireEnds == \A f \in Firers : pc[f] # "idle" ~> pc[f] = "idle"
=============================================================================
