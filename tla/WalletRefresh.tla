--------------------------- MODULE WalletRefresh ---------------------------
(***************************************************************************)
(* Every writer of the trades table, as concurrent transactions: the       *)
(* refresh of a wallet (app/ingest.py, refresh_wallet), the cleanup of     *)
(* semantic duplicates (cleanup_duplicate_trades) and the deletion of a    *)
(* wallet (app/routes/wallets.py, delete_wallet).  Route handlers run in   *)
(* FastAPI's thread pool and the scheduler in a thread of its own, each    *)
(* with its own session, so their statements interleave.                   *)
(*                                                                         *)
(* The database is either SQLite (one writer at a time, no foreign keys,   *)
(* a failed statement leaves its transaction open) or PostgreSQL (row      *)
(* level conflicts, foreign keys, a failed statement aborts its            *)
(* transaction).                                                           *)
(***************************************************************************)
EXTENDS Integers, FiniteSets, FiniteSetsExt

CONSTANTS Wallets,      \* wallet addresses on the watchlist at start
          TradeIds,     \* trade_id values
          Feed,         \* [Wallets -> SUBSET TradeIds]: what the API may return
          KeyOf,        \* semantic identity of a trade, a function on TradeIds
          Workers,      \* threads that refresh wallets
          Detached,     \* the workers whose Wallet object has lost its session
          Cleaners,     \* threads that run cleanup_duplicate_trades
          MaxRefreshes, \* bound: refreshes each worker starts
          Backend,      \* "sqlite" or "postgresql"
          None          \* no worker

ASSUME RefreshAssumption ==
  /\ Feed \in [Wallets -> SUBSET TradeIds]
  /\ Detached \subseteq Workers
  /\ IsFiniteSet(TradeIds)
  /\ MaxRefreshes \in Nat
  /\ Backend \in {"sqlite", "postgresql"}
  /\ None \notin Workers

VARIABLES
  rows,     \* trades table: committed rows (by = None) and pending ones
  lastId,   \* the sequence behind trades.id on PostgreSQL
  tracked,  \* wallets table
  status,   \* wallets.last_refresh_status
  events,   \* sync_events table
  writer,   \* who holds SQLite's write lock
  pc,       \* where each worker is inside refresh_wallet
  wallet,   \* the wallet each worker refreshes
  fresh,    \* normalized, then new_trades
  todo,     \* rows of the INSERT not executed yet
  runs,     \* refreshes started by each worker
  groups,   \* cleanup: duplicate groups still to load
  doomed,   \* cleanup: ids passed to db.delete
  cpc       \* where each cleaner is

database == <<rows, lastId, tracked, status, events, writer>>
refresh  == <<pc, wallet, fresh, todo, runs>>
cleanup  == <<groups, doomed, cpc>>
vars     == <<rows, lastId, tracked, status, events, writer,
              pc, wallet, fresh, todo, runs, groups, doomed, cpc>>

Row == [id : Nat \ {0}, trade : TradeIds, wallet : Wallets, by : Workers \cup {None}]
Event == [ref : Workers \X (1..MaxRefreshes), wallet : Wallets,
          status : {"success", "no_new", "error"}, inserted : Nat]

TypeOK ==
  /\ rows \subseteq Row
  /\ lastId \in Nat
  /\ tracked \subseteq Wallets
  /\ status \in [Wallets -> {"never", "success", "no_new", "error"}]
  /\ events \subseteq Event
  /\ writer \in Workers \cup {None}
  /\ pc \in [Workers -> {"idle", "fetch", "read", "insert", "flush", "post", "handle", "aborted"}]
  /\ wallet \in [Workers -> Wallets \cup {None}]
  /\ fresh \in [Workers -> SUBSET TradeIds]
  /\ todo \in [Workers -> SUBSET TradeIds]
  /\ runs \in [Workers -> 0..MaxRefreshes]
  /\ \A w \in Workers : pc[w] # "idle" => wallet[w] \in Wallets /\ runs[w] # 0
  /\ groups \in [Cleaners -> SUBSET (Wallets \X {KeyOf[t] : t \in TradeIds})]
  /\ doomed \in [Cleaners -> SUBSET (Nat \ {0})]
  /\ cpc \in [Cleaners -> {"idle", "load"}]
-----------------------------------------------------------------------------
Committed == {r \in rows : r.by = None}
Pending(w) == {r \in rows : r.by = w}

\* Mutant: the first row of an empty table gets id 0.
NextIdFromZero == Max({r.id : r \in rows} \cup {0})

\* AUTOINCREMENT is not declared, so SQLite gives a new row 1 + the largest id
\* present; PostgreSQL takes the next value of a sequence that never goes back.
NextId == 1 + IF Backend = "postgresql"
              THEN lastId
              ELSE Max({r.id : r \in rows} \cup {0})

\* Mutant: SQLite lets two transactions write at once.
CanWriteAnyway(w) == TRUE

\* A statement that writes needs SQLite's write lock, and keeps it until the
\* transaction ends.
CanWrite(w) == Backend = "sqlite" => writer \in {None, w}
TakeLock(w) == writer' = IF Backend = "sqlite" THEN w ELSE writer
DropLock(w) == writer' = IF writer = w THEN None ELSE writer

Init ==
  /\ rows = {} /\ lastId = 0
  /\ tracked = Wallets
  /\ status = [wl \in Wallets |-> "never"]
  /\ events = {}
  /\ writer = None
  /\ pc = [w \in Workers |-> "idle"]
  /\ wallet = [w \in Workers |-> None]
  /\ fresh = [w \in Workers |-> {}]
  /\ todo = [w \in Workers |-> {}]
  /\ runs = [w \in Workers |-> 0]
  /\ groups = [c \in Cleaners |-> {}]
  /\ doomed = [c \in Cleaners |-> {}]
  /\ cpc = [c \in Cleaners |-> "idle"]
-----------------------------------------------------------------------------
(* refresh_wallet *)

\* The wallet row is loaded by the caller, by a job long before it refreshes it;
\* last_checked_at is set on the object and flushed by the commit at the end.
Begin(w, wl) ==
  /\ pc[w] = "idle" /\ runs[w] < MaxRefreshes
  /\ wl \in tracked \/ w \in Detached
  /\ pc' = [pc EXCEPT ![w] = "fetch"]
  /\ wallet' = [wallet EXCEPT ![w] = wl]
  /\ runs' = [runs EXCEPT ![w] = @ + 1]
  /\ UNCHANGED <<database, fresh, todo, cleanup>>

\* fetch_trades_for_wallet and normalize_trade: some of the published trades,
\* one dict entry per id.
FetchOk(w) ==
  /\ pc[w] = "fetch"
  /\ \E payload \in SUBSET Feed[wallet[w]] : fresh' = [fresh EXCEPT ![w] = payload]
  /\ pc' = [pc EXCEPT ![w] = "read"]
  /\ UNCHANGED <<database, wallet, todo, runs, cleanup>>

\* Timeout, HTTP error or malformed payload.
FetchFail(w) ==
  /\ pc[w] = "fetch"
  /\ pc' = [pc EXCEPT ![w] = "handle"]
  /\ UNCHANGED <<database, wallet, fresh, todo, runs, cleanup>>

\* The SELECT of existing ids looks at every wallet's rows, committed ones only.
ReadExisting(w) ==
  /\ pc[w] = "read"
  /\ LET new == fresh[w] \ {r.trade : r \in Committed}
     IN /\ fresh' = [fresh EXCEPT ![w] = new]
        /\ todo' = [todo EXCEPT ![w] = new]
  /\ pc' = [pc EXCEPT ![w] = "insert"]
  /\ UNCHANGED <<database, wallet, runs, cleanup>>

\* One row of the INSERT is accepted: no row, committed or pending, has its
\* trade_id (PostgreSQL waits for a pending one), and the foreign key holds.
InsertRow(w) ==
  /\ pc[w] = "insert" /\ CanWrite(w)
  /\ Backend = "postgresql" => wallet[w] \in tracked
  /\ \E t \in todo[w] :
       /\ \A r \in rows : r.trade # t
       /\ rows' = rows \cup {[id |-> NextId, trade |-> t, wallet |-> wallet[w], by |-> w]}
       /\ todo' = [todo EXCEPT ![w] = @ \ {t}]
  /\ lastId' = IF Backend = "postgresql" THEN NextId ELSE lastId
  /\ TakeLock(w)
  /\ UNCHANGED <<tracked, status, events, pc, wallet, fresh, runs, cleanup>>

\* Mutant: a refused row sends the refresh back to read the ids again, for as
\* long as its wallet is gone.
RetryAfterReject(w) ==
  /\ pc[w] = "insert" /\ CanWrite(w)
  /\ \E t \in todo[w] :
       \/ \E r \in Committed : r.trade = t
       \/ Backend = "postgresql" /\ wallet[w] \notin tracked
  /\ pc' = [pc EXCEPT ![w] = "read"]
  /\ TakeLock(w)
  /\ UNCHANGED <<rows, lastId, tracked, status, events, wallet, fresh, todo, runs, cleanup>>

\* One row is refused: its trade_id was committed meanwhile, or its wallet is
\* gone.  SQLite keeps the transaction with the rows before it, PostgreSQL
\* aborts it.
RejectRow(w) ==
  /\ pc[w] = "insert" /\ CanWrite(w)
  /\ \E t \in todo[w] :
       \/ \E r \in Committed : r.trade = t
       \/ Backend = "postgresql" /\ wallet[w] \notin tracked
  /\ pc' = [pc EXCEPT ![w] = IF Backend = "postgresql" THEN "aborted" ELSE "handle"]
  /\ TakeLock(w)
  /\ UNCHANGED <<rows, lastId, tracked, status, events, wallet, fresh, todo, runs, cleanup>>

\* PostgreSQL ends a cycle of transactions that wait for each other's rows.
WaitsFor(w, v) == pc[w] = "insert" /\ \E r \in Pending(v) : r.trade \in todo[w]
BreakDeadlock(w) ==
  /\ Backend = "postgresql"
  /\ \E C \in SUBSET Workers :
       w \in C /\ \A v \in C : \E u \in C \ {v} : WaitsFor(v, u)
  /\ pc' = [pc EXCEPT ![w] = "aborted"]
  /\ UNCHANGED <<database, wallet, fresh, todo, runs, cleanup>>

\* _backfill_outcome_tokens: its UPDATE, when there is one, takes the lock.
Backfill(w) ==
  /\ pc[w] = "insert" /\ todo[w] = {}
  /\ pc' = [pc EXCEPT ![w] = "flush"]
  /\ \/ UNCHANGED writer
     \/ CanWrite(w) /\ TakeLock(w)
  /\ UNCHANGED <<rows, lastId, tracked, status, events, wallet, fresh, todo, runs, cleanup>>

\* Mutant: a wallet that is gone goes unnoticed by the flush.
FlushesAnyway(w) == TRUE

\* The UPDATE of the wallet matches its row; a detached object is not flushed.
WalletFlushes(w) == w \in Detached \/ wallet[w] \in tracked

\* Flush and COMMIT: the wallet, the sync event and the pending rows together.
CommitAll(w, outcome, inserted) ==
  /\ rows' = {[r EXCEPT !.by = IF @ = w THEN None ELSE @] : r \in rows}
  /\ events' = events \cup {[ref |-> <<w, runs[w]>>, wallet |-> wallet[w],
                             status |-> outcome, inserted |-> inserted]}
  /\ status' = IF w \in Detached THEN status
               ELSE [status EXCEPT ![wallet[w]] = outcome]
  /\ DropLock(w)
  /\ UNCHANGED <<lastId, tracked>>

Commit(w) ==
  /\ pc[w] = "flush" /\ CanWrite(w)
  /\ WalletFlushes(w)
  /\ CommitAll(w, IF fresh[w] = {} THEN "no_new" ELSE "success", Cardinality(fresh[w]))
  /\ pc' = [pc EXCEPT ![w] = "post"]
  /\ UNCHANGED <<wallet, fresh, todo, runs, cleanup>>

\* Scoring and resolutions catch their own errors, and nothing here undoes the
\* commit.  An error of the stats snapshot reaches the error handler, which
\* records a second event; on PostgreSQL its commit fails too.
Post(w) ==
  /\ pc[w] = "post"
  /\ \E next \in {"idle", IF Backend = "sqlite" THEN "handle" ELSE "idle"} :
       pc' = [pc EXCEPT ![w] = next]
  /\ UNCHANGED <<database, wallet, fresh, todo, runs, cleanup>>

\* _handle_refresh_error commits without a rollback first, so whatever the open
\* transaction holds is committed with the error.
HandleError(w) ==
  /\ pc[w] = "handle" /\ CanWrite(w)
  /\ WalletFlushes(w)
  /\ CommitAll(w, "error", 0)
  /\ pc' = [pc EXCEPT ![w] = "idle"]
  /\ UNCHANGED <<wallet, fresh, todo, runs, cleanup>>

\* Mutant: the session is not rolled back when an exception leaves the request.
RaiseKeepsRows(w) ==
  /\ pc[w] \in {"aborted", "flush", "handle"}
  /\ DropLock(w)
  /\ pc' = [pc EXCEPT ![w] = "idle"]
  /\ UNCHANGED <<rows, lastId, tracked, status, events, wallet, fresh, todo, runs, cleanup>>

\* An exception leaves refresh_wallet and the request's session is closed: the
\* flush finds the transaction aborted, or no wallet row (StaleDataError), or
\* waits for the lock longer than SQLite's busy timeout.
Raise(w) ==
  /\ \/ pc[w] = "aborted"
     \/ pc[w] \in {"flush", "handle"} /\ ~ (CanWrite(w) /\ WalletFlushes(w))
  /\ rows' = rows \ Pending(w)
  /\ DropLock(w)
  /\ pc' = [pc EXCEPT ![w] = "idle"]
  /\ UNCHANGED <<lastId, tracked, status, events, wallet, fresh, todo, runs, cleanup>>

\* The busy timeout during the INSERT or the UPDATE does not poison the session.
LockTimeout(w) ==
  /\ pc[w] = "insert" /\ ~ CanWrite(w)
  /\ pc' = [pc EXCEPT ![w] = "handle"]
  /\ UNCHANGED <<database, wallet, fresh, todo, runs, cleanup>>

RefreshStep(w) ==
  \/ FetchOk(w) \/ FetchFail(w) \/ ReadExisting(w) \/ InsertRow(w) \/ RejectRow(w)
  \/ BreakDeadlock(w) \/ Backfill(w) \/ Commit(w) \/ Post(w) \/ HandleError(w)
  \/ Raise(w) \/ LockTimeout(w)
-----------------------------------------------------------------------------
(* cleanup_duplicate_trades *)

Group(g) == {r \in Committed : r.wallet = g[1] /\ KeyOf[r.trade] = g[2]}
DuplicateGroups == {g \in Wallets \X {KeyOf[t] : t \in TradeIds} :
                      \E r, s \in Group(g) : r # s}

\* find_duplicate_groups; without a group the call returns 0.
CleanupFind(c) ==
  /\ cpc[c] = "idle" /\ DuplicateGroups # {}
  /\ groups' = [groups EXCEPT ![c] = DuplicateGroups]
  /\ cpc' = [cpc EXCEPT ![c] = "load"]
  /\ UNCHANGED <<database, refresh, doomed>>

\* Mutant: the lowest id of a group is not spared.
CleanupLoadAll(c) ==
  /\ cpc[c] = "load"
  /\ \E g \in groups[c] :
       /\ groups' = [groups EXCEPT ![c] = @ \ {g}]
       /\ doomed' = [doomed EXCEPT ![c] = @ \cup {r.id : r \in Group(g)}]
  /\ UNCHANGED <<database, refresh, cpc>>

\* The rows of one group as they are by now; all but the lowest id are deleted
\* from the session.
CleanupLoad(c) ==
  /\ cpc[c] = "load"
  /\ \E g \in groups[c] :
       /\ groups' = [groups EXCEPT ![c] = @ \ {g}]
       /\ doomed' = [doomed EXCEPT ![c] = @ \cup
            {r.id : r \in {x \in Group(g) : \E y \in Group(g) : y.id < x.id}}]
  /\ UNCHANGED <<database, refresh, cpc>>

\* The commit sends DELETE ... WHERE id = ? for each; a missing row is ignored.
CleanupCommit(c) ==
  /\ cpc[c] = "load" /\ groups[c] = {}
  /\ doomed[c] # {} => writer = None
  /\ rows' = rows \ {r \in Committed : r.id \in doomed[c]}
  /\ doomed' = [doomed EXCEPT ![c] = {}]
  /\ cpc' = [cpc EXCEPT ![c] = "idle"]
  /\ UNCHANGED <<lastId, tracked, status, events, writer, refresh, groups>>

\* The write lock stays taken for longer than the busy timeout: the request fails.
CleanupTimeout(c) ==
  /\ cpc[c] = "load" /\ groups[c] = {} /\ doomed[c] # {} /\ writer # None
  /\ doomed' = [doomed EXCEPT ![c] = {}]
  /\ cpc' = [cpc EXCEPT ![c] = "idle"]
  /\ UNCHANGED <<database, refresh, groups>>

CleanupStep(c) == CleanupFind(c) \/ CleanupLoad(c) \/ CleanupCommit(c) \/ CleanupTimeout(c)
-----------------------------------------------------------------------------
(* delete_wallet *)

\* The wallet's trades, then the wallet, one transaction.  On PostgreSQL the
\* DELETE of the wallet waits for transactions that reference it, and cascades.
DeleteWallet(wl) ==
  /\ wl \in tracked
  /\ writer = None
  /\ \A r \in rows : r.wallet = wl => r.by = None
  /\ rows' = {r \in rows : r.wallet # wl}
  /\ tracked' = tracked \ {wl}
  /\ UNCHANGED <<lastId, status, events, writer, refresh, cleanup>>
-----------------------------------------------------------------------------
Next == \/ \E w \in Workers : RefreshStep(w) \/ \E wl \in Wallets : Begin(w, wl)
        \/ \E c \in Cleaners : CleanupStep(c)
        \/ \E wl \in Wallets : DeleteWallet(wl)

Spec == Init /\ [][Next]_vars

\* Network calls have timeouts and the threads run: a refresh that was started
\* goes on.  Nobody has to start one, to clean up or to delete a wallet.
FairSpec == Spec /\ \A w \in Workers : WF_vars(RefreshStep(w))
-----------------------------------------------------------------------------
\* UNIQUE(trade_id) and the primary key, over committed and pending rows: two
\* refreshes of one wallet never store a trade twice, whatever they read first.
UniqueRows == \A r, s \in rows : r.trade = s.trade \/ r.id = s.id => r = s

\* Where a transaction with inserted rows can be open: only SQLite carries rows
\* into the error handler, PostgreSQL has aborted before.
OpenAt == {"insert", "flush", IF Backend = "sqlite" THEN "handle" ELSE "aborted"}

\* An open transaction holds exactly the new trades of its refresh that it has
\* already inserted, under the wallet it refreshes: no row is left behind in the
\* name of a worker that is done, and on SQLite only one worker writes.
PendingIsMine ==
  \A w \in Workers :
    /\ \A r \in Pending(w) : /\ pc[w] \in OpenAt
                             /\ r.wallet = wallet[w]
                             /\ Backend = "sqlite" => writer = w
    /\ pc[w] \in {"insert", "flush"} => {r.trade : r \in Pending(w)} = fresh[w] \ todo[w]
    /\ pc[w] = "insert" => todo[w] \subseteq fresh[w]
    /\ pc[w] = "flush" => todo[w] = {}

\* A stored trade belongs to a wallet on the watchlist: deleting a wallet while
\* it is being refreshed leaves no trade of it (models.py, "delete-orphan").
NoOrphans == \A r \in Committed : r.wallet \in tracked

\* The transactions implement the ledger: rows become visible together with the
\* sync event that counts them and with the wallet's new status, and leave with
\* their wallet or for a twin that stays.
Ledger == INSTANCE TradeLedger
            WITH Refs   <- Workers \X (1..MaxRefreshes),
                 stored <- {[trade |-> r.trade, wallet |-> r.wallet] : r \in Committed}
LedgerSpec == Ledger!Spec

\* A refresh that was started ends, whoever else writes, waits or deletes.
RefreshEnds == \A w \in Workers : pc[w] # "idle" ~> pc[w] = "idle"
=============================================================================
