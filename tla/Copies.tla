------------------------------- MODULE Copies -------------------------------
(***************************************************************************)
(* Moving the stored data to another database: the JSON backup and its     *)
(* import (app/backup.py, scripts/import_backup.py), the migration script  *)
(* (scripts/migrate_to_postgres.py), and the rows a new deployment puts    *)
(* there itself (app/watchlist_seed.py, app/seed_trades.py).  The old      *)
(* database is SQLite, which numbers a row after the highest it has; the   *)
(* new one is PostgreSQL, which numbers it from a sequence.  A wallet is   *)
(* known by its address, a trade by its trade_id, a sync event only by its *)
(* number.                                                                 *)
(***************************************************************************)
EXTENDS Naturals, Sequences, FiniteSets, FiniteSetsExt, Functions

CONSTANTS Addresses,  \* wallet addresses
          TradeKeys,  \* trade_ids
          OwnerOf,    \* the wallet of each trade
          SeedWallets,\* the addresses of WATCHLIST_SEED_WALLETS
          MaxId,      \* bound: row numbers of each table
          MaxNo       \* bound: numbers a sequence has given out

ASSUME CopiesAssumption ==
  /\ OwnerOf \in [TradeKeys -> Addresses] /\ SeedWallets \subseteq Addresses
  /\ IsFiniteSet(Addresses) /\ IsFiniteSet(TradeKeys) /\ MaxNo \in Nat
  /\ DOMAIN MaxId = {"wallets", "trades", "sync_events"} /\ \A t \in DOMAIN MaxId : MaxId[t] \in 0..MaxNo

VARIABLES rows,    \* the rows of each table of each database
          nextNo,  \* the sequences of the new one
          file,    \* what a copy has read
          reading, \* the table it reads next
          outcome  \* how the last copy ended

copyVars == <<rows, nextNo, file, reading, outcome>>

Tables   == <<"wallets", "trades", "sync_events">>  \* in the order of BACKUP_MODELS
TableSet == Range(Tables)
Sites    == {"old", "new"}
Event    == "event"

Keys(T) == {r.key : r \in T}
Ids(T)  == {r.id : r \in T}

RowOf(t) ==
  [id : 1..MaxId[t],
   key : CASE t = "wallets" -> Addresses [] t = "trades" -> TradeKeys [] OTHER -> {Event}]

CopiesTypeOK ==
  /\ \A s \in Sites, t \in TableSet : rows[s][t] \subseteq RowOf(t)
  /\ \A t \in TableSet : file[t] \subseteq RowOf(t) /\ nextNo[t] \in 1..(MaxNo + 1)
  /\ reading \in 0..(Len(Tables) + 1) /\ outcome \in {"none", "ok", "failed"}

Empty == [t \in TableSet |-> {}]

CopiesInit ==
  /\ rows = [s \in Sites |-> Empty] /\ nextNo = [t \in TableSet |-> 1]
  /\ file = Empty /\ reading = 0 /\ outcome = "none"
-----------------------------------------------------------------------------
\* A row that has found no conflict is stored: the number is a primary key, and a
\* trade needs its wallet.
Fits(db, t, r) ==
  /\ r.id \notin Ids(db[t])
  /\ t = "trades" => OwnerOf[r.key] \in Keys(db["wallets"])

\* Mutant: every table conflicts on its primary key.
SameNumber(db, t, r) == r.id \in Ids(db[t])

\* ON CONFLICT on CONFLICT_KEYS: the address or the trade_id, else the primary key.
Duplicate(db, t, r) ==
  IF t = "sync_events" THEN r.id \in Ids(db[t]) ELSE r.key \in Keys(db[t])

\* One row of an INSERT ... ON CONFLICT DO NOTHING.  Without a number of its own it
\* takes the next one of the sequence, even if it is then skipped.
PutRow(s, t, r, numbered) ==
  LET new == IF numbered THEN r ELSE [r EXCEPT !.id = s.no[t]]
      no   == IF numbered THEN s.no ELSE [s.no EXCEPT ![t] = @ + 1] IN
    IF ~s.ok THEN s
    ELSE IF Duplicate(s.db, t, new) THEN [s EXCEPT !.no = no]
    ELSE IF Fits(s.db, t, new) THEN [s EXCEPT !.no = no, !.db[t] = @ \cup {new}]
    ELSE [s EXCEPT !.no = no, !.ok = FALSE]

\* The rows of a table in the order of their numbers.
PutTable(s, t, R, numbered) ==
  LET put[S \in SUBSET R] ==
        IF S = {} THEN s
        ELSE LET last == CHOOSE x \in S : \A y \in S : y.id <= x.id IN
               PutRow(put[S \ {last}], t, last, numbered) IN
    put[R]

\* Everything that was read, table by table, in one transaction.
PutAll(numbered) ==
  LET start     == [db |-> rows["new"], no |-> nextNo, ok |-> TRUE]
      put(s, t) == PutTable(s, t, file[t], t \in numbered) IN
    put(put(put(start, "wallets"), "trades"), "sync_events")
-----------------------------------------------------------------------------
\* The application adds a row, or finds its number taken.
AddTo(s, t, k) ==
  LET no  == IF s = "old" THEN Max(Ids(rows[s][t]) \cup {0}) + 1 ELSE nextNo[t]
      new == [id |-> no, key |-> k] IN
    /\ no <= MaxId[t]
    /\ k # Event => k \notin Keys(rows[s][t])
    /\ t = "trades" => OwnerOf[k] \in Keys(rows[s]["wallets"])
    /\ rows' = IF Fits(rows[s], t, new) THEN [rows EXCEPT ![s][t] = @ \cup {new}] ELSE rows
    /\ nextNo' = IF s = "new" THEN [nextNo EXCEPT ![t] = @ + 1] ELSE nextNo
    /\ UNCHANGED <<file, reading, outcome>>

\* Deleting a wallet deletes its trades.
Delete(s, a) ==
  /\ a \in Keys(rows[s]["wallets"])
  /\ rows' = [rows EXCEPT
       ![s]["wallets"] = {r \in @ : r.key # a},
       ![s]["trades"] = {r \in @ : OwnerOf[r.key] # a}]
  /\ UNCHANGED <<nextNo, file, reading, outcome>>

\* seed_trades at the start of the new deployment: only when there are no trades, and
\* only those of known wallets.
SeedTrades ==
  LET known == {k \in TradeKeys : OwnerOf[k] \in Keys(rows["new"]["wallets"])}
      put   == PutTable([db |-> rows["new"], no |-> nextNo, ok |-> TRUE], "trades",
                        {[id |-> 1, key |-> k] : k \in known}, FALSE) IN
    /\ rows["new"]["trades"] = {} /\ known # {}
    /\ nextNo["trades"] + Cardinality(known) - 1 <= MaxId["trades"]
    /\ rows' = IF put.ok THEN [rows EXCEPT !["new"] = put.db] ELSE rows
    /\ nextNo' = put.no
    /\ UNCHANGED <<file, reading, outcome>>

\* seed_watchlist_wallets: an address that is missing is added.
SeedWatchlist ==
  LET missing == SeedWallets \ Keys(rows["new"]["wallets"])
      put     == PutTable([db |-> rows["new"], no |-> nextNo, ok |-> TRUE], "wallets",
                          {[id |-> 1, key |-> a] : a \in missing}, FALSE) IN
    /\ missing # {} /\ nextNo["wallets"] + Cardinality(missing) - 1 <= MaxId["wallets"]
    /\ rows' = IF put.ok THEN [rows EXCEPT !["new"] = put.db] ELSE rows
    /\ nextNo' = put.no
    /\ UNCHANGED <<file, reading, outcome>>
-----------------------------------------------------------------------------
\* build_backup, and the queries of the migration: the tables are read one by one
\* while the old application goes on.  A copy that failed may be taken anew.
StartCopy ==
  /\ reading = 0 \/ outcome = "failed"
  /\ reading' = 1 /\ file' = Empty /\ outcome' = "none"
  /\ UNCHANGED <<rows, nextNo>>

ReadTable ==
  /\ reading \in 1..Len(Tables)
  /\ file' = [file EXCEPT ![Tables[reading]] = rows["old"][Tables[reading]]]
  /\ reading' = reading + 1
  /\ UNCHANGED <<rows, nextNo, outcome>>

\* One transaction: all of it or nothing, except the numbers taken from a sequence.
Apply(numbered) ==
  LET put == PutAll(numbered) IN
    /\ reading = Len(Tables) + 1
    /\ rows' = IF put.ok THEN [rows EXCEPT !["new"] = put.db] ELSE rows
    /\ nextNo' = put.no
    /\ \A t \in TableSet : nextNo'[t] <= MaxNo + 1 /\ \A r \in rows'["new"][t] : r.id <= MaxId[t]
    /\ outcome' = IF put.ok THEN "ok" ELSE "failed"
    /\ UNCHANGED <<file, reading>>

\* import_backup_payload keeps every column, the numbers too.
Import == Apply(TableSet)

\* The migration leaves the numbers of wallets and trades to the new database.
Migrate == Apply({"sync_events"})

\* The old application goes on; the new one is only starting: it seeds its wallets and
\* trades and writes its sync events.
CopiesNext ==
  \/ \E a \in Addresses : AddTo("old", "wallets", a) \/ Delete("old", a)
  \/ \E k \in TradeKeys : AddTo("old", "trades", k)
  \/ \E s \in Sites : AddTo(s, "sync_events", Event)
  \/ SeedTrades \/ SeedWatchlist \/ StartCopy \/ ReadTable \/ Import \/ Migrate

CopiesSpec == CopiesInit /\ [][CopiesNext]_copyVars
-----------------------------------------------------------------------------
\* What a copy that reports success has done: every wallet and trade it read is there,
\* every number of an event is taken, and nothing that was there has gone.  A copy into
\* an empty database fails only for a trade that was read after its wallet was missed.
Complete ==
  /\ \A t \in {"wallets", "trades"} : Keys(file[t]) \subseteq Keys(rows["new"][t])
  /\ Ids(file["sync_events"]) \subseteq Ids(rows["new"]["sync_events"])

Consistent(db) ==
  /\ \A t \in TableSet : \A r, q \in db[t] : r.id = q.id \/ (r.key = q.key /\ r.key # Event) => r = q
  /\ \A r \in db["trades"] : OwnerOf[r.key] \in Keys(db["wallets"])

CopyIsWhole ==
  /\ \A s \in Sites : Consistent(rows'[s])
  /\ outcome' = "ok" /\ outcome # "ok" =>
       /\ Complete'
       /\ \A t \in TableSet : rows["new"][t] \subseteq rows'["new"][t]
  /\ outcome' = "failed" /\ outcome # "failed" /\ rows["new"] = Empty /\ rows' = rows =>
       \E r \in file["trades"] : OwnerOf[r.key] \notin Keys(file["wallets"])

CopiedWhole == [][CopyIsWhole]_copyVars
=============================================================================
