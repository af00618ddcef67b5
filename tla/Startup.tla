------------------------------ MODULE Startup ------------------------------
(***************************************************************************)
(* The start of the gunicorn workers on one database: the background task  *)
(* of the lifespan and the readiness gate (app/main.py), and what init_db  *)
(* does (app/db.py): create_all, then the tracked migrations on SQLite or  *)
(* the compatibility columns on PostgreSQL.  Nothing serialises the        *)
(* workers: each looks at the schema and then changes it, and an error is  *)
(* answered by a new attempt.                                              *)
(*                                                                         *)
(* On SQLite the driver opens a transaction at the first INSERT (that of a *)
(* version), so what the first pending migration alters is committed at    *)
(* once, and what the later ones alter with the versions.                  *)
(***************************************************************************)
EXTENDS Naturals, Sequences, FiniteSets, SequencesExt

CONSTANTS Workers,     \* worker processes
          MaxAttempts, \* STARTUP_DB_MAX_ATTEMPTS
          MaxMishaps   \* bound: lost connections and killed workers

ASSUME StartupAssumption ==
  /\ IsFiniteSet(Workers) /\ "none" \notin Workers
  /\ MaxAttempts \in Nat \ {0} /\ MaxMishaps \in Nat

VARIABLES
  dialect,  \* "sqlite" or "postgresql"; "none" before the deployment
  objects,  \* tables and columns there are, committed
  versions, \* schema_migrations, committed
  writer,   \* who is in a transaction that has written, if any
  worker,   \* what each worker is at
  request,  \* a request to a page at each worker
  mishaps   \* mishaps so far

startupVars == <<dialect, objects, versions, writer, worker, request, mishaps>>

\* Two of the tables of the models; with a table come its columns.
ModelTables == {"wallets", "market_resolutions"}
Create(t) == IF t = "wallets" THEN {t, "tags", "notes", "ai_summary"} ELSE {t}
Objects == UNION {Create(t) : t \in ModelTables}

\* SCHEMA_MIGRATIONS, each with what it adds, in this order: columns (001), a
\* table created if it is not there (013), a column of a later version (010).
Migrations == << <<"tags", "notes">>, <<"market_resolutions">>, <<"ai_summary">> >>
Versions == DOMAIN Migrations
IfNotExists == {"market_resolutions"}

\* POSTGRES_COMPAT_COLUMNS.
CompatColumns == <<"tags", "notes", "ai_summary">>

NoOne == "none"
Idle == [step |-> "down", attempt |-> 0, at |-> 1, todo |-> {}, applied |-> {},
         own |-> {}, ownVersions |-> {}]

Steps == {"down", "check", "create", "list", "look", "alter", "adding", "commit",
          "maintain", "up", "degraded"}

StartupTypeOK ==
  /\ dialect \in {NoOne, "sqlite", "postgresql"}
  /\ objects \subseteq Objects /\ versions \subseteq Versions
  /\ writer \in Workers \cup {NoOne}
  /\ worker \in [Workers ->
       [step : Steps, attempt : 0..MaxAttempts, at : 1..(Len(Migrations) + 1),
        todo : SUBSET Objects, applied : SUBSET Versions,
        own : SUBSET Objects, ownVersions : SUBSET Versions]]
  /\ request \in [Workers -> {NoOne, "waiting", "served"}]
  /\ mishaps \in 0..MaxMishaps
  /\ \A w \in Workers :
       worker[w].own # {} \/ worker[w].ownVersions # {} => writer = w

StartupInit ==
  /\ dialect = NoOne
  /\ objects = {} /\ versions = {}
  /\ writer = NoOne
  /\ worker = [w \in Workers |-> Idle]
  /\ request = [w \in Workers |-> NoOne]
  /\ mishaps = 0

\* The database that is found: none, one of an older release that has applied
\* the first n migrations, or one from before they were tracked.
Deploy ==
  /\ dialect = NoOne
  /\ dialect' \in {"sqlite", "postgresql"}
  /\ \/ UNCHANGED <<objects, versions>>
     \/ \E n \in 0..2 :
          /\ versions' = IF dialect' = "sqlite" THEN 1..n ELSE {}
          /\ objects' = {"wallets"} \cup UNION {ToSet(Migrations[v]) : v \in 1..n}
     \/ objects' = {"wallets", "notes"} /\ versions' = {}
  /\ UNCHANGED <<writer, worker, request, mishaps>>
-----------------------------------------------------------------------------
IsAt(w, step) == worker[w].step = step
Sqlite == dialect = "sqlite"

\* What w sees: what is committed and what it did itself.
Sees(w) == objects \cup worker[w].own

Goto(w, step) == worker' = [worker EXCEPT ![w].step = step]

\* The transaction is rolled back, and _initialize_database_with_retries
\* tries again, so often.
Fail(w) ==
  /\ worker' = [worker EXCEPT ![w] =
       IF @.attempt < MaxAttempts
       THEN [Idle EXCEPT !.attempt = worker[w].attempt + 1, !.step = "check"]
       ELSE [Idle EXCEPT !.attempt = MaxAttempts, !.step = "degraded"]]
  /\ writer' = IF writer = w THEN NoOne ELSE writer
  /\ UNCHANGED <<objects, versions>>

\* lifespan: the task is created, and the worker listens.
Boot(w) ==
  /\ dialect # NoOne /\ IsAt(w, "down")
  /\ worker' = [worker EXCEPT ![w].step = "check", ![w].attempt = 1]
  /\ UNCHANGED <<dialect, objects, versions, writer, request, mishaps>>

\* What is left to do is done in the order of the list it comes from.
First(order, left, c) ==
  \E k \in DOMAIN order : c = order[k] /\ c \in left /\ \A j \in 1..(k - 1) : order[j] \notin left

\* create_all looks for every table first ...
CheckTables(w) ==
  /\ IsAt(w, "check")
  /\ worker' = [worker EXCEPT ![w].todo = ModelTables \ objects,
                              ![w].step = IF ModelTables \subseteq objects THEN "list" ELSE "create"]
  /\ UNCHANGED <<dialect, objects, versions, writer, request, mishaps>>

\* ... and then creates those it missed, one by one on SQLite, together on
\* PostgreSQL; a table that has come in between is an error.
CreateTables(w) ==
  \E these \in SUBSET worker[w].todo :
    /\ IsAt(w, "create")
    /\ IF Sqlite THEN \E t \in worker[w].todo : these = {t} ELSE these = worker[w].todo
    /\ IF these \cap objects # {} \/ writer # NoOne
       THEN Fail(w)
       ELSE /\ objects' = objects \cup UNION {Create(t) : t \in these}
            /\ worker' = [worker EXCEPT
                 ![w].todo = @ \ these,
                 ![w].step = IF these = worker[w].todo THEN "list" ELSE "create"]
            /\ UNCHANGED <<versions, writer>>
    /\ UNCHANGED <<dialect, request, mishaps>>

\* _applied_migration_versions, read once before the loop.
ListVersions(w) ==
  /\ IsAt(w, "list")
  /\ worker' = [worker EXCEPT ![w].applied = versions, ![w].at = 1,
       ![w].step = IF Sqlite THEN "look" ELSE "alter",
       ![w].todo = IF Sqlite THEN {} ELSE ToSet(CompatColumns)]
  /\ UNCHANGED <<dialect, objects, versions, writer, request, mishaps>>

\* The next migration: one that was applied is skipped, or the columns that are
\* missing are looked up, once for all of them.
LookUp(w) ==
  LET at == worker[w].at IN
    /\ IsAt(w, "look")
    /\ worker' =
         IF at > Len(Migrations) THEN [worker EXCEPT ![w].step = "commit"]
         ELSE IF at \in worker[w].applied THEN [worker EXCEPT ![w].at = at + 1]
         ELSE [worker EXCEPT ![w].step = "alter",
                 ![w].todo = ToSet(Migrations[at]) \ Sees(w)]
    /\ UNCHANGED <<dialect, objects, versions, writer, request, mishaps>>

\* Another worker writes: SQLite gives up after a while, PostgreSQL waits.
Locked(w) ==
  /\ writer \notin {NoOne, w}
  /\ Sqlite /\ Fail(w)

\* Mutant: a column that is already there ends the migration.
AlterOrSkip(w) == \E c \in worker[w].todo :
  /\ Sqlite /\ IsAt(w, "alter")
  /\ First(Migrations[worker[w].at], worker[w].todo, c)
  /\ writer \in {NoOne, w}
  /\ IF c \in objects
     THEN /\ worker' = [worker EXCEPT ![w].todo = {}]
          /\ UNCHANGED objects
     ELSE /\ worker' = [worker EXCEPT ![w].todo = @ \ {c}]
          /\ objects' = objects \cup {c}
  /\ UNCHANGED <<dialect, versions, writer, request, mishaps>>

\* ALTER TABLE of the next missing column, at once or within the transaction;
\* a column that has come in between is an error.
Alter(w) == \E c \in worker[w].todo :
  /\ Sqlite /\ IsAt(w, "alter")
  /\ First(Migrations[worker[w].at], worker[w].todo, c)
  /\ \/ Locked(w)
     \/ /\ writer \in {NoOne, w}
        /\ IF c \in Sees(w) /\ c \notin IfNotExists
           THEN Fail(w)
           ELSE /\ worker' = [worker EXCEPT ![w].todo = @ \ {c},
                     ![w].own = IF writer = w /\ c \notin Sees(w) THEN @ \cup {c} ELSE @]
                /\ objects' = IF writer = w THEN objects ELSE objects \cup {c}
                /\ UNCHANGED <<versions, writer>>
  /\ UNCHANGED <<dialect, request, mishaps>>

\* _record_migration: the first INSERT opens the transaction; a version that
\* another worker has recorded is an error.
Record(w) ==
  /\ Sqlite /\ IsAt(w, "alter") /\ worker[w].todo = {}
  /\ \/ Locked(w)
     \/ /\ writer \in {NoOne, w}
        /\ IF worker[w].at \in versions
           THEN Fail(w)
           ELSE /\ writer' = w
                /\ worker' = [worker EXCEPT ![w].ownVersions = @ \cup {worker[w].at},
                     ![w].at = @ + 1, ![w].step = "look"]
                /\ UNCHANGED <<objects, versions>>
  /\ UNCHANGED <<dialect, request, mishaps>>

\* _ensure_postgres_compat_columns: a column is looked up and skipped ...
Compat(w) ==
  LET left == worker[w].todo IN
    /\ ~Sqlite /\ IsAt(w, "alter")
    /\ \/ left = {} /\ Goto(w, "commit")
       \/ \E c \in left :
            /\ First(CompatColumns, left, c)
            /\ worker' = IF c \in Sees(w) THEN [worker EXCEPT ![w].todo = @ \ {c}]
                         ELSE [worker EXCEPT ![w].step = "adding"]
    /\ UNCHANGED <<dialect, objects, versions, writer, request, mishaps>>

\* ... or added: the ALTER waits for the lock on the table, keeps it, and is an
\* error when the column has come meanwhile.
CompatAdd(w) == \E c \in worker[w].todo :
  /\ IsAt(w, "adding") /\ writer \in {NoOne, w}
  /\ First(CompatColumns, worker[w].todo, c)
  /\ IF c \in objects
     THEN Fail(w)
     ELSE /\ writer' = w
          /\ worker' = [worker EXCEPT ![w].todo = @ \ {c}, ![w].own = @ \cup {c},
                                      ![w].step = "alter"]
          /\ UNCHANGED <<objects, versions>>
  /\ UNCHANGED <<dialect, request, mishaps>>

\* The end of the transaction, and check_database_ready.
Commit(w) ==
  /\ IsAt(w, "commit")
  /\ objects' = objects \cup worker[w].own
  /\ versions' = versions \cup worker[w].ownVersions
  /\ worker' = [worker EXCEPT ![w] =
       [Idle EXCEPT !.step = "maintain", !.attempt = worker[w].attempt]]
  /\ writer' = IF writer = w THEN NoOne ELSE writer
  /\ UNCHANGED <<dialect, request, mishaps>>

\* Mutant: an error of the maintenance ends the startup.
MaintainOrFail(w) ==
  /\ IsAt(w, "maintain")
  /\ Goto(w, "up") \/ Goto(w, "degraded")
  /\ UNCHANGED <<dialect, objects, versions, writer, request, mishaps>>

\* _run_startup_maintenance, whose errors are logged; then the worker is ready.
Maintain(w) ==
  /\ IsAt(w, "maintain")
  /\ Goto(w, "up")
  /\ UNCHANGED <<dialect, objects, versions, writer, request, mishaps>>

\* The connection is lost at a statement.
Unreachable(w) ==
  /\ mishaps < MaxMishaps
  /\ ~(IsAt(w, "down") \/ IsAt(w, "maintain") \/ IsAt(w, "up") \/ IsAt(w, "degraded"))
  /\ Fail(w)
  /\ mishaps' = mishaps + 1
  /\ UNCHANGED <<dialect, request>>

\* The worker is killed, its transaction is rolled back, and it boots again.
Kill(w) ==
  /\ mishaps < MaxMishaps
  /\ ~IsAt(w, "down")
  /\ worker' = [worker EXCEPT ![w] = Idle]
  /\ writer' = IF writer = w THEN NoOne ELSE writer
  /\ request' = [request EXCEPT ![w] = NoOne]
  /\ mishaps' = mishaps + 1
  /\ UNCHANGED <<dialect, objects, versions>>
-----------------------------------------------------------------------------
\* readiness_gate_middleware for a page that is not public.
Arrive(w) ==
  /\ request[w] = NoOne /\ ~IsAt(w, "down")
  /\ request' = [request EXCEPT ![w] = IF IsAt(w, "up") THEN "served" ELSE "waiting"]
  /\ UNCHANGED <<dialect, objects, versions, writer, worker, mishaps>>

\* Mutant: the task has ended, and the request goes on.
WaitOnly(w) ==
  /\ request[w] = "waiting"
  /\ \/ request' = [request EXCEPT ![w] = NoOne]
     \/ /\ IsAt(w, "up") \/ IsAt(w, "degraded")
        /\ request' = [request EXCEPT ![w] = "served"]
  /\ UNCHANGED <<dialect, objects, versions, writer, worker, mishaps>>

\* It waits for the startup task, for so long, and looks at the flag again;
\* the answer is the page or a 503.
Wait(w) ==
  /\ request[w] = "waiting"
  /\ \/ ~IsAt(w, "up") /\ request' = [request EXCEPT ![w] = NoOne]
     \/ IsAt(w, "up")  /\ request' = [request EXCEPT ![w] = "served"]
  /\ UNCHANGED <<dialect, objects, versions, writer, worker, mishaps>>

\* The page has been sent.
Answered(w) ==
  /\ request[w] = "served"
  /\ request' = [request EXCEPT ![w] = NoOne]
  /\ UNCHANGED <<dialect, objects, versions, writer, worker, mishaps>>

Initialise(w) ==
  \/ Boot(w) \/ CheckTables(w) \/ CreateTables(w) \/ ListVersions(w)
  \/ LookUp(w) \/ Alter(w) \/ Record(w) \/ Compat(w) \/ CompatAdd(w)
  \/ Commit(w) \/ Maintain(w)

StartupNext ==
  \/ Deploy
  \/ \E w \in Workers :
       \/ Initialise(w) \/ Unreachable(w) \/ Kill(w)
       \/ Arrive(w) \/ Wait(w) \/ Answered(w)

StartupSpec == StartupInit /\ [][StartupNext]_startupVars

\* The startup task runs.
StartupFairness == \A w \in Workers : WF_startupVars(Initialise(w))
-----------------------------------------------------------------------------
\* A recorded migration is never run again, so whatever fails or dies, and
\* whatever the workers do to each other, a version in schema_migrations means
\* that what it adds is there, and a worker that is ready has the whole schema.
MigratedTruthfully ==
  /\ \A v \in versions : ToSet(Migrations[v]) \subseteq objects
  /\ \A w \in Workers : worker[w].step \in {"maintain", "up"} => objects = Objects

\* No page is served on a schema that lacks a table or a column, by any worker,
\* also when the startup has ended without success.
ServedComplete ==
  \A w \in Workers : request[w] = "served" => objects = Objects

\* Workers make each other fail, but without mishaps one of them gets up.
SomeWorkerStarts ==
  dialect # NoOne ~> mishaps > 0 \/ \E w \in Workers : worker[w].step = "up"
=============================================================================
