----------------------------- MODULE QueryCache -----------------------------
(***************************************************************************)
(* The in-process cache of page aggregations (app/cache.py) between the    *)
(* pages that read through it and the writers that change trade data.      *)
(* Every caller of cached() is an async handler, so a process runs one     *)
(* call at a time, on its event loop; refreshes run in threads, commit,    *)
(* and then invalidate the cache of their own process.  The data is a      *)
(* version number.  Keys do not affect each other: there is one.           *)
(***************************************************************************)
EXTENDS Integers

CONSTANTS Procs,       \* server processes, each with a cache of its own
          Refreshers,  \* threads that refresh or clean up
          Home,        \* the process of each refresher
          TTL,         \* DEFAULT_TTL_SECONDS, in ticks
          MaxClock,    \* bound: ticks
          MaxVersion,  \* bound: commits
          Silent       \* whether writers that do not invalidate take part

ASSUME CacheAssumption ==
  /\ Home \in [Refreshers -> Procs]
  /\ TTL \in Nat \ {0}
  /\ MaxClock \in Nat /\ MaxVersion \in Nat
  /\ Silent \in BOOLEAN

VARIABLES
  clock,      \* time.monotonic()
  version,    \* commits to trade data so far
  before,     \* history: the version when the clock reached each tick
  store,      \* _store: at most one entry
  pc,         \* where the event loop is inside cached()
  now,        \* its local now
  got,        \* the value it computed or found
  raced,      \* history: an invalidation came after that value was computed
  need,       \* history: what was promised to it when it was called
  promised,   \* history: the latest version whose refresh has invalidated here
  committed   \* the version a refresher committed, 0 when it has invalidated

data   == <<clock, version, before>>
reader == <<pc, now, got, raced, need>>
vars   == <<clock, version, before, store, pc, now, got, raced, need,
            promised, committed>>

NoEntry == [expires |-> 0, value |-> 0, raced |-> FALSE]
Entry == [expires : 0..(MaxClock + TTL), value : 0..MaxVersion, raced : BOOLEAN]

TypeOK ==
  /\ clock \in 0..MaxClock
  /\ version \in 0..MaxVersion
  /\ before \in [0..MaxClock -> 0..MaxVersion]
  /\ store \in [Procs -> Entry]
  /\ pc \in [Procs -> {"idle", "lookup", "compute", "save", "done"}]
  /\ now \in [Procs -> 0..MaxClock]
  /\ got \in [Procs -> 0..MaxVersion]
  /\ raced \in [Procs -> BOOLEAN]
  /\ need \in [Procs -> 0..MaxVersion]
  /\ promised \in [Procs -> 0..MaxVersion]
  /\ committed \in [Refreshers -> 0..MaxVersion]

Init ==
  /\ clock = 0 /\ version = 0
  /\ before = [c \in 0..MaxClock |-> 0]
  /\ store = [p \in Procs |-> NoEntry]
  /\ pc = [p \in Procs |-> "idle"]
  /\ now = [p \in Procs |-> 0]
  /\ got = [p \in Procs |-> 0]
  /\ raced = [p \in Procs |-> FALSE]
  /\ need = [p \in Procs |-> 0]
  /\ promised = [p \in Procs |-> 0]
  /\ committed = [w \in Refreshers |-> 0]
-----------------------------------------------------------------------------
Tick ==
  /\ clock < MaxClock
  /\ clock' = clock + 1
  /\ before' = [before EXCEPT ![clock'] = version]
  /\ UNCHANGED <<version, store, reader, promised, committed>>

(* cached *)

Call(p) ==
  /\ pc[p] = "idle"
  /\ pc' = [pc EXCEPT ![p] = "lookup"]
  /\ now' = [now EXCEPT ![p] = clock]
  /\ need' = [need EXCEPT ![p] = promised[p]]
  /\ UNCHANGED <<data, store, got, raced, promised, committed>>

\* An entry counts while it expires after the time of the call.
Fresh(p) == store[p].expires > now[p]

Hit(p) ==
  /\ pc[p] = "lookup" /\ Fresh(p)
  /\ pc' = [pc EXCEPT ![p] = "done"]
  /\ got' = [got EXCEPT ![p] = store[p].value]
  /\ raced' = [raced EXCEPT ![p] = store[p].raced]
  /\ UNCHANGED <<data, store, now, need, promised, committed>>

Miss(p) ==
  /\ pc[p] = "lookup" /\ ~ Fresh(p)
  /\ pc' = [pc EXCEPT ![p] = "compute"]
  /\ UNCHANGED <<data, store, now, got, raced, need, promised, committed>>

\* The query runs outside the lock; if it raises, nothing is stored.
Compute(p) ==
  /\ pc[p] = "compute"
  /\ \/ /\ pc' = [pc EXCEPT ![p] = "save"]
        /\ got' = [got EXCEPT ![p] = version]
        /\ raced' = [raced EXCEPT ![p] = FALSE]
     \/ /\ pc' = [pc EXCEPT ![p] = "idle"]
        /\ UNCHANGED <<got, raced>>
  /\ UNCHANGED <<data, store, now, need, promised, committed>>

\* Mutant: the entry lives for one TTL from the end of the query.
SaveFromNow(p) ==
  /\ pc[p] = "save"
  /\ store' = [store EXCEPT ![p] =
                 [expires |-> clock + TTL, value |-> got[p], raced |-> raced[p]]]
  /\ pc' = [pc EXCEPT ![p] = "done"]
  /\ UNCHANGED <<data, now, got, raced, need, promised, committed>>

\* Mutant: the caller passes an expiry, and the TTL is added to it again.
SaveTwice(p) ==
  /\ pc[p] = "save"
  /\ store' = [store EXCEPT ![p] =
                 [expires |-> now[p] + TTL + TTL, value |-> got[p], raced |-> raced[p]]]
  /\ pc' = [pc EXCEPT ![p] = "done"]
  /\ UNCHANGED <<data, now, got, raced, need, promised, committed>>

\* The entry expires one TTL after the call, not after the query.
Save(p) ==
  /\ pc[p] = "save"
  /\ store' = [store EXCEPT ![p] =
                 [expires |-> now[p] + TTL, value |-> got[p], raced |-> raced[p]]]
  /\ pc' = [pc EXCEPT ![p] = "done"]
  /\ UNCHANGED <<data, now, got, raced, need, promised, committed>>

Return(p) ==
  /\ pc[p] = "done"
  /\ pc' = [pc EXCEPT ![p] = "idle"]
  /\ UNCHANGED <<data, store, now, got, raced, need, promised, committed>>
-----------------------------------------------------------------------------
(* The writers *)

\* refresh_wallet and cleanup_duplicate_trades commit ...
CommitChange(w) ==
  /\ committed[w] = 0
  /\ version < MaxVersion
  /\ version' = version + 1
  /\ committed' = [committed EXCEPT ![w] = version']
  /\ UNCHANGED <<clock, before, store, reader, promised>>

\* Mutant: the entry survives the invalidation.
InvalidateNothing(w) ==
  LET p == Home[w] IN
  /\ committed[w] # 0
  /\ raced' = [raced EXCEPT ![p] = @ \/ pc[p] = "save"]
  /\ promised' = [promised EXCEPT ![p] = IF @ < committed[w] THEN committed[w] ELSE @]
  /\ committed' = [committed EXCEPT ![w] = 0]
  /\ UNCHANGED <<data, store, pc, now, got, need>>

\* ... and call invalidate() some time later.
Invalidate(w) ==
  LET p == Home[w] IN
  /\ committed[w] # 0
  /\ store' = [store EXCEPT ![p] = NoEntry]
  /\ raced' = [raced EXCEPT ![p] = @ \/ pc[p] = "save"]
  /\ promised' = [promised EXCEPT ![p] = IF @ < committed[w] THEN committed[w] ELSE @]
  /\ committed' = [committed EXCEPT ![w] = 0]
  /\ UNCHANGED <<data, pc, now, got, need>>

\* delete_wallet, an async handler like the readers: commits, never invalidates.
SilentChange(p) ==
  /\ Silent
  /\ pc[p] = "idle"
  /\ version < MaxVersion
  /\ version' = version + 1
  /\ UNCHANGED <<clock, before, store, reader, promised, committed>>

Next ==
  \/ Tick
  \/ \E p \in Procs : \/ Call(p) \/ Hit(p) \/ Miss(p) \/ Compute(p) \/ Save(p)
                      \/ Return(p) \/ SilentChange(p)
  \/ \E w \in Refreshers : CommitChange(w) \/ Invalidate(w)

Spec == Init /\ [][Next]_vars
-----------------------------------------------------------------------------
\* cache.py: "Bounded staleness for anything not covered by explicit
\* invalidation": whatever a page is served was current less than one TTL
\* before it asked, even if nobody invalidated, queries are slow, and late
\* results are stored over newer ones or over an invalidation.
BoundedStaleness ==
  \A p \in Procs :
    pc[p] = "done" /\ now[p] >= TTL => got[p] >= before[now[p] - TTL + 1]

\* In the process that refreshed, a page that is called after the invalidation
\* shows the refresh, unless its value was computed across an invalidation.
FreshUnlessRaced ==
  \A p \in Procs : pc[p] = "done" => got[p] >= need[p] \/ raced[p]

\* ingest.py: "Drop the cache so the next page load reflects the refresh
\* immediately."
NextPageFresh == \A p \in Procs : pc[p] = "done" => got[p] >= need[p]
=============================================================================
