------------------------ MODULE WalletRefreshProofs ------------------------
(***************************************************************************)
(* What holds of WalletRefresh for every set of wallets, trades, workers   *)
(* and cleaners: its types, that no trade outlives its wallet, and that on *)
(* PostgreSQL it implements TradeLedger.                                   *)
(***************************************************************************)
EXTENDS WalletRefresh, Facts, FiniteSetTheorems

USE RefreshAssumption DEF Row, Event, Committed, Pending, OpenAt
-----------------------------------------------------------------------------
\* Some natural number bounds the ids in use; on PostgreSQL the sequence does.
IdsBounded ==
  /\ \E b \in Nat : \A r \in rows : r.id <= b
  /\ Backend = "postgresql" => \A r \in rows : r.id <= lastId

\* A new row gets a positive id, greater than every id in use.
LEMMA NextIdIsNew ==
  ASSUME TypeOK, IdsBounded
  PROVE  NextId \in Nat \ {0} /\ \A r \in rows : r.id < NextId
<1>1. CASE Backend = "postgresql"
  BY <1>1 DEF NextId, IdsBounded, TypeOK
<1>2. CASE Backend # "postgresql"
  <2> DEFINE ids == {r.id : r \in rows} \cup {0}
  <2>1. PICK b \in Nat : \A n \in ids : n <= b
    BY DEF IdsBounded
  <2>2. ids \in SUBSET Nat /\ ids # {}
    BY DEF TypeOK
  <2>3. \E m \in ids : \A n \in ids : m >= n
    BY <2>1, <2>2, GreatestNat
  <2>4. Max(ids) \in ids /\ \A n \in ids : Max(ids) >= n
    BY <2>3 DEF Max
  <2>5. NextId = 1 + Max(ids)
    BY <1>2 DEF NextId
  <2>6. \A r \in rows : r.id \in ids
    OBVIOUS
  <2>7. 0 \in ids
    OBVIOUS
  <2> HIDE DEF ids
  <2>8. Max(ids) \in Nat
    BY <2>2, <2>4
  <2>9. \A r \in rows : r.id \in Nat /\ Max(ids) >= r.id
    BY <2>2, <2>4, <2>6
  <2> QED BY <2>5, <2>8, <2>9
<1> QED BY <1>1, <1>2

\* Cardinality(fresh[w]) is a number: a payload is finite.
LEMMA FreshIsCounted ==
  ASSUME TypeOK, NEW w \in Workers
  PROVE  Cardinality(fresh[w]) \in Nat
<1>1. fresh[w] \in SUBSET TradeIds
  BY DEF TypeOK
<1> QED BY <1>1, FS_Subset, FS_CardinalityType

\* Committing changes nothing of a row but its transaction.
LEMMA CommittedRows ==
  ASSUME TypeOK, NEW w \in Workers, NEW outcome, NEW n, CommitAll(w, outcome, n)
  PROVE  /\ \A s \in rows' : \E r \in rows :
               /\ s.id = r.id /\ s.trade = r.trade /\ s.wallet = r.wallet
               /\ s.by = IF r.by = w THEN None ELSE r.by
               /\ s \in Row
         /\ \A r \in rows : \E s \in rows' :
               /\ s.id = r.id /\ s.trade = r.trade /\ s.wallet = r.wallet
               /\ s.by = IF r.by = w THEN None ELSE r.by
<1> DEFINE after(r) == [r EXCEPT !.by = IF @ = w THEN None ELSE @]
<1>1. \A r \in rows : /\ after(r) \in Row
                      /\ after(r).id = r.id /\ after(r).trade = r.trade
                      /\ after(r).wallet = r.wallet
                      /\ after(r).by = IF r.by = w THEN None ELSE r.by
  BY DEF TypeOK
<1>2. rows' = {after(r) : r \in rows}
  BY DEF CommitAll
<1> HIDE DEF after
<1> QED BY <1>1, <1>2

-----------------------------------------------------------------------------
(* Types. *)

TypeInv == TypeOK /\ IdsBounded

LEMMA TypeInit == Init => TypeInv
BY DEF Init, TypeInv, TypeOK, IdsBounded

\* The part of the types that inserting and committing rows can disturb.
LEMMA TypeInsert ==
  ASSUME TypeInv, NEW w \in Workers, InsertRow(w)
  PROVE  TypeInv'
<1> USE DEF TypeInv
<1>1. NextId \in Nat \ {0} /\ \A r \in rows : r.id < NextId
  BY NextIdIsNew
<1>2. PICK t \in todo[w] :
        rows' = rows \cup {[id |-> NextId, trade |-> t, wallet |-> wallet[w], by |-> w]}
  BY DEF InsertRow
<1>3. t \in TradeIds /\ wallet[w] \in Wallets
  BY DEF InsertRow, TypeOK
<1>4. rows' \subseteq Row
  BY <1>1, <1>2, <1>3 DEF TypeOK
<1>5. lastId' \in Nat /\ writer' \in Workers \cup {None} /\ todo' \in [Workers -> SUBSET TradeIds]
  BY <1>1 DEF InsertRow, TakeLock, TypeOK
<1>6. TypeOK'
  BY <1>4, <1>5 DEF InsertRow, TypeOK, cleanup
<1>7. \A r \in rows' : r.id <= NextId
  BY <1>1, <1>2 DEF TypeOK
<1>8. Backend = "postgresql" => lastId' = NextId
  BY DEF InsertRow
<1> QED BY <1>1, <1>6, <1>7, <1>8 DEF IdsBounded

LEMMA TypeCommitAll ==
  ASSUME TypeInv, NEW w \in Workers, pc[w] # "idle",
         NEW outcome \in {"success", "no_new", "error"}, NEW n \in Nat,
         CommitAll(w, outcome, n)
  PROVE  /\ rows' \subseteq Row /\ lastId' \in Nat /\ tracked' \subseteq Wallets
         /\ status' \in [Wallets -> {"never", "success", "no_new", "error"}]
         /\ events' \subseteq Event
         /\ writer' \in Workers \cup {None}
         /\ IdsBounded'
<1> USE DEF TypeInv
<1>1. rows' \subseteq Row
  BY CommittedRows
<1>2. wallet[w] \in Wallets /\ runs[w] \in 1..MaxRefreshes
  BY DEF TypeOK
<1>3. events' \subseteq Event
  BY <1>2 DEF CommitAll, TypeOK
<1>4. status' \in [Wallets -> {"never", "success", "no_new", "error"}]
  BY <1>2 DEF CommitAll, TypeOK
<1>5. /\ lastId' \in Nat /\ tracked' \subseteq Wallets
      /\ writer' \in Workers \cup {None}
  BY DEF CommitAll, DropLock, TypeOK
<1>6. IdsBounded'
  <2>1. \A s \in rows' : \E r \in rows : s.id = r.id
    BY CommittedRows
  <2>2. lastId' = lastId
    BY DEF CommitAll
  <2> QED BY <2>1, <2>2 DEF IdsBounded
<1> QED BY <1>1, <1>3, <1>4, <1>5, <1>6

\* Removing rows keeps the ids bounded.
LEMMA FewerRowsBounded ==
  ASSUME IdsBounded, rows' \subseteq rows, lastId' = lastId
  PROVE  IdsBounded'
BY DEF IdsBounded

LEMMA TypeNext == TypeInv /\ [Next]_vars => TypeInv'
<1> USE DEF TypeInv
<1> SUFFICES ASSUME TypeInv, [Next]_vars  PROVE TypeInv'
  OBVIOUS
<1>1. ASSUME NEW w \in Workers, NEW wl \in Wallets, Begin(w, wl)  PROVE TypeInv'
  BY <1>1 DEF Begin, TypeOK, IdsBounded, database, cleanup
<1>2. ASSUME NEW w \in Workers, FetchOk(w)  PROVE TypeInv'
  <2>1. PICK payload \in SUBSET Feed[wallet[w]] : fresh' = [fresh EXCEPT ![w] = payload]
    BY <1>2 DEF FetchOk
  <2>2. payload \in SUBSET TradeIds
    BY <1>2, <2>1 DEF FetchOk, TypeOK
  <2> QED BY <1>2, <2>1, <2>2 DEF FetchOk, TypeOK, IdsBounded, database, cleanup
<1>3. ASSUME NEW w \in Workers, FetchFail(w)  PROVE TypeInv'
  BY <1>3 DEF FetchFail, TypeOK, IdsBounded, database, cleanup
<1>4. ASSUME NEW w \in Workers, ReadExisting(w)  PROVE TypeInv'
  <2>1. fresh[w] \ {r.trade : r \in Committed} \in SUBSET TradeIds
    BY DEF TypeOK
  <2> QED BY <1>4, <2>1 DEF ReadExisting, TypeOK, IdsBounded, database, cleanup
<1>5. ASSUME NEW w \in Workers, InsertRow(w)  PROVE TypeInv'
  BY <1>5, TypeInsert
<1>6. ASSUME NEW w \in Workers, RejectRow(w)  PROVE TypeInv'
  BY <1>6 DEF RejectRow, TakeLock, TypeOK, IdsBounded, cleanup
<1>7. ASSUME NEW w \in Workers, BreakDeadlock(w)  PROVE TypeInv'
  BY <1>7 DEF BreakDeadlock, WaitsFor, TypeOK, IdsBounded, database, cleanup
<1>8. ASSUME NEW w \in Workers, Backfill(w)  PROVE TypeInv'
  BY <1>8 DEF Backfill, TakeLock, TypeOK, IdsBounded, cleanup
<1>9. ASSUME NEW w \in Workers, Commit(w)  PROVE TypeInv'
  <2>1. Cardinality(fresh[w]) \in Nat
    BY FreshIsCounted
  <2> QED BY <1>9, <2>1, TypeCommitAll DEF Commit, TypeOK, cleanup
<1>10. ASSUME NEW w \in Workers, Post(w)  PROVE TypeInv'
  BY <1>10 DEF Post, TypeOK, IdsBounded, database, cleanup
<1>11. ASSUME NEW w \in Workers, HandleError(w)  PROVE TypeInv'
  BY <1>11, TypeCommitAll DEF HandleError, TypeOK, cleanup
<1>12. ASSUME NEW w \in Workers, Raise(w)  PROVE TypeInv'
  <2>1. rows' \subseteq rows /\ lastId' = lastId
    BY <1>12 DEF Raise
  <2> QED BY <1>12, <2>1, FewerRowsBounded DEF Raise, DropLock, TypeOK, cleanup
<1>13. ASSUME NEW w \in Workers, LockTimeout(w)  PROVE TypeInv'
  BY <1>13 DEF LockTimeout, TypeOK, IdsBounded, database, cleanup
<1>14. ASSUME NEW c \in Cleaners, CleanupFind(c)  PROVE TypeInv'
  BY <1>14 DEF CleanupFind, DuplicateGroups, TypeOK, IdsBounded, database, refresh
<1>15. ASSUME NEW c \in Cleaners, CleanupLoad(c)  PROVE TypeInv'
  <2>1. PICK g \in groups[c] :
          /\ groups' = [groups EXCEPT ![c] = @ \ {g}]
          /\ doomed' = [doomed EXCEPT ![c] = @ \cup
               {r.id : r \in {x \in Group(g) : \E y \in Group(g) : y.id < x.id}}]
    BY <1>15 DEF CleanupLoad
  <2>2. {r.id : r \in {x \in Group(g) : \E y \in Group(g) : y.id < x.id}} \subseteq Nat \ {0}
    BY DEF Group, TypeOK
  <2> QED BY <1>15, <2>1, <2>2 DEF CleanupLoad, TypeOK, IdsBounded, database, refresh
<1>16. ASSUME NEW c \in Cleaners, CleanupCommit(c)  PROVE TypeInv'
  <2>1. rows' \subseteq rows /\ lastId' = lastId
    BY <1>16 DEF CleanupCommit
  <2> QED BY <1>16, <2>1, FewerRowsBounded DEF CleanupCommit, TypeOK, refresh
<1>17. ASSUME NEW c \in Cleaners, CleanupTimeout(c)  PROVE TypeInv'
  BY <1>17 DEF CleanupTimeout, TypeOK, IdsBounded, database, refresh
<1>18. ASSUME NEW wl \in Wallets, DeleteWallet(wl)  PROVE TypeInv'
  <2>1. rows' \subseteq rows /\ lastId' = lastId
    BY <1>18 DEF DeleteWallet
  <2> QED BY <1>18, <2>1, FewerRowsBounded DEF DeleteWallet, TypeOK, refresh, cleanup
<1>19. CASE UNCHANGED vars
  BY <1>19 DEF vars, TypeOK, IdsBounded
<1> QED
  BY <1>1, <1>2, <1>3, <1>4, <1>5, <1>6, <1>7, <1>8, <1>9, <1>10, <1>11, <1>12, <1>13,
     <1>14, <1>15, <1>16, <1>17, <1>18, <1>19
  DEF Next, RefreshStep, CleanupStep

\* Every variable keeps its type in every execution.
THEOREM TypeCorrect == Spec => []TypeOK
<1>1. Spec => []TypeInv
  BY TypeInit, TypeNext, PTL DEF Spec
<1> QED BY <1>1, PTL DEF TypeInv
-----------------------------------------------------------------------------
(* Open transactions. *)

\* A worker whose step this is not keeps its rows and its place.
LEMMA OthersPending ==
  ASSUME TypeInv, PendingIsMine, NEW v \in Workers,
         \A r \in rows' : r.by = v => r \in rows,
         \A r \in rows : r.by = v => r \in rows',
         pc'[v] = pc[v], wallet'[v] = wallet[v], fresh'[v] = fresh[v], todo'[v] = todo[v],
         Backend = "sqlite" /\ writer = v => writer' = v
  PROVE  /\ \A r \in Pending(v)' : /\ pc'[v] \in OpenAt
                                   /\ r.wallet = wallet'[v]
                                   /\ Backend = "sqlite" => writer' = v
         /\ pc'[v] \in {"insert", "flush"} =>
              {r.trade : r \in Pending(v)'} = fresh'[v] \ todo'[v]
         /\ pc'[v] = "insert" => todo'[v] \subseteq fresh'[v]
         /\ pc'[v] = "flush" => todo'[v] = {}
<1>1. Pending(v)' = Pending(v)
  OBVIOUS
<1> QED BY <1>1 DEF PendingIsMine

LEMMA PendingInit == Init => PendingIsMine
BY DEF Init, PendingIsMine

LEMMA PendingNext ==
  ASSUME TypeInv, TypeInv', PendingIsMine, [Next]_vars
  PROVE  PendingIsMine'
<1> DEFINE Mine(v) ==
      /\ \A r \in Pending(v) : /\ pc[v] \in OpenAt
                               /\ r.wallet = wallet[v]
                               /\ Backend = "sqlite" => writer = v
      /\ pc[v] \in {"insert", "flush"} => {r.trade : r \in Pending(v)} = fresh[v] \ todo[v]
      /\ pc[v] = "insert" => todo[v] \subseteq fresh[v]
      /\ pc[v] = "flush" => todo[v] = {}
<1>a. \A v \in Workers : Mine(v)
  BY DEF PendingIsMine
<1> SUFFICES ASSUME NEW v \in Workers  PROVE Mine(v)'
  BY DEF PendingIsMine
<1> USE DEF TypeInv
<1>1. ASSUME NEW w \in Workers, w # v, RefreshStep(w) \/ \E wl \in Wallets : Begin(w, wl)
      PROVE  Mine(v)'
  <2>1. /\ pc'[v] = pc[v] /\ wallet'[v] = wallet[v]
        /\ fresh'[v] = fresh[v] /\ todo'[v] = todo[v]
    BY <1>1 DEF RefreshStep, Begin, FetchOk, FetchFail, ReadExisting, InsertRow, RejectRow,
       BreakDeadlock, Backfill, Commit, Post, HandleError, Raise, LockTimeout, TypeOK
  <2>2. Backend = "sqlite" /\ writer = v => writer' = v
    BY <1>1 DEF RefreshStep, Begin, FetchOk, FetchFail, ReadExisting, InsertRow, RejectRow,
       BreakDeadlock, Backfill, Commit, Post, HandleError, Raise, LockTimeout, CommitAll,
       CanWrite, TakeLock, DropLock, database, TypeOK
  <2>3. /\ \A r \in rows' : r.by = v => r \in rows
        /\ \A r \in rows : r.by = v => r \in rows'
    <3>1. CASE InsertRow(w)
      BY <1>1, <3>1 DEF InsertRow
    <3>2. ASSUME NEW outcome, NEW n, CommitAll(w, outcome, n)
          PROVE  <2>3!1 /\ <2>3!2
      <4> DEFINE after(r) == [r EXCEPT !.by = IF @ = w THEN None ELSE @]
      <4>1. \A r \in rows : /\ r.by # w => after(r) = r
                            /\ r.by = w => after(r).by = None
        BY DEF TypeOK
      <4>2. rows' = {after(r) : r \in rows}
        BY <3>2 DEF CommitAll
      <4>3. v # None
        OBVIOUS
      <4> HIDE DEF after
      <4> QED BY <1>1, <4>1, <4>2, <4>3
    <3>3. CASE Commit(w)
      BY <3>2, <3>3 DEF Commit
    <3>4. CASE HandleError(w)
      BY <3>2, <3>4 DEF HandleError
    <3>5. CASE Raise(w)
      BY <1>1, <3>5 DEF Raise
    <3> QED BY <1>1, <3>1, <3>3, <3>4, <3>5 DEF RefreshStep, Begin, FetchOk, FetchFail,
       ReadExisting, RejectRow, BreakDeadlock, Backfill, Post, LockTimeout, database
  <2> QED BY <2>1, <2>2, <2>3, OthersPending
<1>2. ASSUME NEW wl \in Wallets, Begin(v, wl)  PROVE Mine(v)'
  BY <1>2, <1>a DEF Begin, database, TypeOK
<1>3. CASE FetchOk(v) \/ FetchFail(v) \/ Post(v)
  BY <1>3, <1>a DEF FetchOk, FetchFail, Post, database, TypeOK
<1>4. CASE ReadExisting(v)
  <2>1. Pending(v) = {}
    BY <1>4, <1>a DEF ReadExisting
  <2> QED BY <1>4, <2>1 DEF ReadExisting, database, TypeOK
<1>5. CASE InsertRow(v)
  <2>1. PICK t \in todo[v] :
          /\ rows' = rows \cup {[id |-> NextId, trade |-> t, wallet |-> wallet[v], by |-> v]}
          /\ todo' = [todo EXCEPT ![v] = @ \ {t}]
    BY <1>5 DEF InsertRow
  <2> DEFINE row == [id |-> NextId, trade |-> t, wallet |-> wallet[v], by |-> v]
  <2>2. row.trade = t /\ row.wallet = wallet[v] /\ row.by = v
    OBVIOUS
  <2>3. rows' = rows \cup {row}
    BY <2>1
  <2> HIDE DEF row
  <2>4. Pending(v)' = Pending(v) \cup {row}
    BY <2>2, <2>3
  <2>5. {r.trade : r \in Pending(v)'} = {r.trade : r \in Pending(v)} \cup {t}
    BY <2>2, <2>4
  <2>6. pc[v] = "insert" /\ pc'[v] = "insert" /\ fresh' = fresh /\ wallet' = wallet
    BY <1>5 DEF InsertRow
  <2>7. todo[v] \subseteq fresh[v] /\ {r.trade : r \in Pending(v)} = fresh[v] \ todo[v]
    BY <2>6, <1>a
  <2>8. todo'[v] = todo[v] \ {t}
    BY <2>1 DEF TypeOK
  <2>9. fresh'[v] \ todo'[v] = (fresh[v] \ todo[v]) \cup {t}
    BY <2>6, <2>7, <2>8
  <2>10. {r.trade : r \in Pending(v)'} = fresh'[v] \ todo'[v]
    BY <2>5, <2>7, <2>9
  <2>11. Backend = "sqlite" => writer' = v
    BY <1>5 DEF InsertRow, TakeLock
  <2>12. \A r \in Pending(v)' : r.wallet = wallet'[v]
    BY <1>a, <2>2, <2>4, <2>6
  <2> QED BY <2>6, <2>7, <2>8, <2>10, <2>11, <2>12
<1>6. CASE RejectRow(v) \/ BreakDeadlock(v) \/ LockTimeout(v)
  <2>1. /\ rows' = rows /\ wallet' = wallet /\ pc[v] = "insert"
        /\ Backend = "sqlite" /\ writer = v => writer' = v
    BY <1>6 DEF RejectRow, BreakDeadlock, WaitsFor, LockTimeout, TakeLock, database
  <2>2. pc'[v] = IF Backend = "sqlite" THEN "handle" ELSE "aborted"
    BY <1>6 DEF RejectRow, BreakDeadlock, LockTimeout, CanWrite, TypeOK
  <2> QED BY <1>a, <2>1, <2>2
<1>7. CASE Backfill(v)
  BY <1>7, <1>a DEF Backfill, TakeLock, TypeOK
<1>8. CASE Commit(v) \/ HandleError(v)
  <2>1. \A s \in rows' : s.by # v
    BY <1>8, CommittedRows DEF Commit, HandleError
  <2> QED BY <1>8, <2>1 DEF Commit, HandleError, TypeOK
<1>9. CASE Raise(v)
  BY <1>9 DEF Raise, TypeOK
<1>10. ASSUME NEW c \in Cleaners, CleanupStep(c)  PROVE Mine(v)'
  BY <1>10, OthersPending DEF CleanupStep, CleanupFind, CleanupLoad, CleanupCommit,
     CleanupTimeout, database, refresh
<1>11. ASSUME NEW wl \in Wallets, DeleteWallet(wl)  PROVE Mine(v)'
  BY <1>11, OthersPending DEF DeleteWallet, refresh
<1>12. CASE UNCHANGED vars
  BY <1>12, OthersPending DEF vars
<1> QED
  BY <1>1, <1>2, <1>3, <1>4, <1>5, <1>6, <1>7, <1>8, <1>9, <1>10, <1>11, <1>12
  DEF Next, RefreshStep

\* Pending rows are exactly what their worker has inserted so far, for any
\* number of refreshes, cleanups and deletions at once.
THEOREM PendingCorrect == Spec => []PendingIsMine
<1>1. Spec => [](TypeInv /\ PendingIsMine)
  BY TypeInit, TypeNext, PendingInit, PendingNext, PTL DEF Spec
<1> QED BY <1>1, PTL
-----------------------------------------------------------------------------
(* Trades and their wallets. *)

\* NoOrphans needs a reason on each backend: on PostgreSQL pending rows are
\* covered by the foreign key too; on SQLite the flush of an attached Wallet
\* finds out that the wallet is gone.
References == /\ NoOrphans
              /\ Backend = "postgresql" => \A r \in rows : r.wallet \in tracked

LEMMA ReferencesInit == Init => References
BY DEF Init, References, NoOrphans

\* Committing under a wallet that the flush has found keeps the references.
LEMMA ReferencesCommitAll ==
  ASSUME TypeInv, PendingIsMine, References,
         Backend = "postgresql" \/ Detached = {},
         NEW w \in Workers, NEW outcome, NEW n, CommitAll(w, outcome, n), WalletFlushes(w)
  PROVE  References'
<1>1. \A s \in rows' : \E r \in rows :
        /\ s.wallet = r.wallet
        /\ s.by = IF r.by = w THEN None ELSE r.by
  BY CommittedRows DEF TypeInv
<1>2. tracked' = tracked
  BY DEF CommitAll
<1>3. \A r \in rows : r.by = w => r.wallet \in tracked
  <2>1. CASE Backend = "postgresql"
    BY <2>1 DEF References
  <2>2. CASE Detached = {}
    BY <2>2 DEF WalletFlushes, PendingIsMine
  <2> QED BY <2>1, <2>2
<1> QED BY <1>1, <1>2, <1>3 DEF References, NoOrphans

LEMMA ReferencesNext ==
  ASSUME TypeInv, PendingIsMine, References, [Next]_vars,
         Backend = "postgresql" \/ Detached = {}
  PROVE  References'
<1>1. ASSUME NEW w \in Workers, InsertRow(w)  PROVE References'
  BY <1>1 DEF InsertRow, References, NoOrphans
<1>2. ASSUME NEW w \in Workers, Commit(w) \/ HandleError(w)  PROVE References'
  BY <1>2, ReferencesCommitAll DEF Commit, HandleError
<1>3. ASSUME NEW wl \in Wallets, DeleteWallet(wl)  PROVE References'
  BY <1>3 DEF DeleteWallet, References, NoOrphans
<1>4. ASSUME rows' \subseteq rows, tracked' = tracked  PROVE References'
  BY <1>4 DEF References, NoOrphans
<1>5. ASSUME NEW w \in Workers, Raise(w)  PROVE References'
  BY <1>4, <1>5 DEF Raise
<1>6. ASSUME NEW w \in Workers, RejectRow(w) \/ Backfill(w)  PROVE References'
  BY <1>4, <1>6 DEF RejectRow, Backfill
<1>7. ASSUME NEW c \in Cleaners, CleanupCommit(c)  PROVE References'
  BY <1>4, <1>7 DEF CleanupCommit
<1>8. CASE UNCHANGED database \/ UNCHANGED vars
  BY <1>4, <1>8 DEF database, vars
<1> QED
  BY <1>1, <1>2, <1>3, <1>5, <1>6, <1>7, <1>8
  DEF Next, RefreshStep, CleanupStep, Begin, FetchOk, FetchFail, ReadExisting,
      BreakDeadlock, Post, LockTimeout, CleanupFind, CleanupLoad, CleanupTimeout

\* No trade outlives its wallet: always on PostgreSQL, and on SQLite as long as
\* every refresh runs with a wallet of its own session.
THEOREM NoOrphanTrades ==
  ASSUME Backend = "postgresql" \/ Detached = {}
  PROVE  Spec => []NoOrphans
<1>1. Init => TypeInv /\ PendingIsMine /\ References
  BY TypeInit, PendingInit, ReferencesInit
<1>2. TypeInv /\ PendingIsMine /\ References /\ [Next]_vars
        => (TypeInv /\ PendingIsMine /\ References)'
  BY TypeNext, PendingNext, ReferencesNext
<1>3. References => NoOrphans
  BY DEF References
<1> QED BY <1>1, <1>2, <1>3, PTL DEF Spec
-----------------------------------------------------------------------------
(* The rows of the table and the cleanup, on PostgreSQL. *)

\* An id that cleanup is going to delete is that of a committed row with an
\* older twin, or of no row any more, and never that of a row still to come.
EldersExist ==
  \A c \in Cleaners :
    /\ \A i \in doomed[c] : i <= lastId
    /\ \A r \in rows : r.id \in doomed[c] =>
         \E s \in Committed : s.id < r.id /\ s.wallet = r.wallet /\ KeyOf[s.trade] = KeyOf[r.trade]
    /\ \A r \in rows : r.id \in doomed[c] => r.by = None

TableInv == UniqueRows /\ EldersExist

\* Of the twins of a row that cleanup is going to delete, one stays.
LEMMA TwinSurvives ==
  ASSUME TypeInv, TableInv, NEW c \in Cleaners, NEW r \in Committed, r.id \in doomed[c]
  PROVE  \E s \in Committed : /\ s.id \notin doomed[c] /\ s.id < r.id
                              /\ s.wallet = r.wallet /\ KeyOf[s.trade] = KeyOf[r.trade]
<1> DEFINE twins == {s \in Committed : s.wallet = r.wallet /\ KeyOf[s.trade] = KeyOf[r.trade]}
           ids == {s.id : s \in twins}
<1>1. ids \in SUBSET Nat /\ r.id \in ids
  BY DEF TypeInv, TypeOK
<1>2. PICK m \in ids : \A n \in ids : m <= n
  BY <1>1, LeastNat
<1>3. PICK s \in twins : s.id = m
  BY <1>2
<1>4. s.id \notin doomed[c]
  <2>1. SUFFICES ASSUME s.id \in doomed[c]  PROVE FALSE
    OBVIOUS
  <2>2. PICK x \in Committed : x.id < s.id /\ x.wallet = s.wallet /\ KeyOf[x.trade] = KeyOf[s.trade]
    BY <1>3, <2>1 DEF TableInv, EldersExist
  <2>3. x.id \in ids
    BY <1>3, <2>2
  <2>4. m <= x.id /\ x.id < m
    BY <1>2, <1>3, <2>2, <2>3
  <2>5. m \in Nat /\ x.id \in Nat
    BY <1>1, <1>2, <2>3
  <2> HIDE DEF ids
  <2> QED BY <2>4, <2>5
<1>5. s.id < r.id
  BY <1>1, <1>2, <1>3, <1>4
<1> QED BY <1>3, <1>4, <1>5

LEMMA TableInit == Init => TableInv
BY DEF Init, TableInv, UniqueRows, EldersExist

LEMMA TableInsert ==
  ASSUME Backend = "postgresql", TypeInv, TableInv, NEW w \in Workers, InsertRow(w)
  PROVE  TableInv'
<1> DEFINE row(t) == [id |-> NextId, trade |-> t, wallet |-> wallet[w], by |-> w]
<1>1. NextId \in Nat /\ \A r \in rows : r.id < NextId /\ r.id \in Nat
  BY NextIdIsNew DEF TypeInv, TypeOK
<1>2. PICK t \in todo[w] : rows' = rows \cup {row(t)} /\ \A r \in rows : r.trade # t
  BY DEF InsertRow
<1>3. row(t).id = NextId /\ row(t).trade = t /\ row(t).by = w
  OBVIOUS
<1>4. lastId \in Nat /\ NextId = lastId + 1 /\ lastId' = NextId /\ doomed' = doomed
  BY DEF InsertRow, NextId, cleanup, TypeInv, TypeOK
<1>5. UniqueRows'
  <2> HIDE DEF row
  <2> QED BY <1>1, <1>2, <1>3 DEF TableInv, UniqueRows
<1>6. EldersExist'
  <2> SUFFICES ASSUME NEW c \in Cleaners
               PROVE  /\ \A i \in doomed[c] : i <= NextId
                      /\ \A r \in rows' : r.id \in doomed[c] =>
                           /\ r.by = None
                           /\ \E s \in Committed' : /\ s.id < r.id /\ s.wallet = r.wallet
                                                    /\ KeyOf[s.trade] = KeyOf[r.trade]
    BY <1>4 DEF EldersExist
  <2>1. \A i \in doomed[c] : i \in Nat /\ i <= lastId
    BY DEF TableInv, EldersExist, TypeInv, TypeOK
  <2>2. \A i \in doomed[c] : i <= NextId /\ i # NextId
    BY <1>4, <2>1
  <2> HIDE DEF row
  <2>3. \A r \in rows' : r.id \in doomed[c] => r \in rows
    BY <1>2, <1>3, <2>2
  <2>4. Committed \subseteq Committed'
    BY <1>2
  <2> QED BY <2>2, <2>3, <2>4 DEF TableInv, EldersExist
<1> QED BY <1>5, <1>6 DEF TableInv

LEMMA TableCommitAll ==
  ASSUME TypeInv, TableInv, NEW w \in Workers, NEW outcome, NEW n, CommitAll(w, outcome, n),
         doomed' = doomed
  PROVE  TableInv'
<1> DEFINE after(r) == [r EXCEPT !.by = IF @ = w THEN None ELSE @]
<1>1. \A r \in rows : /\ after(r).id = r.id /\ after(r).trade = r.trade
                      /\ after(r).wallet = r.wallet
                      /\ after(r).by = IF r.by = w THEN None ELSE r.by
  BY DEF TypeInv, TypeOK
<1>2. rows' = {after(r) : r \in rows} /\ lastId' = lastId
  BY DEF CommitAll
<1> HIDE DEF after
<1>3. UniqueRows'
  BY <1>1, <1>2 DEF TableInv, UniqueRows
<1>4. \A r \in Committed : after(r) \in Committed'
  BY <1>1, <1>2
<1>5. EldersExist'
  BY <1>1, <1>2, <1>4 DEF TableInv, EldersExist
<1> QED BY <1>3, <1>5 DEF TableInv

LEMMA TableLoad ==
  ASSUME Backend = "postgresql", TypeInv, TableInv, NEW c \in Cleaners, CleanupLoad(c)
  PROVE  TableInv'
<1>1. PICK g \in groups[c] :
        doomed' = [doomed EXCEPT ![c] = @ \cup
          {r.id : r \in {x \in Group(g) : \E y \in Group(g) : y.id < x.id}}]
  BY DEF CleanupLoad
<1>2. rows' = rows /\ lastId' = lastId
  BY DEF CleanupLoad, database
<1>3. UniqueRows'
  BY <1>2 DEF TableInv, UniqueRows
<1>4. ASSUME NEW d \in Cleaners, NEW i \in doomed'[d]
      PROVE  \/ i \in doomed[d]
             \/ \E x, y \in Group(g) : i = x.id /\ y.id < x.id
  BY <1>1 DEF TypeInv, TypeOK
<1>5. \A x \in Group(g) : x.id <= lastId
  BY DEF TypeInv, IdsBounded, Group
<1>6. ASSUME NEW d \in Cleaners, NEW r \in rows, r.id \in doomed'[d]
      PROVE  /\ r.by = None
             /\ \E s \in Committed : /\ s.id < r.id /\ s.wallet = r.wallet
                                     /\ KeyOf[s.trade] = KeyOf[r.trade]
  <2>1. CASE r.id \in doomed[d]
    BY <2>1 DEF TableInv, EldersExist
  <2>2. CASE r.id \notin doomed[d]
    <3>1. PICK x, y \in Group(g) : r.id = x.id /\ y.id < x.id
      BY <1>4, <1>6, <2>2
    <3>2. r = x
      BY <3>1 DEF TableInv, UniqueRows, Group
    <3> QED BY <3>1, <3>2 DEF Group
  <2> QED BY <2>1, <2>2
<1>7. EldersExist'
  BY <1>2, <1>4, <1>5, <1>6 DEF TableInv, EldersExist
<1> QED BY <1>3, <1>7 DEF TableInv

LEMMA TableDelete ==
  ASSUME TypeInv, TableInv, NEW wl \in Wallets, DeleteWallet(wl)
  PROVE  TableInv'
<1>1. /\ rows' = {r \in rows : r.wallet # wl}
      /\ lastId' = lastId /\ doomed' = doomed
  BY DEF DeleteWallet, cleanup
<1> QED BY <1>1 DEF TableInv, UniqueRows, EldersExist

LEMMA TableCleanup ==
  ASSUME TypeInv, TableInv, NEW c \in Cleaners, CleanupCommit(c)
  PROVE  TableInv'
<1>1. /\ rows' = rows \ {r \in Committed : r.id \in doomed[c]}
      /\ doomed' = [doomed EXCEPT ![c] = {}]
      /\ lastId' = lastId
  BY DEF CleanupCommit
<1>2. UniqueRows'
  BY <1>1 DEF TableInv, UniqueRows
<1>3. ASSUME NEW d \in Cleaners, NEW r \in rows', r.id \in doomed'[d]
      PROVE  /\ r.by = None
             /\ \E s \in Committed' : /\ s.id < r.id /\ s.wallet = r.wallet
                                      /\ KeyOf[s.trade] = KeyOf[r.trade]
  <2>1. r \in rows /\ r.id \in doomed[d]
    BY <1>1, <1>3 DEF TypeInv, TypeOK
  <2>2. r.by = None
    BY <2>1 DEF TableInv, EldersExist
  <2>3. PICK s \in Committed : /\ s.id < r.id /\ s.wallet = r.wallet
                               /\ KeyOf[s.trade] = KeyOf[r.trade]
    BY <2>1 DEF TableInv, EldersExist
  <2>4. CASE s.id \notin doomed[c]
    BY <1>1, <2>2, <2>3, <2>4
  <2>5. CASE s.id \in doomed[c]
    <3>1. PICK q \in Committed : /\ q.id \notin doomed[c] /\ q.id < s.id
                                 /\ q.wallet = s.wallet /\ KeyOf[q.trade] = KeyOf[s.trade]
      BY <2>5, TwinSurvives
    <3>2. q.id \in Nat /\ s.id \in Nat /\ r.id \in Nat
      BY <2>1 DEF TypeInv, TypeOK
    <3>3. q.id < r.id
      BY <2>3, <3>1, <3>2
    <3> QED BY <1>1, <2>2, <2>3, <3>1, <3>3
  <2> QED BY <2>4, <2>5
<1>4. EldersExist'
  BY <1>1, <1>3 DEF TableInv, EldersExist, TypeInv, TypeOK
<1> QED BY <1>2, <1>4 DEF TableInv

LEMMA TableNext ==
  ASSUME Backend = "postgresql", TypeInv, TableInv, [Next]_vars
  PROVE  TableInv'
<1>1. ASSUME rows' \subseteq rows, UNCHANGED <<lastId, doomed>>,
             \A r \in Committed : r \in rows'
      PROVE  TableInv'
  BY <1>1 DEF TableInv, UniqueRows, EldersExist
<1>2. ASSUME NEW w \in Workers, InsertRow(w)  PROVE TableInv'
  BY <1>2, TableInsert
<1>3. ASSUME NEW w \in Workers, Commit(w) \/ HandleError(w)  PROVE TableInv'
  BY <1>3, TableCommitAll DEF Commit, HandleError, cleanup
<1>4. ASSUME NEW w \in Workers, Raise(w)  PROVE TableInv'
  BY <1>1, <1>4 DEF Raise, cleanup
<1>5. ASSUME NEW w \in Workers, RejectRow(w) \/ Backfill(w)  PROVE TableInv'
  BY <1>1, <1>5 DEF RejectRow, Backfill, cleanup
<1>6. CASE UNCHANGED <<database, cleanup>> \/ UNCHANGED vars
  BY <1>1, <1>6 DEF database, cleanup, vars
<1>7. ASSUME NEW c \in Cleaners, CleanupFind(c)  PROVE TableInv'
  BY <1>1, <1>7 DEF CleanupFind, database
<1>8. ASSUME NEW c \in Cleaners, CleanupLoad(c)  PROVE TableInv'
  BY <1>8, TableLoad
<1>9. ASSUME NEW c \in Cleaners, CleanupCommit(c)  PROVE TableInv'
  BY <1>9, TableCleanup
<1>10. ASSUME NEW c \in Cleaners, CleanupTimeout(c)  PROVE TableInv'
  BY <1>10 DEF CleanupTimeout, database, TableInv, UniqueRows, EldersExist, TypeInv, TypeOK
<1>11. ASSUME NEW wl \in Wallets, DeleteWallet(wl)  PROVE TableInv'
  BY <1>11, TableDelete
<1> QED
  BY <1>2, <1>3, <1>4, <1>5, <1>6, <1>7, <1>8, <1>9, <1>10, <1>11
  DEF Next, RefreshStep, CleanupStep, Begin, FetchOk, FetchFail, ReadExisting,
      BreakDeadlock, Post, LockTimeout
-----------------------------------------------------------------------------
(* On PostgreSQL the transactions implement the ledger. *)

\* The event of a refresh is written once, by the step that ends its transaction.
\* (On SQLite a failure after the commit writes a second one.)
RefsInv ==
  \A e \in events : \E w \in Workers, n \in Nat :
     e.ref = <<w, n>> /\ n <= runs[w] /\ (n = runs[w] => pc[w] \in {"post", "idle"})

LEMMA RefsInit == Init => RefsInv
BY DEF Init, RefsInv

LEMMA RefsNext ==
  ASSUME Backend = "postgresql", TypeInv, RefsInv, [Next]_vars
  PROVE  RefsInv'
<1> USE DEF TypeInv
<1>1. ASSUME NEW w \in Workers, NEW wl \in Wallets, Begin(w, wl)  PROVE RefsInv'
  BY <1>1 DEF Begin, database, RefsInv, TypeOK
<1>2. ASSUME NEW w \in Workers, Commit(w) \/ HandleError(w)  PROVE RefsInv'
  <2>1. PICK o, n : CommitAll(w, o, n)
    BY <1>2 DEF Commit, HandleError
  <2> DEFINE e == [ref |-> <<w, runs[w]>>, wallet |-> wallet[w], status |-> o, inserted |-> n]
  <2>2. events' = events \cup {e} /\ e.ref = <<w, runs[w]>>
    BY <2>1 DEF CommitAll
  <2> HIDE DEF e
  <2>3. /\ runs' = runs /\ runs[w] \in Nat
        /\ pc' = [pc EXCEPT ![w] = "post"] \/ pc' = [pc EXCEPT ![w] = "idle"]
    BY <1>2 DEF Commit, HandleError, TypeOK
  <2>4. pc'[w] \in {"post", "idle"} /\ \A v \in Workers : v # w => pc'[v] = pc[v]
    BY <2>3 DEF TypeOK
  <2> QED BY <2>2, <2>3, <2>4 DEF RefsInv
<1>3. ASSUME NEW w \in Workers, FetchOk(w) \/ FetchFail(w) \/ ReadExisting(w) \/ InsertRow(w)
               \/ RejectRow(w) \/ BreakDeadlock(w) \/ Backfill(w) \/ Post(w) \/ Raise(w)
               \/ LockTimeout(w)
      PROVE  RefsInv'
  <2>1. events' = events /\ runs' = runs
    BY <1>3 DEF FetchOk, FetchFail, ReadExisting, InsertRow, RejectRow, BreakDeadlock,
       Backfill, Post, Raise, LockTimeout, database
  <2>2. pc[w] # "idle" /\ (pc[w] = "post" => pc'[w] = "idle") /\ \A v \in Workers : v # w => pc'[v] = pc[v]
    BY <1>3 DEF FetchOk, FetchFail, ReadExisting, InsertRow, RejectRow, BreakDeadlock,
       WaitsFor, Backfill, Post, Raise, LockTimeout, TypeOK
  <2> QED BY <2>1, <2>2 DEF RefsInv
<1>4. ASSUME NEW c \in Cleaners, CleanupStep(c)  PROVE RefsInv'
  BY <1>4 DEF CleanupStep, CleanupFind, CleanupLoad, CleanupCommit, CleanupTimeout,
     database, refresh, RefsInv
<1>5. ASSUME NEW wl \in Wallets, DeleteWallet(wl)  PROVE RefsInv'
  BY <1>5 DEF DeleteWallet, refresh, RefsInv
<1>6. CASE UNCHANGED vars
  BY <1>6 DEF vars, RefsInv
<1> QED BY <1>1, <1>2, <1>3, <1>4, <1>5, <1>6 DEF Next, RefreshStep

Inv == TypeInv /\ PendingIsMine /\ References /\ TableInv /\ RefsInv

\* What the ledger calls a stored trade.
Stored == {[trade |-> r.trade, wallet |-> r.wallet] : r \in Committed}

\* The worker whose transaction is open has not written its event yet.
LEMMA RefIsNew ==
  ASSUME Inv, NEW w \in Workers, pc[w] \in {"flush", "handle"}
  PROVE  \A e \in events : e.ref # <<w, runs[w]>>
BY DEF Inv, RefsInv

\* Committing writes the ledger's entry.
LEMMA LogImplements ==
  ASSUME Detached = {}, Inv, NEW w \in Workers, pc[w] \in {"flush", "handle"},
         NEW outcome, NEW n, CommitAll(w, outcome, n), WalletFlushes(w)
  PROVE  Ledger!Log(wallet[w], <<w, runs[w]>>, outcome, n)
BY RefIsNew DEF CommitAll, WalletFlushes, Ledger!Log

\* The rows that become visible by a commit are those of the worker.
LEMMA CommitStores ==
  ASSUME Inv, NEW w \in Workers, NEW outcome, NEW n, CommitAll(w, outcome, n)
  PROVE  Stored' = Stored \cup {[trade |-> t, wallet |-> wallet[w]] : t \in {r.trade : r \in Pending(w)}}
<1>1. /\ \A s \in rows' : \E r \in rows :
           /\ s.trade = r.trade /\ s.wallet = r.wallet
           /\ s.by = IF r.by = w THEN None ELSE r.by
      /\ \A r \in rows : \E s \in rows' :
           /\ s.trade = r.trade /\ s.wallet = r.wallet
           /\ s.by = IF r.by = w THEN None ELSE r.by
  BY CommittedRows DEF Inv, TypeInv
<1>2. \A r \in Pending(w) : r.wallet = wallet[w]
  BY DEF Inv, PendingIsMine
<1> DEFINE pair(t, wl) == [trade |-> t, wallet |-> wl]
           new == {pair(t, wallet[w]) : t \in {r.trade : r \in Pending(w)}}
<1>3. Stored = {pair(r.trade, r.wallet) : r \in Committed}
      /\ Stored' = {pair(r.trade, r.wallet) : r \in Committed'}
  BY DEF Stored
<1> HIDE DEF pair
<1>4. ASSUME NEW s \in Committed'  PROVE pair(s.trade, s.wallet) \in Stored \cup new
  BY <1>1, <1>2, <1>3, <1>4
<1>5. ASSUME NEW r \in Committed  PROVE pair(r.trade, r.wallet) \in Stored'
  <2>1. r.by # w
    OBVIOUS
  <2> QED BY <1>1, <1>3, <1>5, <2>1
<1>6. ASSUME NEW r \in Pending(w)  PROVE pair(r.trade, wallet[w]) \in Stored'
  BY <1>1, <1>2, <1>3, <1>6
<1>7. Stored' = Stored \cup new
  BY <1>3, <1>4, <1>5, <1>6
<1> QED BY <1>7 DEF pair

\* Both modules count with the same operator.
LEMMA SameCardinality == \A S : Ledger!Cardinality(S) = Cardinality(S)
BY DEF Ledger!Cardinality, Cardinality

\* A successful refresh is an Import of the ledger.
LEMMA CommitImplements ==
  ASSUME Detached = {}, Inv, NEW w \in Workers, Commit(w), NEW new, new = fresh[w]
  PROVE  Ledger!Import(wallet[w], <<w, runs[w]>>, new)
<1> DEFINE outcome == IF new = {} THEN "no_new" ELSE "success"
           n == Cardinality(new)
<1>1. pc[w] = "flush" /\ CommitAll(w, outcome, n) /\ WalletFlushes(w)
  BY DEF Commit
<1>2. {r.trade : r \in Pending(w)} = new
  BY <1>1 DEF Inv, PendingIsMine
<1>3. Stored' = Stored \cup {[trade |-> t, wallet |-> wallet[w]] : t \in new}
  BY <1>1, <1>2, CommitStores
<1>4. \A p \in Stored : p.trade \notin new
  <2>1. ASSUME NEW r \in Committed, r.trade \in new  PROVE FALSE
    <3>1. PICK q \in Pending(w) : q.trade = r.trade
      BY <1>2, <2>1
    <3>2. q = r
      BY <3>1 DEF Inv, TableInv, UniqueRows
    <3> QED BY <3>2
  <2> QED BY <2>1 DEF Stored
<1>5. Ledger!Log(wallet[w], <<w, runs[w]>>, outcome, n)
  BY <1>1, LogImplements
<1>6. tracked' = tracked
  BY <1>1 DEF CommitAll
<1>7. Ledger!Import(wallet[w], <<w, runs[w]>>, new) <=>
        /\ \A p \in Stored : p.trade \notin new
        /\ Stored' = Stored \cup {[trade |-> t, wallet |-> wallet[w]] : t \in new}
        /\ Ledger!Log(wallet[w], <<w, runs[w]>>, outcome, n)
        /\ tracked' = tracked
  BY SameCardinality DEF Ledger!Import, Stored
<1> QED BY <1>3, <1>4, <1>5, <1>6, <1>7

\* An error that is recorded is a Fail of the ledger: PostgreSQL gets to this
\* commit with no row pending.
LEMMA ErrorImplements ==
  ASSUME Detached = {}, Inv, NEW w \in Workers, HandleError(w), Pending(w) = {}
  PROVE  Ledger!Fail(wallet[w], <<w, runs[w]>>)
<1>1. pc[w] = "handle" /\ CommitAll(w, "error", 0) /\ WalletFlushes(w)
  BY DEF HandleError
<1>2. Stored' = Stored
  BY <1>1, CommitStores
<1>3. Ledger!Log(wallet[w], <<w, runs[w]>>, "error", 0)
  BY <1>1, LogImplements
<1>4. tracked' = tracked
  BY <1>1 DEF CommitAll
<1> QED BY <1>2, <1>3, <1>4 DEF Ledger!Fail, Stored

\* A wallet that is deleted takes its trades along, as Untrack says.
LEMMA DeleteImplements ==
  ASSUME Inv, NEW wl \in Wallets, DeleteWallet(wl)
  PROVE  Ledger!Untrack(wl)
<1>1. /\ wl \in tracked /\ tracked' = tracked \ {wl}
      /\ status' = status /\ events' = events
      /\ Committed' = {r \in Committed : r.wallet # wl}
  BY DEF DeleteWallet
<1> DEFINE pair(r) == [trade |-> r.trade, wallet |-> r.wallet]
<1>2. \A r : pair(r).wallet = r.wallet
  OBVIOUS
<1>3. Stored = {pair(r) : r \in Committed} /\ Stored' = {pair(r) : r \in Committed'}
  BY DEF Stored
<1> HIDE DEF pair
<1>4. Stored' = {p \in Stored : p.wallet # wl}
  BY <1>1, <1>2, <1>3
<1> QED BY <1>1, <1>4 DEF Ledger!Untrack, Stored

\* A cleanup only removes trades of which a twin stays, as Collapse says.
LEMMA CleanupImplements ==
  ASSUME Inv, NEW c \in Cleaners, CleanupCommit(c)
  PROVE  \E gone \in SUBSET Stored : Ledger!Collapse(gone)
<1> DEFINE pair(r) == [trade |-> r.trade, wallet |-> r.wallet]
           out == {r \in Committed : r.id \in doomed[c]}
           gone == {pair(r) : r \in out}
<1>1. \A r : pair(r).wallet = r.wallet /\ pair(r).trade = r.trade
  OBVIOUS
<1>2. Committed' = Committed \ out
  BY DEF CleanupCommit
<1>3. \A r, s \in Committed : pair(r) = pair(s) => r = s
  BY <1>1 DEF Inv, TableInv, UniqueRows
<1>4. Stored = {pair(r) : r \in Committed} /\ Stored' = {pair(r) : r \in Committed'}
  BY DEF Stored
<1>5. \A r \in out : \E s \in Committed \ out :
        s.wallet = r.wallet /\ KeyOf[s.trade] = KeyOf[r.trade]
  BY TwinSurvives DEF Inv
<1> HIDE DEF pair
<1>6. gone \subseteq Stored /\ Stored' = Stored \ gone
  BY <1>2, <1>3, <1>4
<1>7. \A p \in gone : \E q \in Stored \ gone :
        q.wallet = p.wallet /\ KeyOf[q.trade] = KeyOf[p.trade]
  <2>1. SUFFICES ASSUME NEW r \in out
                 PROVE  \E q \in Stored \ gone :
                          q.wallet = pair(r).wallet /\ KeyOf[q.trade] = KeyOf[pair(r).trade]
    OBVIOUS
  <2>2. PICK s \in Committed \ out : s.wallet = r.wallet /\ KeyOf[s.trade] = KeyOf[r.trade]
    BY <1>5
  <2>3. pair(s) \in Stored \ gone
    BY <1>3, <1>4, <2>2
  <2> QED BY <1>1, <2>2, <2>3
<1> HIDE DEF gone
<1>8. tracked' = tracked /\ status' = status /\ events' = events
  BY DEF CleanupCommit
<1>9. PICK set : set = gone
  OBVIOUS
<1>10. Ledger!Collapse(set) <=>
        /\ set \subseteq Stored
        /\ \A p \in set : \E q \in Stored \ set :
             q.wallet = p.wallet /\ KeyOf[q.trade] = KeyOf[p.trade]
        /\ Stored' = Stored \ set
        /\ tracked' = tracked /\ status' = status /\ events' = events
  BY DEF Ledger!Collapse, Stored
<1>11. Ledger!Collapse(set) /\ set \in SUBSET Stored
  BY <1>6, <1>7, <1>8, <1>9, <1>10
<1> QED BY <1>11

\* Every step is a step of the ledger, or changes nothing the ledger shows.
LEMMA StepImplements ==
  ASSUME Backend = "postgresql", Detached = {}, Inv, [Next]_vars
  PROVE  [Ledger!Next]_(Ledger!vars)
<1>1. ASSUME Committed' = Committed, tracked' = tracked, status' = status, events' = events
      PROVE  UNCHANGED Ledger!vars
  BY <1>1 DEF Ledger!vars
<1>2. ASSUME NEW w \in Workers, Commit(w)  PROVE Ledger!Next
  <2>1. wallet[w] \in Wallets /\ fresh[w] \in SUBSET TradeIds
        /\ <<w, runs[w]>> \in Workers \X (1..MaxRefreshes)
    BY <1>2 DEF Commit, Inv, TypeInv, TypeOK
  <2>2. PICK new \in SUBSET TradeIds : new = fresh[w]
    BY <2>1
  <2>3. Ledger!Import(wallet[w], <<w, runs[w]>>, new)
    BY <1>2, <2>2, CommitImplements
  <2> QED BY <2>1, <2>3 DEF Ledger!Next
<1>3. ASSUME NEW w \in Workers, HandleError(w)  PROVE Ledger!Next
  <2>1. wallet[w] \in Wallets /\ <<w, runs[w]>> \in Workers \X (1..MaxRefreshes)
    BY <1>3 DEF HandleError, Inv, TypeInv, TypeOK
  <2>2. Pending(w) = {}
    BY <1>3 DEF HandleError, Inv, PendingIsMine
  <2> QED BY <1>3, <2>1, <2>2, ErrorImplements DEF Ledger!Next
<1>4. ASSUME NEW wl \in Wallets, DeleteWallet(wl)  PROVE Ledger!Next
  BY <1>4, DeleteImplements DEF Ledger!Next
<1>5. ASSUME NEW c \in Cleaners, CleanupCommit(c)  PROVE Ledger!Next
  BY <1>5, CleanupImplements DEF Ledger!Next, Stored
<1>6. ASSUME NEW w \in Workers, InsertRow(w) \/ RejectRow(w) \/ Backfill(w) \/ Raise(w)
      PROVE  UNCHANGED Ledger!vars
  <2>1. Committed' = Committed
    BY <1>6 DEF InsertRow, RejectRow, Backfill, Raise
  <2>2. tracked' = tracked /\ status' = status /\ events' = events
    BY <1>6 DEF InsertRow, RejectRow, Backfill, Raise
  <2> QED BY <1>1, <2>1, <2>2
<1>7. CASE UNCHANGED database \/ UNCHANGED vars
  <2>1. rows' = rows /\ tracked' = tracked /\ status' = status /\ events' = events
    BY <1>7 DEF database, vars
  <2> QED BY <1>1, <2>1
<1> QED
  BY <1>2, <1>3, <1>4, <1>5, <1>6, <1>7
  DEF Next, RefreshStep, CleanupStep, Begin, FetchOk, FetchFail, ReadExisting,
      BreakDeadlock, Post, LockTimeout, CleanupFind, CleanupLoad, CleanupTimeout

\* On PostgreSQL, with every Wallet attached to its session, any number of
\* concurrent refreshes, cleanups and deletions keeps the ledger's promise.
THEOREM ImplementsLedger ==
  ASSUME Backend = "postgresql", Detached = {}
  PROVE  Spec => LedgerSpec
<1>1. Init => Ledger!Init
  BY DEF Init, Ledger!Init
<1>2. Init => Inv
  BY TypeInit, PendingInit, ReferencesInit, TableInit, RefsInit DEF Inv
<1>3. Inv /\ [Next]_vars => Inv'
  BY TypeNext, PendingNext, ReferencesNext, TableNext, RefsNext DEF Inv
<1>4. Inv /\ [Next]_vars => [Ledger!Next]_(Ledger!vars)
  BY StepImplements
<1> QED BY <1>1, <1>2, <1>3, <1>4, PTL DEF Spec, LedgerSpec, Ledger!Spec
=============================================================================
