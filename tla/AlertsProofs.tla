---------------------------- MODULE AlertsProofs ----------------------------
(***************************************************************************)
(* Theorems about Alerts: the type invariant; that the backlog is never    *)
(* sent; that a mark is never given without a reason; that what was        *)
(* delivered is marked; and that on SQLite, as long as nothing goes wrong, *)
(* a trade alerts at most once.  The last one rests on the write lock: the *)
(* statement that marks stale trades takes it before the candidates are    *)
(* read, so they are read after the marks of every earlier call were       *)
(* committed.                                                              *)
(***************************************************************************)
EXTENDS Alerts, TLAPS

LEMMA TypeInit == Init => TypeOK
<1> SUFFICES ASSUME Init  PROVE TypeOK
  OBVIOUS
<1>1. 0 \in 0..MaxSends /\ 0 \in 0..MaxFires
  BY AlertsAssumption DEF AlertsAssumption
<1>2. delivered \in [Trades -> 0..MaxSends] /\ fires \in [Firers -> 0..MaxFires]
  BY <1>1 DEF Init
<1>3. /\ pc \in [Firers -> {"idle", "scan", "send"}]
      /\ aged \in [Firers -> SUBSET Trades] /\ stale \in [Firers -> SUBSET Trades]
      /\ picked \in [Firers -> SUBSET Trades] /\ todo \in [Firers -> SUBSET Trades]
      /\ marks \in [Firers -> SUBSET Trades] /\ gone \in [Firers -> SUBSET Trades]
  BY DEF Init
<1> QED BY <1>2, <1>3 DEF Init, TypeOK

LEMMA TypeEndCall ==
  ASSUME TypeOK, NEW f \in Firers, EndCall(f)
  PROVE  /\ pc' \in [Firers -> {"idle", "scan", "send"}]
         /\ aged' \in [Firers -> SUBSET Trades]
         /\ stale' \in [Firers -> SUBSET Trades]
         /\ picked' \in [Firers -> SUBSET Trades]
         /\ todo' \in [Firers -> SUBSET Trades]
         /\ marks' \in [Firers -> SUBSET Trades]
         /\ gone' \in [Firers -> SUBSET Trades]
         /\ writer' \in Firers \cup {None}
BY DEF TypeOK, EndCall

\* The rows an open call has marked are in the table: a deletion waits for the
\* rows that were updated, and one of a selected row makes the commit fail.
MarksInTable ==
  \A f \in Firers : stale[f] \subseteq stored /\ marks[f] \subseteq stored \cup gone[f]
                    /\ todo[f] \subseteq stored \cup gone[f]
                    /\ (pc[f] # "send" => marks[f] = {} /\ todo[f] = {})
TypeInv == TypeOK /\ MarksInTable

LEMMA TypeInvInit == Init => TypeInv
BY TypeInit DEF Init, TypeInv, MarksInTable

LEMMA TypeNext == TypeInv /\ [Next]_vars => TypeInv'
<1> SUFFICES ASSUME TypeInv, [Next]_vars  PROVE TypeInv'
  OBVIOUS
<1> USE DEF TypeInv, TypeOK, MarksInTable
<1>1. ASSUME NEW t \in Trades, Import(t) \/ Age(t)  PROVE TypeInv'
  BY <1>1 DEF Import, Age, settings, call, table
<1>2. ASSUME NEW t \in Trades, Delete(t)  PROVE TypeInv'
  BY <1>2 DEF Delete, settings
<1>3. CASE Seed
  BY <1>3 DEF Seed, FirstSetUp, call
<1>4. CASE SaveSettings
  BY <1>4 DEF SaveSettings, FirstSetUp, call, table
<1>5. CASE Crash
  BY <1>5 DEF Crash, settings, table
<1>6. ASSUME NEW f \in Firers, MarkStale(f)  PROVE TypeInv'
  BY <1>6, AlertsAssumption DEF AlertsAssumption, MarkStale, settings, table
<1>7. ASSUME NEW f \in Firers, Select(f)  PROVE TypeInv'
  BY <1>7 DEF Select, Candidates, settings, table
<1>8. ASSUME NEW f \in Firers, Send(f)  PROVE TypeInv'
  <2>1. hit' \subseteq Mishaps
    BY <1>8 DEF Send
  <2>2. /\ todo' \in [Firers -> SUBSET Trades] /\ marks' \in [Firers -> SUBSET Trades]
        /\ delivered' \in [Trades -> 0..MaxSends]
    BY <1>8, AlertsAssumption DEF AlertsAssumption, Send
  <2>3. UNCHANGED <<stored, marked, old, token, enabled, backlog, writer, pc, aged, stale,
                    picked, gone, fires>>
    BY <1>8 DEF Send, settings, table
  <2>4. MarksInTable'
    BY <1>8, <2>3 DEF Send
  <2> QED BY <2>1, <2>2, <2>3, <2>4
<1>9. ASSUME NEW f \in Firers, Commit(f)  PROVE TypeInv'
  <2>1. stored' = stored /\ EndCall(f) /\ UNCHANGED settings
        /\ UNCHANGED <<old, delivered, fires, hit>>
    BY <1>9 DEF Commit
  <2>2. marked' \subseteq stored
    BY <1>9 DEF Commit
  <2>3. MarksInTable'
    BY <2>1 DEF EndCall
  <2> QED BY <2>1, <2>2, <2>3, TypeEndCall DEF settings
<1>10. CASE UNCHANGED vars
  BY <1>10 DEF vars
<1> QED
  BY <1>1, <1>2, <1>3, <1>4, <1>5, <1>6, <1>7, <1>8, <1>9, <1>10 DEF Next, FireStep

\* Every reachable state has the types the module declares.
THEOREM TypeCorrect == Spec => []TypeOK
<1>1. TypeInv => TypeOK
  BY DEF TypeInv
<1> QED BY <1>1, TypeInvInit, TypeNext, PTL DEF Spec
-----------------------------------------------------------------------------
\* Mishaps are not forgotten.
LEMMA HitGrows == [Next]_vars => hit \subseteq hit'
BY DEF Next, vars, FireStep, Import, Age, Delete, Seed, SaveSettings, Crash, MarkStale,
   Select, Send, Commit

\* The reasons a mark that is not committed can have.  A call that is not
\* sending has none.
MarksJustified ==
  \A f \in Firers :
    /\ stale[f] \subseteq old
    /\ \A t \in marks[f] : \/ delivered[t] > 0
                          \/ /\ t \notin picked[f] /\ Cardinality(picked[f]) = Cap
                             /\ \A s \in picked[f] : Value[s] >= Value[t]
SilencedInv == TypeInv /\ MarksJustified

LEMMA SilencedNext == SilencedInv /\ [Next]_vars => SilencedInv'
<1> SUFFICES ASSUME SilencedInv, [Next]_vars  PROVE MarksJustified'
  BY TypeNext DEF SilencedInv
<1>0. TypeInv
  BY DEF SilencedInv
<1> USE DEF SilencedInv, MarksJustified
<1>1. ASSUME NEW t \in Trades, Import(t) \/ Age(t)  PROVE MarksJustified'
  BY <1>1 DEF Import, Age, call
<1>2. ASSUME NEW t \in Trades, Delete(t)  PROVE MarksJustified'
  BY <1>2 DEF Delete
<1>3. CASE Seed \/ SaveSettings
  BY <1>3 DEF Seed, SaveSettings, call
<1>4. CASE Crash
  BY <1>4 DEF Crash
<1>5. ASSUME NEW f \in Firers, MarkStale(f)  PROVE MarksJustified'
  BY <1>0, <1>5 DEF MarkStale, TypeInv, TypeOK
<1>6. ASSUME NEW f \in Firers, Select(f)  PROVE MarksJustified'
  <2>1. PICK S \in SUBSET Candidates(f) :
          /\ IsTop(S, Candidates(f))
          /\ picked' = [picked EXCEPT ![f] = S]
          /\ marks' = [marks EXCEPT ![f] = Candidates(f) \ S]
    BY <1>6 DEF Select
  <2>2. UNCHANGED <<old, delivered, stale>>
    BY <1>6 DEF Select
  <2>3. picked'[f] = S /\ marks'[f] = Candidates(f) \ S
    BY <1>0, <2>1 DEF TypeInv, TypeOK
  <2>4. \A g \in Firers \ {f} : picked'[g] = picked[g] /\ marks'[g] = marks[g]
    BY <1>0, <2>1 DEF TypeInv, TypeOK
  <2>5. \A t \in marks'[f] : /\ t \notin picked'[f] /\ Cardinality(picked'[f]) = Cap
                             /\ \A s \in picked'[f] : Value[s] >= Value[t]
    BY <2>1, <2>3 DEF IsTop
  <2> QED BY <2>2, <2>4, <2>5
<1>7. ASSUME NEW f \in Firers, Send(f)  PROVE MarksJustified'
  <2>1. UNCHANGED <<old, stale, picked>>
    BY <1>7 DEF Send
  <2>2. PICK t \in todo[f] :
          \/ /\ delivered' = [delivered EXCEPT ![t] = @ + 1]
             /\ marks' = [marks EXCEPT ![f] = @ \cup {t}]
          \/ UNCHANGED <<delivered, marks>>
          \/ /\ delivered' = [delivered EXCEPT ![t] = @ + 1]
             /\ UNCHANGED marks
    BY <1>7 DEF Send
  <2>3. delivered \in [Trades -> Nat] /\ t \in Trades
    BY <1>0, AlertsAssumption DEF TypeInv, TypeOK, AlertsAssumption
  <2>4. /\ \A s \in Trades : delivered[s] > 0 => delivered'[s] > 0
        /\ marks' # marks => delivered'[t] > 0 /\ marks' = [marks EXCEPT ![f] = @ \cup {t}]
    BY <2>2, <2>3
  <2>5. marks \in [Firers -> SUBSET Trades]
    BY <1>0 DEF TypeInv, TypeOK
  <2> QED BY <2>1, <2>4, <2>5
<1>8. ASSUME NEW f \in Firers, Commit(f)  PROVE MarksJustified'
  BY <1>0, <1>8 DEF Commit, EndCall, TypeInv, TypeOK
<1>9. CASE UNCHANGED vars
  BY <1>9 DEF vars
<1> QED
  BY <1>1, <1>2, <1>3, <1>4, <1>5, <1>6, <1>7, <1>8, <1>9 DEF Next, FireStep

\* A mark is given for a reason that can be seen when it is committed.
LEMMA SilencedStep ==
  ASSUME SilencedInv, [Next]_vars, NEW t \in marked' \ marked
  PROVE  \/ t \in old \/ delivered[t] > 0 \/ t \in backlog'
         \/ \E f \in Firers : /\ t \notin picked[f] /\ Cardinality(picked[f]) = Cap
                             /\ \A s \in picked[f] : Value[s] >= Value[t]
<1>1. CASE Seed
  BY <1>1 DEF Seed, FirstSetUp
<1>2. ASSUME NEW f \in Firers, Commit(f)  PROVE t \in stale[f] \cup marks[f]
  BY <1>2 DEF Commit
<1>3. ASSUME NEW f \in Firers, Commit(f)
      PROVE  \/ t \in old \/ delivered[t] > 0
             \/ /\ t \notin picked[f] /\ Cardinality(picked[f]) = Cap
                /\ \A s \in picked[f] : Value[s] >= Value[t]
  BY <1>2, <1>3 DEF SilencedInv, MarksJustified
<1>4. ASSUME NEW x \in Trades, Delete(x)  PROVE FALSE
  BY <1>4 DEF Delete
<1>5. CASE UNCHANGED marked
  BY <1>5
<1> QED
  BY <1>1, <1>3, <1>4, <1>5
  DEF Next, vars, FireStep, Import, Age, SaveSettings, Crash, MarkStale, Select, Send, table

\* Whatever fails or overlaps, a trade goes unannounced only for one of the
\* reasons there are: a failed send or a crash never silences one.
THEOREM SilencedCorrect == Spec => NeverSilenced
<1>1. Init => SilencedInv
  BY TypeInvInit DEF Init, SilencedInv, MarksJustified
<1>2. SilencedInv /\ [Next]_vars =>
        [\A t \in marked' \ marked :
           \/ t \in old \/ delivered[t] > 0 \/ t \in backlog'
           \/ \E f \in Firers : /\ t \notin picked[f] /\ Cardinality(picked[f]) = Cap
                               /\ \A s \in picked[f] : Value[s] >= Value[t]]_vars
  BY SilencedStep
<1> QED BY <1>1, <1>2, SilencedNext, PTL DEF Spec, NeverSilenced
-----------------------------------------------------------------------------
Intact == hit \cap {"delete", "seed_fails"} = {}

\* Before the token is set nothing can be sent; from then on the backlog is
\* marked, and no call has selected any of it.
BacklogMarked ==
  /\ ~ token => /\ \A f \in Firers : pc[f] = "idle"
                /\ \A t \in Trades : delivered[t] = 0
                /\ backlog = {}
  /\ backlog \subseteq marked
  /\ \A f \in Firers : todo[f] \cap backlog = {}
  /\ \A t \in backlog : delivered[t] = 0
BacklogInv == TypeInv /\ (Intact => BacklogMarked)

LEMMA BacklogNext == BacklogInv /\ [Next]_vars => BacklogInv'
<1> SUFFICES ASSUME BacklogInv, [Next]_vars, Intact'  PROVE BacklogMarked'
  BY TypeNext DEF BacklogInv
<1>0. TypeInv /\ TypeInv' /\ BacklogMarked
  BY TypeNext, HitGrows DEF BacklogInv, Intact
<1> USE DEF BacklogMarked
<1>1. ASSUME NEW t \in Trades, Import(t) \/ Age(t)  PROVE BacklogMarked'
  BY <1>0, <1>1 DEF Import, Age, settings, call, table
<1>2. ASSUME NEW t \in Trades, Delete(t)  PROVE FALSE
  BY <1>2 DEF Delete, Intact
<1>3. CASE Seed
  <2>1. \A f \in Firers : todo[f] = {}
    BY <1>0, <1>3 DEF Seed, TypeInv, MarksInTable
  <2> QED BY <1>0, <1>3, <2>1 DEF Seed, FirstSetUp, call, TypeInv, TypeOK
<1>4. CASE SaveSettings
  <2>1. token
    BY <1>4 DEF SaveSettings, Intact
  <2> QED BY <1>0, <1>4, <2>1 DEF SaveSettings, FirstSetUp, call, table
<1>5. CASE Crash
  BY <1>0, <1>5 DEF Crash, settings, table
<1>6. ASSUME NEW f \in Firers, MarkStale(f)  PROVE BacklogMarked'
  BY <1>0, <1>6 DEF MarkStale, settings, table
<1>7. ASSUME NEW f \in Firers, Select(f)  PROVE BacklogMarked'
  BY <1>0, <1>7 DEF Select, Candidates, settings, table, TypeInv, TypeOK
<1>8. ASSUME NEW f \in Firers, Send(f)  PROVE BacklogMarked'
  <2>1. token
    BY <1>0, <1>8 DEF Send
  <2>2. PICK t \in todo[f] : /\ todo' = [todo EXCEPT ![f] = @ \ {t}]
                             /\ \A s \in Trades \ {t} : delivered'[s] = delivered[s]
    BY <1>0, <1>8 DEF Send, TypeInv, TypeOK
  <2>3. t \notin backlog
    BY <1>0, <2>2
  <2>4. UNCHANGED <<token, backlog, marked>>
    BY <1>8 DEF Send, settings, table
  <2>5. backlog \subseteq Trades /\ todo \in [Firers -> SUBSET Trades]
    BY <1>0 DEF TypeInv, TypeOK
  <2> QED BY <1>0, <2>1, <2>2, <2>3, <2>4, <2>5
<1>9. ASSUME NEW f \in Firers, Commit(f)  PROVE BacklogMarked'
  BY <1>0, <1>9 DEF Commit, EndCall, settings, TypeInv, TypeOK
<1>10. CASE UNCHANGED vars
  BY <1>0, <1>10 DEF vars
<1> QED
  BY <1>1, <1>2, <1>3, <1>4, <1>5, <1>6, <1>7, <1>8, <1>9, <1>10 DEF Next, FireStep

\* However calls overlap, crash or lose answers, a trade that was stored before
\* alerts were first set up is never sent, as long as the startup seeding works
\* and no trade of the backlog is deleted and fetched again.
THEOREM BacklogCorrect == Spec => []BacklogSilent
<1>1. Init => BacklogInv
  BY TypeInvInit DEF Init, BacklogInv, BacklogMarked
<1>2. BacklogInv => BacklogSilent
  BY DEF BacklogInv, BacklogMarked, BacklogSilent, Intact
<1> QED BY <1>1, <1>2, BacklogNext, PTL DEF Spec
-----------------------------------------------------------------------------
\* Without deletions no commit fails: what was delivered gets its mark.
DeliveredInv == TypeInv /\ (Unharmed => (\A f \in Firers : gone[f] = {})) /\ DeliveredIsMarked

LEMMA DeliveredNext == DeliveredInv /\ [Next]_vars => DeliveredInv'
<1> SUFFICES ASSUME DeliveredInv, [Next]_vars, Unharmed'
             PROVE  (\A f \in Firers : gone[f] = {})' /\ DeliveredIsMarked'
  BY TypeNext DEF DeliveredInv, DeliveredIsMarked
<1>0. TypeInv /\ Unharmed /\ (\A f \in Firers : gone[f] = {})
  BY HitGrows DEF DeliveredInv, Unharmed
<1>a. \A t \in Trades : delivered[t] > 0 => t \in marked \/ \E f \in Firers : t \in marks[f]
  BY <1>0 DEF DeliveredInv, DeliveredIsMarked
<1>b. \A f \in Firers : pc[f] # "send" => marks[f] = {}
  BY <1>0 DEF TypeInv, MarksInTable
<1> USE DEF DeliveredIsMarked
<1>1. ASSUME NEW t \in Trades, Import(t) \/ Age(t)
      PROVE  (\A f \in Firers : gone[f] = {})' /\ DeliveredIsMarked'
  BY <1>0, <1>a, <1>1 DEF Import, Age, call, table
<1>2. ASSUME NEW t \in Trades, Delete(t)  PROVE FALSE
  BY <1>2 DEF Delete, Unharmed
<1>3. CASE Seed \/ SaveSettings
  BY <1>0, <1>a, <1>3 DEF Seed, SaveSettings, call, table, TypeInv, TypeOK
<1>4. CASE Crash
  BY <1>4 DEF Crash, Unharmed
<1>5. ASSUME NEW f \in Firers, MarkStale(f)
      PROVE  (\A g \in Firers : gone[g] = {})' /\ DeliveredIsMarked'
  BY <1>0, <1>a, <1>5 DEF MarkStale, table
<1>6. ASSUME NEW f \in Firers, Select(f)
      PROVE  (\A g \in Firers : gone[g] = {})' /\ DeliveredIsMarked'
  <2>1. UNCHANGED <<marked, delivered, gone>> /\ marks[f] = {}
    BY <1>6, <1>b DEF Select, table
  <2>2. PICK S : marks' = [marks EXCEPT ![f] = S]
    BY <1>6 DEF Select
  <2> QED BY <1>0, <1>a, <2>1, <2>2 DEF TypeInv, TypeOK
<1>7. ASSUME NEW f \in Firers, Send(f)
      PROVE  (\A g \in Firers : gone[g] = {})' /\ DeliveredIsMarked'
  <2>1. PICK t \in todo[f] :
          \/ /\ delivered' = [delivered EXCEPT ![t] = @ + 1]
             /\ marks' = [marks EXCEPT ![f] = @ \cup {t}]
          \/ UNCHANGED <<delivered, marks>>
    BY <1>7 DEF Send, Unharmed
  <2>2. UNCHANGED <<marked, gone>>
    BY <1>7 DEF Send, table
  <2> QED BY <1>0, <1>a, <2>1, <2>2 DEF TypeInv, TypeOK
<1>8. ASSUME NEW f \in Firers, Commit(f)
      PROVE  (\A g \in Firers : gone[g] = {})' /\ DeliveredIsMarked'
  <2>1. marked' = marked \cup stale[f] \cup marks[f] /\ EndCall(f) /\ delivered' = delivered
    BY <1>0, <1>8 DEF Commit
  <2> QED BY <1>0, <1>a, <2>1 DEF EndCall, TypeInv, TypeOK
<1>9. CASE UNCHANGED vars
  BY <1>0, <1>a, <1>9 DEF vars
<1> QED
  BY <1>1, <1>2, <1>3, <1>4, <1>5, <1>6, <1>7, <1>8, <1>9 DEF Next, FireStep

\* On either backend, and however calls overlap, a trade that was delivered is
\* marked by the end of the call that sent it.
THEOREM DeliveredCorrect == Spec => []DeliveredIsMarked
<1>1. Init => DeliveredInv
  BY TypeInvInit DEF Init, DeliveredInv, DeliveredIsMarked
<1>2. DeliveredInv => DeliveredIsMarked
  BY DEF DeliveredInv
<1> QED BY <1>1, <1>2, DeliveredNext, PTL DEF Spec
-----------------------------------------------------------------------------
\* The lock makes calls exclusive; what the open call is to send is not marked,
\* by nobody; and what was sent is marked, or will be by the open call.
SentOnce ==
  /\ \A f \in Firers : pc[f] # "idle" => writer = f
  /\ \A f \in Firers : todo[f] \cap marked = {} /\ todo[f] \cap marks[f] = {}
  /\ AlertOnce
OnceInv == DeliveredInv /\ (Unharmed => SentOnce)

LEMMA OnceNext ==
  ASSUME Backend = "sqlite"
  PROVE  OnceInv /\ [Next]_vars => OnceInv'
<1> SUFFICES ASSUME OnceInv, [Next]_vars, Unharmed'  PROVE SentOnce'
  BY DeliveredNext DEF OnceInv
<1>0. TypeInv /\ TypeInv' /\ Unharmed /\ SentOnce /\ DeliveredIsMarked
      /\ \A f \in Firers : gone[f] = {}
  BY TypeNext, HitGrows DEF OnceInv, DeliveredInv, Unharmed
<1>a. \A f, g \in Firers : pc[f] # "idle" /\ pc[g] # "idle" => f = g
  BY <1>0 DEF SentOnce
<1>b. \A f \in Firers : pc[f] # "send" => marks[f] = {} /\ todo[f] = {}
  BY <1>0 DEF TypeInv, MarksInTable
<1> USE DEF SentOnce, DeliveredIsMarked, AlertOnce
<1>1. ASSUME NEW t \in Trades, Import(t) \/ Age(t)  PROVE SentOnce'
  BY <1>0, <1>1 DEF Import, Age, settings, call, table
<1>2. ASSUME NEW t \in Trades, Delete(t)  PROVE FALSE
  BY <1>2 DEF Delete, Unharmed
<1>3. CASE Seed
  BY <1>0, <1>b, <1>3 DEF Seed, call, TypeInv, TypeOK
<1>4. CASE SaveSettings
  BY <1>0, <1>4 DEF SaveSettings, call, table
<1>5. CASE Crash
  BY <1>5 DEF Crash, Unharmed
<1>6. ASSUME NEW f \in Firers, MarkStale(f)  PROVE SentOnce'
  <2>1. \A g \in Firers : pc[g] = "idle"
    BY <1>0, <1>6, AlertsAssumption DEF MarkStale, AlertsAssumption
  <2> QED BY <1>0, <1>6, <2>1 DEF MarkStale, settings, table, TypeInv, TypeOK
<1>7. ASSUME NEW f \in Firers, Select(f)  PROVE SentOnce'
  <2>1. marks[f] = {}
    BY <1>7, <1>b DEF Select
  <2>2. PICK S \in SUBSET Candidates(f) :
          /\ todo' = [todo EXCEPT ![f] = S]
          /\ marks' = [marks EXCEPT ![f] = Candidates(f) \ S]
    BY <1>7 DEF Select
  <2>3. Candidates(f) \cap marked = {}
    BY DEF Candidates
  <2>4. UNCHANGED <<marked, delivered, writer, gone>> /\ pc' = [pc EXCEPT ![f] = "send"]
        /\ pc[f] = "scan"
    BY <1>7 DEF Select, table
  <2> QED BY <1>0, <2>1, <2>2, <2>3, <2>4 DEF TypeInv, TypeOK
<1>8. ASSUME NEW f \in Firers, Send(f)  PROVE SentOnce'
  <2>1. PICK t \in todo[f] :
          /\ todo' = [todo EXCEPT ![f] = @ \ {t}]
          /\ \/ /\ delivered' = [delivered EXCEPT ![t] = @ + 1]
                /\ marks' = [marks EXCEPT ![f] = @ \cup {t}]
             \/ UNCHANGED <<delivered, marks>>
    BY <1>8 DEF Send, Unharmed
  <2>2. \A g \in Firers \ {f} : marks[g] = {} /\ todo[g] = {}
    BY <1>8, <1>a, <1>b DEF Send
  <2>3. delivered[t] = 0
    BY <1>0, <2>1, <2>2 DEF TypeInv, TypeOK
  <2>4. UNCHANGED <<marked, writer, pc, gone>>
    BY <1>8 DEF Send, table
  <2> QED BY <1>0, <2>1, <2>2, <2>3, <2>4 DEF TypeInv, TypeOK
<1>9. ASSUME NEW f \in Firers, Commit(f)  PROVE SentOnce'
  <2>1. marked' = marked \cup stale[f] \cup marks[f] /\ EndCall(f) /\ delivered' = delivered
    BY <1>0, <1>9 DEF Commit
  <2>2. \A g \in Firers \ {f} : marks[g] = {} /\ todo[g] = {} /\ pc[g] = "idle"
    BY <1>9, <1>a, <1>b DEF Commit
  <2> QED BY <1>0, <2>1, <2>2 DEF EndCall, TypeInv, TypeOK
<1>10. CASE UNCHANGED vars
  BY <1>0, <1>10 DEF vars
<1> QED
  BY <1>1, <1>2, <1>3, <1>4, <1>5, <1>6, <1>7, <1>8, <1>9, <1>10 DEF Next, FireStep

\* On SQLite, with any number of overlapping calls and failing sends, each
\* trade alerts at most once, unless an answer is lost, the process dies with a
\* call open, or a trade is deleted and fetched again.
THEOREM OnceCorrect == Spec => []OnceUnlessHit
<1>1. CASE Backend = "sqlite"
  <2>1. Init => OnceInv
    BY TypeInvInit DEF Init, OnceInv, DeliveredInv, DeliveredIsMarked, SentOnce, AlertOnce
  <2>2. OnceInv /\ [Next]_vars => OnceInv'
    BY <1>1, OnceNext
  <2>3. OnceInv => OnceUnlessHit
    BY DEF OnceInv, SentOnce, OnceUnlessHit
  <2> QED BY <2>1, <2>2, <2>3, PTL DEF Spec
<1>2. CASE Backend # "sqlite"
  <2>1. OnceUnlessHit
    BY <1>2 DEF OnceUnlessHit
  <2> QED BY <2>1, PTL
<1> QED BY <1>1, <1>2
=============================================================================
