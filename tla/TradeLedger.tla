---------------------------- MODULE TradeLedger ----------------------------
(***************************************************************************)
(* What trade storage promises to the rest of PolySignal, without threads, *)
(* transactions, row ids or locks.  Trades enter only through the refresh  *)
(* of a tracked wallet, in one step with the sync event that counts them;  *)
(* a refresh that fails stores nothing; a stored trade goes away only with *)
(* its wallet, or because a semantic duplicate of it stays.                *)
(***************************************************************************)
EXTENDS Naturals, FiniteSets

CONSTANTS Wallets,   \* wallet addresses
          TradeIds,  \* trade_id values
          KeyOf,     \* the semantic identity of a trade, cf. find_duplicate_groups
          Refs       \* identities of sync events

VARIABLES tracked,   \* the wallets on the watchlist
          stored,    \* stored trades, each with the wallet it belongs to
          status,    \* last_refresh_status of each wallet
          events     \* committed sync events

vars == <<tracked, stored, status, events>>

Init == /\ tracked = Wallets
        /\ stored = {}
        /\ status = [w \in Wallets |-> "never"]
        /\ events = {}

\* One sync event is written and the wallet shows its outcome.
Log(wl, ref, outcome, inserted) ==
  /\ wl \in tracked
  /\ \A e \in events : e.ref # ref
  /\ events' = events \cup
       {[ref |-> ref, wallet |-> wl, status |-> outcome, inserted |-> inserted]}
  /\ status' = [status EXCEPT ![wl] = outcome]

\* A refresh stores exactly the trades its event counts, none stored before.
Import(wl, ref, new) ==
  /\ \A p \in stored : p.trade \notin new
  /\ stored' = stored \cup {[trade |-> t, wallet |-> wl] : t \in new}
  /\ Log(wl, ref, IF new = {} THEN "no_new" ELSE "success", Cardinality(new))
  /\ UNCHANGED tracked

\* A refresh that fails leaves a trace and nothing else.
Fail(wl, ref) ==
  /\ Log(wl, ref, "error", 0)
  /\ UNCHANGED <<tracked, stored>>

\* A wallet leaves with all its trades.
Untrack(wl) ==
  /\ wl \in tracked
  /\ tracked' = tracked \ {wl}
  /\ stored' = {p \in stored : p.wallet # wl}
  /\ UNCHANGED <<status, events>>

\* Cleanup drops trades of which a twin is kept.
Collapse(gone) ==
  /\ gone \subseteq stored
  /\ \A p \in gone : \E q \in stored \ gone :
       q.wallet = p.wallet /\ KeyOf[q.trade] = KeyOf[p.trade]
  /\ stored' = stored \ gone
  /\ UNCHANGED <<tracked, status, events>>

Next == \/ \E wl \in Wallets, ref \in Refs :
             \/ \E new \in SUBSET TradeIds : Import(wl, ref, new)
             \/ Fail(wl, ref)
        \/ \E wl \in Wallets : Untrack(wl)
        \/ \E gone \in SUBSET stored : Collapse(gone)

Spec == Init /\ [][Next]_vars
=============================================================================
