------------------------------- MODULE Paging -------------------------------
(***************************************************************************)
(* How the trades of a wallet are fetched (app/ingest.py): by pages of the *)
(* data API, newest first, each asked for by its offset and tried a few    *)
(* times.  While a fetch goes on, or sleeps before it tries again, the     *)
(* wallet trades, which moves every older trade to a higher offset.        *)
(* Trades are numbered in the order in which they were made.               *)
(***************************************************************************)
EXTENDS Integers

CONSTANTS MaxPage,   \* _MAX_TRADES_PAGE_SIZE
          MaxOffset, \* _MAX_TRADES_OFFSET
          MaxTries,  \* _MAX_RETRY_ATTEMPTS
          Limits,    \* the limits asked for
          MaxFeed    \* bound: trades made

ASSUME PagingAssumption ==
  /\ MaxPage \in Nat \ {0} /\ MaxOffset \in Nat /\ MaxTries \in Nat \ {0}
  /\ Limits \subseteq Int
  /\ MaxFeed \in Nat

VARIABLES
  feed,    \* the trades there are: 1..feed
  known,   \* history: how many there were when the fetch began
  whole,   \* fetch_all
  limit,   \* limit, within its bounds
  offset,  \* the offset of the page it is at
  tries,   \* attempt
  got,     \* all_trades, as a set: duplicates are dropped by refresh_wallet
  fetch    \* "none", "ask"; how it ended: "page", "end", "cap", "odd", "failed"

pagingVars == <<feed, known, whole, limit, offset, tries, got, fetch>>

PagingTypeOK ==
  /\ feed \in 0..MaxFeed /\ known \in 0..feed
  /\ whole \in BOOLEAN
  /\ limit \in 1..MaxPage
  /\ offset \in 0..MaxOffset
  /\ tries \in 1..MaxTries
  /\ got \subseteq 1..feed
  /\ fetch \in {"none", "ask", "page", "end", "cap", "odd", "failed"}

PagingInit ==
  /\ feed \in 0..MaxFeed /\ known = 0
  /\ whole = FALSE /\ limit = 1 /\ offset = 0 /\ tries = 1
  /\ got = {} /\ fetch = "none"
-----------------------------------------------------------------------------
\* The wallet trades.
MakeTrade ==
  /\ feed < MaxFeed
  /\ feed' = feed + 1
  /\ UNCHANGED <<known, whole, limit, offset, tries, got, fetch>>

\* What the API answers: the trades at offset and the limit - 1 after it.
Page == {t \in 1..feed : offset <= feed - t /\ feed - t < offset + limit}

Clamp(n) == IF n > MaxPage THEN MaxPage ELSE IF n < 1 THEN 1 ELSE n

\* fetch_trades_for_wallet is called.
BeginFetch ==
  /\ fetch # "ask"
  /\ fetch' = "ask"
  /\ whole' \in BOOLEAN
  /\ \E n \in Limits : limit' = Clamp(n)
  /\ known' = feed
  /\ offset' = 0 /\ tries' = 1 /\ got' = {}
  /\ UNCHANGED feed

\* A page arrives.  A fetch of one page has ended; another has ended with a page
\* that is not full, or goes on at the next offset up to the cap.
Receive ==
  /\ fetch = "ask"
  /\ got' = got \cup Page
  /\ \/ ~whole /\ fetch' = "page" /\ UNCHANGED <<offset, tries>>
     \/ /\ whole /\ feed < offset + limit
        /\ fetch' = "end" /\ UNCHANGED <<offset, tries>>
     \/ /\ whole /\ feed >= offset + limit
        /\ IF offset + limit > MaxOffset
           THEN fetch' = "cap" /\ UNCHANGED <<offset, tries>>
           ELSE offset' = offset + limit /\ tries' = 1 /\ UNCHANGED fetch
  /\ UNCHANGED <<feed, known, whole, limit>>

\* A payload that is no list is taken for an empty page.
ReceiveOdd ==
  /\ fetch = "ask"
  /\ fetch' = "odd"
  /\ UNCHANGED <<feed, known, whole, limit, offset, tries, got>>

\* A transport error or a 429: it sleeps and asks for the page again.
TryAgain ==
  /\ fetch = "ask" /\ tries < MaxTries
  /\ tries' = tries + 1
  /\ UNCHANGED <<feed, known, whole, limit, offset, got, fetch>>

\* Mutant: a page that cannot be had is left out.
LeaveOut ==
  /\ fetch = "ask"
  /\ IF offset + limit > MaxOffset
     THEN fetch' = "cap" /\ UNCHANGED <<offset, tries>>
     ELSE offset' = offset + limit /\ tries' = 1 /\ UNCHANGED fetch
  /\ UNCHANGED <<feed, known, whole, limit, got>>

\* The last attempt fails, or any with another status: the exception discards
\* the pages there are, and refresh_wallet stores none of them.
GiveUp ==
  /\ fetch = "ask"
  /\ fetch' = "failed" /\ got' = {}
  /\ UNCHANGED <<feed, known, whole, limit, offset, tries>>

PagingNext ==
  MakeTrade \/ BeginFetch \/ Receive \/ ReceiveOdd \/ TryAgain \/ GiveUp

PagingSpec == PagingInit /\ [][PagingNext]_pagingVars
-----------------------------------------------------------------------------
\* However many trades are made between two pages, and however often a page is
\* tried: what is fetched has no hole, so a later fetch, which starts at the newest
\* trade, has only older ones to make up for; and a fetch of everything that ends
\* with a short page has every trade made before it began, or at the cap those of
\* them that are within the cap still, newer trades counted in.
NothingSkipped ==
  /\ \A t \in got, u \in 1..known : t < u => u \in got
  /\ fetch = "end" => 1..known \subseteq got
  /\ fetch = "cap" => \A u \in 1..known : feed - u <= MaxOffset => u \in got
=============================================================================
