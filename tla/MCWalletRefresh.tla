-------------------------- MODULE MCWalletRefresh --------------------------
(***************************************************************************)
(* Small instances of WalletRefresh.                                       *)
(***************************************************************************)
EXTENDS WalletRefresh, TLC

CONSTANTS a, b, t1, t2, t3, w1, w2

\* Both wallets took part in t2; t1 and t2 are semantic duplicates.
MCFeed == a :> {t1, t2, t3} @@ b :> {t2}
MCKeyOf == t1 :> 1 @@ t2 :> 1 @@ t3 :> 2

WorkerSymmetry == Permutations({w1, w2})
=============================================================================
