---------------------------- MODULE MC_Connector -----------------------------
(***************************************************************************)
(* Instance of Connector for TLC: three outputs of three transactions, two *)
(* of them confirmed at start and one confirmed later; two callers of      *)
(* craftTransaction, one background syncer.                                *)
(***************************************************************************)
EXTENDS Connector

CONSTANTS o1, o2, o3, tA, tB, tC, c1, c2, s1

MCAmount == o1 :> 4 @@ o2 :> 2 @@ o3 :> 5
\* Each output from its own transaction.
MCTxOf == o1 :> tA @@ o2 :> tB @@ o3 :> tC
\* o3 is a second output of the transaction that created o1.
MCTxOfShared == o1 :> tA @@ o2 :> tB @@ o3 :> tA
MCInitialUnspent == {o1, o2}
MCPayments == {1}
MCFeeRates == {1}
=============================================================================
