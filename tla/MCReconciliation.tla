-------------------------- MODULE MCReconciliation --------------------------
(* Instances of Reconciliation for TLC.                                    *)
EXTENDS Reconciliation

CONSTANTS t1, t2, r1, r2

OneTrade == {t1}
TwoTrades == {t1, t2}
OneRequest == {r1}
TwoRequests == {r1, r2}
NoRequest == {}

(* Pending orders that are never filled, to keep the instance small.       *)
NoFills == {<<"pending", "cancelled">>, <<"open", "closed">>}
=============================================================================
