---------------------------- MODULE MCTradeGuards ----------------------------
(* An instance of TradeGuards whose only limit is the drawdown halt.       *)
EXTENDS TradeGuards

CONSTANT Patience  \* phantoms after which a halt should be over

NoCap == [losses |-> None, netR |-> None]
DrawdownOnly == {
  [afterLosses |-> None, cooldown |-> 0, session |-> NoCap, day |-> NoCap, emaTrades |-> None,
   drawdown |-> 20, spacing |-> None, burst |-> None, window |-> 0, burstCooldown |-> 0]}
OneUnit == {-1, 1}

(* What the comment at the phantom trade says: phantoms are recorded so    *)
(* that a drawdown halt can eventually unblock, so one that stands alone   *)
(* is over after some of them.  It names no number; none would do, as the  *)
(* drawdown stays what it is.                                              *)
PhantomsUnblock == phantoms < Patience
=============================================================================
