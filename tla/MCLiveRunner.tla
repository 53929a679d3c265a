---------------------------- MODULE MCLiveRunner ----------------------------
(* Instances of LiveRunner for TLC.                                        *)
EXTENDS LiveRunner, TLC

CONSTANTS t1, t2

OneTick == {t1}
TwoTicks == {t1, t2}
AllKeys == {"ENTRY", "CONFIRMED", "FAIL"}
OnlyEntry == {"ENTRY"}

(* Bar 2 completes a cycle in one step; its close, once final, may differ  *)
(* from what was seen while it was forming.                                *)
SongTrap == [x \in (1..MaxBar) \X {"forming", "final"} |->
  IF x[1] = 2 THEN IF x[2] = "final" THEN <<"ENTRY", "CONFIRMED">> ELSE <<"ENTRY">>
  ELSE IF x = <<3, "final">> THEN <<"FAIL">> ELSE <<>>]

(* A composed signal: an entry on the first bar.                           *)
Composed == [x \in (1..MaxBar) \X {"forming", "final"} |->
  IF x[1] = 1 THEN <<"ENTRY">> ELSE <<>>]

TickSymmetry == Permutations(Ticks)
=============================================================================
