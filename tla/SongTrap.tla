------------------------------ MODULE SongTrap ------------------------------
(***************************************************************************)
(* The songTrap plugin in a backtest: onBar follows one cycle at a time    *)
(* from its trap to completion or failure; finalize replays the bars from  *)
(* each entry on and closes the position in parts.  The two passes over    *)
(* the bars share nothing but the signals, so that here they take each bar *)
(* together.                                                               *)
(***************************************************************************)
EXTENDS Integers, FiniteSetsExt

CONSTANTS
  TrapPlans,  \* order timing, target, break-even, trail stages, end of range
  TrapBars,   \* bars: prices, and where RSI stands
  Cycles      \* bound: cycles are numbered 1..Cycles

Quarters == 4      \* the whole position
NoTarget == 1000   \* above every price

(* RSI to its levels: below the invalidation level, at it, in the          *)
(* pullback, above that, above the trap level.                             *)
RsiZones == {"invalid", "edge", "pullback", "high", "trap"}

(* side and ema: RSI is below, at or above its weighted and its            *)
(* exponential average.  breakEven and the stages are distances from the   *)
(* entry; a stage closes some quarters.                                    *)
ASSUME TrapAssumption ==
  /\ Cycles \in Nat \ {0}
  /\ \A b \in TrapBars :
       /\ b.zone \in RsiZones /\ b.side \in -1..1 /\ b.ema \in -1..1 /\ b.trend \in BOOLEAN
       /\ b.low \in 0..(NoTarget - 1) /\ b.high \in b.low..(NoTarget - 1)
       /\ b.open \in b.low..b.high /\ b.close \in b.low..b.high
  /\ \A p \in TrapPlans :
       /\ p.nextOpen \in BOOLEAN /\ p.signalTarget \in BOOLEAN /\ p.rangeEnd \in BOOLEAN
       /\ p.breakEven \in 0..NoTarget /\ p.trail \subseteq (1..NoTarget) \X (1..Quarters)

VARIABLES
  plan,      \* the plan of the run
  before,    \* of the previous bar: below the trap level, side
  progress,  \* how far the active cycle is, "idle" for none
  trap,      \* number, price and lowest low of the last cycle
  trade,     \* the position each cycle's signal opened
  fate,      \* how each cycle ended
  ended      \* the run is over

trapVars == <<plan, before, progress, trap, trade, fate, ended>>

NoTrade == [state |-> "none", entry |-> 0, stop |-> 0, target |-> 0, armed |-> FALSE,
            hit |-> {}, left |-> 0, late |-> FALSE]

TrapInit ==
  /\ plan \in TrapPlans
  /\ before \in [low : BOOLEAN, side : -1..1]
  /\ progress = "idle"
  /\ trap = [number |-> 0, price |-> 0, lowest |-> 0]
  /\ trade = [n \in 1..Cycles |-> NoTrade]
  /\ fate = [n \in 1..Cycles |-> "none"]
  /\ ended = FALSE

(***************************************************************************)
(* onBar: one bar may take a cycle through several of its phases           *)
(***************************************************************************)
CrossesUp(b) == before.side <= 0 /\ b.side = 1
CrossesDown(b) == before.side >= 0 /\ b.side = -1

(* Pullback, reset below both averages, first reclaim, dip below the       *)
(* weighted average, second reclaim, confirmation.                         *)
Pulled(b) == IF progress = "trapped" /\ b.zone = "pullback" THEN "pulled" ELSE progress
WasReset(b) == IF Pulled(b) = "pulled" /\ b.ema = -1 /\ b.side = -1 THEN "reset" ELSE Pulled(b)
Reclaimed(b) == IF WasReset(b) = "reset" /\ CrossesUp(b) THEN "x1" ELSE WasReset(b)
Dipped(b) == IF Reclaimed(b) = "x1" /\ b.side = -1 THEN "dipped" ELSE Reclaimed(b)
Entered(b) == IF Dipped(b) = "dipped" /\ b.trend /\ CrossesUp(b) THEN "entered" ELSE Dipped(b)
Confirmed(b) == IF Entered(b) = "entered" /\ b.ema = 1 THEN "confirmed" ELSE Entered(b)

InTrade == {"entered", "confirmed"}
Springs(b) == progress = "idle" /\ b.zone = "trap" /\ before.low /\ b.side = 1 /\ b.trend
Invalidates(b) == progress \notin InTrade \cup {"idle"} /\ b.zone = "invalid"
Advances(b) == progress # "idle" /\ ~Invalidates(b)
Signals(b) == Advances(b) /\ progress \notin InTrade /\ Confirmed(b) \in InTrade

(* Price is back at the trap, or RSI breaks down after the confirmation.   *)
Completes(b) == Advances(b) /\ Confirmed(b) \in InTrade /\ b.high >= trap.price
BreaksDown(b) == Advances(b) /\ Confirmed(b) = "confirmed" /\ CrossesDown(b)

Fate(b) ==
  IF Completes(b) THEN "completed"
  ELSE IF Invalidates(b) \/ BreaksDown(b) THEN "failed" ELSE "none"

Lowest(b) == IF b.low < trap.lowest THEN b.low ELSE trap.lowest

(***************************************************************************)
(* finalize                                                                *)
(***************************************************************************)
Arm(t, b) ==
  IF ~t.armed /\ plan.breakEven > 0 /\ b.high >= t.entry + plan.breakEven
  THEN [t EXCEPT !.armed = TRUE, !.stop = t.entry] ELSE t

(* The stages close what is left at most.                                  *)
Trail(t, b) ==
  LET met == {s \in plan.trail : s[1] \notin t.hit /\ b.high >= t.entry + s[1]}
      closes == MapThenSumSet(LAMBDA s : s[2], met)
  IN  [t EXCEPT !.hit = @ \cup {s[1] : s \in met}, !.left = IF closes \in 0..@ THEN @ - closes ELSE 0]

(* Variant: the target has to be passed.                                   *)
PassesTarget(t, b) == b.high > t.target
MeetsTarget(t, b) == b.high >= t.target

(* Break-even, then the stages, then the target, then the stop.            *)
Manage(t, b) ==
  LET u == Trail(Arm(t, b), b)
  IN  [u EXCEPT !.left = IF MeetsTarget(u, b) \/ b.low <= u.stop THEN 0 ELSE @]

Fill(t, price, late) ==
  [t EXCEPT !.state = "filled", !.entry = price, !.left = Quarters, !.late = late]

(* The signal: stop at the lowest low since the trap, target at the trap.  *)
Order(b) ==
  [NoTrade EXCEPT !.state = "ordered", !.stop = Lowest(b),
                  !.target = IF plan.signalTarget THEN trap.price ELSE NoTarget]

(* What a bar does to the position of cycle n.  An order waits for the     *)
(* open of the next bar, or is filled at the close and meets its own bar.  *)
Position(n, b) ==
  IF Signals(b) /\ n = trap.number
  THEN IF plan.nextOpen THEN Order(b) ELSE Manage(Fill(Order(b), b.close, FALSE), b)
  ELSE IF trade[n].state = "ordered"
  THEN Manage(Fill(trade[n], b.open, fate[n] # "none"), b)
  ELSE IF trade[n].left > 0 THEN Manage(trade[n], b) ELSE trade[n]

(***************************************************************************)
(* The run                                                                 *)
(***************************************************************************)
OnTrapBar(b) ==
  /\ ~ended
  /\ Springs(b) => trap.number < Cycles
  /\ before' = [low |-> b.zone # "trap", side |-> b.side]
  /\ trap' = IF Springs(b)
             THEN [number |-> trap.number + 1, price |-> b.close, lowest |-> b.low]
             ELSE IF progress = "idle" THEN trap ELSE [trap EXCEPT !.lowest = Lowest(b)]
  /\ progress' = IF Springs(b) THEN "trapped"
                 ELSE IF Fate(b) # "none" THEN "idle" ELSE Confirmed(b)
  /\ fate' = IF Fate(b) = "none" THEN fate ELSE [fate EXCEPT ![trap.number] = Fate(b)]
  /\ trade' = [n \in 1..Cycles |-> Position(n, b)]
  /\ UNCHANGED <<plan, ended>>

(* The last bar: what is left may be closed at its close.                  *)
EndOfRange ==
  /\ ~ended /\ ended' = TRUE
  /\ trade' = IF plan.rangeEnd THEN [n \in 1..Cycles |-> [trade[n] EXCEPT !.left = 0]] ELSE trade
  /\ UNCHANGED <<plan, before, progress, trap, fate>>

TrapNext == (\E b \in TrapBars : OnTrapBar(b)) \/ EndOfRange

TrapSpec == TrapInit /\ [][TrapNext]_trapVars

(***************************************************************************)
(* Properties                                                              *)
(***************************************************************************)
TrapTypeOK ==
  /\ plan \in TrapPlans
  /\ before \in [low : BOOLEAN, side : -1..1]
  /\ progress \in {"idle", "trapped", "pulled", "reset", "x1", "dipped"} \cup InTrade
  /\ trap.number \in 0..Cycles /\ (progress # "idle" => trap.number > 0)
  /\ \A n \in 1..Cycles :
       /\ trade[n].left \in 0..Quarters /\ trade[n].state \in {"none", "ordered", "filled"}
       /\ fate[n] \in {"none", "completed", "failed"}
  /\ ended \in BOOLEAN

(* The events say a cycle is complete when price is back at the trap,      *)
(* where its signal took profit: onBar and finalize, which decide it       *)
(* apart, agree.  A completed cycle has no position left, unless the       *)
(* position was only filled after the completion.                          *)
CompletionCloses ==
  plan.signalTarget => \A n \in 1..Cycles :
    fate[n] = "completed" => trade[n].left = 0 \/ trade[n].late
=============================================================================
