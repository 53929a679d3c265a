----------------------------- MODULE TradeExit -----------------------------
(***************************************************************************)
(* The management of one simulated trade by ComposedSignalPlugin.finalize: *)
(* the loop over the bars from the entry on.                               *)
(*                                                                         *)
(* A price is the distance from the entry in the direction of the trade,   *)
(* in units of the initial risk R, so that LONG and SHORT are one case:    *)
(* the entry is 0, the initial stop -1, low the adverse and high the       *)
(* favourable extreme of a bar.  Fractions of the position are halves.     *)
(***************************************************************************)
EXTENDS Integers

CONSTANTS
  Profiles,  \* exit profiles, overrides applied
  Prices,    \* bound: distances a bar may reach
  MaxBars,   \* bound: bars from the entry to the end of the data
  Lookback   \* trailByStructureLookback (12 in the code)

Whole == 2                  \* the position, in halves
Never == 1000               \* the level of a rule the profile does not have

(* fraction is partialCloseFraction, stages the trailing stages as pairs   *)
(* of triggerR and stopToR, bars maxBarsInTrade.                           *)
ProfileShape(p) ==
  /\ p.target \in Nat \ {0} /\ p.breakEven \in Nat \ {0} /\ p.partial \in Nat \ {0}
  /\ p.fraction \in 0..Whole
  /\ p.stages \subseteq Nat \X Int
  /\ p.swing \in BOOLEAN /\ p.nyClose \in BOOLEAN
  /\ p.bars \in Nat \ {0}

ASSUME TradeAssumption ==
  /\ \A p \in Profiles : ProfileShape(p)
  /\ Prices \subseteq Int /\ \A x \in Prices : x < Never
  /\ MaxBars \in Nat \ {0} /\ Lookback \in Nat \ {0}

VARIABLES
  profile,    \* the profile of the trade
  lastBar,    \* lastIndex, counted from the entry: the loop ends after it
  bar,        \* bars managed so far
  stop,       \* activeStop
  armed,      \* movedToBreakeven
  partial,    \* partialTaken
  left,       \* remainingFraction
  staged,     \* triggeredTrailStages
  trailing,   \* hasTrailingStop
  lows,       \* adverse extremes of the last Lookback bars
  realized,   \* realizedNetR, in halves of the position
  outcome,    \* "open", the exit reason of the result, "dropped" without one
  locked      \* history: the most a stop had secured at the end of a bar

tradeVars == <<profile, lastBar, bar, stop, armed, partial, left, staged, trailing,
               lows, realized, outcome, locked>>

Reasons == {"STOP_LOSS", "BREAK_EVEN", "TRAILING_STOP", "TAKE_PROFIT_1",
            "TAKE_PROFIT_2", "EXPIRATION"}

Lower(a, b) == IF a <= b THEN a ELSE b
Higher(a, b) == IF a >= b THEN a ELSE b

TradeInit ==
  /\ profile \in Profiles
  /\ \E length \in 1..MaxBars : lastBar = Lower(length, profile.bars)
  /\ bar = 0
  /\ stop = -1
  /\ armed = FALSE
  /\ partial = FALSE
  /\ left = Whole
  /\ staged = {}
  /\ trailing = FALSE
  /\ lows \in [1..Lookback -> Prices]
  /\ realized = 0
  /\ outcome = "open"
  /\ locked = -Whole

(* slHit: the rest is closed at the stop, wherever the bar opened.         *)
StopHit ==
  /\ realized' = realized + left * stop
  /\ left' = 0
  /\ outcome' = IF trailing THEN "TRAILING_STOP"
                ELSE IF armed /\ stop = 0 THEN "BREAK_EVEN" ELSE "STOP_LOSS"
  /\ UNCHANGED <<stop, armed, partial, staged, trailing, locked>>

(* partialHit: the fraction that is closed at the partial target.          *)
Taken(high) == IF ~partial /\ high >= profile.partial THEN Lower(left, profile.fraction) ELSE 0

(* beHit                                                                   *)
Arms(high) == ~armed /\ high >= profile.breakEven

StagesHit(high) == {s \in profile.stages \ staged : high >= s[1]}

(* Variant: the structure replaces the stop, tighter or not.               *)
LoosensToSwing(at, low) == low

(* The stop behind the lowest of the prior bars, never looser.             *)
SwingStop(at, low) == Higher(at, low)

(* The stop after break-even, the trailing stages and the swing trail.     *)
IsNextStop(high, next) ==
  LET base == IF Arms(high) THEN 0 ELSE stop
      staging == {base} \cup {s[2] : s \in StagesHit(high)}
  IN \E at \in staging :
       /\ \A other \in staging : other <= at
       /\ IF profile.swing /\ (armed \/ Arms(high)) /\ bar > 0
          THEN \E i \in 1..Lookback :
                 /\ \A j \in 1..Lookback : lows[i] <= lows[j]
                 /\ next = SwingStop(at, lows[i])
          ELSE next = at

(* The rest of the loop body for a bar that does not hit the stop: take    *)
(* profit, then the NY close, then the time stop.  A partial that closes   *)
(* the whole position ends the loop without an exit time: no result.       *)
Carry(high, close, late) ==
  LET cut == Taken(high)
      rest == left - cut
      banked == realized + cut * profile.partial
      closes(price, reason) ==
        /\ realized' = banked + rest * price /\ left' = 0 /\ outcome' = reason
        /\ UNCHANGED locked
  IN /\ IsNextStop(high, stop')
     /\ armed' = (armed \/ Arms(high))
     /\ partial' = (partial \/ cut > 0)
     /\ staged' = staged \cup StagesHit(high)
     /\ trailing' = (trailing \/ stop' # IF Arms(high) THEN 0 ELSE stop)
     /\ IF rest > 0 /\ high >= profile.target
        THEN closes(profile.target, IF partial' THEN "TAKE_PROFIT_2" ELSE "TAKE_PROFIT_1")
        ELSE IF rest > 0 /\ ((profile.nyClose /\ late) \/ (profile.bars # Never /\ bar' = lastBar))
        THEN closes(close, "EXPIRATION")
        ELSE /\ realized' = banked /\ left' = rest
             /\ outcome' = IF rest = 0 THEN "dropped" ELSE "open"
             /\ locked' = Higher(locked, banked + rest * stop')

(* One bar.  late: the bar begins at 21:00 UTC or after.                   *)
ManageBar ==
  /\ outcome = "open" /\ bar < lastBar
  /\ bar' = bar + 1
  /\ \E low, high, close \in Prices, late \in BOOLEAN :
       /\ low <= close /\ close <= high
       /\ lows' = [i \in 1..Lookback |-> IF i < Lookback THEN lows[i + 1] ELSE low]
       /\ IF low <= stop THEN StopHit ELSE Carry(high, close, late)
  /\ UNCHANGED <<profile, lastBar>>

(* A trade that never exits leaves no result, whatever it took before.     *)
EndOfData ==
  /\ outcome = "open" /\ bar = lastBar
  /\ outcome' = "dropped"
  /\ UNCHANGED <<profile, lastBar, bar, stop, armed, partial, left, staged, trailing,
                 lows, realized, locked>>

TradeNext == ManageBar \/ EndOfData

TradeSpec == TradeInit /\ [][TradeNext]_tradeVars

(***************************************************************************)
(* Properties                                                              *)
(***************************************************************************)
TradeTypeOK ==
  /\ profile \in Profiles
  /\ lastBar \in 1..MaxBars /\ bar \in 0..lastBar
  /\ stop \in Int
  /\ armed \in BOOLEAN /\ partial \in BOOLEAN /\ trailing \in BOOLEAN
  /\ left \in 0..Whole
  /\ staged \subseteq profile.stages
  /\ lows \in [1..Lookback -> Prices]
  /\ realized \in Int /\ locked \in Int
  /\ outcome \in Reasons \cup {"open", "dropped"}

(* Profiles whose rules are in order: the stop is moved to break-even      *)
(* before a stage moves it further, and a stage locks less than it needs.  *)
(* Every profile of the catalogue is; overrides are not validated.         *)
Ordered(p) ==
  /\ \A s \in p.stages : s[2] < s[1]
  /\ p.breakEven = Never \/ \A s \in p.stages : p.breakEven <= s[1]

(* What a stop had secured when a bar began is not given up: a trade with  *)
(* a result has realized at least that, through partial exits, break-even, *)
(* trailing stages, the swing trail, the NY close and the time stop.       *)
LockedProfit ==
  outcome \in Reasons /\ Ordered(profile) => realized >= locked
=============================================================================
