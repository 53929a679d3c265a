---------------------------- MODULE TradeGuards ----------------------------
(***************************************************************************)
(* The trade guards of a simulated signal (resolveTradeGuardState) and the *)
(* loop of ComposedSignalPlugin.finalize that takes the signals in the     *)
(* order of their entries, asks the guards and simulates the trade.  How a *)
(* trade ends is module TradeExit; here it ends at any time, with any      *)
(* result, or not at all.  A limit that is not configured is None.         *)
(***************************************************************************)
EXTENDS Integers, Sequences, FiniteSetsExt

CONSTANTS
  Configs,       \* executionConfig.tradeGuards
  InitialEquity,
  Precision,     \* steps of the rounded average in a unit of equity
  Horizon,       \* bound: signals enter at 1..Horizon
  Gains,         \* bound: what a trade may bring, in units of equity and of R
  SessionLength, \* length of a session
  DayLength      \* length of a day

None == -1

ASSUME GuardsAssumption ==
  /\ InitialEquity \in Nat \ {0} /\ Precision \in Nat \ {0} /\ Horizon \in Nat \ {0}
  /\ Gains \subseteq Int
  /\ \A c \in Configs : c.emaTrades = None \/ c.emaTrades \in Nat \ {0}
  /\ SessionLength \in Nat \ {0} /\ DayLength \in Nat \ {0}

VARIABLES
  config,   \* the configured limits
  now,      \* entry time of the last signal
  closed,   \* closedTrades, phantoms included
  verdict,  \* what became of the last signal
  phantoms  \* history: signals in a row that the drawdown halt has blocked
            \* while no trade was open

guardVars == <<config, now, closed, verdict, phantoms>>

GuardsInit ==
  /\ config \in Configs
  /\ now = 0
  /\ closed = <<>>
  /\ verdict = "none"
  /\ phantoms = 0

(* eligibleClosed at a time, and its order by exit, then by entry.         *)
Eligible(t) == {i \in DOMAIN closed : closed[i].exit <= t}
Upto(El, i) == {j \in El : \/ closed[j].exit < closed[i].exit
                           \/ closed[j].exit = closed[i].exit /\ j <= i}
Loss(i) == closed[i].gain < 0
GainOf(S) ==
  LET sum[i \in 0..Len(closed)] ==
        IF i = 0 THEN 0 ELSE sum[i - 1] + (IF i \in S THEN closed[i].gain ELSE 0)
  IN sum[Len(closed)]
SessionOf(t) == t \div SessionLength
DayOf(t) == t \div DayLength

(* rawConsecutiveLosses: the losses at the end of the order by exit.       *)
ConsecutiveLosses(El) == {i \in El : \A j \in El : i \in Upto(El, j) => Loss(j)}

(* loss_streak_cooldown                                                    *)
Cooling(t) ==
  LET losses == ConsecutiveLosses(Eligible(t))
  IN /\ config.afterLosses # None /\ losses # {}
     /\ Cardinality(losses) >= config.afterLosses
     /\ t < Max({closed[i].exit : i \in losses}) + config.cooldown

(* session_max_losses, session_max_net_r and the same of the day: trades   *)
(* count for the period they were entered in, once they are closed.        *)
CapReached(S, cap) ==
  \/ cap.losses # None /\ Cardinality({i \in S : Loss(i)}) >= cap.losses
  \/ cap.netR # None /\ GainOf(S) <= -cap.netR

Capped(t) ==
  \/ CapReached({i \in Eligible(t) : SessionOf(closed[i].entry) = SessionOf(t)}, config.session)
  \/ CapReached({i \in Eligible(t) : DayOf(closed[i].entry) = DayOf(t)}, config.day)

(* The equity after each trade of the order, point 0 is the initial one.   *)
Equity(S) == InitialEquity + GainOf(S)
Points(El) ==
  [k \in 0..Cardinality(El) |-> Equity({i \in El : Cardinality(Upto(El, i)) <= k})]

Rounded(a, b) == (2 * a + b) \div (2 * b)

(* computeEquityEma in steps of 1 / Precision, from the sum of the first n *)
(* points on with k = 2 / (n + 1).  Each step is rounded, as the doubles   *)
(* are on their finer grid: the average may reach a curve that stays flat, *)
(* and a halt be lifted by nothing else.                                   *)
EquityEma(points, n) ==
  LET last == Cardinality(DOMAIN points) - 1
      sum[k \in 0..(n - 1)] == points[k] + (IF k = 0 THEN 0 ELSE sum[k - 1])
      ema[k \in (n - 1)..last] ==
        IF k = n - 1 THEN Rounded(Precision * sum[k], n)
        ELSE Rounded(2 * Precision * points[k] + (n - 1) * ema[k - 1], n + 1)
  IN ema[last]

(* equity_curve_filter with action BLOCK                                   *)
BelowCurve(t) ==
  LET El == Eligible(t)
      n == config.emaTrades
  IN /\ n # None /\ Cardinality(El) + 1 >= n
     /\ Precision * Equity(El) < EquityEma(Points(El), n)

(* max_drawdown_halt, in percent of the peak.                              *)
Halted(t) ==
  LET El == Eligible(t)
      points == Points(El)
      peak == Max({points[k] : k \in DOMAIN points})
  IN config.drawdown # None /\ (peak - Equity(El)) * 100 >= config.drawdown * peak

(* min_trade_spacing, since the last exit.                                 *)
TooSoon(t) ==
  /\ config.spacing # None /\ Eligible(t) # {}
  /\ t - Max({closed[i].exit : i \in Eligible(t)}) < config.spacing

(* entry_burst_cooldown: the latest maxEntries entries of the day within a *)
(* window, unless one of them has exited.                                  *)
Bursting(t) ==
  LET today == {i \in DOMAIN closed : closed[i].entry <= t /\ DayOf(closed[i].entry) = DayOf(t)}
      burst(i) == (i - config.burst + 1)..i
      bursts == {i \in today : /\ burst(i) \subseteq today
                               /\ closed[i].entry - closed[i - config.burst + 1].entry <= config.window}
  IN /\ config.burst # None /\ bursts # {}
     /\ t < closed[Max(bursts)].entry + config.burstCooldown
     /\ \A j \in burst(Max(bursts)) : closed[j].exit > t

HaltsEntry(t) == BelowCurve(t) \/ Halted(t)
Blocked(t) == HaltsEntry(t) \/ Cooling(t) \/ Capped(t) \/ TooSoon(t) \/ Bursting(t)

(* Variant: the phantom gives back some of what the halt was for.          *)
PhantomRecovers(t) == [entry |-> t, exit |-> t, gain |-> 1]

(* The trade recorded for a signal that a halt blocked.                    *)
Phantom(t) == [entry |-> t, exit |-> t, gain |-> 0]

BlockSignal(t) ==
  /\ Blocked(t)
  /\ verdict' = "blocked"
  /\ closed' = IF HaltsEntry(t) THEN Append(closed, Phantom(t)) ELSE closed
  /\ phantoms' = IF Halted(t) /\ Eligible(t) = DOMAIN closed THEN phantoms + 1 ELSE phantoms

(* A trade that never exits is not recorded.                               *)
EnterTrade(t) ==
  /\ ~Blocked(t)
  /\ verdict' = "entered"
  /\ \/ closed' = closed
     \/ \E e \in t..(Horizon + 1), g \in Gains :
          closed' = Append(closed, [entry |-> t, exit |-> e, gain |-> g])
  /\ phantoms' = 0

TakeSignal ==
  \E t \in (now + 1)..Horizon :
    /\ now' = t
    /\ BlockSignal(t) \/ EnterTrade(t)
    /\ UNCHANGED config

GuardsSpec == GuardsInit /\ [][TakeSignal]_guardVars

(***************************************************************************)
(* Properties                                                              *)
(***************************************************************************)
GuardsTypeOK ==
  /\ config \in Configs
  /\ now \in 0..Horizon
  /\ closed \in Seq([entry : 1..Horizon, exit : 1..(Horizon + 1), gain : Gains \cup {0}])
  /\ verdict \in {"none", "blocked", "entered"}
  /\ phantoms \in 0..now

(* A drawdown halt that meets no open trade is final: the phantoms that it *)
(* records bring no gain, so neither the equity nor its peak moves, and it *)
(* blocks every other signal of the run, whatever else is configured.      *)
DrawdownHaltIsFinal == [][phantoms > 0 => verdict' = "blocked"]_guardVars
=============================================================================
