----------------------------- MODULE MCPlatform -----------------------------
(***************************************************************************)
(* The components of the platform that share no state are checked in one   *)
(* run: `subject` is chosen at first, only its component takes steps, and  *)
(* the others stay in one initial state.  What is reached is the union,    *)
(* not the product, of what each reaches alone.                            *)
(***************************************************************************)
EXTENDS AuthSession, UserAdmin, TradeExit, TradeGuards, SignalMatch,
        Guardrails, BacktestRun, PusherBuffer, SongTrap

VARIABLE subject

Subjects == {"sessions", "users", "trade exit", "trade guards", "signal match",
             "guardrails", "backtest run", "pusher", "song trap"}

platformVars ==
  <<subject, sessionVars, userVars, tradeVars, guardVars, matchVars, guardrailVars,
    runVars, pusherVars, trapVars>>

(* The exit profiles: the rules a profile does not have are Never.         *)
NoRule == [target |-> 1000, breakEven |-> 1000, partial |-> 1000, fraction |-> 0,
           stages |-> {}, swing |-> FALSE, nyClose |-> FALSE, bars |-> 1000]
MCProfiles == {
  [NoRule EXCEPT !.target = 2],
  [NoRule EXCEPT !.target = 2, !.breakEven = 1],
  [NoRule EXCEPT !.target = 3, !.breakEven = 1, !.partial = 1, !.fraction = 1],
  [NoRule EXCEPT !.breakEven = 1, !.stages = {<<2, 1>>, <<3, 2>>}],
  [NoRule EXCEPT !.breakEven = 1, !.partial = 2, !.fraction = 1,
                 !.stages = {<<3, 2>>, <<4, 3>>, <<5, 4>>, <<6, 5>>}],
  [NoRule EXCEPT !.target = 2, !.bars = 3],
  [NoRule EXCEPT !.breakEven = 1, !.partial = 1, !.fraction = 1, !.swing = TRUE],
  [NoRule EXCEPT !.target = 2, !.breakEven = 1, !.nyClose = TRUE],
  [NoRule EXCEPT !.breakEven = 3, !.partial = 1, !.fraction = 2, !.stages = {<<2, 1>>}]}
MCPrices == -1..4

(* The guards, at most a few of them configured at a time.                 *)
NoCap == [losses |-> -1, netR |-> -1]
NoGuard == [afterLosses |-> -1, cooldown |-> 0, session |-> NoCap, day |-> NoCap,
            emaTrades |-> -1, drawdown |-> -1, spacing |-> -1,
            burst |-> -1, window |-> 0, burstCooldown |-> 0]
MCConfigs == {
  [NoGuard EXCEPT !.drawdown = 40],
  [NoGuard EXCEPT !.emaTrades = 2],
  [NoGuard EXCEPT !.afterLosses = 2, !.cooldown = 2, !.day = [losses |-> 2, netR |-> -1],
                  !.session = [losses |-> -1, netR |-> 2]],
  [NoGuard EXCEPT !.drawdown = 20, !.spacing = 1, !.burst = 2, !.window = 2,
                  !.burstCooldown = 2]}
MCGains == {-1, 1}
MCStride == <<1, 2>>

(* Entries at the next open and at the close; with a target and without.   *)
MCTrapPlans == {
  [nextOpen |-> TRUE, signalTarget |-> TRUE, rangeEnd |-> FALSE, breakEven |-> 1,
   trail |-> {<<1, 1>>, <<2, 2>>}],
  [nextOpen |-> FALSE, signalTarget |-> TRUE, rangeEnd |-> TRUE, breakEven |-> 1,
   trail |-> {<<2, 1>>}],
  [nextOpen |-> FALSE, signalTarget |-> FALSE, rangeEnd |-> FALSE, breakEven |-> 0,
   trail |-> {<<1, 4>>}]}
(* Bars open at an end of their range; the trend is asked above the        *)
(* average only.                                                           *)
MCTrapBars ==
  {b \in [zone : RsiZones, side : -1..1, ema : {-1, 1}, trend : BOOLEAN,
          low : 0..2, high : 0..2, open : 0..2, close : 0..2] :
     /\ b.low <= b.close /\ b.close <= b.high /\ b.open \in {b.low, b.high}
     /\ b.trend \/ b.side = 1}

(* One initial state is enough of a component that is not the subject.     *)
At(name, state, first) == subject = name \/ state = first

PlatformInit ==
  /\ subject \in Subjects
  /\ SessionInit /\ UserInit /\ GuardrailsInit /\ BacktestInit /\ PusherInit
  /\ TradeInit
  /\ At("trade exit", <<profile, lastBar, lows>>,
        <<CHOOSE p \in Profiles : TRUE, 1, [i \in 1..Lookback |-> 0]>>)
  /\ GuardsInit /\ At("trade guards", config, CHOOSE c \in Configs : TRUE)
  /\ MatchInit /\ At("signal match", <<mode, cap>>, <<"ALL", 1>>)
  /\ TrapInit
  /\ At("song trap", <<plan, before>>, <<CHOOSE p \in TrapPlans : TRUE, [low |-> TRUE, side |-> 0]>>)

PlatformNext ==
  \/ /\ subject = "sessions" /\ SessionNext
     /\ UNCHANGED <<subject, userVars, tradeVars, guardVars, matchVars, guardrailVars, runVars, pusherVars, trapVars>>
  \/ /\ subject = "users" /\ UserNext
     /\ UNCHANGED <<subject, sessionVars, tradeVars, guardVars, matchVars, guardrailVars, runVars, pusherVars, trapVars>>
  \/ /\ subject = "trade exit" /\ TradeNext
     /\ UNCHANGED <<subject, sessionVars, userVars, guardVars, matchVars, guardrailVars, runVars, pusherVars, trapVars>>
  \/ /\ subject = "trade guards" /\ TakeSignal
     /\ UNCHANGED <<subject, sessionVars, userVars, tradeVars, matchVars, guardrailVars, runVars, pusherVars, trapVars>>
  \/ /\ subject = "signal match" /\ OnBar
     /\ UNCHANGED <<subject, sessionVars, userVars, tradeVars, guardVars, guardrailVars, runVars, pusherVars, trapVars>>
  \/ /\ subject = "guardrails" /\ GuardrailsNext
     /\ UNCHANGED <<subject, sessionVars, userVars, tradeVars, guardVars, matchVars, runVars, pusherVars, trapVars>>
  \/ /\ subject = "backtest run" /\ BacktestNext
     /\ UNCHANGED <<subject, sessionVars, userVars, tradeVars, guardVars, matchVars, guardrailVars, pusherVars, trapVars>>
  \/ /\ subject = "pusher" /\ PusherNext
     /\ UNCHANGED <<subject, sessionVars, userVars, tradeVars, guardVars, matchVars, guardrailVars, runVars, trapVars>>
  \/ /\ subject = "song trap" /\ TrapNext
     /\ UNCHANGED <<subject, sessionVars, userVars, tradeVars, guardVars, matchVars, guardrailVars, runVars, pusherVars>>

PlatformSpec == PlatformInit /\ [][PlatformNext]_platformVars

(* The components' variables have their types, their bounds included: a    *)
(* buffer of the pusher holds no more than BUFFER_SIZE payloads, a user    *)
(* that is active has a row.                                               *)
PlatformTypeOK ==
  /\ SessionTypeOK /\ UserTypeOK /\ TradeTypeOK /\ GuardsTypeOK
  /\ MatchTypeOK /\ GuardrailsTypeOK /\ BacktestTypeOK /\ PusherTypeOK
  /\ TrapTypeOK
=============================================================================
