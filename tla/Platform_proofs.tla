--------------------------- MODULE Platform_proofs ---------------------------
(***************************************************************************)
(* The components of the platform that share no state: what the guardrails *)
(* and the market-data service promise, for all limits, ages, buffers and  *)
(* any number of bars; and that the platform runs each component as its    *)
(* module specifies it, so that whatever is proved of a component holds of *)
(* the platform.                                                           *)
(***************************************************************************)
EXTENDS MCPlatform, Access_proofs, Backtest_proofs

(***************************************************************************)
(* Guardrails.  A count that leaves room was true when the broker made it, *)
(* so the time since then bounds the time since there was room: the lag of *)
(* a call that is pending, the age and the lag of the entry of the cache.  *)
(***************************************************************************)
RoomInv ==
  /\ GuardrailsTypeOK
  /\ positions < MaxOpen => sinceRoom = 0
  /\ cache.count < MaxOpen => sinceRoom <= cache.age + cache.lag
  /\ \A s \in Slots : check[s] = "counted" /\ inquiry[s].count < MaxOpen => sinceRoom <= inquiry[s].lag

CheckSteps == {"idle", "fetch", "counted", "mirror", "kill", "order"}

(* Ages grow together, up to the oldest that is told apart.                *)
LEMMA OlderKeepsOrder ==
  ASSUME NEW a \in 0..Oldest, NEW b \in 0..Oldest, NEW c \in 0..Oldest
  PROVE  /\ Older(a) \in 0..Oldest /\ 0 \in 0..Oldest /\ 0 <= Older(a)
         /\ a <= b => Older(a) <= Older(b)
         /\ a <= b + c => Older(a) <= Older(b) + c /\ 0 <= Older(b) + c
BY GuardrailsAssumption DEF Older, Oldest

(* A decision leaves each check at one of its steps, and moves no other to *)
(* the count of the broker.                                                *)
LEMMA DecideTyped ==
  ASSUME GuardrailsTypeOK, NEW s \in Slots, NEW count, NEW finding, Decide(s, count, finding)
  PROVE  check' \in [Slots -> CheckSteps] /\ \A r \in Slots : check'[r] = "counted" => check[r] = "counted"
BY DEF Decide, GuardrailsTypeOK, CheckSteps

(* There is room, and nothing is older than it.                            *)
LEMMA RoomInit == GuardrailsInit => RoomInv
<1> SUFFICES ASSUME GuardrailsInit PROVE RoomInv
  OBVIOUS
<1>1. Oldest \in 0..Oldest /\ 0 \in 0..Oldest /\ 0 \in 0..MaxPositions
  BY GuardrailsAssumption DEF Oldest
<1>2. GuardrailsTypeOK
  <2>1. cache \in [count : 0..MaxPositions, finding : Findings, age : 0..Oldest, lag : 0..Oldest]
    BY <1>1 DEF GuardrailsInit, Findings
  <2>2. inquiry \in [Slots -> [count : 0..MaxPositions, lag : 0..Oldest]]
    BY <1>1 DEF GuardrailsInit, NoInquiry
  <2>3. killSwitch \in BOOLEAN
    BY Zenon DEF GuardrailsInit
  <2> QED
    BY <1>1, <2>1, <2>2, <2>3 DEF GuardrailsInit, GuardrailsTypeOK
<1>3. cache.count < MaxOpen => sinceRoom <= cache.age + cache.lag
  BY GuardrailsAssumption DEF GuardrailsInit, Oldest
<1> QED
  BY <1>2, <1>3 DEF GuardrailsInit, RoomInv

(* Every step keeps the ages in step with the room.                        *)
LEMMA RoomStep == RoomInv /\ [GuardrailsNext]_guardrailVars => RoomInv'
<1> SUFFICES ASSUME RoomInv, [GuardrailsNext]_guardrailVars PROVE RoomInv'
  OBVIOUS
<1> USE GuardrailsAssumption
<1>t. GuardrailsTypeOK
  BY DEF RoomInv
<1>z. 0 \in 0..Oldest
  BY DEF Oldest
<1>1. ASSUME NEW s \in Slots, StartCheck(s) \/ MirrorAnswers(s) \/ ActivateKillSwitch(s) PROVE RoomInv'
  <2>1. /\ UNCHANGED <<positions, sinceRoom, cache, inquiry>> /\ killSwitch' \in BOOLEAN
        /\ mirrorAge' = mirrorAge
    BY <1>1, <1>t DEF StartCheck, MirrorAnswers, ActivateKillSwitch, GuardrailsTypeOK
  <2>2. check' \in [Slots -> CheckSteps] /\ \A r \in Slots : check'[r] = "counted" => check[r] = "counted"
    <3>1. CASE \E count, finding : Decide(s, count, finding)
      BY <1>t, <3>1, DecideTyped
    <3>2. ASSUME NEW to \in {"idle", "fetch"}, check' = [check EXCEPT ![s] = to]
          PROVE  /\ check' \in [Slots -> CheckSteps]
                 /\ \A r \in Slots : check'[r] = "counted" => check[r] = "counted"
      BY <1>t, <3>2 DEF GuardrailsTypeOK, CheckSteps
    <3> QED
      BY <1>1, <3>1, <3>2 DEF StartCheck, MirrorAnswers, ActivateKillSwitch, Moves
  <2> QED
    BY <2>1, <2>2 DEF RoomInv, GuardrailsTypeOK, CheckSteps
<1>2. ASSUME NEW s \in Slots, BridgeAnswers(s) PROVE RoomInv'
  <2>1. PICK f \in Findings :
          cache' = [count |-> inquiry[s].count, finding |-> f, age |-> 0, lag |-> inquiry[s].lag]
    BY <1>2 DEF BridgeAnswers
  <2>2. /\ UNCHANGED <<positions, sinceRoom, killSwitch, mirrorAge>>
        /\ check[s] = "counted" /\ inquiry' = [inquiry EXCEPT ![s] = NoInquiry]
    BY <1>2 DEF BridgeAnswers
  <2>3. /\ check' \in [Slots -> CheckSteps] /\ check'[s] # "counted"
        /\ \A r \in Slots : check'[r] = "counted" => check[r] = "counted"
    <3>1. PICK f2 \in Findings : Decide(s, inquiry[s].count, f2)
      BY <1>2 DEF BridgeAnswers
    <3> QED
      BY <1>t, <3>1, DecideTyped DEF Decide, GuardrailsTypeOK
  <2>4. inquiry[s] \in [count : 0..MaxPositions, lag : 0..Oldest]
    BY <1>t DEF GuardrailsTypeOK
  <2>5. cache' \in [count : 0..MaxPositions, finding : Findings, age : 0..Oldest, lag : 0..Oldest]
    BY <1>z, <2>1, <2>4
  <2>6. inquiry' \in [Slots -> [count : 0..MaxPositions, lag : 0..Oldest]]
    BY <1>t, <1>z, <2>2 DEF GuardrailsTypeOK, NoInquiry
  <2>7. cache'.count < MaxOpen => sinceRoom' <= cache'.age + cache'.lag
    <3>1. inquiry[s].count < MaxOpen => sinceRoom <= inquiry[s].lag
      BY <2>2 DEF RoomInv
    <3>2. inquiry[s].lag \in Int /\ sinceRoom \in Int
      BY <1>t, <2>4 DEF GuardrailsTypeOK
    <3> QED
      BY <2>1, <2>2, <3>1, <3>2
  <2>8. \A r \in Slots : check'[r] = "counted" /\ inquiry'[r].count < MaxOpen => sinceRoom' <= inquiry'[r].lag
    BY <1>t, <2>2, <2>3 DEF RoomInv, GuardrailsTypeOK
  <2> QED
    BY <1>t, <2>2, <2>3, <2>5, <2>6, <2>7, <2>8 DEF RoomInv, GuardrailsTypeOK, CheckSteps
<1>3. ASSUME NEW s \in Slots, BrokerCounts(s) PROVE RoomInv'
  <2>1. /\ UNCHANGED <<positions, sinceRoom, killSwitch, cache, mirrorAge>>
        /\ check' = [check EXCEPT ![s] = "counted"]
        /\ inquiry' = [inquiry EXCEPT ![s] = [count |-> positions, lag |-> 0]]
    BY <1>3 DEF BrokerCounts, Moves
  <2>2. /\ check' \in [Slots -> CheckSteps]
        /\ inquiry' \in [Slots -> [count : 0..MaxPositions, lag : 0..Oldest]]
    BY <1>t, <1>z, <2>1 DEF GuardrailsTypeOK, CheckSteps
  <2>3. ASSUME NEW r \in Slots, check'[r] = "counted", inquiry'[r].count < MaxOpen
        PROVE  sinceRoom' <= inquiry'[r].lag
    <3>1. CASE r = s
      <4>1. inquiry'[r] = [count |-> positions, lag |-> 0]
        BY <1>t, <2>1, <3>1 DEF GuardrailsTypeOK
      <4> QED
        BY <2>1, <2>3, <4>1 DEF RoomInv
    <3>2. CASE r # s
      BY <1>t, <2>1, <2>3, <3>2 DEF RoomInv, GuardrailsTypeOK
    <3> QED
      BY <3>1, <3>2
  <2> QED
    BY <1>t, <2>1, <2>2, <2>3 DEF RoomInv, GuardrailsTypeOK, CheckSteps
<1>4. ASSUME NEW s \in Slots, BridgeFails(s) PROVE RoomInv'
  <2>1. /\ UNCHANGED <<positions, sinceRoom, killSwitch, cache, mirrorAge>>
        /\ inquiry' = [inquiry EXCEPT ![s] = NoInquiry]
        /\ \E to \in {"mirror", "idle"} : check' = [check EXCEPT ![s] = to]
    BY <1>4 DEF BridgeFails, Moves
  <2>2. inquiry' \in [Slots -> [count : 0..MaxPositions, lag : 0..Oldest]]
    BY <1>t, <1>z, <2>1 DEF GuardrailsTypeOK, NoInquiry
  <2>3. /\ check' \in [Slots -> CheckSteps] /\ check'[s] # "counted"
        /\ \A r \in Slots : check'[r] = "counted" => check[r] = "counted"
    BY <1>t, <2>1 DEF GuardrailsTypeOK, CheckSteps
  <2>4. \A r \in Slots : check'[r] = "counted" /\ inquiry'[r].count < MaxOpen => sinceRoom' <= inquiry'[r].lag
    BY <1>t, <2>1, <2>3 DEF RoomInv, GuardrailsTypeOK
  <2> QED
    BY <1>t, <2>1, <2>2, <2>3, <2>4 DEF RoomInv, GuardrailsTypeOK, CheckSteps
<1>5. ASSUME NEW s \in Slots, PlaceOrder(s) PROVE RoomInv'
  <2>1. /\ positions' \in 0..MaxPositions /\ check' = [check EXCEPT ![s] = "idle"]
        /\ sinceRoom' = IF positions' < MaxOpen THEN 0 ELSE sinceRoom
        /\ UNCHANGED <<killSwitch, cache, mirrorAge, inquiry>>
    BY <1>5, <1>t DEF PlaceOrder, Room, GuardrailsTypeOK
  <2>2. /\ check' \in [Slots -> CheckSteps]
        /\ \A r \in Slots : check'[r] = "counted" => check[r] = "counted"
    BY <1>t, <2>1 DEF GuardrailsTypeOK, CheckSteps
  <2> QED
    BY <2>1, <2>2 DEF RoomInv, GuardrailsTypeOK, Oldest, CheckSteps
<1>6. CASE PositionsMove
  <2>1. /\ positions' \in 0..MaxPositions
        /\ sinceRoom' = IF positions' < MaxOpen THEN 0 ELSE sinceRoom
        /\ UNCHANGED <<killSwitch, cache, mirrorAge, inquiry, check>>
    BY <1>6 DEF PositionsMove, Room
  <2> QED
    BY <2>1 DEF RoomInv, GuardrailsTypeOK, Oldest
<1>7. CASE SyncMirror
  BY <1>7, <1>z DEF SyncMirror, RoomInv, GuardrailsTypeOK
<1>8. CASE OperatorWrites
  BY <1>8 DEF OperatorWrites, RoomInv, GuardrailsTypeOK
<1>9. CASE Tick
  <2>1. /\ cache.age \in 0..Oldest /\ cache.lag \in 0..Oldest
        /\ mirrorAge \in 0..Oldest /\ sinceRoom \in 0..Oldest
        /\ \A s \in Slots : inquiry[s] \in [count : 0..MaxPositions, lag : 0..Oldest]
    BY <1>t DEF GuardrailsTypeOK
  <2>2. /\ cache'.age = Older(cache.age) /\ cache'.count = cache.count
        /\ cache'.finding = cache.finding /\ cache'.lag = cache.lag
        /\ mirrorAge' = Older(mirrorAge)
        /\ sinceRoom' = IF positions < MaxOpen THEN 0 ELSE Older(sinceRoom)
        /\ UNCHANGED <<positions, killSwitch, check>>
    BY <1>9, <1>t DEF Tick, GuardrailsTypeOK
  <2>3. /\ cache' \in [count : 0..MaxPositions, finding : Findings, age : 0..Oldest, lag : 0..Oldest]
        /\ mirrorAge' \in 0..Oldest /\ sinceRoom' \in 0..Oldest
    <3>1. Older(cache.age) \in 0..Oldest /\ Older(mirrorAge) \in 0..Oldest /\ Older(sinceRoom) \in 0..Oldest
      BY <2>1, OlderKeepsOrder
    <3>2. cache' = [cache EXCEPT !.age = Older(@)]
      BY <1>9 DEF Tick
    <3> QED
      BY <1>t, <1>z, <2>2, <3>1, <3>2 DEF GuardrailsTypeOK
  <2>4. cache'.count < MaxOpen => sinceRoom' <= cache'.age + cache'.lag
    <3>1. ASSUME cache.count < MaxOpen PROVE sinceRoom' <= cache'.age + cache'.lag
      <4>1. sinceRoom <= cache.age + cache.lag
        BY <3>1 DEF RoomInv
      <4>2. Older(sinceRoom) <= Older(cache.age) + cache.lag /\ 0 <= Older(cache.age) + cache.lag
        BY <2>1, <4>1, OlderKeepsOrder
      <4> QED
        BY <2>2, <4>2
    <3> QED
      BY <2>2, <3>1
  <2>5. ASSUME NEW s \in Slots
        PROVE  /\ inquiry'[s] \in [count : 0..MaxPositions, lag : 0..Oldest]
               /\ check'[s] = "counted" /\ inquiry'[s].count < MaxOpen => sinceRoom' <= inquiry'[s].lag
    <3>1. inquiry'[s] = IF check[s] = "counted" THEN [inquiry[s] EXCEPT !.lag = Older(@)] ELSE inquiry[s]
      BY <1>9 DEF Tick
    <3>2. /\ inquiry[s] \in [count : 0..MaxPositions, lag : 0..Oldest]
          /\ inquiry[s].lag \in 0..Oldest /\ Older(inquiry[s].lag) \in 0..Oldest /\ 0 <= Older(inquiry[s].lag)
      BY <2>1, OlderKeepsOrder
    <3>3. CASE check[s] # "counted"
      BY <2>2, <3>1, <3>2, <3>3
    <3>4. CASE check[s] = "counted"
      <4>1. /\ inquiry'[s] \in [count : 0..MaxPositions, lag : 0..Oldest]
            /\ inquiry'[s].count = inquiry[s].count /\ inquiry'[s].lag = Older(inquiry[s].lag)
        BY <3>1, <3>2, <3>4
      <4>2. inquiry[s].count < MaxOpen => sinceRoom <= inquiry[s].lag
        BY <3>4 DEF RoomInv
      <4>3. inquiry[s].count < MaxOpen => Older(sinceRoom) <= Older(inquiry[s].lag)
        BY <2>1, <3>2, <4>2, OlderKeepsOrder
      <4> QED
        BY <2>2, <3>2, <4>1, <4>3
    <3> QED
      BY <3>3, <3>4
  <2>6. inquiry' \in [Slots -> [count : 0..MaxPositions, lag : 0..Oldest]]
    BY <1>9, <2>5 DEF Tick
  <2>7. positions' < MaxOpen => sinceRoom' = 0
    BY <2>2
  <2> QED
    BY <1>t, <2>2, <2>3, <2>4, <2>5, <2>6, <2>7 DEF RoomInv, GuardrailsTypeOK
<1>10. CASE UNCHANGED guardrailVars
  BY <1>10 DEF guardrailVars, RoomInv, GuardrailsTypeOK
<1> QED
  BY <1>1, <1>2, <1>3, <1>4, <1>5, <1>6, <1>7, <1>8, <1>9, <1>10 DEF GuardrailsNext

(* Who is let through by a step.                                           *)
LEMMA RoomAction ==
  ASSUME RoomInv, [GuardrailsNext]_guardrailVars
  PROVE  [\A s \in Slots : check[s] # "order" /\ check'[s] = "order" =>
            \/ check[s] = "idle" /\ sinceRoom < CacheTtl + cache.lag
            \/ check[s] = "counted" /\ sinceRoom <= inquiry[s].lag
            \/ check[s] = "mirror"]_guardrailVars
<1> SUFFICES ASSUME NEW s \in Slots, check[s] # "order", check'[s] = "order"
             PROVE  \/ check[s] = "idle" /\ sinceRoom < CacheTtl + cache.lag
                    \/ check[s] = "counted" /\ sinceRoom <= inquiry[s].lag
                    \/ check[s] = "mirror"
  OBVIOUS
<1> USE GuardrailsAssumption
<1>t. GuardrailsTypeOK
  BY DEF RoomInv
<1>1. ASSUME NEW r \in Slots, NEW count, NEW finding, Decide(r, count, finding)
      PROVE  r = s /\ count < MaxOpen
  BY <1>1, <1>t DEF Decide, GuardrailsTypeOK
<1>2. ASSUME NEW r \in Slots, StartCheck(r) PROVE check[s] = "idle" /\ sinceRoom < CacheTtl + cache.lag
  <2>1. cache.age < CacheTtl /\ Decide(r, cache.count, cache.finding) /\ check[r] = "idle"
    BY <1>2, <1>t DEF StartCheck, Moves, GuardrailsTypeOK
  <2>2. cache.count < MaxOpen /\ r = s
    BY <1>1, <2>1
  <2>3. sinceRoom \in Int /\ cache.age \in Int /\ cache.lag \in Int
    BY <1>t DEF GuardrailsTypeOK
  <2> QED
    BY <2>1, <2>2, <2>3 DEF RoomInv
<1>3. ASSUME NEW r \in Slots, BridgeAnswers(r) PROVE check[s] = "counted" /\ sinceRoom <= inquiry[s].lag
  <2>1. check[r] = "counted" /\ \E f \in Findings : Decide(r, inquiry[r].count, f)
    BY <1>3 DEF BridgeAnswers
  <2>2. inquiry[r].count < MaxOpen /\ r = s
    BY <1>1, <2>1
  <2> QED
    BY <2>1, <2>2 DEF RoomInv
<1>4. ASSUME NEW r \in Slots, MirrorAnswers(r) PROVE check[s] = "mirror"
  <2>1. check[r] = "mirror"
        /\ (check' = [check EXCEPT ![r] = "idle"] \/ \E c \in 0..MaxPositions, f \in Findings : Decide(r, c, f))
    BY <1>4 DEF MirrorAnswers, Moves
  <2> QED
    BY <1>1, <1>t, <2>1 DEF GuardrailsTypeOK
<1>5. ASSUME NEW r \in Slots, \/ ActivateKillSwitch(r) \/ PlaceOrder(r)
                              \/ BrokerCounts(r) \/ BridgeFails(r)
      PROVE  FALSE
  <2>1. \E to \in {"idle", "counted", "mirror"} : check' = [check EXCEPT ![r] = to]
    BY <1>5 DEF ActivateKillSwitch, PlaceOrder, BrokerCounts, BridgeFails, Moves
  <2> QED
    BY <1>t, <2>1 DEF GuardrailsTypeOK
<1>6. ~UNCHANGED check
  OBVIOUS
<1> QED
  BY <1>2, <1>3, <1>4, <1>5, <1>6
     DEF GuardrailsNext, PositionsMove, SyncMirror, OperatorWrites, Tick, guardrailVars

(* Nobody passes the guardrails on a count of the broker that is out of    *)
(* date: there was room within the time the answer was under way and, for  *)
(* the cache, its time to live on top of that.                             *)
THEOREM RoomIsRecent == GuardrailsSpec => RoomWasRecent
<1>1. RoomInv /\ [GuardrailsNext]_guardrailVars
      => [\A s \in Slots : check[s] # "order" /\ check'[s] = "order" =>
            \/ check[s] = "idle" /\ sinceRoom < CacheTtl + cache.lag
            \/ check[s] = "counted" /\ sinceRoom <= inquiry[s].lag
            \/ check[s] = "mirror"]_guardrailVars
  BY RoomAction
<1> QED
  BY <1>1, RoomInit, RoomStep, PTL DEF GuardrailsSpec, RoomWasRecent

(***************************************************************************)
(* The pusher. Payloads are of the fetches they were made by.              *)
(***************************************************************************)
(* The bars of a payload.                                                  *)
LEMMA BarOfBounds ==
  ASSUME NEW t \in Int
  PROVE  /\ BarOf(t) \in Int /\ BarTicks * BarOf(t) <= t - 1 /\ t - 1 < BarTicks * BarOf(t) + BarTicks
         /\ t >= 1 => BarOf(t) >= 0
         /\ \A u \in Int : t <= u => BarOf(t) <= BarOf(u)
<1>1. t - 1 \in Int /\ BarTicks \in Nat \ {0}
  BY PusherAssumption
<1>2. BarOf(t) \in Int /\ BarTicks * BarOf(t) <= t - 1 /\ t - 1 < BarTicks * BarOf(t) + BarTicks
  BY <1>1, DivBounds DEF BarOf
<1>3. \A u \in Int : t <= u => BarOf(t) <= BarOf(u)
  <2> TAKE u \in Int
  <2> QED
    BY <1>1, DivMono DEF BarOf
<1>4. t >= 1 => BarOf(t) >= 0
  BY <1>1, <1>2
<1> QED
  BY <1>2, <1>3, <1>4

(* What a payload shows of a bar is a tick of its own time.                *)
LEMMA ShownTyped ==
  ASSUME NEW t \in 0..Ticks, NEW b \in 0..BarOf(t)
  PROVE  Shown(b, t) \in 1..t
<1>1. BarOf(t) \in Int /\ BarTicks * BarOf(t) <= t - 1 /\ t \in Int
  BY BarOfBounds, PusherAssumption
<1>2. BarTicks \in Nat \ {0} /\ b \in Int /\ b >= 0 /\ b <= BarOf(t)
  BY <1>1, PusherAssumption
<1>3. 0 <= BarTicks * b /\ BarTicks * b <= BarTicks * BarOf(t)
  BY <1>1, <1>2
<1>i. BarTicks * b \in Int /\ BarTicks * BarOf(t) \in Int
  BY <1>1, <1>2
<1>4. CASE BarOf(t) = b
  <2>1. 0 <= t - 1
    BY <1>1, <1>3, <1>i
  <2> QED
    BY <1>1, <1>4, <2>1 DEF Shown
<1>5. CASE BarOf(t) # b
  <2>1. BarTicks * (b + 1) <= BarTicks * BarOf(t) /\ BarTicks * (b + 1) >= 1
    BY <1>1, <1>2, <1>5
  <2>2. (b + 1) * BarTicks = BarTicks * (b + 1) /\ (b + 1) * BarTicks \in Int
    BY <1>2
  <2>3. 1 <= (b + 1) * BarTicks /\ (b + 1) * BarTicks <= t
    BY <1>1, <1>i, <2>1, <2>2
  <2> QED
    BY <1>1, <1>5, <2>2, <2>3 DEF Shown
<1> QED
  BY <1>4, <1>5

(* The bars are numbered from 0.                                           *)
LEMMA AllBarsIs == AllBars = 0..BarOf(Ticks) /\ BarOf(Ticks) \in Nat /\ BarOf(1) = 0
<1>1. Ticks \in Int /\ Ticks >= 1 /\ 1 \in Int
  BY PusherAssumption
<1>2. BarOf(Ticks) \in Int /\ BarOf(Ticks) >= 0
  BY <1>1, BarOfBounds
<1>3. BarOf(1) = 0
  <2>1. BarOf(1) \in Int /\ BarTicks * BarOf(1) <= 0 /\ BarOf(1) >= 0
    BY <1>1, BarOfBounds
  <2>2. BarTicks \in Nat \ {0}
    BY PusherAssumption
  <2> QED
    BY <2>1, <2>2
<1> QED
  BY <1>2, <1>3 DEF AllBars

(* The bars of a payload are bars of the run.                              *)
LEMMA BarsInAll ==
  ASSUME NEW p \in Payloads
  PROVE  /\ p.at \in 0..Ticks /\ p.bars \subseteq AllBars
         /\ \A b \in p.bars : b \in 0..BarOf(p.at)
<1>1. p.at \in 0..Ticks /\ p.bars \subseteq AllBars /\ \A b \in p.bars : b <= BarOf(p.at)
  BY DEF Payloads
<1>2. p.at \in Int
  BY <1>1, PusherAssumption
<1>3. BarOf(p.at) \in Int
  BY <1>2, BarOfBounds
<1> QED
  BY <1>1, <1>3, AllBarsIs

(* The newest bar of the market is a bar of the run.                       *)
LEMMA ClockBar ==
  ASSUME NEW t \in 1..Ticks
  PROVE  BarOf(t) \in AllBars /\ BarOf(t) \in Nat
<1>1. t \in Int /\ Ticks \in Int /\ 1 <= t /\ t <= Ticks
  BY PusherAssumption
<1>2. BarOf(t) \in Int /\ BarOf(t) >= 0 /\ BarOf(t) <= BarOf(Ticks)
  BY <1>1, BarOfBounds
<1> QED
  BY <1>2, AllBarsIs

(* A request writes what it has into the rows of its bars.                 *)
LEMMA UpsertTyped ==
  ASSUME stored \in [AllBars -> 0..Ticks], NEW p \in Payloads, NEW bars \in SUBSET p.bars, Upsert(p, bars)
  PROVE  stored' \in [AllBars -> 0..Ticks]
<1>1. p.at \in 0..Ticks /\ Ticks \in Nat
  BY BarsInAll, PusherAssumption
<1>2. \A b \in bars : Shown(b, p.at) \in 0..Ticks
  <2> TAKE b \in bars
  <2>1. Shown(b, p.at) \in 1..p.at
    BY <1>1, BarsInAll, ShownTyped
  <2> QED
    BY <1>1, <2>1
<1> QED
  BY <1>2 DEF Upsert

(* A request that fails leaves candles and pending requests typed.         *)
LEMMA RequestFailsTyped ==
  ASSUME stored \in [AllBars -> 0..Ticks], pending \in SUBSET Payloads, NEW p \in Payloads, RequestFails(p)
  PROVE  stored' \in [AllBars -> 0..Ticks] /\ pending' \in SUBSET Payloads
<1>1. ASSUME UpsertPart(p) PROVE stored' \in [AllBars -> 0..Ticks]
  <2>1. PICK last \in p.bars : Upsert(p, {b \in p.bars : b <= last})
    BY <1>1 DEF UpsertPart
  <2> QED
    BY <2>1, UpsertTyped
<1> QED
  BY <1>1 DEF RequestFails

(* What is fetched now is a payload.                                       *)
LEMMA FetchedTyped ==
  ASSUME NEW bars \in SUBSET AllBars, \A b \in bars : b <= BarOf(clock), clock \in 1..Ticks
  PROVE  /\ Fetched(bars) \in Payloads /\ Fetched(bars).bars = bars
         /\ Fetched(bars) = NoPayload \/ Fetched(bars).at = clock
<1>1. clock \in 0..Ticks /\ 0 \in 0..Ticks
  BY PusherAssumption
<1> QED
  BY <1>1 DEF Fetched, Payloads, NoPayload

(* r is the deque q after p was appended at its right, at its left.        *)
EndsWith(r, S, q, p) ==
  /\ r \in Seq(S) /\ Len(r) <= BufferSize /\ Len(r) >= 1 /\ r[Len(r)] = p
  /\ \E d \in {0, 1} : \A i \in 1..(Len(r) - 1) : i + d \in 1..Len(q) /\ r[i] = q[i + d]
BeginsWith(r, S, q, p) ==
  /\ r \in Seq(S) /\ Len(r) <= BufferSize /\ Len(r) >= 1 /\ r[1] = p
  /\ \A i \in 2..Len(r) : i - 1 \in 1..Len(q) /\ r[i] = q[i - 1]

(* What a full deque drops is at its other end.                            *)
LEMMA RightOf ==
  ASSUME NEW S, NEW q \in Seq(S), Len(q) <= BufferSize, NEW p \in S
  PROVE  EndsWith(AppendRight(q, p), S, q, p)
<1> USE DEF EndsWith
<1>1. Len(q) \in Nat /\ BufferSize \in Nat /\ BufferSize >= 1
  BY PusherAssumption
<1>2. CASE Len(q) = BufferSize
  <2>1. q # <<>>
    BY <1>1, <1>2
  <2>2. /\ Tail(q) \in Seq(S) /\ Len(Tail(q)) = Len(q) - 1
        /\ \A i \in 1..(Len(q) - 1) : Tail(q)[i] = q[i + 1]
    BY <2>1, HeadTailProperties
  <2>3. AppendRight(q, p) = Append(Tail(q), p)
    BY <1>2 DEF AppendRight
  <2>4. /\ AppendRight(q, p) \in Seq(S) /\ Len(AppendRight(q, p)) = Len(q)
        /\ \A i \in 1..(Len(q) - 1) : AppendRight(q, p)[i] = Tail(q)[i]
        /\ AppendRight(q, p)[Len(q)] = p
    BY <1>1, <2>2, <2>3, AppendProperties
  <2>5. \A i \in 1..(Len(q) - 1) : i + 1 \in 1..Len(q) /\ AppendRight(q, p)[i] = q[i + 1]
    BY <1>1, <2>2, <2>4
  <2> QED
    BY <1>1, <1>2, <2>4, <2>5
<1>3. CASE Len(q) # BufferSize
  <2>1. AppendRight(q, p) = Append(q, p)
    BY <1>3 DEF AppendRight
  <2>2. /\ AppendRight(q, p) \in Seq(S) /\ Len(AppendRight(q, p)) = Len(q) + 1
        /\ \A i \in 1..Len(q) : AppendRight(q, p)[i] = q[i]
        /\ AppendRight(q, p)[Len(q) + 1] = p
    BY <1>1, <2>1, AppendProperties
  <2>3. \A i \in 1..Len(q) : i + 0 \in 1..Len(q) /\ AppendRight(q, p)[i] = q[i + 0]
    BY <1>1, <2>2
  <2> QED
    BY <1>1, <1>3, <2>2, <2>3
<1> QED
  BY <1>2, <1>3

(* At its left, it drops the last.                                         *)
LEMMA LeftOf ==
  ASSUME NEW S, NEW q \in Seq(S), Len(q) <= BufferSize, NEW p \in S
  PROVE  BeginsWith(AppendLeft(q, p), S, q, p)
<1> USE DEF BeginsWith
<1> DEFINE r == IF Len(q) = BufferSize THEN SubSeq(q, 1, Len(q) - 1) ELSE q
<1>1. Len(q) \in Nat /\ BufferSize \in Nat /\ BufferSize >= 1
  BY PusherAssumption
<1>2. /\ r \in Seq(S) /\ Len(r) <= BufferSize - 1 /\ Len(r) <= Len(q) /\ Len(r) \in Nat
      /\ \A i \in 1..Len(r) : r[i] = q[i]
  <2>1. CASE Len(q) = BufferSize
    <3>1. \A i \in 1..(Len(q) - 1) : q[i] \in S
      BY <1>1, ElementOfSeq
    <3>2. /\ SubSeq(q, 1, Len(q) - 1) \in Seq(S)
          /\ Len(SubSeq(q, 1, Len(q) - 1)) = IF 1 <= Len(q) - 1 THEN Len(q) - 1 ELSE 0
          /\ \A i \in 1..(Len(q) - 1) : SubSeq(q, 1, Len(q) - 1)[i] = q[1 + i - 1]
      <4>1. Len(q) - 1 \in Int /\ 1 \in Int /\ (Len(q) - 1) - 1 + 1 = Len(q) - 1
        BY <1>1
      <4> QED
        BY <3>1, <4>1, SubSeqProperties
    <3> QED
      BY <1>1, <2>1, <3>2
  <2>2. CASE Len(q) # BufferSize
    BY <1>1, <2>2
  <2> QED
    BY <2>1, <2>2
<1>3. AppendLeft(q, p) = <<p>> \o r
  BY DEF AppendLeft
<1> HIDE DEF r
<1>4. <<p>> \in Seq(S) /\ Len(<<p>>) = 1 /\ <<p>>[1] = p
  OBVIOUS
<1>5. /\ AppendLeft(q, p) \in Seq(S) /\ Len(AppendLeft(q, p)) = 1 + Len(r)
      /\ \A i \in 1..(1 + Len(r)) : AppendLeft(q, p)[i] = IF i <= 1 THEN p ELSE r[i - 1]
  BY <1>2, <1>3, <1>4, ConcatProperties
<1> QED
  BY <1>1, <1>2, <1>5

(* Payloads are flushed, buffered and pushed in the order of their fetches.*)
FetchOrder ==
  /\ flush.at <= clock /\ live.payload.at <= clock
  /\ flush # NoPayload => flushed <= flush.at
  /\ live # IdleJob => flushed <= live.payload.at /\ flush.at <= live.payload.at
  /\ \A i \in 1..Len(buffer) :
       /\ flushed <= buffer[i].at /\ flush.at <= buffer[i].at /\ buffer[i].at <= clock
       /\ live # IdleJob => buffer[i].at <= live.payload.at
  /\ \A i, j \in 1..Len(buffer) : i <= j => buffer[i].at <= buffer[j].at

PusherInv == PusherTypeOK /\ FetchOrder

(* The idle payload and the idle job are of the types.                     *)
LEMMA NoPayloadTyped == NoPayload \in Payloads /\ IdleJob \in [payload : Payloads, attempts : 0..(RetryMax - 1)]
<1>1. 0 \in AllBars /\ 0 \in 0..Ticks /\ 0 \in 0..(RetryMax - 1)
  BY AllBarsIs, PusherAssumption
<1>2. NoPayload \in Payloads
  BY <1>1 DEF NoPayload, Payloads
<1> QED
  BY <1>1, <1>2 DEF IdleJob

(* The invariant holds at the first start.                                 *)
LEMMA PusherInitOK == PusherInit => PusherInv
<1> SUFFICES ASSUME PusherInit PROVE PusherInv
  OBVIOUS
<1>1. 0 \in 0..Ticks /\ 1 \in 1..Ticks /\ 0 \in Nat /\ BufferSize \in Nat
  BY PusherAssumption
<1>2. buffer \in Seq(Payloads) /\ Len(buffer) = 0
  BY DEF PusherInit
<1>3. PusherTypeOK
  <2>a. pending \subseteq Payloads /\ clock = 1 /\ reached = 0 /\ flushed = 0
    BY DEF PusherInit
  <2>b. givenUp \in BOOLEAN
    BY DEF PusherInit
  <2>1. pending \subseteq Payloads /\ givenUp \in BOOLEAN /\ reached \in AllBars /\ flushed \in 0..clock
    BY <2>a, <2>b, AllBarsIs
  <2>2. stored \in [AllBars -> 0..Ticks]
    BY <1>1 DEF PusherInit
  <2>3. clock \in 1..Ticks /\ phase \in {"down", "sync", "up"} /\ Len(buffer) <= BufferSize
    BY <1>1, <1>2 DEF PusherInit
  <2>4. live \in [payload : Payloads, attempts : 0..(RetryMax - 1)] /\ flush \in Payloads
    BY NoPayloadTyped DEF PusherInit
  <2> QED
    BY <1>2, <2>1, <2>2, <2>3, <2>4 DEF PusherTypeOK
<1>4. FetchOrder
  BY <1>2 DEF PusherInit, FetchOrder, NoPayload, IdleJob
<1> QED
  BY <1>3, <1>4 DEF PusherInv

(* The newest of some bars, and the newest stored candle.                  *)
LEMMA NewestIs ==
  ASSUME NEW bars \in SUBSET AllBars, bars # {}
  PROVE  Newest(bars) \in bars /\ \A b \in bars : b <= Newest(bars)
<1>1. bars \in SUBSET (0..BarOf(Ticks)) /\ BarOf(Ticks) \in Nat
  BY AllBarsIs
<1>2. \E b \in bars : \A c \in bars : c <= b
  BY <1>1, HasMax
<1> QED
  BY <1>2 DEF Newest
LEMMA LatestIs ==
  ASSUME StoredBars # {}
  PROVE  Latest \in StoredBars /\ \A b \in StoredBars : b <= Latest
<1>1. StoredBars \in SUBSET AllBars
  BY DEF StoredBars
<1> QED
  BY <1>1, NewestIs DEF Latest

(* A range of the startup begins at a bar; it ends Lag before the newest.  *)
LEMMA SyncRangeIs ==
  ASSUME NEW asked \in BOOLEAN, NEW shut \in BOOLEAN, asked => StoredBars # {}, clock \in 1..Ticks
  PROVE  /\ SyncRange(asked, shut) \in SUBSET AllBars
         /\ \/ /\ shut \/ (asked /\ BarOf(clock) <= Latest + 1)
               /\ SyncRange(asked, shut) = {}
            \/ \E first \in Int : /\ first <= BarOf(clock) - Lag
                                  /\ SyncRange(asked, shut) =
                                       {b \in AllBars : first <= b /\ b <= BarOf(clock) - Lag}
<1>1. BarOf(clock) \in Int /\ HistoricalBars \in Nat \ {0} /\ Lag \in Nat
  <2>1. clock \in Int
    BY PusherAssumption
  <2> QED
    BY <2>1, BarOfBounds, PusherAssumption
<1>2. \A first : LaggedRange(first) \in SUBSET AllBars
  BY DEF LaggedRange
<1>3. CASE shut
  BY <1>3 DEF SyncRange
<1>4. CASE ~shut /\ ~asked
  <2>1. SyncRange(asked, shut) = LaggedRange(BarOf(clock) - HistoricalBars + 1)
    BY <1>4 DEF SyncRange
  <2> DEFINE first == (BarOf(clock) - HistoricalBars + 1) - Lag
  <2>2. first \in Int /\ first <= BarOf(clock) - Lag
    BY <1>1
  <2>3. SyncRange(asked, shut) = {b \in AllBars : first <= b /\ b <= BarOf(clock) - Lag}
    BY <2>1 DEF LaggedRange
  <2> HIDE DEF first
  <2> QED
    BY <2>2, <2>3
<1>5. CASE ~shut /\ asked
  <2>1. Latest \in Int
    BY <1>5, LatestIs, AllBarsIs DEF StoredBars
  <2>2. CASE GapSince(Latest)
    <3>1. SyncRange(asked, shut) = LaggedRange(Latest)
      BY <1>5, <2>2 DEF SyncRange
    <3>2. Latest - Lag \in Int /\ Latest - Lag <= BarOf(clock) - Lag
      BY <1>1, <2>1, <2>2 DEF GapSince
    <3> QED
      BY <1>2, <3>1, <3>2 DEF LaggedRange
  <2>3. CASE ~GapSince(Latest)
    <3>1. SyncRange(asked, shut) = {}
      BY <1>5, <2>3 DEF SyncRange
    <3>2. BarOf(clock) <= Latest + 1
      BY <1>1, <2>1, <2>3 DEF GapSince
    <3> QED
      BY <1>5, <3>1, <3>2
  <2> QED
    BY <2>2, <2>3
<1> QED
  BY <1>3, <1>4, <1>5

(* A start, with an answer for the last candle or on a weekend.            *)
Starts(answered, shut) ==
  LET range == SyncRange(answered /\ StoredBars # {}, shut)
      joined == StoredBars \cup range
  IN  \E got \in SUBSET range :
        /\ phase' = IF got = {} THEN "up" ELSE "sync"
        /\ live' = [payload |-> Fetched(got), attempts |-> 0]
        /\ reached' = IF joined = {} THEN BarOf(clock) ELSE Newest(joined)
        /\ givenUp' = (givenUp \/ Overlooks(range, got, shut))
LEMMA StartIs ==
  Start => /\ phase = "down" /\ UNCHANGED <<clock, stored, flush, buffer, pending, flushed>>
           /\ \E answered \in BOOLEAN, shut \in BOOLEAN : Starts(answered, shut)
BY DEF Start, Starts

(* Every step keeps the types and the order.                               *)
LEMMA PusherStep ==
  PusherInv /\ [PusherNext]_pusherVars =>
    PusherInv' /\ (pusherVars' = pusherVars \/ flushed' >= flushed)
<1> SUFFICES ASSUME PusherInv, [PusherNext]_pusherVars
             PROVE  PusherInv' /\ (pusherVars' = pusherVars \/ flushed' >= flushed)
  OBVIOUS
<1> USE PusherAssumption
<1> DEFINE Goal == PusherInv' /\ (pusherVars' = pusherVars \/ flushed' >= flushed)
<1> SUFFICES Goal
  OBVIOUS
<1>t. /\ PusherTypeOK /\ FetchOrder /\ clock \in Nat /\ flushed \in Nat
      /\ Len(buffer) \in Nat /\ live.payload \in Payloads /\ live.attempts \in Nat
  BY DEF PusherInv, PusherTypeOK
<1>at. \A p \in Payloads : p.at \in Nat
  BY BarsInAll
<1>b. \A i \in 1..Len(buffer) : buffer[i] \in Payloads /\ buffer[i].at \in Nat
  BY <1>t, <1>at, ElementOfSeq DEF PusherTypeOK
<1>n. NoPayload.at = 0 /\ IdleJob.payload = NoPayload
  BY DEF NoPayload, IdleJob
<1>1. CASE MarketTick
  <2>1. PusherTypeOK'
    BY <1>1, <1>t DEF MarketTick, PusherTypeOK
  <2>2. FetchOrder'
    BY <1>1, <1>t, <1>at, <1>b DEF MarketTick, FetchOrder, PusherTypeOK
  <2> QED
    BY <1>1, <1>t, <2>1, <2>2 DEF MarketTick, PusherInv
<1>2. CASE LateWrite
  <2>1. PICK p \in pending : Upsert(p, p.bars) /\ pending' = pending \ {p}
    BY <1>2 DEF LateWrite
  <2>2. stored' \in [AllBars -> 0..Ticks]
    BY <1>t, <2>1, UpsertTyped DEF PusherTypeOK
  <2>3. UNCHANGED <<clock, phase, live, flush, buffer, reached, flushed, givenUp>>
    BY <1>2 DEF LateWrite
  <2> QED
    BY <1>t, <2>1, <2>2, <2>3 DEF PusherInv, PusherTypeOK, FetchOrder
<1>3. CASE Start
  <2>1. PICK answered \in BOOLEAN, shut \in BOOLEAN : Starts(answered, shut)
    BY <1>3, StartIs
  <2> DEFINE asked == answered /\ StoredBars # {}
             wanted == SyncRange(asked, shut)
  <2>2. asked \in BOOLEAN /\ (asked => StoredBars # {})
    OBVIOUS
  <2>3. /\ wanted \in SUBSET AllBars /\ \A b \in wanted : b <= BarOf(clock)
        /\ BarOf(clock) \in Nat
    <3>1. clock \in 1..Ticks /\ clock \in Int /\ Lag \in Nat
      BY <1>t DEF PusherTypeOK
    <3>2. BarOf(clock) \in Int /\ BarOf(clock) >= 0
      BY <3>1, BarOfBounds
    <3>3. \A b \in AllBars : b \in Int
      BY AllBarsIs
    <3> HIDE DEF asked
    <3> QED
      BY <2>2, <3>1, <3>2, <3>3, SyncRangeIs
  <2> HIDE DEF wanted
  <2>a. PICK got \in SUBSET wanted :
          /\ phase' = IF got = {} THEN "up" ELSE "sync"
          /\ live' = [payload |-> Fetched(got), attempts |-> 0]
          /\ reached' = IF StoredBars \cup wanted = {} THEN BarOf(clock) ELSE Newest(StoredBars \cup wanted)
          /\ givenUp' = (givenUp \/ Overlooks(wanted, got, shut))
    BY <2>1 DEF wanted, asked, Starts
  <2> DEFINE range == Fetched(got)
  <2>b. range \in Payloads /\ (range = NoPayload \/ range.at = clock)
    BY <1>t, <2>3, FetchedTyped DEF PusherTypeOK
  <2>4. live' = [payload |-> range, attempts |-> 0] /\ phase' \in {"down", "sync", "up"} /\ givenUp' \in BOOLEAN
    BY <2>a
  <2>5. UNCHANGED <<clock, stored, flush, buffer, pending, flushed>>
    BY <1>3 DEF Start
  <2>c. reached' \in AllBars
    <3>1. StoredBars \cup wanted \in SUBSET AllBars
      BY <2>3 DEF StoredBars
    <3> QED
      BY <1>t, <2>a, <3>1, NewestIs, ClockBar DEF PusherTypeOK
  <2> HIDE DEF range, asked
  <2>6. /\ live' \in [payload : Payloads, attempts : 0..(RetryMax - 1)]
        /\ live' # IdleJob => live'.payload.at = clock
        /\ live'.payload.at <= clock
    BY <1>t, <1>n, <2>b, <2>4 DEF IdleJob
  <2>7. PusherTypeOK'
    BY <1>t, <2>4, <2>5, <2>6, <2>c DEF PusherTypeOK
  <2>8. FetchOrder'
    BY <1>t, <1>b, <2>5, <2>6 DEF FetchOrder, PusherTypeOK
  <2> QED
    BY <1>t, <2>5, <2>7, <2>8 DEF PusherInv
<1>4. CASE FetchLatest
  <2>a. clock \in Int /\ FetchBars \in Nat \ {0, 1}
    BY <1>t
  <2>b. BarOf(clock) \in Int
    BY <2>a, BarOfBounds
  <2> DEFINE bars == {b \in AllBars : BarOf(clock) - FetchBars < b /\ b <= BarOf(clock)}
             p == Fetched(bars)
  <2>1. bars \in SUBSET AllBars /\ BarOf(clock) \in bars /\ \A b \in bars : b <= BarOf(clock)
    BY <1>t, <2>a, <2>b, ClockBar DEF PusherTypeOK
  <2>2. p \in Payloads /\ p.at = clock
    <3>1. p.bars = bars /\ p \in Payloads /\ (p = NoPayload \/ p.at = clock)
      BY <1>t, <2>1, FetchedTyped DEF PusherTypeOK
    <3>2. p # NoPayload
      BY <2>1, <3>1 DEF NoPayload
    <3> QED
      BY <3>1, <3>2
  <2>3. /\ live' = [payload |-> p, attempts |-> 0] /\ reached' = BarOf(clock)
        /\ UNCHANGED <<clock, stored, phase, flush, buffer, pending, flushed, givenUp>>
    BY <1>4 DEF FetchLatest
  <2>c. reached' \in AllBars
    BY <2>1, <2>3
  <2> HIDE DEF p
  <2>4. live' \in [payload : Payloads, attempts : 0..(RetryMax - 1)] /\ live'.payload.at = clock
    BY <2>2, <2>3
  <2>5. PusherTypeOK'
    BY <1>t, <2>3, <2>4, <2>c DEF PusherTypeOK
  <2>6. FetchOrder'
    BY <1>t, <1>b, <2>3, <2>4 DEF FetchOrder, PusherTypeOK
  <2> QED
    BY <1>t, <2>3, <2>5, <2>6 DEF PusherInv
<1>5. CASE PushSucceeds
  <2>1. stored' \in [AllBars -> 0..Ticks]
    BY <1>5, <1>t, UpsertTyped DEF PushSucceeds, PusherTypeOK
  <2>2. /\ live' = IdleJob /\ phase' = "up"
        /\ UNCHANGED <<clock, flush, buffer, pending, reached, flushed, givenUp>>
    BY <1>5 DEF PushSucceeds
  <2>3. PusherTypeOK'
    BY <1>t, <2>1, <2>2, NoPayloadTyped DEF PusherTypeOK
  <2>4. FetchOrder'
    BY <1>t, <1>n, <2>2 DEF FetchOrder
  <2> QED
    BY <1>t, <2>2, <2>3, <2>4 DEF PusherInv
<1>6. CASE PushFails
  <2>1. stored' \in [AllBars -> 0..Ticks] /\ pending' \in SUBSET Payloads
    BY <1>6, <1>t, RequestFailsTyped DEF PushFails, PusherTypeOK
  <2>2. live # IdleJob /\ UNCHANGED <<clock, flush, reached, flushed>>
    BY <1>6 DEF PushFails
  <2>3. CASE live.attempts + 1 < RetryMax
    <3>1. UNCHANGED <<phase, buffer, givenUp>> /\ live' = [live EXCEPT !.attempts = @ + 1]
      BY <1>6, <2>3 DEF PushFails
    <3>2. live' = [payload |-> live.payload, attempts |-> live.attempts + 1]
      BY <1>t, <3>1 DEF PusherTypeOK
    <3>3. live.attempts + 1 \in 0..(RetryMax - 1)
      BY <1>t, <2>3
    <3>4. live' \in [payload : Payloads, attempts : 0..(RetryMax - 1)] /\ live'.payload = live.payload
      BY <1>t, <3>2, <3>3
    <3>5. PusherTypeOK'
      BY <1>t, <2>1, <2>2, <3>1, <3>4 DEF PusherTypeOK
    <3>6. FetchOrder'
      BY <1>t, <2>2, <3>1, <3>4 DEF FetchOrder
    <3> QED
      BY <1>t, <2>2, <3>5, <3>6 DEF PusherInv
  <2>4. CASE ~(live.attempts + 1 < RetryMax)
    <3> DEFINE p == live.payload
    <3>1. /\ live' = IdleJob /\ phase' = "up" /\ buffer' = AppendRight(buffer, p)
          /\ givenUp' = (givenUp \/ Full)
      BY <1>6, <2>4 DEF PushFails
    <3>2. /\ buffer' \in Seq(Payloads) /\ Len(buffer') <= BufferSize /\ Len(buffer') >= 1
          /\ buffer'[Len(buffer')] = p /\ Len(buffer') \in Nat
          /\ \E d \in {0, 1} : \A i \in 1..(Len(buffer') - 1) :
               i + d \in 1..Len(buffer) /\ buffer'[i] = buffer[i + d]
      <4>1. buffer \in Seq(Payloads) /\ Len(buffer) <= BufferSize /\ p \in Payloads
        BY <1>t DEF PusherTypeOK
      <4> HIDE DEF p
      <4>2. EndsWith(buffer', Payloads, buffer, p)
        BY <3>1, <4>1, RightOf
      <4> QED
        BY <4>2 DEF EndsWith
    <3>3. PusherTypeOK'
      BY <1>t, <2>1, <2>2, <3>1, <3>2, NoPayloadTyped DEF PusherTypeOK
    <3>4. FetchOrder'
      <4>1. PICK d \in {0, 1} : \A i \in 1..(Len(buffer') - 1) :
               i + d \in 1..Len(buffer) /\ buffer'[i] = buffer[i + d]
        BY <3>2
      <4>2. /\ p.at \in Nat /\ p.at <= clock /\ flushed <= p.at /\ flush.at <= p.at
            /\ \A i \in 1..Len(buffer) : buffer[i].at <= p.at
        BY <1>t, <1>at, <2>2 DEF FetchOrder
      <4> HIDE DEF p
      <4>3. ASSUME NEW i \in 1..Len(buffer')
            PROVE  /\ flushed <= buffer'[i].at /\ flush.at <= buffer'[i].at /\ buffer'[i].at <= p.at
                   /\ buffer'[i].at \in Nat
        <5>1. i = Len(buffer') \/ i \in 1..(Len(buffer') - 1)
          BY <3>2
        <5> QED
          BY <1>t, <1>b, <3>2, <4>1, <4>2, <5>1 DEF FetchOrder
      <4>4. ASSUME NEW i \in 1..Len(buffer'), NEW j \in 1..Len(buffer'), i <= j
            PROVE  buffer'[i].at <= buffer'[j].at
        <5>1. CASE j = Len(buffer')
          BY <3>2, <4>3, <5>1
        <5>2. CASE j # Len(buffer')
          <6>1. i \in 1..(Len(buffer') - 1) /\ j \in 1..(Len(buffer') - 1) /\ i + d <= j + d
            BY <3>2, <4>4, <5>2
          <6> QED
            BY <1>t, <4>1, <6>1 DEF FetchOrder
        <5> QED
          BY <5>1, <5>2
      <4>5. live' = IdleJob /\ live'.payload.at = 0 /\ UNCHANGED <<clock, flush, flushed>>
        BY <1>n, <2>2, <3>1
      <4> QED
        <5>1. \A i \in 1..Len(buffer') : buffer'[i].at <= clock
          BY <1>t, <4>2, <4>3
        <5> QED
          BY <1>t, <4>3, <4>4, <4>5, <5>1 DEF FetchOrder
    <3> QED
      BY <1>t, <2>2, <3>3, <3>4 DEF PusherInv
  <2> QED
    BY <2>3, <2>4
<1>7. CASE FlushTakes
  <2>1. /\ flush' = Head(buffer) /\ buffer' = Tail(buffer) /\ buffer # <<>>
        /\ UNCHANGED <<clock, stored, phase, live, pending, reached, flushed, givenUp>>
    BY <1>7 DEF FlushTakes
  <2>2. /\ Head(buffer) = buffer[1] /\ Head(buffer) \in Payloads /\ Len(buffer) >= 1
        /\ Tail(buffer) \in Seq(Payloads) /\ Len(Tail(buffer)) = Len(buffer) - 1
        /\ \A i \in 1..Len(Tail(buffer)) : Tail(buffer)[i] = buffer[i + 1]
    BY <1>t, <2>1, HeadTailProperties DEF PusherTypeOK
  <2>3. PusherTypeOK'
    BY <1>t, <2>1, <2>2 DEF PusherTypeOK
  <2>4. FetchOrder'
    <3>1. /\ 1 \in 1..Len(buffer)
          /\ \A i \in 1..Len(buffer') : i + 1 \in 1..Len(buffer) /\ buffer'[i] = buffer[i + 1]
      BY <1>t, <2>1, <2>2
    <3>2. flush' = buffer[1]
      BY <2>1, <2>2
    <3> HIDE <2>2
    <3> QED
      BY <1>t, <1>b, <2>1, <3>1, <3>2 DEF FetchOrder
  <2> QED
    BY <1>t, <2>1, <2>3, <2>4 DEF PusherInv
<1>8. CASE FlushSucceeds
  <2>1. stored' \in [AllBars -> 0..Ticks]
    BY <1>8, <1>t, UpsertTyped DEF FlushSucceeds, PusherTypeOK
  <2>2. /\ flush # NoPayload /\ flushed' = flush.at /\ flush' = NoPayload
        /\ UNCHANGED <<clock, phase, live, buffer, pending, reached, givenUp>>
    BY <1>8 DEF FlushSucceeds
  <2>3. flush.at \in Nat /\ flush.at <= clock /\ flushed <= flush.at
    BY <1>t, <1>at, <2>2 DEF PusherTypeOK, FetchOrder
  <2>4. PusherTypeOK'
    BY <1>t, <2>1, <2>2, <2>3, NoPayloadTyped DEF PusherTypeOK
  <2>5. FetchOrder'
    BY <1>t, <1>at, <1>b, <1>n, <2>2, <2>3 DEF FetchOrder
  <2> QED
    BY <2>2, <2>3, <2>4, <2>5 DEF PusherInv
<1>9. CASE FlushFails
  <2>1. stored' \in [AllBars -> 0..Ticks] /\ pending' \in SUBSET Payloads
    BY <1>9, <1>t, RequestFailsTyped DEF FlushFails, PusherTypeOK
  <2>2. /\ flush # NoPayload /\ buffer' = AppendLeft(buffer, flush) /\ flush' = NoPayload
        /\ flushed' \in {flush.at, flushed} /\ givenUp' = (givenUp \/ Full)
        /\ UNCHANGED <<clock, phase, live, reached>>
    BY <1>9 DEF FlushFails
  <2>3. flush.at \in Nat /\ flush.at <= clock /\ flushed <= flush.at
    BY <1>t, <1>at, <2>2 DEF PusherTypeOK, FetchOrder
  <2>4. /\ buffer' \in Seq(Payloads) /\ Len(buffer') <= BufferSize /\ Len(buffer') >= 1
        /\ buffer'[1] = flush /\ Len(buffer') \in Nat
        /\ \A i \in 2..Len(buffer') : i - 1 \in 1..Len(buffer) /\ buffer'[i] = buffer[i - 1]
    <3>1. buffer \in Seq(Payloads) /\ Len(buffer) <= BufferSize /\ flush \in Payloads
      BY <1>t DEF PusherTypeOK
    <3>2. BeginsWith(buffer', Payloads, buffer, flush)
      BY <2>2, <3>1, LeftOf
    <3> QED
      BY <3>2 DEF BeginsWith
  <2>5. flushed' \in Nat /\ flushed <= flushed' /\ flushed' <= flush.at
    BY <1>t, <2>2, <2>3
  <2>6. PusherTypeOK'
    BY <1>t, <2>1, <2>2, <2>3, <2>4, <2>5, NoPayloadTyped DEF PusherTypeOK
  <2>7. ASSUME NEW i \in 1..Len(buffer')
        PROVE  /\ flush.at <= buffer'[i].at /\ buffer'[i].at \in Nat /\ buffer'[i].at <= clock
               /\ live # IdleJob => buffer'[i].at <= live.payload.at
    <3>1. CASE i = 1
      BY <1>t, <2>3, <2>4, <3>1, <2>2 DEF FetchOrder
    <3>2. CASE i # 1
      <4>1. i \in 2..Len(buffer')
        BY <2>4, <3>2
      <4>2. i - 1 \in 1..Len(buffer) /\ buffer'[i] = buffer[i - 1]
        BY <2>4, <4>1
      <4>3. /\ flush.at <= buffer[i - 1].at /\ buffer[i - 1].at <= clock
            /\ live # IdleJob => buffer[i - 1].at <= live.payload.at
        BY <1>t, <4>2 DEF FetchOrder
      <4> QED
        BY <1>b, <4>2, <4>3
    <3> QED
      BY <3>1, <3>2
  <2>8. ASSUME NEW i \in 1..Len(buffer'), NEW j \in 1..Len(buffer'), i <= j
        PROVE  buffer'[i].at <= buffer'[j].at
    <3>1. CASE i = 1
      BY <2>4, <2>7, <3>1
    <3>2. CASE i # 1
      <4>1. i \in 2..Len(buffer') /\ j \in 2..Len(buffer') /\ i - 1 <= j - 1
        BY <2>4, <2>8, <3>2
      <4> QED
        BY <1>t, <2>4, <4>1 DEF FetchOrder
    <3> QED
      BY <3>1, <3>2
  <2>9. FetchOrder'
    <3>1. flush'.at = 0 /\ flush' = NoPayload
      BY <1>n, <2>2
    <3>2. \A i \in 1..Len(buffer') : flushed' <= buffer'[i].at /\ flush'.at <= buffer'[i].at
      BY <2>3, <2>5, <2>7, <3>1
    <3>3. live'.payload.at <= clock' /\ (live' # IdleJob => flushed' <= live'.payload.at /\ flush'.at <= live'.payload.at)
      BY <1>t, <1>at, <2>2, <2>3, <2>5, <3>1 DEF FetchOrder
    <3> QED
      BY <1>t, <2>2, <2>7, <2>8, <3>1, <3>2, <3>3 DEF FetchOrder
  <2> QED
    BY <2>5, <2>6, <2>9, <1>t DEF PusherInv
<1>10. CASE Stop
  <2>1. /\ phase' = "down" /\ live' = IdleJob /\ flush' = NoPayload /\ buffer' = <<>>
        /\ givenUp' \in BOOLEAN /\ UNCHANGED <<clock, stored, pending, reached, flushed>>
    BY <1>10 DEF Stop
  <2>2. buffer' \in Seq(Payloads) /\ Len(buffer') = 0
    BY <2>1
  <2>3. PusherTypeOK'
    BY <1>t, <2>1, <2>2, NoPayloadTyped DEF PusherTypeOK
  <2>4. FetchOrder'
    BY <1>t, <1>n, <2>1, <2>2 DEF FetchOrder
  <2> QED
    BY <1>t, <2>1, <2>3, <2>4 DEF PusherInv
<1>11. CASE UNCHANGED pusherVars
  BY <1>11, <1>t DEF pusherVars, PusherInv, PusherTypeOK, FetchOrder
<1> QED
  BY <1>1, <1>2, <1>3, <1>4, <1>5, <1>6, <1>7, <1>8, <1>9, <1>10, <1>11 DEF PusherNext

(* Two flushes do not undo each other: payloads are written in the order   *)
(* of their fetches, whatever fails, is pushed or dropped in between.      *)
THEOREM FlushesAreInOrder == PusherSpec => FlushInOrder
<1>1. PusherInv /\ [PusherNext]_pusherVars => PusherInv'
  BY PusherStep
<1>2. PusherInv /\ [PusherNext]_pusherVars => [flushed' >= flushed]_pusherVars
  BY PusherStep
<1> QED
  BY <1>1, <1>2, PusherInitOK, PTL DEF PusherSpec, FlushInOrder

(***************************************************************************)
(* Holes.  Bars are covered if they are stored or held by the service.     *)
(* While it runs, what is covered has no hole up to the last fetch, late   *)
(* requests included, and the live job is in time for the next one; while  *)
(* it is down, what is stored has none, and what is late only prolongs it. *)
(***************************************************************************)
Covered == StoredBars \cup Held
PendingBars == UNION {p.bars : p \in pending}
BarsOf(q) == UNION {q[i].bars : i \in 1..Len(q)}

ServiceRuns ==
  /\ reached <= BarOf(clock) /\ BarOf(clock) - reached <= FetchBars
  /\ PendingBars \subseteq Covered
  /\ \A c \in Covered : c <= reached
  /\ \A a \in Covered, b \in AllBars : a < b /\ b <= reached => b \in Covered
ServiceDown ==
  /\ live = IdleJob /\ flush = NoPayload /\ buffer = <<>>
  /\ \A a, c \in StoredBars \cup PendingBars, b \in AllBars : a < b /\ b < c => b \in StoredBars

NothingLost ==
  /\ \A c \in Covered \cup PendingBars : c <= BarOf(clock)
  /\ phase = "down" => ServiceDown
  /\ phase # "down" => ServiceRuns

HoleInv == PusherInv /\ (~givenUp => NothingLost)

(* Nothing that is covered is missing.                                     *)
LEMMA NothingLostMeansNoHole == HoleInv => NoHole
<1> SUFFICES ASSUME HoleInv, ~givenUp, NEW b \in AllBars \ (StoredBars \cup Held),
                    NEW a \in StoredBars, NEW c \in StoredBars, a < b, b < c
             PROVE  FALSE
  BY DEF NoHole
<1>1. NothingLost
  BY DEF HoleInv
<1>2. CASE phase = "down"
  BY <1>1, <1>2 DEF NothingLost, ServiceDown
<1>3. CASE phase # "down"
  <2>1. c <= reached /\ a \in Covered /\ b \notin Covered
    BY <1>1, <1>3 DEF NothingLost, ServiceRuns, Covered
  <2>2. b \in Int /\ c \in Int /\ reached \in Int
    BY AllBarsIs DEF StoredBars, HoleInv, PusherInv, PusherTypeOK
  <2>3. b <= reached
    BY <2>1, <2>2
  <2> QED
    BY <1>1, <1>3, <2>1, <2>3 DEF NothingLost, ServiceRuns
<1> QED
  BY <1>2, <1>3

(* The idle payload has no bars; what a job or the buffer holds.           *)
LEMMA NoBars == NoPayload.bars = {}
BY DEF NoPayload

(* What the service holds, by its jobs and its buffer.                     *)
LEMMA HeldIs ==
  /\ Held = live.payload.bars \cup flush.bars \cup BarsOf(buffer)
  /\ Held' = live'.payload.bars \cup flush'.bars \cup BarsOf(buffer')
BY DEF Held, HeldPayloads, BarsOf

(* A deque that is not full takes a payload and keeps the others.          *)
LEMMA BarsAppended ==
  ASSUME NEW q \in Seq(Payloads), NEW p \in Payloads, Len(q) # BufferSize
  PROVE  /\ BarsOf(AppendRight(q, p)) = BarsOf(q) \cup p.bars
         /\ BarsOf(AppendLeft(q, p)) = BarsOf(q) \cup p.bars
<1>1. Len(q) \in Nat
  OBVIOUS
<1>2. BarsOf(AppendRight(q, p)) = BarsOf(q) \cup p.bars
  <2> DEFINE r == Append(q, p)
  <2>1. AppendRight(q, p) = r
    BY DEF AppendRight
  <2>2. Len(r) = Len(q) + 1 /\ (\A i \in 1..Len(q) : r[i] = q[i]) /\ r[Len(q) + 1] = p
    BY AppendProperties
  <2> HIDE DEF r
  <2>3. BarsOf(r) = UNION {r[i].bars : i \in 1..(Len(q) + 1)}
    BY <2>2 DEF BarsOf
  <2>4. \A i : i \in 1..(Len(q) + 1) <=> i \in 1..Len(q) \/ i = Len(q) + 1
    BY <1>1
  <2>5. ASSUME NEW b PROVE b \in BarsOf(r) <=> b \in BarsOf(q) \cup p.bars
    <3>1. b \in BarsOf(r) <=> \E i \in 1..(Len(q) + 1) : b \in r[i].bars
      BY <2>3
    <3>2. b \in BarsOf(q) <=> \E i \in 1..Len(q) : b \in q[i].bars
      BY DEF BarsOf
    <3> QED
      BY <2>2, <2>4, <3>1, <3>2
  <2> QED
    BY <2>1, <2>5
<1>3. BarsOf(AppendLeft(q, p)) = BarsOf(q) \cup p.bars
  <2> DEFINE r == <<p>> \o q
  <2>1. AppendLeft(q, p) = r
    BY DEF AppendLeft
  <2>2. Len(r) = Len(q) + 1 /\ \A i \in 1..(Len(q) + 1) : r[i] = IF i <= 1 THEN p ELSE q[i - 1]
    <3>1. <<p>> \in Seq(Payloads) /\ Len(<<p>>) = 1 /\ <<p>>[1] = p
      OBVIOUS
    <3>2. Len(r) = 1 + Len(q) /\ \A i \in 1..(1 + Len(q)) : r[i] = IF i <= 1 THEN <<p>>[i] ELSE q[i - 1]
      BY <3>1, ConcatProperties
    <3> HIDE DEF r
    <3> QED
      BY <1>1, <3>1, <3>2
  <2> HIDE DEF r
  <2>3. BarsOf(r) = UNION {r[i].bars : i \in 1..(Len(q) + 1)}
    BY <2>2 DEF BarsOf
  <2>4. /\ 1 \in 1..(Len(q) + 1) /\ r[1] = p
        /\ \A i \in 1..Len(q) : i + 1 \in 1..(Len(q) + 1) /\ r[i + 1] = q[i]
        /\ \A i \in 1..(Len(q) + 1) : i = 1 \/ (i - 1 \in 1..Len(q) /\ r[i] = q[i - 1])
    BY <1>1, <2>2
  <2>5. ASSUME NEW b PROVE b \in BarsOf(r) <=> b \in BarsOf(q) \cup p.bars
    <3>1. b \in BarsOf(r) <=> \E i \in 1..(Len(q) + 1) : b \in r[i].bars
      BY <2>3
    <3>2. b \in BarsOf(q) <=> \E i \in 1..Len(q) : b \in q[i].bars
      BY DEF BarsOf
    <3> QED
      BY <2>4, <3>1, <3>2
  <2> QED
    BY <2>1, <2>5
<1> QED
  BY <1>2, <1>3

(* What the flush job takes from the buffer it holds itself.               *)
LEMMA BarsTaken ==
  ASSUME NEW q \in Seq(Payloads), q # <<>>
  PROVE  BarsOf(q) = Head(q).bars \cup BarsOf(Tail(q))
<1>1. Len(q) \in Nat /\ Len(q) >= 1 /\ Head(q) = q[1] /\ Len(Tail(q)) = Len(q) - 1
      /\ \A i \in 1..(Len(q) - 1) : Tail(q)[i] = q[i + 1]
  BY HeadTailProperties, EmptySeq
<1>2. /\ 1 \in 1..Len(q)
      /\ \A i \in 1..(Len(q) - 1) : i + 1 \in 1..Len(q) /\ Tail(q)[i] = q[i + 1]
      /\ \A i \in 1..Len(q) : i = 1 \/ (i - 1 \in 1..(Len(q) - 1) /\ Tail(q)[i - 1] = q[i])
  BY <1>1
<1>3. ASSUME NEW b PROVE b \in BarsOf(q) <=> b \in Head(q).bars \cup BarsOf(Tail(q))
  <2>1. b \in BarsOf(Tail(q)) <=> \E i \in 1..(Len(q) - 1) : b \in Tail(q)[i].bars
    BY <1>1 DEF BarsOf
  <2>2. b \in BarsOf(q) <=> \E i \in 1..Len(q) : b \in q[i].bars
    BY DEF BarsOf
  <2> QED
    BY <1>1, <1>2, <2>1, <2>2
<1> QED
  BY <1>3

(* What a write stores, and what a request that fails may have stored.     *)
LEMMA Written ==
  ASSUME NEW p \in Payloads, NEW bars \in SUBSET p.bars, Upsert(p, bars)
  PROVE  StoredBars' = StoredBars \cup bars
<1>1. p.at \in 0..Ticks
  BY BarsInAll
<1>2. \A b \in bars : b \in AllBars /\ Shown(b, p.at) # 0
  <2> SUFFICES ASSUME NEW b \in bars PROVE b \in AllBars /\ Shown(b, p.at) # 0
    OBVIOUS
  <2>1. b \in AllBars /\ b \in 0..BarOf(p.at)
    BY BarsInAll
  <2>2. Shown(b, p.at) \in 1..p.at
    BY <1>1, <2>1, ShownTyped
  <2> QED
    BY <1>1, <2>1, <2>2
<1>3. \A b \in AllBars : stored'[b] = IF b \in bars THEN Shown(b, p.at) ELSE stored[b]
  BY DEF Upsert
<1> QED
  BY <1>2, <1>3 DEF StoredBars

(* A request that fails stores a part at most, or is pending.              *)
LEMMA FailedRequest ==
  ASSUME NEW p \in Payloads, RequestFails(p)
  PROVE  /\ StoredBars \subseteq StoredBars' /\ StoredBars' \subseteq StoredBars \cup p.bars
         /\ PendingBars' \subseteq PendingBars \cup p.bars
<1>1. CASE UNCHANGED <<stored, pending>>
  BY <1>1 DEF StoredBars, PendingBars
<1>2. CASE UpsertPart(p) /\ pending' = pending
  <2>1. PICK last \in p.bars : Upsert(p, {b \in p.bars : b <= last})
    BY <1>2 DEF UpsertPart
  <2>2. StoredBars' = StoredBars \cup {b \in p.bars : b <= last}
    BY <2>1, Written
  <2> QED
    BY <1>2, <2>2 DEF PendingBars
<1>3. CASE pending' = pending \cup {p} /\ UNCHANGED stored
  BY <1>3 DEF StoredBars, PendingBars
<1> QED
  BY <1>1, <1>2, <1>3 DEF RequestFails

(* The numbers of bars that the steps compare.                             *)
LEMMA BarsAre ==
  ASSUME PusherTypeOK
  PROVE  /\ BarOf(clock) \in Nat /\ BarOf(clock) \in AllBars
         /\ reached \in Nat /\ FetchBars \in Nat \ {0, 1} /\ Lag \in Nat
         /\ \A b \in AllBars : b \in Int /\ b >= 0
BY ClockBar, AllBarsIs, PusherAssumption DEF PusherTypeOK

(* A step of the running service that keeps what is covered.               *)
LEMMA CoveredStays ==
  ASSUME NothingLost, phase # "down", phase' # "down", Covered' = Covered,
         PendingBars' \subseteq Covered, UNCHANGED <<clock, reached>>
  PROVE  NothingLost'
<1>1. ServiceRuns
  BY DEF NothingLost
<1>2. ServiceRuns'
  BY <1>1 DEF ServiceRuns
<1> QED
  BY <1>2 DEF NothingLost

(* The service starts: the gap since the newest stored bar is fetched, or  *)
(* is left to the live job, with what the range leaves out at its end.     *)
LEMMA StartLosesNothing ==
  ASSUME PusherTypeOK, NothingLost, Start, ~givenUp', Lag <= FetchBars
  PROVE  NothingLost'
<1>1. PICK answered \in BOOLEAN, shut \in BOOLEAN : Starts(answered, shut)
  BY StartIs
<1> DEFINE asked == answered /\ StoredBars # {}
           range == SyncRange(asked, shut)
           joined == StoredBars \cup range
           new == BarOf(clock)
<1>2. phase = "down" /\ ServiceDown /\ UNCHANGED <<clock, stored, flush, buffer, pending, flushed>>
  BY StartIs DEF NothingLost
<1>3. /\ phase' # "down" /\ live' = [payload |-> Fetched(range), attempts |-> 0]
      /\ reached' = IF joined = {} THEN new ELSE Newest(joined)
      /\ ~Overlooks(range, range, shut)
  BY <1>1 DEF Starts, Overlooks
<1>4. /\ \A b \in AllBars : b \in Int /\ b >= 0
      /\ new \in Nat /\ new \in AllBars /\ FetchBars \in Nat \ {0, 1} /\ Lag \in Nat
      /\ clock \in 1..Ticks
  BY BarsAre DEF PusherTypeOK
<1>5. StoredBars' = StoredBars /\ PendingBars' = PendingBars /\ PendingBars \subseteq StoredBars
  BY <1>2, <1>3 DEF StoredBars, PendingBars, Overlooks
<1>6. /\ range \in SUBSET AllBars
      /\ \/ /\ shut \/ (asked /\ new <= Latest + 1)
            /\ range = {}
         \/ \E first \in Int : first <= new - Lag /\ range = {b \in AllBars : first <= b /\ b <= new - Lag}
  <2>1. asked \in BOOLEAN /\ (asked => StoredBars # {})
    OBVIOUS
  <2> HIDE DEF asked
  <2> QED
    BY <1>4, <2>1, SyncRangeIs
<1>7. Covered' = joined
  <2>1. BarsOf(buffer') = {} /\ flush'.bars = {}
    BY <1>2, NoBars DEF ServiceDown, BarsOf
  <2>2. live'.payload.bars = range
    BY <1>3 DEF Fetched, NoPayload
  <2> HIDE DEF range
  <2> QED
    BY <1>5, <2>1, <2>2, HeldIs DEF Covered
<1>8. /\ \A a, c \in StoredBars, b \in AllBars : a < b /\ b < c => b \in StoredBars
      /\ \A a, c \in range, b \in AllBars : a < b /\ b < c => b \in range
      /\ \A c \in joined : c \in AllBars /\ c <= new
  <2>1. \A a, c \in StoredBars, b \in AllBars : a < b /\ b < c => b \in StoredBars
    BY <1>2 DEF ServiceDown
  <2>2. \A c \in StoredBars : c \in AllBars /\ c <= new
    BY DEF NothingLost, Covered, StoredBars
  <2>3. CASE range = {}
    BY <2>1, <2>2, <2>3
  <2>4. CASE \E first \in Int : first <= new - Lag /\ range = {b \in AllBars : first <= b /\ b <= new - Lag}
    <3>1. PICK first \in Int : first <= new - Lag /\ range = {b \in AllBars : first <= b /\ b <= new - Lag}
      BY <2>4
    <3>2. \A c \in range : c \in AllBars /\ c \in Int /\ first <= c /\ c <= new - Lag
      BY <1>4, <3>1
    <3>3. \A b \in AllBars : first <= b /\ b <= new - Lag => b \in range
      BY <3>1
    <3> HIDE DEF range, new
    <3>4. ASSUME NEW a \in range, NEW c \in range, NEW b \in AllBars, a < b, b < c PROVE b \in range
      <4>1. a \in Int /\ b \in Int /\ c \in Int /\ first <= a /\ c <= new - Lag /\ new \in Int /\ Lag \in Int
        BY <1>4, <3>2
      <4>2. first <= b /\ b <= new - Lag
        BY ONLY <3>4, <4>1, first \in Int
      <4> QED
        BY <3>3, <4>2
    <3>5. \A c \in range : c <= new
      BY <1>4, <3>2
    <3> QED
      BY <2>1, <2>2, <3>2, <3>4, <3>5
  <2> QED
    BY <1>6, <2>3, <2>4
<1>9. StoredBars # {} => Latest \in StoredBars /\ Latest \in Int /\ Latest <= new /\ \A b \in StoredBars : b <= Latest
  BY <1>4, <1>8, LatestIs
<1>10. joined # {} => /\ Newest(joined) \in joined /\ Newest(joined) \in Int /\ Newest(joined) <= new
                      /\ \A b \in joined : b <= Newest(joined)
  <2>1. joined \in SUBSET AllBars
    BY <1>8
  <2> HIDE DEF joined
  <2> QED
    BY <1>4, <1>8, <2>1, NewestIs
(* The live job is in time.                                                *)
<1>11. reached' \in Int /\ reached' <= new /\ new - reached' <= FetchBars
  <2>1. CASE joined = {}
    BY <1>3, <1>4, <2>1
  <2>2. CASE joined # {} /\ range = {} /\ (shut \/ (asked /\ new <= Latest + 1))
    <3>1. StoredBars # {} /\ joined = StoredBars
      BY <2>2
    <3>2. new <= Latest + 1
      BY <1>3, <1>4, <1>9, <2>2, <3>1 DEF Overlooks
    <3>3. Latest <= Newest(joined)
      BY <1>9, <1>10, <3>1
    <3> QED
      BY <1>3, <1>4, <1>9, <1>10, <2>2, <3>1, <3>2, <3>3
  <2>3. ASSUME joined # {}, NEW first \in Int, first <= new - Lag,
               range = {b \in AllBars : first <= b /\ b <= new - Lag}
        PROVE  reached' \in Int /\ reached' <= new /\ new - reached' <= FetchBars
    <3>1. reached' = Newest(joined)
      BY <1>3, <2>3
    <3>2. CASE new - Lag >= 0
      <4>1. new - Lag \in AllBars
        BY <1>4, <3>2, AllBarsIs
      <4>2. new - Lag \in range
        BY <1>4, <2>3, <4>1
      <4>3. new - Lag <= Newest(joined)
        BY <1>10, <2>3, <4>2
      <4> HIDE DEF joined, range, new
      <4> QED
        BY <1>4, <1>10, <2>3, <3>1, <4>3
    <3>3. CASE ~(new - Lag >= 0)
      <4>1. Newest(joined) >= 0
        BY <1>4, <1>8, <1>10, <2>3
      <4> HIDE DEF joined, range, new
      <4> QED
        BY <1>4, <1>10, <2>3, <3>1, <3>3, <4>1
    <3> QED
      BY <3>2, <3>3
  <2> QED
    BY <1>6, <2>1, <2>2, <2>3
(* What is stored and what is fetched join.                                *)
<1>12. \A a \in joined, b \in AllBars : a < b /\ b <= reached' => b \in joined
  <2> SUFFICES ASSUME NEW a \in joined, NEW b \in AllBars, a < b, b <= reached' PROVE b \in joined
    OBVIOUS
  <2> DEFINE c == Newest(joined)
  <2>1. c \in joined /\ reached' = c /\ c \in Int
    BY <1>3, <1>10
  <2>2. a \in Int /\ b \in Int
    BY <1>4, <1>8
  <2> HIDE DEF c, range
  <2>3. CASE b = c
    BY <2>1, <2>3
  <2>4. CASE b # c
    <3>1. b < c
      BY <2>1, <2>2, <2>4
    <3>2. CASE (a \in StoredBars /\ c \in StoredBars) \/ (a \in range /\ c \in range)
      BY <1>8, <2>1, <3>1, <3>2
    <3>3. CASE (a \in StoredBars /\ c \in range) \/ (a \in range /\ c \in StoredBars)
      <4>1. PICK x \in range, y \in StoredBars : y - 1 <= x /\ x <= y + 1
        BY <1>3, <3>3 DEF Overlooks
      <4>2. x \in Int /\ y \in Int
        BY <1>4, <1>8
      <4>3. \/ a \in StoredBars /\ c \in range /\ (b = x \/ b = y \/ b < y \/ b > x)
            \/ a \in range /\ c \in StoredBars /\ (b = x \/ b = y \/ b < x \/ b > y)
        BY <2>2, <3>3, <4>1, <4>2
      <4> QED
        BY <1>8, <2>2, <3>1, <4>1, <4>2, <4>3
    <3> QED
      BY <2>1, <3>2, <3>3
  <2> QED
    BY <2>3, <2>4
<1> HIDE DEF range, asked, joined
<1>13. /\ BarOf(clock)' = new
       /\ \A c \in (Covered \cup PendingBars)' : c <= new
  BY <1>2, <1>5, <1>7, <1>8 DEF joined
<1>14. \A c \in Covered' : c <= reached'
  BY <1>3, <1>7, <1>10
<1>15. ServiceRuns'
  <2>1. PendingBars' \subseteq Covered'
    BY <1>5, <1>7 DEF joined
  <2> QED
    BY <1>7, <1>11, <1>12, <1>13, <1>14, <2>1 DEF ServiceRuns
<1> QED
  BY <1>3, <1>13, <1>15 DEF NothingLost

(* The service stops: it gives up what it holds unless nothing later is    *)
(* stored or on its way.                                                   *)
LEMMA StopLosesNothing ==
  ASSUME PusherTypeOK, NothingLost, Stop, ~givenUp'
  PROVE  NothingLost'
<1>1. /\ phase # "down" /\ phase' = "down" /\ live' = IdleJob /\ flush' = NoPayload /\ buffer' = <<>>
      /\ UNCHANGED <<clock, stored, pending, reached, flushed>>
      /\ \A b \in Held \ StoredBars, c \in StoredBars \cup PendingBars : ~(c > b)
  BY DEF Stop, PendingBars
<1>2. StoredBars' = StoredBars /\ PendingBars' = PendingBars
  BY <1>1 DEF StoredBars, PendingBars
<1>3. ServiceRuns
  BY <1>1 DEF NothingLost
<1>4. /\ \A b \in AllBars : b \in Int
      /\ reached \in Int
  BY BarsAre
<1>5. Held' = {}
  BY <1>1, NoBars, HeldIs DEF IdleJob, BarsOf
<1>6. ServiceDown'
  <2> SUFFICES ASSUME NEW a \in StoredBars \cup PendingBars, NEW c \in StoredBars \cup PendingBars,
                      NEW b \in AllBars, a < b, b < c
               PROVE  b \in StoredBars
    BY <1>1, <1>2 DEF ServiceDown
  <2>1. a \in Covered /\ c \in Covered /\ c <= reached
    BY <1>3 DEF ServiceRuns, Covered
  <2>2. c \in Int
    <3>1. \A p \in pending : p \in Payloads
      BY DEF PusherTypeOK
    <3>2. c \in AllBars
      BY <3>1, BarsInAll DEF StoredBars, PendingBars
    <3> QED
      BY <1>4, <3>2
  <2>3. b <= reached /\ c > b
    BY <1>4, <2>1, <2>2
  <2>4. b \in Covered
    BY <1>3, <2>1, <2>3 DEF ServiceRuns
  <2> QED
    BY <1>1, <2>3, <2>4 DEF Covered
<1>7. \A c \in (Covered \cup PendingBars)' : c <= BarOf(clock)'
  BY <1>1, <1>2, <1>5 DEF NothingLost, Covered
<1> QED
  BY <1>1, <1>6, <1>7 DEF NothingLost

(* No step loses a bar that is covered, unless it gives it up.             *)
LEMMA HoleStep ==
  ASSUME Lag <= FetchBars
  PROVE  HoleInv /\ [PusherNext]_pusherVars => HoleInv'
<1> SUFFICES ASSUME HoleInv, [PusherNext]_pusherVars PROVE HoleInv'
  OBVIOUS
<1>i. PusherInv /\ PusherInv' /\ PusherTypeOK
  BY PusherStep DEF HoleInv, PusherInv
<1> SUFFICES ASSUME ~givenUp' PROVE NothingLost'
  BY <1>i DEF HoleInv
<1>g. givenUp' => NothingLost'
  OBVIOUS
<1>p. /\ live.payload \in Payloads /\ flush \in Payloads /\ buffer \in Seq(Payloads)
      /\ pending \subseteq Payloads /\ phase \in {"down", "sync", "up"}
  BY <1>i DEF PusherTypeOK
<1>n. givenUp => givenUp'
  <2>1. CASE UNCHANGED pusherVars
    BY <2>1 DEF pusherVars
  <2>2. CASE PusherNext
    BY <2>2 DEF PusherNext, MarketTick, LateWrite, Start, Stop, FetchLatest, PushSucceeds, PushFails,
                FlushTakes, FlushSucceeds, FlushFails
  <2> QED
    BY <2>1, <2>2
<1>h. NothingLost
  BY <1>n DEF HoleInv
<1>c. /\ Covered = StoredBars \cup live.payload.bars \cup flush.bars \cup BarsOf(buffer)
      /\ Covered' = StoredBars' \cup live'.payload.bars \cup flush'.bars \cup BarsOf(buffer')
  BY HeldIs DEF Covered
<1>b. \A c \in Covered \cup PendingBars : c \in AllBars /\ c \in Int
  <2>1. \A i \in 1..Len(buffer) : buffer[i] \in Payloads
    BY <1>p, ElementOfSeq
  <2>2. \A p \in pending : p \in Payloads
    BY <1>p
  <2>3. \A c \in Covered \cup PendingBars : c \in AllBars
    BY <1>c, <1>p, <2>1, <2>2, BarsInAll DEF BarsOf, PendingBars, StoredBars
  <2> QED
    BY <1>i, <2>3, BarsAre
<1>d. phase # "down" => ServiceRuns
  BY <1>h DEF NothingLost
<1>e. IdleJob.payload.bars = {} /\ NoPayload.bars = {}
  BY NoBars DEF IdleJob
<1>f. live # IdleJob \/ flush # NoPayload => phase # "down"
  BY <1>h DEF NothingLost, ServiceDown
<1>1. CASE MarketTick
  <2>1. /\ clock' = clock + 1 /\ UNCHANGED <<stored, phase, live, flush, buffer, pending, reached, flushed>>
        /\ phase # "down" => ~(BarOf(clock') - reached > FetchBars)
    BY <1>1 DEF MarketTick
  <2>2. Covered' = Covered /\ PendingBars' = PendingBars /\ StoredBars' = StoredBars
    BY <2>1, <1>c DEF StoredBars, PendingBars
  <2>3. /\ BarOf(clock') \in Int /\ BarOf(clock) \in Int /\ BarOf(clock) <= BarOf(clock')
        /\ reached \in Int /\ FetchBars \in Int
    <3>1. clock \in Int /\ clock' \in Int /\ clock <= clock'
      BY <1>i, <2>1 DEF PusherTypeOK
    <3> QED
      BY <1>i, <3>1, BarOfBounds, BarsAre
  <2>4. phase # "down" => ServiceRuns'
    <3>1. phase # "down" => reached <= BarOf(clock') /\ BarOf(clock') - reached <= FetchBars
      BY <1>d, <2>1, <2>3 DEF ServiceRuns
    <3> QED
      BY <1>d, <2>1, <2>2, <3>1 DEF ServiceRuns
  <2>5. phase = "down" => ServiceDown'
    BY <1>h, <2>1, <2>2 DEF NothingLost, ServiceDown
  <2>6. \A c \in Covered \cup PendingBars : c <= BarOf(clock')
    <3>1. \A c \in Covered \cup PendingBars : c \in Int /\ c <= BarOf(clock)
      BY <1>b, <1>h DEF NothingLost
    <3> QED
      BY <2>3, <3>1
  <2> QED
    BY <2>1, <2>2, <2>4, <2>5, <2>6 DEF NothingLost
<1>2. CASE LateWrite
  <2>1. PICK p \in pending : Upsert(p, p.bars) /\ pending' = pending \ {p}
    BY <1>2 DEF LateWrite
  <2>2. UNCHANGED <<clock, phase, live, flush, buffer, reached, flushed, givenUp>>
    BY <1>2 DEF LateWrite
  <2>3. StoredBars' = StoredBars \cup p.bars
    BY <1>p, <2>1, Written
  <2>4. p.bars \subseteq PendingBars /\ PendingBars' \subseteq PendingBars
    BY <2>1 DEF PendingBars
  <2>5. CASE phase # "down"
    <3>1. PendingBars \subseteq Covered
      BY <1>d, <2>5 DEF ServiceRuns
    <3>2. Covered' = Covered /\ PendingBars' \subseteq Covered
      BY <1>c, <2>2, <2>3, <2>4, <3>1
    <3> QED
      BY <1>h, <2>2, <2>5, <3>2, CoveredStays
  <2>6. CASE phase = "down"
    <3>1. (StoredBars \cup PendingBars)' \subseteq StoredBars \cup PendingBars /\ StoredBars \subseteq StoredBars'
      BY <2>3, <2>4
    <3>2. ServiceDown'
      BY <1>h, <2>2, <2>6, <3>1 DEF NothingLost, ServiceDown
    <3>3. (Covered \cup PendingBars)' \subseteq Covered \cup PendingBars
      BY <1>c, <2>2, <2>3, <2>4
    <3> QED
      BY <1>h, <2>2, <2>6, <3>2, <3>3 DEF NothingLost
  <2> QED
    BY <2>5, <2>6
<1>3. CASE Start
  BY <1>3, <1>h, <1>i, StartLosesNothing
<1>4. CASE Stop
  BY <1>4, <1>h, <1>i, StopLosesNothing
<1>5. CASE FetchLatest
  <2> DEFINE new == BarOf(clock)
             bars == {b \in AllBars : new - FetchBars < b /\ b <= new}
  <2>1. /\ phase = "up" /\ live = IdleJob /\ live' = [payload |-> Fetched(bars), attempts |-> 0] /\ reached' = new
        /\ UNCHANGED <<clock, stored, phase, flush, buffer, pending, flushed, givenUp>>
    BY <1>5 DEF FetchLatest
  <2>2. /\ new \in Nat /\ reached \in Nat /\ FetchBars \in Nat \ {0, 1}
        /\ \A b \in AllBars : b \in Int /\ b >= 0
    BY <1>i, BarsAre
  <2>3. ServiceRuns /\ new - reached <= FetchBars
    BY <1>d, <2>1 DEF ServiceRuns
  <2>4. live'.payload.bars = bars
    BY <2>1 DEF Fetched, NoPayload
  <2>5. \A b \in bars : b \in AllBars /\ b <= new
    OBVIOUS
  <2>6. Covered' = Covered \cup bars /\ PendingBars' = PendingBars /\ StoredBars' = StoredBars
    BY <1>c, <1>e, <2>1, <2>4 DEF StoredBars, PendingBars
  <2>7. \A a \in Covered', b \in AllBars : a < b /\ b <= new => b \in Covered'
    <3> SUFFICES ASSUME NEW a \in Covered', NEW b \in AllBars, a < b, b <= new PROVE b \in Covered'
      OBVIOUS
    <3>1. b \in Int /\ new \in Int
      BY <2>2
    <3>2. CASE new - FetchBars < b
      BY <2>6, <3>2
    <3>3. CASE ~(new - FetchBars < b)
      <4>1. b <= reached
        BY <2>2, <2>3, <3>1, <3>3
      <4>2. ASSUME a \in bars PROVE FALSE
        <5>1. a \in Int /\ new - FetchBars < a
          BY <2>2, <4>2
        <5> HIDE DEF bars, new
        <5> QED
          BY <2>2, <3>1, <3>3, <5>1
      <4> HIDE DEF bars
      <4> QED
        BY <2>3, <2>6, <4>1, <4>2 DEF ServiceRuns
    <3> QED
      BY <3>2, <3>3
  <2>8. \A c \in (Covered \cup PendingBars)' : c <= new
    BY <1>h, <2>5, <2>6 DEF NothingLost
  <2> HIDE DEF bars
  <2>9. BarOf(clock)' = new /\ reached' = new /\ new <= new /\ new - new <= FetchBars
    BY <2>1, <2>2
  <2>10. PendingBars' \subseteq Covered'
    BY <2>3, <2>6 DEF ServiceRuns
  <2>11. ServiceRuns'
    BY <2>7, <2>8, <2>9, <2>10 DEF ServiceRuns
  <2> QED
    BY <2>1, <2>8, <2>9, <2>11 DEF NothingLost
<1>6. CASE PushSucceeds
  <2>1. /\ live # IdleJob /\ Upsert(live.payload, live.payload.bars) /\ live' = IdleJob /\ phase' = "up"
        /\ UNCHANGED <<clock, flush, buffer, pending, reached, flushed, givenUp>>
    BY <1>6 DEF PushSucceeds
  <2>2. StoredBars' = StoredBars \cup live.payload.bars
    BY <1>p, <2>1, Written
  <2>3. Covered' = Covered /\ PendingBars' = PendingBars
    BY <1>c, <1>e, <2>1, <2>2 DEF PendingBars
  <2>4. PendingBars' \subseteq Covered
    BY <1>d, <1>f, <2>1, <2>3 DEF ServiceRuns
  <2> QED
    BY <1>f, <1>h, <2>1, <2>3, <2>4, CoveredStays
<1>7. CASE PushFails
  <2>1. live # IdleJob /\ RequestFails(live.payload) /\ UNCHANGED <<clock, flush, reached, flushed>> /\ phase # "down"
    BY <1>7, <1>f DEF PushFails
  <2>2. /\ StoredBars \subseteq StoredBars' /\ StoredBars' \subseteq StoredBars \cup live.payload.bars
        /\ PendingBars' \subseteq PendingBars \cup live.payload.bars
    BY <1>p, <2>1, FailedRequest
  <2>3. /\ phase' # "down"
        /\ live'.payload.bars \cup BarsOf(buffer') = live.payload.bars \cup BarsOf(buffer)
    <3>1. CASE live.attempts + 1 < RetryMax
      <4>1. live' = [live EXCEPT !.attempts = @ + 1] /\ UNCHANGED <<phase, buffer, givenUp>>
        BY <1>7, <3>1 DEF PushFails
      <4>2. live'.payload = live.payload
        BY <1>i, <4>1 DEF PusherTypeOK
      <4> QED
        BY <2>1, <4>1, <4>2
    <3>2. CASE ~(live.attempts + 1 < RetryMax)
      <4>1. /\ live' = IdleJob /\ phase' = "up" /\ buffer' = AppendRight(buffer, live.payload) /\ ~Full
        BY <1>7, <3>2 DEF PushFails
      <4>2. BarsOf(buffer') = BarsOf(buffer) \cup live.payload.bars
        BY <1>p, <4>1, BarsAppended DEF Full
      <4> QED
        BY <1>e, <4>1, <4>2
    <3> QED
      BY <3>1, <3>2
  <2>4. Covered' = Covered
    BY <1>c, <2>1, <2>2, <2>3
  <2>5. PendingBars' \subseteq Covered
    BY <1>c, <1>d, <2>1, <2>2 DEF ServiceRuns
  <2> QED
    BY <1>h, <2>1, <2>3, <2>4, <2>5, CoveredStays
<1>8. CASE FlushTakes
  <2>1. /\ phase = "up" /\ flush = NoPayload /\ buffer # <<>> /\ flush' = Head(buffer) /\ buffer' = Tail(buffer)
        /\ UNCHANGED <<clock, stored, phase, live, pending, reached, flushed, givenUp>>
    BY <1>8 DEF FlushTakes
  <2>2. BarsOf(buffer) = flush'.bars \cup BarsOf(buffer')
    BY <1>p, <2>1, BarsTaken
  <2>3. Covered' = Covered /\ PendingBars' = PendingBars
    BY <1>c, <1>e, <2>1, <2>2 DEF StoredBars, PendingBars
  <2>4. PendingBars' \subseteq Covered
    BY <1>d, <2>1, <2>3 DEF ServiceRuns
  <2> QED
    BY <1>h, <2>1, <2>3, <2>4, CoveredStays
<1>9. CASE FlushSucceeds
  <2>1. /\ flush # NoPayload /\ Upsert(flush, flush.bars) /\ flush' = NoPayload /\ phase # "down"
        /\ UNCHANGED <<clock, phase, live, buffer, pending, reached, givenUp>>
    BY <1>9, <1>f DEF FlushSucceeds
  <2>2. StoredBars' = StoredBars \cup flush.bars
    BY <1>p, <2>1, Written
  <2>3. Covered' = Covered /\ PendingBars' = PendingBars
    BY <1>c, <1>e, <2>1, <2>2 DEF PendingBars
  <2>4. PendingBars' \subseteq Covered
    BY <1>d, <2>1, <2>3 DEF ServiceRuns
  <2> QED
    BY <1>h, <2>1, <2>3, <2>4, CoveredStays
<1>10. CASE FlushFails
  <2>1. /\ flush # NoPayload /\ RequestFails(flush) /\ buffer' = AppendLeft(buffer, flush) /\ flush' = NoPayload
        /\ ~Full /\ phase # "down" /\ UNCHANGED <<clock, phase, live, reached>>
    BY <1>10, <1>f DEF FlushFails
  <2>2. /\ StoredBars \subseteq StoredBars' /\ StoredBars' \subseteq StoredBars \cup flush.bars
        /\ PendingBars' \subseteq PendingBars \cup flush.bars
    BY <1>p, <2>1, FailedRequest
  <2>3. BarsOf(buffer') = BarsOf(buffer) \cup flush.bars
    BY <1>p, <2>1, BarsAppended DEF Full
  <2>4. Covered' = Covered
    BY <1>c, <1>e, <2>1, <2>2, <2>3
  <2>5. PendingBars' \subseteq Covered
    BY <1>c, <1>d, <2>1, <2>2 DEF ServiceRuns
  <2> QED
    BY <1>h, <2>1, <2>4, <2>5, CoveredStays
<1>11. CASE UNCHANGED pusherVars
  <2>1. UNCHANGED <<clock, stored, phase, live, flush, buffer, pending, reached>>
    BY <1>11 DEF pusherVars
  <2>2. StoredBars' = StoredBars /\ PendingBars' = PendingBars
    BY <2>1 DEF StoredBars, PendingBars
  <2>3. Covered' = Covered
    BY <1>c, <2>1, <2>2
  <2>4. phase # "down" => ServiceRuns'
    BY <1>d, <2>1, <2>2, <2>3 DEF ServiceRuns
  <2>5. phase = "down" => ServiceDown'
    BY <1>h, <2>1, <2>2 DEF NothingLost, ServiceDown
  <2> QED
    BY <1>h, <2>1, <2>2, <2>3, <2>4, <2>5 DEF NothingLost
<1> QED
  BY <1>1, <1>2, <1>3, <1>4, <1>5, <1>6, <1>7, <1>8, <1>9, <1>10, <1>11 DEF PusherNext

(* Nothing is stored and nothing is held at the first start.               *)
LEMMA HoleInitOK == PusherInit => HoleInv
<1> SUFFICES ASSUME PusherInit PROVE HoleInv
  OBVIOUS
<1>1. PusherInv /\ PusherTypeOK
  BY PusherInitOK DEF PusherInv
<1>2. /\ phase = "down" /\ live = IdleJob /\ flush = NoPayload /\ buffer = <<>> /\ pending = {}
      /\ stored = [b \in AllBars |-> 0]
  BY DEF PusherInit
<1>3. StoredBars = {} /\ PendingBars = {}
  BY <1>2 DEF StoredBars, PendingBars
<1>4. Covered = {}
  BY <1>2, <1>3, NoBars, HeldIs DEF Covered, IdleJob, BarsOf
<1> QED
  BY <1>1, <1>2, <1>3, <1>4 DEF HoleInv, NothingLost, ServiceDown

(* No restart, retry, partial write or late request leaves a hole that the *)
(* service does not hold the bars for, unless it gave them up: for any     *)
(* length of a bar, of the history and of the buffer, of every timeframe   *)
(* of which the live job fetches what the range of a startup leaves out.   *)
THEOREM HistoryHasNoHole ==
  ASSUME Lag <= FetchBars
  PROVE  PusherSpec => []NoHole
<1> QED
  BY HoleInitOK, HoleStep, NothingLostMeansNoHole, PTL DEF PusherSpec

(***************************************************************************)
(* The platform.  Each component starts in its own initial states and      *)
(* takes its own steps, or none while another component is the subject.    *)
(***************************************************************************)
Components ==
  /\ SessionSpec /\ UserSpec /\ TradeSpec /\ GuardsSpec /\ MatchSpec
  /\ GuardrailsSpec /\ BacktestSpec /\ PusherSpec /\ TrapSpec

(* The components start where their modules say.                           *)
LEMMA PlatformStarts ==
  PlatformInit =>
    /\ SessionInit /\ UserInit /\ TradeInit /\ GuardsInit /\ MatchInit
    /\ GuardrailsInit /\ BacktestInit /\ PusherInit /\ TrapInit
BY DEF PlatformInit

(* A step is a step of the subject, and of nothing else.                   *)
LEMMA PlatformSteps ==
  [PlatformNext]_platformVars =>
    /\ [SessionNext]_sessionVars /\ [UserNext]_userVars /\ [TradeNext]_tradeVars
    /\ [TakeSignal]_guardVars /\ [OnBar]_matchVars /\ [GuardrailsNext]_guardrailVars
    /\ [BacktestNext]_runVars /\ [PusherNext]_pusherVars /\ [TrapNext]_trapVars
BY DEF PlatformNext, platformVars

(* What runs the components one at a time runs each of them as its module  *)
(* specifies: the one run that checks them all checks no other behaviours. *)
THEOREM PlatformRunsComponents == PlatformSpec => Components
BY PlatformStarts, PlatformSteps, PTL
   DEF PlatformSpec, Components, SessionSpec, UserSpec, TradeSpec, GuardsSpec, MatchSpec,
       GuardrailsSpec, BacktestSpec, PusherSpec, TrapSpec

(* The types of all components, the bounds of their buffers, caches and    *)
(* counters included: the pusher's deque, the sessions of a user, the      *)
(* position limits, the areas of the signals.                              *)
THEOREM PlatformTypeCorrect == PlatformSpec => []PlatformTypeOK
<1>1. UserSpec => []UserTypeOK
  <2>1. UserInv => UserTypeOK
    BY DEF UserInv
  <2> QED BY <2>1, UserInvInit, UserInvStep, PTL DEF UserSpec
<1>2. SessionSpec => []SessionTypeOK
  <2>1. SessionInv => SessionTypeOK
    BY DEF SessionInv
  <2> QED BY <2>1, SessionInvariant, PTL
<1>3. TradeSpec => []TradeTypeOK
  <2>1. ExitInv => TradeTypeOK
    BY DEF ExitInv
  <2> QED BY <2>1, ExitInitOK, ExitStep, PTL DEF TradeSpec
<1>4. GuardsSpec => []GuardsTypeOK
  BY GuardsInitOK, GuardsStep, PTL DEF GuardsSpec
<1>5. MatchSpec => []MatchTypeOK
  <2>1. MatchInv => MatchTypeOK
    BY DEF MatchInv
  <2> QED BY <2>1, MatchInitOK, MatchStep, PTL DEF MatchSpec
<1>6. GuardrailsSpec => []GuardrailsTypeOK
  <2>1. RoomInv => GuardrailsTypeOK
    BY DEF RoomInv
  <2> QED BY <2>1, RoomInit, RoomStep, PTL DEF GuardrailsSpec
<1>7. PusherSpec => []PusherTypeOK
  <2>1. PusherInv => PusherTypeOK
    BY DEF PusherInv
  <2>2. PusherInv /\ [PusherNext]_pusherVars => PusherInv'
    BY PusherStep
  <2> QED BY <2>1, <2>2, PusherInitOK, PTL DEF PusherSpec
<1>8. TrapSpec => []TrapTypeOK
  <2>1. TrapInv => TrapTypeOK
    BY DEF TrapInv
  <2> QED BY <2>1, TrapInitOK, TrapStep, PTL DEF TrapSpec
<1>9. Components => []PlatformTypeOK
  BY <1>1, <1>2, <1>3, <1>4, <1>5, <1>6, <1>7, <1>8, BacktestTypeCorrect, PTL
     DEF Components, PlatformTypeOK
<1> QED BY <1>9, PlatformRunsComponents
=============================================================================
