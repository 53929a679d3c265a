------------------------- MODULE LiveRunner_proofs -------------------------
(***************************************************************************)
(* Proofs about LiveRunner, for any number of ticks and bars, any plugin   *)
(* and any faults.                                                         *)
(***************************************************************************)
EXTENDS LiveRunner, WellFoundedInduction, TLAPS

-----------------------------------------------------------------------------
(* Sets of naturals and the newest bar.                                    *)

LEMMA LeastElement ==
  ASSUME NEW T \in SUBSET Nat, T # {}
  PROVE  \E x \in T : \A y \in T : x <= y
<1> DEFINE R == OpToRel(<, Nat)
<1>1. IsWellFoundedOn(R, Nat)
  BY NatLessThanWellFounded
<1>2. \E x \in T : \A y \in T : ~ (<<y, x>> \in R)
  <2> HIDE DEF R
  <2> QED BY <1>1, WFMin
<1>3. PICK x \in T : \A y \in T : ~ (<<y, x>> \in R)
  BY <1>2
<1>4. ASSUME NEW y \in T, y < x PROVE FALSE
  <2>1. <<y, x>> \in R
    BY <1>4 DEF OpToRel
  <2> HIDE DEF R
  <2> QED BY <2>1, <1>3
<1>5. ASSUME NEW y \in T PROVE x <= y
  BY <1>4, x \in Nat, y \in Nat
<1> QED
  BY <1>5

(* There is a newest bar: the distances from MaxBar have a least one.      *)
LEMMA NewestType == TypeOK => Newest \in 0..MaxBar
<1> SUFFICES ASSUME TypeOK PROVE Newest \in 0..MaxBar
  OBVIOUS
<1> USE ConstantsAssumption DEF Bars
<1> DEFINE S == {b \in 0..MaxBar : b = 0 \/ candles[b] # "absent"}
           T == {n \in 0..MaxBar : MaxBar - n \in S}
<1>1. T \in SUBSET Nat /\ T # {}
  <2>1. 0 \in S /\ MaxBar - MaxBar = 0 /\ MaxBar \in 0..MaxBar
    OBVIOUS
  <2>2. MaxBar \in T
    BY <2>1
  <2>3. T \subseteq Nat
    OBVIOUS
  <2> QED BY <2>2, <2>3
<1>2. PICK x \in T : \A y \in T : x <= y
  BY <1>1, LeastElement
<1>3. MaxBar - x \in S
  OBVIOUS
<1>4. ASSUME NEW c \in Bars, candles[c] # "absent" PROVE c <= MaxBar - x
  <2>1. c \in S /\ MaxBar - (MaxBar - c) = c /\ MaxBar - c \in 0..MaxBar
    BY <1>4
  <2>2. MaxBar - c \in T
    BY <2>1
  <2>3. x <= MaxBar - c
    BY <2>2, <1>2
  <2>4. x \in Nat /\ c \in Nat
    BY <1>1
  <2> HIDE DEF T, S
  <2> QED BY <2>3, <2>4
<1>5. \E b \in 0..MaxBar :
        (b = 0 \/ candles[b] # "absent") /\ \A c \in Bars : candles[c] # "absent" => c <= b
  BY <1>3, <1>4
<1> QED
  BY <1>5 DEF Newest

-----------------------------------------------------------------------------
(* Type correctness needs to know where a tick is with its step.           *)

AfterBar == {"save", "intents", "actions", "traces", "checkpoint"}

(* A tick that stores an event has one left; one behind onBar has a bar.   *)
StepHolds ==
  \A t \in Ticks :
    /\ At(t, "save") => tick[t].n \in DOMAIN tick[t].out
    /\ tick[t].pc \in AfterBar => tick[t].state # <<>>

TypeInv == TypeOK /\ StepHolds

TickRow == [pc : {"idle", "enter", "load", "mark"} \cup InTry, active : BOOLEAN,
            from : 0..MaxBar, state : Seq(FoldedBar), todo : SUBSET FoldedBar,
            out : Seq(Keys), n : Nat, saved : Seq(Keys)]

LEMMA NoTickType == NoTick \in TickRow
  BY ConstantsAssumption DEF NoTick, TickRow, InTry

(* What Put does to the ticks.                                             *)
LEMMA PutFrame ==
  ASSUME TypeOK, NEW t \in Ticks, NEW x, Put(t, x)
  PROVE  /\ tick'[t] = x
         /\ \A u \in Ticks \ {t} : tick'[u] = tick[u]
         /\ x \in TickRow => tick' \in [Ticks -> TickRow]
<1>1. tick \in [Ticks -> TickRow]
  BY DEF TypeOK, TickRow
<1> QED
  BY <1>1 DEF Put

(* A step on one tick preserves StepHolds if the new tick satisfies it.    *)
LEMMA PutStep ==
  ASSUME TypeInv, NEW t \in Ticks, NEW x \in TickRow, Put(t, x),
         x.pc = "save" => x.n \in DOMAIN x.out,
         x.pc \in AfterBar => x.state # <<>>
  PROVE  StepHolds' /\ tick' \in [Ticks -> TickRow]
<1>1. tick'[t] = x /\ (\A u \in Ticks \ {t} : tick'[u] = tick[u])
  BY PutFrame DEF TypeInv
<1>2. tick' \in [Ticks -> TickRow]
  BY PutFrame DEF TypeInv
<1>3. ASSUME NEW u \in Ticks
      PROVE  /\ tick'[u].pc = "save" => tick'[u].n \in DOMAIN tick'[u].out
             /\ tick'[u].pc \in AfterBar => tick'[u].state # <<>>
  BY <1>1 DEF TypeInv, StepHolds, At
<1> QED
  BY <1>2, <1>3 DEF StepHolds, At

LEMMA BarType ==
  ASSUME TypeOK, NEW t \in Ticks, tick[t].state # <<>>
  PROVE  /\ BarOf(t) \in Bars
         /\ tick[t].state[Len(tick[t].state)] \in FoldedBar
<1>1. tick[t].state \in Seq(FoldedBar)
  BY DEF TypeOK
<1>2. tick[t].state[Len(tick[t].state)] \in FoldedBar
  BY <1>1
<1> QED
  BY <1>2 DEF BarOf, FoldedBar

LEMMA TickType == ASSUME TypeOK, NEW t \in Ticks PROVE tick[t] \in TickRow
  BY DEF TypeOK, TickRow

LEMMA TypeInit == Init => TypeInv
<1> SUFFICES ASSUME Init PROVE TypeInv
  OBVIOUS
<1>1. tick \in [Ticks -> TickRow]
  BY NoTickType DEF Init
<1>2. StepHolds
  BY DEF Init, StepHolds, At, NoTick, AfterBar
<1> QED
  <2>1. candles \in [Bars -> Forms \cup {"absent"}]
    BY DEF Init
  <2>2. row \in [active : BOOLEAN, started : 0..MaxBar, upto : 0..MaxBar, state : Seq(FoldedBar)]
    <3>1. <<>> \in Seq(FoldedBar) /\ 0 \in 0..MaxBar
      BY ConstantsAssumption
    <3> QED BY <3>1 DEF Init
  <2>3. handed \in [Lanes -> SUBSET Event] /\ events \subseteq Event /\ running \in BOOLEAN
    BY DEF Init
  <2>4. traces \subseteq [bar : Bars, key : Keys, link : SUBSET Keys]
    BY DEF Init
  <2> QED BY <1>1, <1>2, <2>1, <2>2, <2>3, <2>4 DEF TypeInv, TypeOK, TickRow

LEMMA TypeStep == TypeInv /\ [Next]_vars => TypeInv'
<1> SUFFICES ASSUME TypeInv, [Next]_vars PROVE TypeInv'
  OBVIOUS
<1> USE ConstantsAssumption
<1>0. TypeOK /\ StepHolds
  BY DEF TypeInv
<1>t. ASSUME StepHolds', tick' \in [Ticks -> TickRow],
             candles' \in [Bars -> Forms \cup {"absent"}],
             row' \in [active : BOOLEAN, started : 0..MaxBar, upto : 0..MaxBar, state : Seq(FoldedBar)],
             events' \subseteq Event, handed' \in [Lanes -> SUBSET Event],
             traces' \subseteq [bar : Bars, key : Keys, link : SUBSET Keys],
             running' \in BOOLEAN
      PROVE  TypeInv'
  BY <1>t DEF TypeInv, TypeOK, TickRow
<1>1. ASSUME NEW t \in Ticks, NEW b \in Bars, Ingest(t, b) PROVE TypeInv'
  <2>1. [tick[t] EXCEPT !.pc = "enter"] \in TickRow
    BY <1>0, TickType DEF TickRow
  <2>2. StepHolds' /\ tick' \in [Ticks -> TickRow]
    BY <1>1, <2>1, PutStep DEF Ingest, Move, AfterBar, TickRow
  <2>3. candles' \in [Bars -> Forms \cup {"absent"}]
    BY <1>0, <1>1 DEF Ingest, TypeOK
  <2> QED BY <1>0, <1>1, <1>t, <2>2, <2>3 DEF Ingest, TypeOK
<1>2. ASSUME NEW active \in BOOLEAN, UpdateStatus(active) PROVE TypeInv'
  <2>1. row' \in [active : BOOLEAN, started : 0..MaxBar, upto : 0..MaxBar, state : Seq(FoldedBar)]
    BY <1>0, <1>2, NewestType DEF UpdateStatus, TypeOK
  <2>2. StepHolds' /\ tick' \in [Ticks -> TickRow]
    BY <1>0, <1>2 DEF UpdateStatus, StepHolds, TypeOK, TickRow, At
  <2> QED BY <1>0, <1>2, <1>t, <2>1, <2>2 DEF UpdateStatus, TypeOK
<1>3. ASSUME NEW t \in Ticks, Enter(t) PROVE TypeInv'
  <2>1. [tick[t] EXCEPT !.pc = "load"] \in TickRow
    BY <1>0, TickType DEF TickRow
  <2>2. StepHolds' /\ tick' \in [Ticks -> TickRow]
    <3>1. CASE Put(t, NoTick)
      BY <3>1, NoTickType, PutStep DEF NoTick, AfterBar
    <3>2. CASE Move(t, "load")
      BY <3>2, <2>1, PutStep DEF Move, AfterBar, TickRow
    <3> QED BY <1>3, <3>1, <3>2 DEF Enter
  <2> QED BY <1>0, <1>3, <1>t, <2>2 DEF Enter, TypeOK
<1>4. ASSUME NEW t \in Ticks, GetInstance(t) PROVE TypeInv'
  <2> DEFINE x == [tick[t] EXCEPT !.pc = "mark", !.active = row.active, !.state = row.state,
                                  !.from = IF row.upto > 0 THEN row.upto ELSE row.started]
  <2>a. row.active \in BOOLEAN /\ row.state \in Seq(FoldedBar)
        /\ row.upto \in 0..MaxBar /\ row.started \in 0..MaxBar
    BY <1>0 DEF TypeOK
  <2>b. tick[t] \in TickRow
    BY <1>0, TickType
  <2>c. (IF row.upto > 0 THEN row.upto ELSE row.started) \in 0..MaxBar
    BY <2>a
  <2>1. x \in TickRow
    BY <2>a, <2>b, <2>c DEF TickRow
  <2>2. StepHolds' /\ tick' \in [Ticks -> TickRow]
    BY <1>4, <2>1, PutStep DEF GetInstance, AfterBar, TickRow
  <2> QED BY <1>0, <1>4, <1>t, <2>2 DEF GetInstance, TypeOK
<1>5. ASSUME NEW t \in Ticks, Mark(t) PROVE TypeInv'
  <2>1. [tick[t] EXCEPT !.pc = "query"] \in TickRow
    BY <1>0, TickType DEF TickRow, InTry
  <2>2. StepHolds' /\ tick' \in [Ticks -> TickRow]
    <3>1. CASE Put(t, NoTick)
      BY <3>1, NoTickType, PutStep DEF NoTick, AfterBar
    <3>2. CASE Move(t, "query")
      BY <3>2, <2>1, PutStep DEF Move, AfterBar, TickRow
    <3> QED BY <1>5, <3>1, <3>2 DEF Mark
  <2> QED BY <1>0, <1>5, <1>t, <2>2 DEF Mark, TypeOK
<1>6. ASSUME NEW t \in Ticks, QueryBars(t) PROVE TypeInv'
  <2> DEFINE new == {<<b, candles[b]>> : b \in NewBars(t)}
             x == [tick[t] EXCEPT !.pc = "bar", !.todo = new]
  <2>1. new \in SUBSET FoldedBar
    BY <1>0 DEF NewBars, FoldedBar, TypeOK
  <2>2. x \in TickRow
    BY <1>0, <2>1, TickType DEF TickRow, InTry
  <2>3. StepHolds' /\ tick' \in [Ticks -> TickRow]
    <3>1. CASE Put(t, NoTick)
      BY <3>1, NoTickType, PutStep DEF NoTick, AfterBar
    <3>2. CASE Put(t, x)
      BY <3>2, <2>2, PutStep DEF AfterBar, TickRow
    <3> QED BY <1>6, <3>1, <3>2 DEF QueryBars
  <2> QED BY <1>0, <1>6, <1>t, <2>3 DEF QueryBars, TypeOK
<1>7. ASSUME NEW t \in Ticks, OnBar(t) PROVE TypeInv'
  <2>1. PICK x \in tick[t].todo :
          Put(t, [tick[t] EXCEPT !.pc = IF Emits[x] # <<>> THEN "save" ELSE
                                        IF tick[t].todo = {x} THEN "checkpoint" ELSE "bar",
                   !.state = Append(@, x), !.todo = @ \ {x},
                   !.out = Emits[x], !.n = 1, !.saved = <<>>])
    BY <1>7 DEF OnBar
  <2> DEFINE y == [tick[t] EXCEPT !.pc = IF Emits[x] # <<>> THEN "save" ELSE
                                         IF tick[t].todo = {x} THEN "checkpoint" ELSE "bar",
                   !.state = Append(@, x), !.todo = @ \ {x},
                   !.out = Emits[x], !.n = 1, !.saved = <<>>]
  <2>2. x \in FoldedBar /\ tick[t].todo \subseteq FoldedBar /\ tick[t].state \in Seq(FoldedBar)
    BY <1>0, TickType DEF TickRow
  <2>3. Emits[x] \in Seq(Keys)
    BY <2>2 DEF FoldedBar
  <2>4. Append(tick[t].state, x) \in Seq(FoldedBar) /\ Append(tick[t].state, x) # <<>>
    BY <2>2
  <2>b. tick[t] \in TickRow
    BY <1>0, TickType
  <2>c. (IF Emits[x] # <<>> THEN "save" ELSE IF tick[t].todo = {x} THEN "checkpoint" ELSE "bar") \in InTry
    BY DEF InTry
  <2>d. tick[t].todo \ {x} \in SUBSET FoldedBar /\ 1 \in Nat /\ <<>> \in Seq(Keys)
    BY <2>2
  <2>5. y \in TickRow
    BY <2>b, <2>c, <2>d, <2>3, <2>4 DEF TickRow
  <2>6. y.pc = "save" => y.n \in DOMAIN y.out
    <3>1. y.pc = "save" => Emits[x] # <<>>
      BY <1>0, TickType DEF TickRow
    <3>2. y.out = Emits[x] /\ y.n = 1
      BY <1>0, TickType DEF TickRow
    <3>3. Emits[x] # <<>> => 1 \in DOMAIN Emits[x]
      BY <2>3
    <3> QED BY <3>1, <3>2, <3>3
  <2>7. y.state # <<>>
    BY <1>0, <2>4, TickType DEF TickRow
  <2>8. StepHolds' /\ tick' \in [Ticks -> TickRow]
    <3> HIDE DEF y
    <3> QED BY <2>1, <2>5, <2>6, <2>7, PutStep DEF y
  <2> QED BY <1>0, <1>7, <1>t, <2>8 DEF OnBar, TypeOK
<1>8. ASSUME NEW t \in Ticks, SaveEvent(t) PROVE TypeInv'
  <2> DEFINE key == tick[t].out[tick[t].n]
             e == [bar |-> BarOf(t), key |-> key]
             y == [tick[t] EXCEPT !.pc = IF tick[t].n < Len(tick[t].out) THEN "save" ELSE "intents",
                     !.n = @ + 1, !.saved = IF e \in events THEN @ ELSE Append(@, key)]
  <2>1. tick[t].n \in DOMAIN tick[t].out /\ tick[t].state # <<>>
    BY <1>0, <1>8 DEF SaveEvent, StepHolds, At, AfterBar
  <2>2. tick[t].out \in Seq(Keys) /\ tick[t].saved \in Seq(Keys) /\ tick[t].n \in Nat
    BY <1>0, TickType DEF TickRow
  <2>3. key \in Keys
    BY <2>1, <2>2
  <2>4. Append(tick[t].saved, key) \in Seq(Keys)
    BY <2>2, <2>3
  <2>b. tick[t] \in TickRow
    BY <1>0, TickType
  <2>c. (IF tick[t].n < Len(tick[t].out) THEN "save" ELSE "intents") \in InTry
    BY DEF InTry
  <2>d. (IF e \in events THEN tick[t].saved ELSE Append(tick[t].saved, key)) \in Seq(Keys)
        /\ tick[t].n + 1 \in Nat
    BY <2>2, <2>4
  <2>5. y \in TickRow
    <3> HIDE DEF key, e
    <3> QED BY <2>b, <2>c, <2>d DEF TickRow
  <2>6. y.pc = "save" => y.n \in DOMAIN y.out
    <3>1. y.pc = "save" => tick[t].n < Len(tick[t].out)
      BY <1>0, TickType DEF TickRow
    <3>2. y.n = tick[t].n + 1 /\ y.out = tick[t].out
      BY <1>0, TickType DEF TickRow
    <3>3. tick[t].n < Len(tick[t].out) => tick[t].n + 1 \in DOMAIN tick[t].out
      BY <2>2
    <3> QED BY <3>1, <3>2, <3>3
  <2>7. y.state # <<>>
    BY <1>0, <2>1, TickType DEF TickRow
  <2>8. Put(t, y)
    BY <1>8 DEF SaveEvent
  <2>9. StepHolds' /\ tick' \in [Ticks -> TickRow]
    <3> HIDE DEF y
    <3> QED BY <2>5, <2>6, <2>7, <2>8, PutStep
  <2>10. events' \subseteq Event
    BY <1>0, <1>8, <2>1, <2>3, BarType DEF SaveEvent, Event, TypeOK
  <2> QED BY <1>0, <1>8, <1>t, <2>9, <2>10 DEF SaveEvent, TypeOK
<1>9. ASSUME NEW t \in Ticks, NEW lane \in Lanes, NEW next \in {"actions", "traces"},
             HandOver(t, lane, next)
      PROVE  TypeInv'
  <2>1. tick[t].pc \in AfterBar
    BY <1>9 DEF HandOver, At, Lanes, AfterBar
  <2>2. tick[t].state # <<>> /\ tick[t].saved \in Seq(Keys)
    BY <1>0, <2>1, TickType DEF StepHolds, TickRow
  <2>3. Entries(t) \subseteq Event
    BY <1>0, <2>2, BarType DEF Entries, Event
  <2>4. handed' \in [Lanes -> SUBSET Event]
    BY <1>0, <1>9, <2>3 DEF HandOver, TypeOK
  <2>5. [tick[t] EXCEPT !.pc = next] \in TickRow
    BY <1>0, TickType DEF TickRow, InTry
  <2>6. StepHolds' /\ tick' \in [Ticks -> TickRow]
    BY <1>9, <2>2, <2>5, PutStep DEF HandOver, Move, TickRow
  <2> QED BY <1>0, <1>9, <1>t, <2>4, <2>6 DEF HandOver, TypeOK
<1>10. ASSUME NEW t \in Ticks, SaveTraces(t) PROVE TypeInv'
  <2>1. tick[t].state # <<>> /\ tick[t].saved \in Seq(Keys) /\ tick[t].out \in Seq(Keys)
    BY <1>0, <1>10, TickType DEF StepHolds, TickRow, SaveTraces, At, AfterBar
  <2>2. ASSUME NEW n \in 1..Len(tick[t].out) PROVE LinkOf(t, n) \subseteq Keys
    BY <2>1 DEF LinkOf
  <2>3. traces' \subseteq [bar : Bars, key : Keys, link : SUBSET Keys]
    BY <1>0, <1>10, <2>1, <2>2, BarType DEF SaveTraces, TypeOK
  <2> DEFINE next == IF tick[t].todo = {} THEN "checkpoint" ELSE "bar"
  <2>4. [tick[t] EXCEPT !.pc = next] \in TickRow
    BY <1>0, TickType DEF TickRow, InTry
  <2>5. StepHolds' /\ tick' \in [Ticks -> TickRow]
    BY <1>10, <2>1, <2>4, PutStep DEF SaveTraces, Move, TickRow
  <2> QED BY <1>0, <1>10, <1>t, <2>3, <2>5 DEF SaveTraces, TypeOK
<1>11. ASSUME NEW t \in Ticks, SaveCheckpoint(t) PROVE TypeInv'
  <2>1. tick[t].state # <<>> /\ tick[t].state \in Seq(FoldedBar)
    BY <1>0, <1>11, TickType DEF StepHolds, TickRow, SaveCheckpoint, At, AfterBar
  <2>2. row' \in [active : BOOLEAN, started : 0..MaxBar, upto : 0..MaxBar, state : Seq(FoldedBar)]
    <3>1. BarOf(t) \in 0..MaxBar
      BY <1>0, <2>1, BarType DEF Bars
    <3>2. row' = [row EXCEPT !.upto = BarOf(t), !.state = tick[t].state]
      BY <1>11 DEF SaveCheckpoint
    <3> QED BY <1>0, <2>1, <3>1, <3>2 DEF TypeOK
  <2>3. StepHolds' /\ tick' \in [Ticks -> TickRow]
    BY <1>11, NoTickType, PutStep DEF SaveCheckpoint, NoTick, AfterBar
  <2> QED BY <1>0, <1>11, <1>t, <2>2, <2>3 DEF SaveCheckpoint, TypeOK
<1>12. ASSUME NEW t \in Ticks, TickFails(t) PROVE TypeInv'
  <2>1. StepHolds' /\ tick' \in [Ticks -> TickRow]
    BY <1>12, NoTickType, PutStep DEF TickFails, NoTick, AfterBar
  <2> QED BY <1>0, <1>12, <1>t, <2>1 DEF TickFails, TypeOK
<1>13. CASE Crash
  <2>1. StepHolds' /\ tick' \in [Ticks -> TickRow]
    BY <1>13, NoTickType DEF Crash, StepHolds, At, NoTick, AfterBar
  <2> QED BY <1>0, <1>13, <1>t, <2>1 DEF Crash, TypeOK
<1>14. CASE UNCHANGED vars
  BY <1>0, <1>14 DEF vars, TypeInv, TypeOK, StepHolds, At
<1>15. ASSUME NEW t \in Ticks, RunTick(t) PROVE TypeInv'
  BY <1>15, <1>3, <1>4, <1>5, <1>6, <1>7, <1>8, <1>9, <1>10, <1>11
     DEF RunTick, CaptureIntents, CaptureActions, Lanes
<1> QED
  BY <1>1, <1>2, <1>12, <1>13, <1>14, <1>15 DEF Next, Feed

(* Every reachable state is well typed.                                    *)
THEOREM TypeCorrect == Spec => []TypeOK
<1>1. TypeInv => TypeOK
  BY DEF TypeInv
<1> QED
  BY <1>1, TypeInit, TypeStep, PTL DEF Spec

-----------------------------------------------------------------------------
(* The marker.                                                             *)

MarkerInv == TypeInv /\ MarkerReleased

(* It is enough that a step leaves no tick outside the try while it keeps  *)
(* the marker.                                                             *)
LEMMA MarkerKept ==
  ASSUME MarkerInv, NEW t \in Ticks, NEW x, Put(t, x),
         \/ running' = FALSE
         \/ x.pc \in InTry
         \/ running' = running /\ tick[t].pc \notin InTry
  PROVE  MarkerReleased'
<1>1. tick'[t] = x /\ \A u \in Ticks \ {t} : tick'[u] = tick[u]
  BY PutFrame DEF MarkerInv, TypeInv
<1> QED
  BY <1>1 DEF MarkerInv, MarkerReleased

LEMMA MarkerStep == MarkerInv /\ [Next]_vars => MarkerInv'
<1> SUFFICES ASSUME MarkerInv, [Next]_vars PROVE MarkerInv'
  OBVIOUS
<1>0. TypeInv /\ TypeInv'
  BY TypeStep DEF MarkerInv
<1>p. \A t \in Ticks, p \in {"enter", "load"} \cup InTry :
        [tick[t] EXCEPT !.pc = p].pc = p
  BY <1>0, TickType DEF TypeInv, TickRow
<1>1. ASSUME NEW t \in Ticks, NEW b \in Bars, Ingest(t, b) PROVE MarkerReleased'
  <2>1. tick[t].pc \notin InTry
    BY <1>1 DEF Ingest, At, InTry
  <2> QED BY <1>1, <2>1, MarkerKept DEF Ingest, Move
<1>2. ASSUME NEW active \in BOOLEAN, UpdateStatus(active) PROVE MarkerReleased'
  BY <1>2 DEF UpdateStatus, MarkerInv, MarkerReleased
<1>3. ASSUME NEW t \in Ticks, Enter(t) PROVE MarkerReleased'
  <2>1. tick[t].pc \notin InTry
    BY <1>3 DEF Enter, At, InTry
  <2> QED BY <1>3, <2>1, MarkerKept DEF Enter, Move
<1>4. ASSUME NEW t \in Ticks, GetInstance(t) PROVE MarkerReleased'
  <2>1. tick[t].pc \notin InTry
    BY <1>4 DEF GetInstance, At, InTry
  <2> QED BY <1>4, <2>1, MarkerKept DEF GetInstance
<1>5. ASSUME NEW t \in Ticks, Mark(t) PROVE MarkerReleased'
  <2>1. tick[t].pc \notin InTry
    BY <1>5 DEF Mark, At, InTry
  <2>2. [tick[t] EXCEPT !.pc = "query"].pc \in InTry
    BY <1>p DEF InTry
  <2> QED BY <1>5, <2>1, <2>2, MarkerKept DEF Mark, Move
<1>6. ASSUME NEW t \in Ticks, QueryBars(t) PROVE MarkerReleased'
  <2>1. ASSUME NEW new PROVE [tick[t] EXCEPT !.pc = "bar", !.todo = new].pc \in InTry
    BY <1>0, TickType DEF TypeInv, TickRow, InTry
  <2> QED BY <1>6, <2>1, MarkerKept DEF QueryBars
<1>7. ASSUME NEW t \in Ticks, OnBar(t) PROVE MarkerReleased'
  <2>1. PICK x \in tick[t].todo :
          Put(t, [tick[t] EXCEPT !.pc = IF Emits[x] # <<>> THEN "save" ELSE
                                        IF tick[t].todo = {x} THEN "checkpoint" ELSE "bar",
                   !.state = Append(@, x), !.todo = @ \ {x},
                   !.out = Emits[x], !.n = 1, !.saved = <<>>])
    BY <1>7 DEF OnBar
  <2>2. [tick[t] EXCEPT !.pc = IF Emits[x] # <<>> THEN "save" ELSE
                                IF tick[t].todo = {x} THEN "checkpoint" ELSE "bar",
                   !.state = Append(@, x), !.todo = @ \ {x},
                   !.out = Emits[x], !.n = 1, !.saved = <<>>].pc \in InTry
    BY <1>0, TickType DEF TypeInv, TickRow, InTry
  <2> QED BY <2>1, <2>2, MarkerKept
<1>8. ASSUME NEW t \in Ticks, SaveEvent(t) PROVE MarkerReleased'
  <2> DEFINE key == tick[t].out[tick[t].n]
             e == [bar |-> BarOf(t), key |-> key]
             y == [tick[t] EXCEPT !.pc = IF tick[t].n < Len(tick[t].out) THEN "save" ELSE "intents",
                     !.n = @ + 1, !.saved = IF e \in events THEN @ ELSE Append(@, key)]
  <2>1. y.pc \in InTry
    BY <1>0, TickType DEF TypeInv, TickRow, InTry
  <2>2. Put(t, y)
    BY <1>8 DEF SaveEvent
  <2> HIDE DEF y
  <2> QED BY <2>1, <2>2, MarkerKept
<1>9. ASSUME NEW t \in Ticks, NEW lane, NEW next \in {"actions", "traces"},
             HandOver(t, lane, next)
      PROVE  MarkerReleased'
  <2>1. next \in InTry
    BY DEF InTry
  <2> QED BY <1>9, <1>p, <2>1, MarkerKept DEF HandOver, Move
<1>10. ASSUME NEW t \in Ticks, SaveTraces(t) PROVE MarkerReleased'
  <2>1. (IF tick[t].todo = {} THEN "checkpoint" ELSE "bar") \in InTry
    BY DEF InTry
  <2> QED BY <1>10, <1>p, <2>1, MarkerKept DEF SaveTraces, Move
<1>11. ASSUME NEW t \in Ticks, SaveCheckpoint(t) PROVE MarkerReleased'
  BY <1>11 DEF SaveCheckpoint, MarkerReleased
<1>12. ASSUME NEW t \in Ticks, TickFails(t) PROVE MarkerReleased'
  <2>1. CASE running' = FALSE
    BY <2>1 DEF MarkerReleased
  <2>2. CASE At(t, "load") /\ UNCHANGED running
    <3>1. tick[t].pc \notin InTry
      BY <2>2 DEF At, InTry
    <3> QED BY <1>12, <2>2, <3>1, MarkerKept DEF TickFails
  <2> QED BY <1>12, <2>1, <2>2 DEF TickFails
<1>13. ASSUME Crash PROVE MarkerReleased'
  BY <1>13 DEF Crash, MarkerReleased
<1>14. ASSUME UNCHANGED vars PROVE MarkerReleased'
  BY <1>14 DEF vars, MarkerInv, MarkerReleased
<1>15. ASSUME NEW t \in Ticks, RunTick(t) PROVE MarkerReleased'
  BY <1>15, <1>3, <1>4, <1>5, <1>6, <1>7, <1>8, <1>9, <1>10, <1>11
     DEF RunTick, CaptureIntents, CaptureActions
<1> QED
  BY <1>0, <1>1, <1>2, <1>12, <1>13, <1>14, <1>15 DEF Next, Feed, MarkerInv

(* The marker is held only while a tick is in its try.                     *)
THEOREM MarkerIsReleased == Spec => []MarkerReleased
<1>1. Init => MarkerInv
  <2>1. Init => MarkerReleased
    BY DEF Init, MarkerReleased
  <2> QED BY <2>1, TypeInit DEF MarkerInv
<1>2. MarkerInv => MarkerReleased
  BY DEF MarkerInv
<1> QED
  BY <1>1, <1>2, MarkerStep, PTL DEF Spec

-----------------------------------------------------------------------------
(* The fold.                                                               *)

Ordered(s) == \A j, k \in DOMAIN s : j < k => s[j][1] < s[k][1]
LastBar(s) == IF s = <<>> THEN 0 ELSE s[Len(s)][1]
Folding == InTry \ {"query"}

(* A tick that has read the row holds an ordered state, starts behind it,  *)
(* and has only later bars left, each of them once.                        *)
FoldOK(x) ==
  /\ x.pc \in {"mark"} \cup InTry => Ordered(x.state)
  /\ x.pc \in {"mark", "query"} => LastBar(x.state) <= x.from
  /\ x.pc \in Folding => \A y \in x.todo : LastBar(x.state) < y[1]
  /\ x.pc \in Folding => \A y, z \in x.todo : y[1] = z[1] => y = z

FoldInv ==
  /\ TypeInv
  /\ Ordered(row.state) /\ LastBar(row.state) = row.upto
  /\ \A t \in Ticks : FoldOK(tick[t])

LEMMA LastBarType ==
  ASSUME NEW s \in Seq(FoldedBar) PROVE LastBar(s) \in 0..MaxBar /\ (s # <<>> => LastBar(s) > 0)
<1>1. s # <<>> => s[Len(s)] \in FoldedBar
  OBVIOUS
<1> QED
  BY <1>1, ConstantsAssumption DEF LastBar, FoldedBar, Bars

LEMMA OrderedAppend ==
  ASSUME NEW s \in Seq(FoldedBar), NEW x \in FoldedBar, Ordered(s), LastBar(s) < x[1]
  PROVE  Ordered(Append(s, x)) /\ LastBar(Append(s, x)) = x[1]
<1> DEFINE r == Append(s, x)
<1>1. /\ DOMAIN r = 1..(Len(s) + 1) /\ DOMAIN s = 1..Len(s) /\ Len(s) \in Nat
      /\ r[Len(s) + 1] = x /\ \A i \in 1..Len(s) : r[i] = s[i]
      /\ Len(r) = Len(s) + 1 /\ r # <<>>
  OBVIOUS
<1>2. \A i \in 1..Len(s) : s[i][1] \in Nat /\ s[i][1] <= LastBar(s)
  <2> SUFFICES ASSUME NEW i \in 1..Len(s) PROVE s[i][1] \in Nat /\ s[i][1] <= LastBar(s)
    OBVIOUS
  <2>1. s # <<>> /\ Len(s) \in DOMAIN s /\ i \in DOMAIN s
    BY <1>1
  <2>2. s[i] \in FoldedBar /\ s[Len(s)] \in FoldedBar
    BY <2>1
  <2>3. s[i][1] \in Nat /\ s[Len(s)][1] \in Nat
    BY <2>2, ConstantsAssumption DEF FoldedBar, Bars
  <2>4. CASE i = Len(s)
    BY <2>1, <2>3, <2>4 DEF LastBar
  <2>5. CASE i < Len(s)
    <3>1. s[i][1] < s[Len(s)][1]
      BY <2>1, <2>5 DEF Ordered
    <3> QED BY <3>1, <2>1, <2>3 DEF LastBar
  <2>6. i \in Nat /\ Len(s) \in Nat /\ i <= Len(s)
    OBVIOUS
  <2> QED BY <2>4, <2>5, <2>6
<1>3. LastBar(s) \in Nat /\ x[1] \in Nat
  BY LastBarType, ConstantsAssumption DEF FoldedBar, Bars
<1> HIDE DEF r
<1>4. ASSUME NEW j \in DOMAIN r, NEW k \in DOMAIN r, j < k PROVE r[j][1] < r[k][1]
  <2>1. j \in 1..Len(s) /\ r[j] = s[j]
    BY <1>1, <1>4
  <2>2. CASE k = Len(s) + 1
    BY <1>1, <1>2, <1>3, <2>1, <2>2
  <2>3. CASE k # Len(s) + 1
    <3>1. k \in 1..Len(s) /\ r[k] = s[k]
      BY <1>1, <2>3
    <3> QED BY <1>1, <2>1, <3>1, <1>4 DEF Ordered
  <2> QED BY <2>2, <2>3
<1>5. Ordered(r)
  BY <1>4 DEF Ordered
<1>6. LastBar(r) = x[1]
  BY <1>1 DEF LastBar
<1> QED
  BY <1>5, <1>6 DEF r

LEMMA NoTickFold == FoldOK(NoTick)
  BY DEF FoldOK, NoTick, InTry, Folding

(* A step on one tick that leaves the row alone.                           *)
LEMMA PutFold ==
  ASSUME FoldInv, TypeInv', NEW t \in Ticks, NEW x, Put(t, x), FoldOK(x),
         row'.state = row.state, row'.upto = row.upto
  PROVE  FoldInv'
<1>1. tick'[t] = x /\ \A u \in Ticks \ {t} : tick'[u] = tick[u]
  BY PutFrame DEF FoldInv, TypeInv
<1>2. \A u \in Ticks : FoldOK(tick'[u])
  BY <1>1 DEF FoldInv
<1> QED
  BY <1>2 DEF FoldInv

(* A move between program points behind onBar.                             *)
LEMMA MoveFold ==
  ASSUME FoldInv, TypeInv', NEW t \in Ticks, NEW p \in Folding, tick[t].pc \in Folding,
         NEW x, Put(t, x), x.pc = p, x.state = tick[t].state, x.todo = tick[t].todo,
         row' = row
  PROVE  FoldInv'
<1>1. FoldOK(tick[t])
  BY DEF FoldInv
<1>2. FoldOK(x)
  BY <1>1 DEF FoldOK, Folding, InTry
<1> QED
  BY <1>2, PutFold

LEMMA FoldStep == FoldInv /\ [Next]_vars => FoldInv'
<1> SUFFICES ASSUME FoldInv, [Next]_vars PROVE FoldInv'
  OBVIOUS
<1>0. TypeInv /\ TypeInv' /\ TypeOK /\ StepHolds
  BY TypeStep DEF FoldInv, TypeInv
<1>r. \A t \in Ticks : tick[t] \in TickRow /\ FoldOK(tick[t])
  BY <1>0, TickType DEF FoldInv
<1>1. ASSUME NEW t \in Ticks, NEW b \in Bars, Ingest(t, b) PROVE FoldInv'
  <2>1. FoldOK([tick[t] EXCEPT !.pc = "enter"])
    BY <1>r DEF FoldOK, TickRow, InTry, Folding
  <2> QED BY <1>0, <1>1, <2>1, PutFold DEF Ingest, Move
<1>2. ASSUME NEW active \in BOOLEAN, UpdateStatus(active) PROVE FoldInv'
  <2>1. row'.state = row.state /\ row'.upto = row.upto
    BY <1>0, <1>2 DEF UpdateStatus, TypeOK
  <2> QED BY <1>0, <1>2, <2>1 DEF UpdateStatus, FoldInv
<1>3. ASSUME NEW t \in Ticks, Enter(t) PROVE FoldInv'
  <2>1. FoldOK([tick[t] EXCEPT !.pc = "load"])
    BY <1>r DEF FoldOK, TickRow, InTry, Folding
  <2> QED BY <1>0, <1>3, <2>1, NoTickFold, PutFold DEF Enter, Move
<1>4. ASSUME NEW t \in Ticks, GetInstance(t) PROVE FoldInv'
  <2> DEFINE x == [tick[t] EXCEPT !.pc = "mark", !.active = row.active, !.state = row.state,
                                  !.from = IF row.upto > 0 THEN row.upto ELSE row.started]
  <2>1. x.pc = "mark" /\ x.state = row.state /\ x.from = IF row.upto > 0 THEN row.upto ELSE row.started
    BY <1>r DEF TickRow
  <2>2. row.state \in Seq(FoldedBar) /\ row.upto \in 0..MaxBar /\ row.started \in 0..MaxBar
    BY <1>0 DEF TypeOK
  <2>3. LastBar(x.state) <= x.from
    BY <2>1, <2>2, ConstantsAssumption DEF FoldInv
  <2>4. FoldOK(x)
    <3> HIDE DEF x
    <3> QED BY <2>1, <2>3 DEF FoldOK, FoldInv, Folding, InTry
  <2> QED BY <1>0, <1>4, <2>4, PutFold DEF GetInstance
<1>5. ASSUME NEW t \in Ticks, Mark(t) PROVE FoldInv'
  <2>1. tick[t].pc = "mark"
    BY <1>5 DEF Mark, At
  <2>2. FoldOK([tick[t] EXCEPT !.pc = "query"])
    BY <1>r, <2>1 DEF FoldOK, TickRow, InTry, Folding
  <2> QED BY <1>0, <1>5, <2>2, NoTickFold, PutFold DEF Mark, Move
<1>6. ASSUME NEW t \in Ticks, QueryBars(t) PROVE FoldInv'
  <2> DEFINE new == {<<b, candles[b]>> : b \in NewBars(t)}
             x == [tick[t] EXCEPT !.pc = "bar", !.todo = new]
  <2>1. x.pc = "bar" /\ x.todo = new /\ x.state = tick[t].state
    BY <1>r DEF TickRow
  <2>2. Ordered(tick[t].state) /\ LastBar(tick[t].state) <= tick[t].from
    BY <1>6, <1>r DEF QueryBars, At, FoldOK, InTry
  <2>3. tick[t].from \in Nat /\ LastBar(tick[t].state) \in Nat
    BY <1>r, LastBarType, ConstantsAssumption DEF TickRow
  <2>4. ASSUME NEW y \in new PROVE LastBar(tick[t].state) < y[1]
    <3>1. y[1] \in Nat /\ y[1] > tick[t].from
      BY ConstantsAssumption DEF NewBars, Bars
    <3> QED BY <3>1, <2>2, <2>3
  <2>5. \A y, z \in new : y[1] = z[1] => y = z
    OBVIOUS
  <2>6. FoldOK(x)
    <3> HIDE DEF x, new
    <3> QED BY <2>1, <2>2, <2>4, <2>5 DEF FoldOK, InTry, Folding
  <2>7. Put(t, NoTick) \/ Put(t, x)
    BY <1>6 DEF QueryBars
  <2>8. row' = row
    BY <1>6 DEF QueryBars
  <2> HIDE DEF x
  <2> QED BY <1>0, <2>6, <2>7, <2>8, NoTickFold, PutFold
<1>7. ASSUME NEW t \in Ticks, OnBar(t) PROVE FoldInv'
  <2>1. PICK x \in tick[t].todo :
          /\ \A y \in tick[t].todo : x[1] <= y[1]
          /\ Put(t, [tick[t] EXCEPT !.pc = IF Emits[x] # <<>> THEN "save" ELSE
                                        IF tick[t].todo = {x} THEN "checkpoint" ELSE "bar",
                   !.state = Append(@, x), !.todo = @ \ {x},
                   !.out = Emits[x], !.n = 1, !.saved = <<>>])
    BY <1>7 DEF OnBar
  <2> DEFINE r == [tick[t] EXCEPT !.pc = IF Emits[x] # <<>> THEN "save" ELSE
                                         IF tick[t].todo = {x} THEN "checkpoint" ELSE "bar",
                   !.state = Append(@, x), !.todo = @ \ {x},
                   !.out = Emits[x], !.n = 1, !.saved = <<>>]
  <2>2. r.pc \in Folding /\ r.state = Append(tick[t].state, x) /\ r.todo = tick[t].todo \ {x}
    BY <1>r DEF TickRow, Folding, InTry
  <2>3. /\ Ordered(tick[t].state)
        /\ \A y \in tick[t].todo : LastBar(tick[t].state) < y[1]
        /\ \A y, z \in tick[t].todo : y[1] = z[1] => y = z
    BY <1>7, <1>r DEF OnBar, At, FoldOK, InTry, Folding
  <2>4. tick[t].todo \subseteq FoldedBar /\ tick[t].state \in Seq(FoldedBar) /\ x \in FoldedBar
    BY <1>r DEF TickRow
  <2>5. Ordered(r.state) /\ LastBar(r.state) = x[1]
    BY <2>2, <2>3, <2>4, OrderedAppend
  <2>6. ASSUME NEW y \in r.todo PROVE x[1] < y[1]
    <3>1. y \in tick[t].todo /\ y # x
      BY <2>2
    <3>2. x[1] <= y[1] /\ x[1] # y[1]
      BY <2>1, <2>3, <3>1
    <3>3. x[1] \in Nat /\ y[1] \in Nat
      BY <2>4, <3>1, ConstantsAssumption DEF FoldedBar, Bars
    <3> QED BY <3>2, <3>3
  <2>7. \A y, z \in r.todo : y[1] = z[1] => y = z
    BY <2>2, <2>3
  <2> HIDE DEF r
  <2>8. FoldOK(r)
    BY <2>2, <2>5, <2>6, <2>7 DEF FoldOK, Folding, InTry
  <2>9. Put(t, r) /\ row' = row
    BY <1>7, <2>1 DEF OnBar, r
  <2> QED BY <1>0, <2>8, <2>9, PutFold
<1>8. ASSUME NEW t \in Ticks, SaveEvent(t) PROVE FoldInv'
  <2> DEFINE key == tick[t].out[tick[t].n]
             e == [bar |-> BarOf(t), key |-> key]
             y == [tick[t] EXCEPT !.pc = IF tick[t].n < Len(tick[t].out) THEN "save" ELSE "intents",
                     !.n = @ + 1, !.saved = IF e \in events THEN @ ELSE Append(@, key)]
  <2>1. y.pc \in Folding /\ y.state = tick[t].state /\ y.todo = tick[t].todo
    BY <1>r DEF TickRow, Folding, InTry
  <2>2. Put(t, y) /\ row' = row /\ tick[t].pc \in Folding
    BY <1>8 DEF SaveEvent, At, Folding, InTry
  <2> HIDE DEF y
  <2> QED BY <1>0, <2>1, <2>2, MoveFold
<1>9. ASSUME NEW t \in Ticks, NEW lane \in Lanes, NEW next \in {"actions", "traces"},
             HandOver(t, lane, next)
      PROVE  FoldInv'
  <2> DEFINE y == [tick[t] EXCEPT !.pc = next]
  <2>1. y.pc = next /\ y.state = tick[t].state /\ y.todo = tick[t].todo
    BY <1>r DEF TickRow
  <2>2. Put(t, y) /\ row' = row /\ tick[t].pc \in Folding /\ next \in Folding
    BY <1>9 DEF HandOver, Move, At, Folding, InTry, Lanes
  <2> HIDE DEF y
  <2> QED BY <1>0, <2>1, <2>2, MoveFold
<1>10. ASSUME NEW t \in Ticks, SaveTraces(t) PROVE FoldInv'
  <2> DEFINE next == IF tick[t].todo = {} THEN "checkpoint" ELSE "bar"
             y == [tick[t] EXCEPT !.pc = next]
  <2>1. y.pc = next /\ y.state = tick[t].state /\ y.todo = tick[t].todo
    BY <1>r DEF TickRow
  <2>2. Put(t, y) /\ row' = row /\ tick[t].pc \in Folding /\ next \in Folding
    BY <1>10 DEF SaveTraces, Move, At, Folding, InTry
  <2> HIDE DEF y, next
  <2> QED BY <1>0, <2>1, <2>2, MoveFold
<1>11. ASSUME NEW t \in Ticks, SaveCheckpoint(t) PROVE FoldInv'
  <2>1. tick[t].pc = "checkpoint" /\ tick[t].state # <<>>
    BY <1>0, <1>11 DEF SaveCheckpoint, StepHolds, At, AfterBar
  <2>2. row'.state = tick[t].state /\ row'.upto = BarOf(t)
    BY <1>0, <1>11 DEF SaveCheckpoint, TypeOK
  <2>3. Ordered(row'.state) /\ LastBar(row'.state) = row'.upto
    BY <1>r, <2>1, <2>2 DEF FoldOK, InTry, LastBar, BarOf
  <2>4. \A u \in Ticks : FoldOK(tick'[u])
    <3>1. tick'[t] = NoTick /\ \A u \in Ticks \ {t} : tick'[u] = tick[u]
      BY <1>0, <1>11, PutFrame DEF SaveCheckpoint
    <3> QED BY <3>1, <1>r, NoTickFold
  <2> QED BY <1>0, <2>3, <2>4 DEF FoldInv
<1>12. ASSUME NEW t \in Ticks, TickFails(t) PROVE FoldInv'
  BY <1>0, <1>12, NoTickFold, PutFold DEF TickFails
<1>13. CASE Crash
  <2>1. \A u \in Ticks : FoldOK(tick'[u])
    BY <1>13, NoTickFold DEF Crash
  <2> QED BY <1>0, <1>13, <2>1 DEF Crash, FoldInv
<1>14. CASE UNCHANGED vars
  BY <1>0, <1>14 DEF vars, FoldInv
<1>15. ASSUME NEW t \in Ticks, RunTick(t) PROVE FoldInv'
  BY <1>15, <1>3, <1>4, <1>5, <1>6, <1>7, <1>8, <1>9, <1>10, <1>11
     DEF RunTick, CaptureIntents, CaptureActions, Lanes
<1> QED
  BY <1>1, <1>2, <1>12, <1>13, <1>14, <1>15 DEF Next, Feed

(* The checkpoint is a fold of the bars, whatever ticks overlap or fail.   *)
THEOREM CheckpointStaysFold == Spec => []CheckpointIsFold
<1>1. Init => FoldInv
  <2> SUFFICES ASSUME Init PROVE FoldInv
    OBVIOUS
  <2>1. Ordered(row.state) /\ LastBar(row.state) = row.upto
    BY DEF Init, Ordered, LastBar
  <2>2. \A t \in Ticks : FoldOK(tick[t])
    BY NoTickFold DEF Init
  <2> QED BY <2>1, <2>2, TypeInit DEF FoldInv
<1>2. FoldInv => CheckpointIsFold
  BY DEF FoldInv, Ordered, LastBar, CheckpointIsFold
<1> QED
  BY <1>1, <1>2, FoldStep, PTL DEF Spec

-----------------------------------------------------------------------------
(* What is behind the checkpoint is stored.                                *)

Stored(y, ev) == \A n \in DOMAIN Emits[y] : [bar |-> y[1], key |-> Emits[y][n]] \in ev

(* A tick has stored all its events but those of the step it is storing,   *)
(* and of these the ones before the next.                                  *)
CoverOK(x, ev) ==
  /\ x.pc \in {"mark"} \cup InTry =>
       \A k \in DOMAIN x.state : k < Len(x.state) \/ x.pc # "save" => Stored(x.state[k], ev)
  /\ x.pc = "save" => x.out = Emits[x.state[Len(x.state)]]
  /\ x.pc = "save" => \A m \in 1..(x.n - 1) :
       [bar |-> x.state[Len(x.state)][1], key |-> x.out[m]] \in ev

CoverInv ==
  /\ TypeInv
  /\ CheckpointCoversEvents
  /\ \A t \in Ticks : CoverOK(tick[t], events)

LEMMA RowCovered == CheckpointCoversEvents <=> \A k \in DOMAIN row.state : Stored(row.state[k], events)
  BY DEF CheckpointCoversEvents, Stored

LEMMA StoredGrows ==
  ASSUME NEW y, NEW ev, NEW more, ev \subseteq more, Stored(y, ev) PROVE Stored(y, more)
  BY DEF Stored

LEMMA CoverGrows ==
  ASSUME NEW x, NEW ev, NEW more, ev \subseteq more, CoverOK(x, ev) PROVE CoverOK(x, more)
<1>1. \A y : Stored(y, ev) => Stored(y, more)
  BY StoredGrows
<1> QED
  BY <1>1 DEF CoverOK

LEMMA NoTickCover == ASSUME NEW ev PROVE CoverOK(NoTick, ev)
  BY DEF CoverOK, NoTick, InTry

LEMMA PutCover ==
  ASSUME CoverInv, TypeInv', NEW t \in Ticks, NEW x, Put(t, x), events \subseteq events',
         CoverOK(x, events'), row'.state = row.state
  PROVE  CoverInv'
<1>1. tick'[t] = x /\ \A u \in Ticks \ {t} : tick'[u] = tick[u]
  BY PutFrame DEF CoverInv, TypeInv
<1>2. \A u \in Ticks : CoverOK(tick[u], events')
  BY CoverGrows DEF CoverInv
<1>3. \A u \in Ticks : CoverOK(tick'[u], events')
  BY <1>1, <1>2
<1>4. CheckpointCoversEvents'
  BY StoredGrows DEF CoverInv, CheckpointCoversEvents, Stored
<1> QED
  BY <1>3, <1>4 DEF CoverInv

(* A move of a tick whose steps are all stored.                            *)
LEMMA MoveCover ==
  ASSUME CoverInv, TypeInv', NEW t \in Ticks, tick[t].pc \in ({"mark"} \cup InTry) \ {"save"},
         NEW x, Put(t, x), x.pc # "save", x.state = tick[t].state,
         events' = events, row' = row
  PROVE  CoverInv'
<1>1. CoverOK(x, events')
  BY DEF CoverInv, CoverOK
<1> QED
  BY <1>1, PutCover

LEMMA CoverStep == CoverInv /\ [Next]_vars => CoverInv'
<1> SUFFICES ASSUME CoverInv, [Next]_vars PROVE CoverInv'
  OBVIOUS
<1>0. TypeInv /\ TypeInv' /\ TypeOK /\ StepHolds
  BY TypeStep DEF CoverInv, TypeInv
<1>r. \A t \in Ticks : tick[t] \in TickRow /\ CoverOK(tick[t], events)
  BY <1>0, TickType DEF CoverInv
<1>n. ASSUME NEW t \in Ticks, Put(t, NoTick), events' = events, row' = row PROVE CoverInv'
  BY <1>0, <1>n, NoTickCover, PutCover
<1>1. ASSUME NEW t \in Ticks, NEW b \in Bars, Ingest(t, b) PROVE CoverInv'
  <2>1. CoverOK([tick[t] EXCEPT !.pc = "enter"], events)
    BY <1>r DEF CoverOK, TickRow, InTry
  <2> QED BY <1>0, <1>1, <2>1, PutCover DEF Ingest, Move
<1>2. ASSUME NEW active \in BOOLEAN, UpdateStatus(active) PROVE CoverInv'
  <2>1. row'.state = row.state /\ events' = events /\ tick' = tick
    BY <1>0, <1>2 DEF UpdateStatus, TypeOK
  <2> QED BY <1>0, <2>1 DEF CoverInv, CheckpointCoversEvents
<1>3. ASSUME NEW t \in Ticks, Enter(t) PROVE CoverInv'
  <2>1. CoverOK([tick[t] EXCEPT !.pc = "load"], events)
    BY <1>r DEF CoverOK, TickRow, InTry
  <2> QED BY <1>0, <1>3, <1>n, <2>1, PutCover DEF Enter, Move
<1>4. ASSUME NEW t \in Ticks, GetInstance(t) PROVE CoverInv'
  <2> DEFINE x == [tick[t] EXCEPT !.pc = "mark", !.active = row.active, !.state = row.state,
                                  !.from = IF row.upto > 0 THEN row.upto ELSE row.started]
  <2>1. x.pc = "mark" /\ x.state = row.state
    BY <1>r DEF TickRow
  <2>2. \A k \in DOMAIN row.state : Stored(row.state[k], events)
    BY RowCovered DEF CoverInv
  <2> HIDE DEF x
  <2>3. CoverOK(x, events)
    BY <2>1, <2>2 DEF CoverOK
  <2>4. Put(t, x) /\ events' = events /\ row' = row
    BY <1>4 DEF GetInstance, x
  <2> QED BY <1>0, <2>3, <2>4, PutCover
<1>5. ASSUME NEW t \in Ticks, Mark(t) PROVE CoverInv'
  <2> DEFINE x == [tick[t] EXCEPT !.pc = "query"]
  <2>1. x.pc = "query" /\ x.state = tick[t].state
    BY <1>r DEF TickRow
  <2>2. tick[t].pc = "mark" /\ (Put(t, NoTick) \/ Put(t, x)) /\ events' = events /\ row' = row
    BY <1>5 DEF Mark, Move, At
  <2> HIDE DEF x
  <2> QED BY <1>0, <1>n, <2>1, <2>2, MoveCover
<1>6. ASSUME NEW t \in Ticks, QueryBars(t) PROVE CoverInv'
  <2> DEFINE x == [tick[t] EXCEPT !.pc = "bar", !.todo = {<<b, candles[b]>> : b \in NewBars(t)}]
  <2>1. x.pc = "bar" /\ x.state = tick[t].state
    BY <1>r DEF TickRow
  <2>2. tick[t].pc = "query" /\ (Put(t, NoTick) \/ Put(t, x)) /\ events' = events /\ row' = row
    BY <1>6 DEF QueryBars, At
  <2>3. tick[t].pc \in ({"mark"} \cup InTry) \ {"save"}
    BY <2>2 DEF InTry
  <2> HIDE DEF x
  <2> QED BY <1>0, <1>n, <2>1, <2>2, <2>3, MoveCover
<1>7. ASSUME NEW t \in Ticks, OnBar(t) PROVE CoverInv'
  <2>1. PICK x \in tick[t].todo :
          Put(t, [tick[t] EXCEPT !.pc = IF Emits[x] # <<>> THEN "save" ELSE
                                        IF tick[t].todo = {x} THEN "checkpoint" ELSE "bar",
                   !.state = Append(@, x), !.todo = @ \ {x},
                   !.out = Emits[x], !.n = 1, !.saved = <<>>])
    BY <1>7 DEF OnBar
  <2> DEFINE r == [tick[t] EXCEPT !.pc = IF Emits[x] # <<>> THEN "save" ELSE
                                         IF tick[t].todo = {x} THEN "checkpoint" ELSE "bar",
                   !.state = Append(@, x), !.todo = @ \ {x},
                   !.out = Emits[x], !.n = 1, !.saved = <<>>]
             s == tick[t].state
  <2>2. r.state = Append(s, x) /\ r.out = Emits[x] /\ r.n = 1
        /\ (r.pc = "save" <=> Emits[x] # <<>>)
    BY <1>r DEF TickRow
  <2>3. \A k \in DOMAIN s : Stored(s[k], events)
    BY <1>7, <1>r DEF OnBar, At, CoverOK, InTry
  <2>4. s \in Seq(FoldedBar) /\ x \in FoldedBar
    BY <1>r DEF TickRow
  <2> HIDE DEF r, s
  <2>5. /\ DOMAIN r.state = 1..(Len(s) + 1) /\ DOMAIN s = 1..Len(s) /\ Len(s) \in Nat
        /\ r.state[Len(s) + 1] = x /\ \A i \in 1..Len(s) : r.state[i] = s[i]
        /\ Len(r.state) = Len(s) + 1
    BY <2>2, <2>4
  <2>6. ASSUME NEW k \in DOMAIN r.state, k < Len(r.state) \/ r.pc # "save"
        PROVE  Stored(r.state[k], events)
    <3>1. CASE k = Len(s) + 1
      <4>1. Emits[x] = <<>>
        BY <2>2, <2>5, <2>6, <3>1
      <4> QED BY <4>1, <2>5, <3>1 DEF Stored
    <3>2. CASE k # Len(s) + 1
      <4>1. k \in DOMAIN s /\ r.state[k] = s[k]
        BY <2>5, <3>2
      <4> QED BY <4>1, <2>3
    <3> QED BY <3>1, <3>2
  <2>7. CoverOK(r, events)
    BY <2>2, <2>5, <2>6 DEF CoverOK
  <2>8. Put(t, r) /\ row' = row /\ events' = events
    BY <1>7, <2>1 DEF OnBar, r
  <2> QED BY <1>0, <2>7, <2>8, PutCover
<1>8. ASSUME NEW t \in Ticks, SaveEvent(t) PROVE CoverInv'
  <2> DEFINE key == tick[t].out[tick[t].n]
             e == [bar |-> BarOf(t), key |-> key]
             y == [tick[t] EXCEPT !.pc = IF tick[t].n < Len(tick[t].out) THEN "save" ELSE "intents",
                     !.n = @ + 1, !.saved = IF e \in events THEN @ ELSE Append(@, key)]
             s == tick[t].state
             n == tick[t].n
  <2>1. y.state = s /\ y.out = tick[t].out /\ y.n = n + 1
        /\ (y.pc = "save" <=> n < Len(tick[t].out))
    BY <1>r DEF TickRow
  <2>2. Put(t, y) /\ row' = row /\ events' = events \cup {e} /\ tick[t].pc = "save"
    BY <1>8 DEF SaveEvent, At
  <2>3. n \in DOMAIN tick[t].out /\ tick[t].out \in Seq(Keys) /\ n \in Nat
        /\ s \in Seq(FoldedBar) /\ s # <<>>
    BY <1>0, <1>r, <2>2 DEF StepHolds, TickRow, At, AfterBar
  <2>4. /\ tick[t].out = Emits[s[Len(s)]]
        /\ \A m \in 1..(n - 1) : [bar |-> s[Len(s)][1], key |-> tick[t].out[m]] \in events
        /\ \A k \in DOMAIN s : k < Len(s) => Stored(s[k], events)
    BY <1>r, <2>2 DEF CoverOK, InTry
  <2>5. e = [bar |-> s[Len(s)][1], key |-> tick[t].out[n]]
    BY DEF BarOf
  <2>6. \A m \in 1..n : [bar |-> s[Len(s)][1], key |-> tick[t].out[m]] \in events'
    <3> HIDE DEF e, y, key
    <3> SUFFICES ASSUME NEW m \in 1..n
                 PROVE  [bar |-> s[Len(s)][1], key |-> tick[t].out[m]] \in events'
      OBVIOUS
    <3>1. CASE m = n
      BY <2>2, <2>5, <3>1
    <3>2. CASE m # n
      <4>1. m \in 1..(n - 1)
        BY <2>3, <3>2
      <4> QED BY <4>1, <2>2, <2>4
    <3> QED BY <3>1, <3>2
  <2> HIDE DEF e, y, key
  <2>7. ASSUME NEW k \in DOMAIN y.state, k < Len(y.state) \/ y.pc # "save"
        PROVE  Stored(y.state[k], events')
    <3>1. CASE k < Len(s)
      BY <2>1, <2>2, <2>4, <3>1, StoredGrows
    <3>2. CASE ~(k < Len(s))
      <4>1. k = Len(s)
        BY <2>1, <2>3, <3>2
      <4>2. n = Len(tick[t].out)
        BY <2>1, <2>3, <2>7, <3>2
      <4>3. DOMAIN Emits[s[Len(s)]] = 1..n
        BY <2>3, <2>4, <4>2
      <4> QED BY <2>1, <2>4, <2>6, <4>1, <4>3 DEF Stored
    <3> QED BY <3>1, <3>2
  <2>8. y.pc = "save" => \A m \in 1..(y.n - 1) :
          [bar |-> y.state[Len(y.state)][1], key |-> y.out[m]] \in events'
    <3>1. y.n - 1 = n
      BY <2>1, <2>3
    <3> QED BY <2>1, <2>6, <3>1
  <2>9. CoverOK(y, events')
    BY <2>1, <2>4, <2>7, <2>8 DEF CoverOK
  <2> QED BY <1>0, <2>2, <2>9, PutCover
<1>9. ASSUME NEW t \in Ticks, NEW lane \in Lanes, NEW next \in {"actions", "traces"},
             HandOver(t, lane, next)
      PROVE  CoverInv'
  <2> DEFINE y == [tick[t] EXCEPT !.pc = next]
  <2>1. y.pc = next /\ y.state = tick[t].state
    BY <1>r DEF TickRow
  <2>2. Put(t, y) /\ row' = row /\ events' = events /\ tick[t].pc \in InTry \ {"save"}
    BY <1>9 DEF HandOver, Move, At, InTry, Lanes
  <2> HIDE DEF y
  <2> QED BY <1>0, <2>1, <2>2, MoveCover
<1>10. ASSUME NEW t \in Ticks, SaveTraces(t) PROVE CoverInv'
  <2> DEFINE next == IF tick[t].todo = {} THEN "checkpoint" ELSE "bar"
             y == [tick[t] EXCEPT !.pc = next]
  <2>1. y.pc = next /\ y.state = tick[t].state
    BY <1>r DEF TickRow
  <2>2. Put(t, y) /\ row' = row /\ events' = events /\ tick[t].pc \in InTry \ {"save"}
        /\ next # "save"
    BY <1>10 DEF SaveTraces, Move, At, InTry
  <2> HIDE DEF y, next
  <2> QED BY <1>0, <2>1, <2>2, MoveCover
<1>11. ASSUME NEW t \in Ticks, SaveCheckpoint(t) PROVE CoverInv'
  <2>1. tick[t].pc = "checkpoint"
    BY <1>11 DEF SaveCheckpoint, At
  <2>2. row'.state = tick[t].state /\ events' = events
    BY <1>0, <1>11 DEF SaveCheckpoint, TypeOK
  <2>3. \A k \in DOMAIN row'.state : Stored(row'.state[k], events')
    BY <1>r, <2>1, <2>2 DEF CoverOK, InTry
  <2>4. CheckpointCoversEvents'
    BY <2>3 DEF CheckpointCoversEvents, Stored
  <2>5. \A u \in Ticks : CoverOK(tick'[u], events')
    <3>1. tick'[t] = NoTick /\ \A u \in Ticks \ {t} : tick'[u] = tick[u]
      BY <1>0, <1>11, PutFrame DEF SaveCheckpoint
    <3> QED BY <2>2, <3>1, <1>r, NoTickCover
  <2> QED BY <1>0, <2>4, <2>5 DEF CoverInv
<1>12. ASSUME NEW t \in Ticks, TickFails(t) PROVE CoverInv'
  BY <1>n, <1>12 DEF TickFails
<1>13. CASE Crash
  <2>1. \A u \in Ticks : CoverOK(tick'[u], events')
    BY <1>13, NoTickCover DEF Crash
  <2> QED BY <1>0, <1>13, <2>1 DEF Crash, CoverInv, CheckpointCoversEvents
<1>14. CASE UNCHANGED vars
  BY <1>0, <1>14 DEF vars, CoverInv, CheckpointCoversEvents
<1>15. ASSUME NEW t \in Ticks, RunTick(t) PROVE CoverInv'
  BY <1>15, <1>3, <1>4, <1>5, <1>6, <1>7, <1>8, <1>9, <1>10, <1>11
     DEF RunTick, CaptureIntents, CaptureActions, Lanes
<1> QED
  BY <1>1, <1>2, <1>12, <1>13, <1>14, <1>15 DEF Next, Feed

(* Every event of a bar behind the checkpoint is stored.                   *)
THEOREM CheckpointStaysCovered == Spec => []CheckpointCoversEvents
<1>1. Init => CoverInv
  <2> SUFFICES ASSUME Init PROVE CoverInv
    OBVIOUS
  <2>1. CheckpointCoversEvents
    BY DEF Init, CheckpointCoversEvents
  <2>2. \A t \in Ticks : CoverOK(tick[t], events)
    BY NoTickCover DEF Init
  <2> QED BY <2>1, <2>2, TypeInit DEF CoverInv
<1>2. CoverInv => CheckpointCoversEvents
  BY DEF CoverInv
<1> QED
  BY <1>1, <1>2, CoverStep, PTL DEF Spec

-----------------------------------------------------------------------------
(* The events a tick has stored and not let go of.                         *)

Holding == {"save", "intents", "actions", "traces"}
Own(x) == {e \in Event : /\ x.pc \in Holding
                         /\ e.bar = x.state[Len(x.state)][1]
                         /\ \E k \in DOMAIN x.saved : e.key = x.saved[k]}

LEMMA OwnNothing == ASSUME NEW x, x.pc \notin Holding \/ x.saved = <<>> PROVE Own(x) = {}
  BY DEF Own

LEMMA OwnSame ==
  ASSUME NEW x, NEW y, y.state = x.state, y.saved = x.saved, x.pc \in Holding, y.pc \in Holding
  PROVE  Own(y) = Own(x)
  BY DEF Own

(* Apart from the insert of an event, the traces and the lanes, a step     *)
(* takes no event on, and lets one go only where a call fails.             *)
Resting ==
  /\ events' = events /\ traces' = traces /\ handed' = handed
  /\ \A u \in Ticks : Own(tick'[u]) \subseteq Own(tick[u])
  /\ \A u \in Ticks : \/ tick'[u] = tick[u]
                      \/ tick[u].pc \notin Holding \ {"traces"}
                      \/ "db" \in Faults \/ "crash" \in Faults

LEMMA PutRests ==
  ASSUME TypeInv, NEW t \in Ticks, NEW x, Put(t, x), Own(x) = {},
         tick[t].pc \notin Holding \ {"traces"} \/ "db" \in Faults,
         events' = events, traces' = traces, handed' = handed
  PROVE  Resting
<1>1. tick'[t] = x /\ \A u \in Ticks \ {t} : tick'[u] = tick[u]
  BY PutFrame DEF TypeInv
<1> QED
  BY <1>1 DEF Resting

LEMMA StepRests ==
  ASSUME TypeInv, [Next]_vars
  PROVE  \/ Resting
         \/ \E t \in Ticks : \/ SaveEvent(t)
                             \/ CaptureIntents(t)
                             \/ CaptureActions(t)
                             \/ SaveTraces(t)
<1>r. \A t \in Ticks : tick[t] \in TickRow
  BY TickType DEF TypeInv
<1>n. Own(NoTick) = {}
  BY OwnNothing DEF NoTick, Holding
<1>m. ASSUME NEW t \in Ticks, NEW p, p \notin Holding PROVE Own([tick[t] EXCEPT !.pc = p]) = {}
  <2> DEFINE x == [tick[t] EXCEPT !.pc = p]
  <2>1. x.pc = p
    BY <1>r DEF TickRow
  <2> HIDE DEF x
  <2>2. Own(x) = {}
    BY <2>1, <1>m, OwnNothing
  <2> QED BY <2>2 DEF x
<1>1. ASSUME NEW t \in Ticks, NEW b \in Bars, Ingest(t, b) PROVE Resting
  <2>1. Own([tick[t] EXCEPT !.pc = "enter"]) = {}
    BY <1>m DEF Holding
  <2> QED BY <1>1, <2>1, PutRests DEF Ingest, Move, At, Holding
<1>2. ASSUME NEW active \in BOOLEAN, UpdateStatus(active) PROVE Resting
  BY <1>2 DEF UpdateStatus, Resting
<1>3. ASSUME NEW t \in Ticks, Enter(t) PROVE Resting
  <2>1. Own([tick[t] EXCEPT !.pc = "load"]) = {}
    BY <1>m DEF Holding
  <2> QED BY <1>3, <1>n, <2>1, PutRests DEF Enter, Move, At, Holding
<1>4. ASSUME NEW t \in Ticks, GetInstance(t) PROVE Resting
  <2> DEFINE x == [tick[t] EXCEPT !.pc = "mark", !.active = row.active, !.state = row.state,
                                  !.from = IF row.upto > 0 THEN row.upto ELSE row.started]
  <2>1. x.pc = "mark"
    BY <1>r DEF TickRow
  <2>2. Put(t, x) /\ events' = events /\ traces' = traces /\ handed' = handed /\ tick[t].pc = "load"
    BY <1>4 DEF GetInstance, At
  <2> HIDE DEF x
  <2>3. Own(x) = {}
    BY <2>1, OwnNothing DEF Holding
  <2> QED BY <2>2, <2>3, PutRests DEF Holding
<1>5. ASSUME NEW t \in Ticks, Mark(t) PROVE Resting
  <2>1. Own([tick[t] EXCEPT !.pc = "query"]) = {}
    BY <1>m DEF Holding
  <2> QED BY <1>5, <1>n, <2>1, PutRests DEF Mark, Move, At, Holding
<1>6. ASSUME NEW t \in Ticks, QueryBars(t) PROVE Resting
  <2> DEFINE x == [tick[t] EXCEPT !.pc = "bar", !.todo = {<<b, candles[b]>> : b \in NewBars(t)}]
  <2>1. x.pc = "bar"
    BY <1>r DEF TickRow
  <2>2. /\ Put(t, x) \/ Put(t, NoTick)
        /\ events' = events /\ traces' = traces /\ handed' = handed /\ tick[t].pc = "query"
    BY <1>6 DEF QueryBars, At
  <2> HIDE DEF x
  <2>3. Own(x) = {}
    BY <2>1, OwnNothing DEF Holding
  <2> QED BY <1>n, <2>2, <2>3, PutRests DEF Holding
<1>7. ASSUME NEW t \in Ticks, OnBar(t) PROVE Resting
  <2>1. PICK y \in tick[t].todo :
          Put(t, [tick[t] EXCEPT !.pc = IF Emits[y] # <<>> THEN "save" ELSE
                                        IF tick[t].todo = {y} THEN "checkpoint" ELSE "bar",
                   !.state = Append(@, y), !.todo = @ \ {y},
                   !.out = Emits[y], !.n = 1, !.saved = <<>>])
    BY <1>7 DEF OnBar
  <2> DEFINE x == [tick[t] EXCEPT !.pc = IF Emits[y] # <<>> THEN "save" ELSE
                                         IF tick[t].todo = {y} THEN "checkpoint" ELSE "bar",
                   !.state = Append(@, y), !.todo = @ \ {y},
                   !.out = Emits[y], !.n = 1, !.saved = <<>>]
  <2>2. x.saved = <<>>
    BY <1>r DEF TickRow
  <2>3. Put(t, x) /\ events' = events /\ traces' = traces /\ handed' = handed /\ tick[t].pc = "bar"
    BY <1>7, <2>1 DEF OnBar, At
  <2> HIDE DEF x
  <2>4. Own(x) = {}
    BY <2>2, OwnNothing
  <2> QED BY <2>3, <2>4, PutRests DEF Holding
<1>8. ASSUME NEW t \in Ticks, SaveCheckpoint(t) PROVE Resting
  BY <1>8, <1>n, PutRests DEF SaveCheckpoint, At, Holding
<1>9. ASSUME NEW t \in Ticks, TickFails(t) PROVE Resting
  BY <1>9, <1>n, PutRests DEF TickFails
<1>10. CASE Crash
  BY <1>10, <1>n DEF Crash, Resting
<1>11. CASE UNCHANGED vars
  BY <1>11 DEF vars, Resting
<1> QED
  BY <1>1, <1>2, <1>3, <1>4, <1>5, <1>6, <1>7, <1>8, <1>9, <1>10, <1>11 DEF Next, Feed, RunTick

(* The insert of an event: the tick owns it if it was not there.           *)
LEMMA SaveOwns ==
  ASSUME TypeInv, NEW t \in Ticks, SaveEvent(t)
  PROVE  \E e \in Event :
           /\ events' = events \cup {e}
           /\ e.bar = BarOf(t)
           /\ Own(tick'[t]) = Own(tick[t]) \cup (IF e \in events THEN {} ELSE {e})
           /\ tick'[t].pc \in {"save", "intents"}
           /\ \A u \in Ticks \ {t} : tick'[u] = tick[u]
<1> DEFINE key == tick[t].out[tick[t].n]
           e == [bar |-> BarOf(t), key |-> key]
           y == [tick[t] EXCEPT !.pc = IF tick[t].n < Len(tick[t].out) THEN "save" ELSE "intents",
                   !.n = @ + 1, !.saved = IF e \in events THEN @ ELSE Append(@, key)]
           s == tick[t].saved
<1>r. tick[t] \in TickRow /\ TypeOK /\ StepHolds
  BY TickType DEF TypeInv
<1>0. tick[t].pc = "save"
  BY DEF SaveEvent, At
<1>1. key \in Keys /\ BarOf(t) \in Bars
  BY <1>r, <1>0, BarType DEF StepHolds, TickRow, At, AfterBar
<1>2. e \in Event /\ e.bar = BarOf(t) /\ e.key = key
  BY <1>1 DEF Event
<1>3. Put(t, y) /\ events' = events \cup {e}
  BY DEF SaveEvent
<1>4. tick'[t] = y /\ \A u \in Ticks \ {t} : tick'[u] = tick[u]
  BY <1>3, <1>r, PutFrame
<1>5. y.pc \in {"save", "intents"} /\ y.state = tick[t].state
      /\ y.saved = IF e \in events THEN s ELSE Append(s, key)
  BY <1>r DEF TickRow
<1>6. s \in Seq(Keys)
  BY <1>r DEF TickRow
<1> HIDE DEF y, e, key, s
<1>7. CASE e \in events
  <2>1. Own(y) = Own(tick[t])
    BY <1>0, <1>5, <1>7, OwnSame DEF Holding, s
  <2> QED BY <1>2, <1>3, <1>4, <1>5, <1>7, <2>1
<1>8. CASE e \notin events
  <2>1. y.saved = Append(s, key)
    BY <1>5, <1>8
  <2>2. /\ DOMAIN y.saved = 1..(Len(s) + 1) /\ DOMAIN s = 1..Len(s) /\ Len(s) \in Nat
        /\ y.saved[Len(s) + 1] = key /\ \A i \in 1..Len(s) : y.saved[i] = s[i]
    BY <2>1, <1>6
  <2>3. \A k : (\E i \in DOMAIN y.saved : k = y.saved[i]) <=> (k = key \/ \E i \in DOMAIN s : k = s[i])
    BY <2>2
  <2>4. \A f \in Event : f \in Own(y) <=> f \in Own(tick[t]) \/ (f.bar = BarOf(t) /\ f.key = key)
    <3>1. y.pc \in Holding /\ tick[t].pc \in Holding
      BY <1>0, <1>5 DEF Holding
    <3>2. \A f \in Event : f \in Own(y) <=> f.bar = BarOf(t) /\ \E i \in DOMAIN y.saved : f.key = y.saved[i]
      BY <3>1, <1>5 DEF Own, BarOf
    <3>3. \A f \in Event : f \in Own(tick[t]) <=> f.bar = BarOf(t) /\ \E i \in DOMAIN s : f.key = s[i]
      BY <3>1 DEF Own, BarOf, s
    <3> QED BY <3>2, <3>3, <2>3
  <2>5. \A f \in Event : f.bar = BarOf(t) /\ f.key = key <=> f = e
    BY <1>2 DEF Event
  <2>6. Own(y) = Own(tick[t]) \cup {e}
    <3>1. Own(y) \subseteq Event /\ Own(tick[t]) \subseteq Event
      BY DEF Own
    <3> QED BY <3>1, <2>4, <2>5, <1>2
  <2> QED BY <1>2, <1>3, <1>4, <1>5, <1>8, <2>6
<1> QED
  BY <1>7, <1>8

(* What a lane receives is what its tick owns of the entries.              *)
LEMMA OwnIsHanded ==
  ASSUME TypeInv, NEW t \in Ticks, tick[t].pc \in Holding, NEW e \in Own(tick[t]), e.key \in EntryKeys
  PROVE  e \in Entries(t)
<1>1. PICK k \in DOMAIN tick[t].saved : e.key = tick[t].saved[k]
  BY DEF Own
<1>2. tick[t].saved \in Seq(Keys)
  BY TickType DEF TypeInv, TickRow
<1>3. e = [bar |-> BarOf(t), key |-> tick[t].saved[k]]
  BY <1>1 DEF Own, Event, BarOf
<1>4. k \in 1..Len(tick[t].saved)
  BY <1>1, <1>2
<1> QED
  BY <1>1, <1>3, <1>4 DEF Entries

-----------------------------------------------------------------------------
(* Every stored event has one owner at most, and no trace while it has.    *)

Linked == {e \in Event : \E x \in traces : x.bar = e.bar /\ e.key \in x.link}

LinkInv ==
  /\ TypeInv
  /\ Linked \subseteq events
  /\ \A t \in Ticks : Own(tick[t]) \subseteq events \ Linked
  /\ \A t, u \in Ticks : t # u => Own(tick[t]) \cap Own(tick[u]) = {}

LEMMA LinkStep == LinkInv /\ [Next]_vars => LinkInv'
<1> SUFFICES ASSUME LinkInv, [Next]_vars PROVE LinkInv'
  OBVIOUS
<1>0. TypeInv /\ TypeInv' /\ TypeOK
  BY TypeStep DEF LinkInv, TypeInv
<1>1. CASE Resting
  <2>1. Linked' = Linked
    BY <1>1 DEF Resting, Linked
  <2> QED BY <1>0, <1>1, <2>1 DEF Resting, LinkInv
<1>2. ASSUME NEW t \in Ticks, SaveEvent(t) PROVE LinkInv'
  <2>1. PICK e \in Event :
           /\ events' = events \cup {e}
           /\ Own(tick'[t]) = Own(tick[t]) \cup (IF e \in events THEN {} ELSE {e})
           /\ \A u \in Ticks \ {t} : tick'[u] = tick[u]
    BY <1>0, <1>2, SaveOwns
  <2>2. Linked' = Linked
    BY <1>2 DEF SaveEvent, Linked
  <2>3. \A u \in Ticks : Own(tick'[u]) \subseteq events' \ Linked'
    BY <2>1, <2>2 DEF LinkInv
  <2>4. \A u, v \in Ticks : u # v => Own(tick'[u]) \cap Own(tick'[v]) = {}
    BY <2>1 DEF LinkInv
  <2> QED BY <1>0, <2>1, <2>2, <2>3, <2>4 DEF LinkInv
<1>3. ASSUME NEW t \in Ticks, NEW lane \in Lanes, NEW next \in {"actions", "traces"},
             HandOver(t, lane, next)
      PROVE  LinkInv'
  <2> DEFINE x == [tick[t] EXCEPT !.pc = next]
  <2>1. x.pc = next /\ x.state = tick[t].state /\ x.saved = tick[t].saved
    BY <1>0, TickType DEF TickRow
  <2>2. Put(t, x) /\ events' = events /\ traces' = traces /\ tick[t].pc \in Holding
    BY <1>3 DEF HandOver, Move, At, Holding, Lanes
  <2> HIDE DEF x
  <2>3. Own(x) = Own(tick[t])
    BY <2>1, <2>2, OwnSame DEF Holding
  <2>4. tick'[t] = x /\ \A u \in Ticks \ {t} : tick'[u] = tick[u]
    BY <1>0, <2>2, PutFrame
  <2>5. Linked' = Linked /\ \A u \in Ticks : Own(tick'[u]) = Own(tick[u])
    BY <2>2, <2>3, <2>4 DEF Linked
  <2> QED BY <1>0, <2>2, <2>5 DEF LinkInv
<1>4. ASSUME NEW t \in Ticks, SaveTraces(t) PROVE LinkInv'
  <2> DEFINE p == IF tick[t].todo = {} THEN "checkpoint" ELSE "bar"
             x == [tick[t] EXCEPT !.pc = p]
  <2>1. x.pc = p /\ p \notin Holding
    BY <1>0, TickType DEF TickRow, Holding
  <2>2. Put(t, x) /\ events' = events /\ tick[t].pc = "traces"
    BY <1>4 DEF SaveTraces, Move, At
  <2> HIDE DEF x, p
  <2>3. Own(x) = {}
    BY <2>1, OwnNothing
  <2>4. tick'[t] = x /\ \A u \in Ticks \ {t} : tick'[u] = tick[u]
    BY <1>0, <2>2, PutFrame
  <2>5. Linked' \subseteq Linked \cup Own(tick[t])
    <3> SUFFICES ASSUME NEW e \in Linked', e \notin Linked PROVE e \in Own(tick[t])
      OBVIOUS
    <3>1. PICK y \in traces' : y.bar = e.bar /\ e.key \in y.link
      BY DEF Linked
    <3>2. y \notin traces /\ e \in Event
      BY <3>1 DEF Linked
    <3>3. PICK n \in 1..Len(tick[t].out) :
            y = [bar |-> BarOf(t), key |-> tick[t].out[n], link |-> LinkOf(t, n)]
      BY <1>4, <3>1, <3>2 DEF SaveTraces
    <3>4. e.bar = BarOf(t) /\ e.key \in LinkOf(t, n)
      BY <3>1, <3>3
    <3>5. n <= Len(tick[t].saved) /\ e.key = tick[t].saved[n]
      BY <3>4 DEF LinkOf
    <3>6. tick[t].saved \in Seq(Keys) /\ tick[t].out \in Seq(Keys)
      BY <1>0, TickType DEF TickRow
    <3>7. n \in DOMAIN tick[t].saved
      BY <3>5, <3>6
    <3> QED BY <2>2, <3>2, <3>4, <3>5, <3>7 DEF Own, Holding, BarOf
  <2>6. Linked' \subseteq events'
    BY <2>2, <2>5 DEF LinkInv
  <2>7. \A u \in Ticks : Own(tick'[u]) \subseteq events' \ Linked'
    BY <2>2, <2>3, <2>4, <2>5 DEF LinkInv
  <2>8. \A u, v \in Ticks : u # v => Own(tick'[u]) \cap Own(tick'[v]) = {}
    BY <2>3, <2>4 DEF LinkInv
  <2> QED BY <1>0, <2>6, <2>7, <2>8 DEF LinkInv
<1> QED
  BY <1>0, StepRests, <1>1, <1>2, <1>3, <1>4 DEF CaptureIntents, CaptureActions, Lanes

(* No tick ever links a trace to an event that has a trace already.        *)
THEOREM LinksStayFresh == Spec => []LinksFresh
<1>1. Init => LinkInv
  <2> SUFFICES ASSUME Init PROVE LinkInv
    OBVIOUS
  <2>1. Linked = {} /\ \A t \in Ticks : Own(tick[t]) = {}
    BY OwnNothing DEF Init, Linked, NoTick, Holding
  <2> QED BY <2>1, TypeInit DEF LinkInv
<1>2. LinkInv => LinksFresh
  <2> SUFFICES ASSUME LinkInv, NEW t \in Ticks, At(t, "traces"), NEW x \in traces,
                      NEW n \in DOMAIN tick[t].out, x.bar = BarOf(t),
                      NEW k \in x.link, k \in LinkOf(t, n)
               PROVE  FALSE
    BY DEF LinksFresh
  <2>1. n <= Len(tick[t].saved) /\ k = tick[t].saved[n]
    BY DEF LinkOf
  <2>2. tick[t].saved \in Seq(Keys) /\ tick[t].out \in Seq(Keys)
    BY TickType DEF LinkInv, TypeInv, TickRow
  <2>3. n \in DOMAIN tick[t].saved
    BY <2>1, <2>2
  <2>4. x.bar \in Bars /\ k \in Keys
    BY <2>1, <2>2, <2>3 DEF LinkInv, TypeInv, TypeOK
  <2> DEFINE e == [bar |-> x.bar, key |-> k]
  <2>5. e \in Event /\ e.bar = x.bar /\ e.key = k
    BY <2>4 DEF Event
  <2> HIDE DEF e
  <2>6. e \in Linked
    BY <2>5 DEF Linked
  <2>7. e \in Own(tick[t])
    BY <2>1, <2>3, <2>5 DEF Own, Holding, At, BarOf
  <2> QED BY <2>6, <2>7 DEF LinkInv
<1> QED
  BY <1>1, <1>2, LinkStep, PTL DEF Spec

-----------------------------------------------------------------------------
(* Where the handover of an entry to a lane is still ahead.                *)

Before(lane) == IF lane = "intents" THEN {"save", "intents"} ELSE {"save", "intents", "actions"}

EntryInv ==
  /\ TypeInv
  /\ \A e \in events, lane \in Lanes : e.key \in EntryKeys =>
       \/ e \in handed[lane]
       \/ \E t \in Ticks : tick[t].pc \in Before(lane) /\ e \in Own(tick[t])

LEMMA EntryStep ==
  ASSUME "db" \notin Faults, "crash" \notin Faults
  PROVE  EntryInv /\ [Next]_vars => EntryInv'
<1> SUFFICES ASSUME EntryInv, [Next]_vars PROVE EntryInv'
  OBVIOUS
<1>0. TypeInv /\ TypeInv' /\ TypeOK
  BY TypeStep DEF EntryInv, TypeInv
<1>b. \A lane \in Lanes : Before(lane) \subseteq Holding \ {"traces"}
  BY DEF Before, Lanes, Holding
<1>1. CASE Resting
  <2> SUFFICES ASSUME NEW e \in events, NEW lane \in Lanes, e.key \in EntryKeys,
                      e \notin handed[lane]
               PROVE  \E t \in Ticks : tick'[t].pc \in Before(lane) /\ e \in Own(tick'[t])
    BY <1>0, <1>1 DEF Resting, EntryInv
  <2>1. PICK t \in Ticks : tick[t].pc \in Before(lane) /\ e \in Own(tick[t])
    BY DEF EntryInv
  <2>2. tick'[t] = tick[t]
    BY <1>1, <1>b, <2>1 DEF Resting
  <2> QED BY <2>1, <2>2
<1>2. ASSUME NEW t \in Ticks, SaveEvent(t) PROVE EntryInv'
  <2>1. PICK d \in Event :
           /\ events' = events \cup {d}
           /\ Own(tick'[t]) = Own(tick[t]) \cup (IF d \in events THEN {} ELSE {d})
           /\ tick'[t].pc \in {"save", "intents"}
           /\ \A u \in Ticks \ {t} : tick'[u] = tick[u]
    BY <1>0, <1>2, SaveOwns
  <2>2. handed' = handed
    BY <1>2 DEF SaveEvent
  <2> SUFFICES ASSUME NEW e \in events', NEW lane \in Lanes, e.key \in EntryKeys,
                      e \notin handed[lane]
               PROVE  \E u \in Ticks : tick'[u].pc \in Before(lane) /\ e \in Own(tick'[u])
    BY <1>0, <2>2 DEF EntryInv
  <2>3. tick'[t].pc \in Before(lane)
    BY <2>1 DEF Before
  <2>4. CASE e \in events
    <3>1. PICK u \in Ticks : tick[u].pc \in Before(lane) /\ e \in Own(tick[u])
      BY <2>4 DEF EntryInv
    <3> QED BY <2>1, <2>3, <3>1
  <2>5. CASE e \notin events
    BY <2>1, <2>3, <2>5
  <2> QED BY <2>4, <2>5
<1>3. ASSUME NEW t \in Ticks, NEW lane \in Lanes, NEW next \in {"actions", "traces"},
             HandOver(t, lane, next), lane = "intents" <=> next = "actions"
      PROVE  EntryInv'
  <2> DEFINE x == [tick[t] EXCEPT !.pc = next]
  <2>1. x.pc = next /\ x.state = tick[t].state /\ x.saved = tick[t].saved
    BY <1>0, TickType DEF TickRow
  <2>2. Put(t, x) /\ events' = events /\ tick[t].pc = lane
        /\ handed' = [handed EXCEPT ![lane] = @ \cup Entries(t)]
    BY <1>3 DEF HandOver, Move, At
  <2> HIDE DEF x
  <2>3. Own(x) = Own(tick[t])
    BY <2>1, <2>2, OwnSame DEF Holding, Lanes
  <2>4. tick'[t] = x /\ \A u \in Ticks \ {t} : tick'[u] = tick[u]
    BY <1>0, <2>2, PutFrame
  <2>5. handed'[lane] = handed[lane] \cup Entries(t)
        /\ \A m \in Lanes : handed[m] \subseteq handed'[m]
    BY <1>0, <2>2 DEF TypeOK
  <2> SUFFICES ASSUME NEW e \in events, NEW m \in Lanes, e.key \in EntryKeys, e \notin handed'[m]
               PROVE  \E u \in Ticks : tick'[u].pc \in Before(m) /\ e \in Own(tick'[u])
    BY <1>0, <2>2 DEF EntryInv
  <2>6. PICK u \in Ticks : tick[u].pc \in Before(m) /\ e \in Own(tick[u])
    BY <2>5 DEF EntryInv
  <2>7. CASE u # t
    BY <2>4, <2>6, <2>7
  <2>8. CASE u = t
    <3>1. e \in Entries(t)
      BY <1>0, <2>2, <2>6, <2>8, OwnIsHanded DEF Holding, Lanes
    <3>2. m # lane
      BY <2>5, <3>1
    <3>3. lane = "intents" /\ m = "actions"
      BY <2>2, <2>6, <2>8, <3>2 DEF Before, Lanes
    <3>4. x.pc \in Before(m)
      BY <1>3, <2>1, <3>3 DEF Before
    <3> QED BY <2>3, <2>4, <2>6, <2>8, <3>4
  <2> QED BY <2>7, <2>8
<1>4. ASSUME NEW t \in Ticks, SaveTraces(t) PROVE EntryInv'
  <2> DEFINE x == [tick[t] EXCEPT !.pc = IF tick[t].todo = {} THEN "checkpoint" ELSE "bar"]
  <2>1. Put(t, x) /\ events' = events /\ handed' = handed /\ tick[t].pc = "traces"
    BY <1>4 DEF SaveTraces, Move, At
  <2> HIDE DEF x
  <2>2. \A u \in Ticks \ {t} : tick'[u] = tick[u]
    BY <1>0, <2>1, PutFrame
  <2> SUFFICES ASSUME NEW e \in events, NEW lane \in Lanes, e.key \in EntryKeys,
                      e \notin handed[lane]
               PROVE  \E u \in Ticks : tick'[u].pc \in Before(lane) /\ e \in Own(tick'[u])
    BY <1>0, <2>1 DEF EntryInv
  <2>3. PICK u \in Ticks : tick[u].pc \in Before(lane) /\ e \in Own(tick[u])
    BY DEF EntryInv
  <2> QED BY <1>b, <2>1, <2>2, <2>3
<1> QED
  BY <1>0, StepRests, <1>1, <1>2, <1>3, <1>4 DEF CaptureIntents, CaptureActions, Lanes

(* Without crashes and failed calls, an entry some lane has not received   *)
(* is in the hands of a tick that is going to hand it over.                *)
THEOREM EntriesArrive ==
  ASSUME "db" \notin Faults, "crash" \notin Faults
  PROVE  Spec => []EntriesReachLanes
<1>1. Init => EntryInv
  BY TypeInit DEF Init, EntryInv
<1>2. EntryInv => EntriesReachLanes
  <2> SUFFICES ASSUME EntryInv, NEW e \in events, NEW lane \in Lanes,
                      e.key \in EntryKeys, e \notin handed[lane]
               PROVE  \E t \in Ticks : tick[t].pc \in {"save", "intents", "actions"} /\ e.bar = BarOf(t)
                                       /\ \E k \in DOMAIN tick[t].saved : tick[t].saved[k] = e.key
    BY DEF EntriesReachLanes
  <2>1. PICK t \in Ticks : tick[t].pc \in Before(lane) /\ e \in Own(tick[t])
    BY DEF EntryInv
  <2> QED BY <2>1 DEF Before, Own, BarOf
<1> QED
  BY <1>1, <1>2, EntryStep, PTL DEF Spec
=============================================================================
