----------------------------- MODULE LiveRunner -----------------------------
(***************************************************************************)
(* The live evaluation of one indicator instance: every ingestion of a     *)
(* candle starts IndicatorLiveRunner.runTick, which folds the new bars     *)
(* into the plugin state, stores the signal events, hands the entries to   *)
(* the two trading lanes and writes one checkpoint at the end.             *)
(*                                                                         *)
(* One action is the code between two awaits.  A tick is one call of       *)
(* runTick; several requests that ingest candles run it concurrently in    *)
(* the API process.  What a plugin computes is the constant Emits; its     *)
(* state is the sequence of the bars it has consumed.                      *)
(***************************************************************************)
EXTENDS Naturals, FiniteSets, Sequences

CONSTANTS
  Ticks,      \* concurrent ingestion requests
  MaxBar,     \* bars 1..MaxBar, by candle time
  Keys,       \* what tells the events of one bar apart: eventType, cycleNumber
  EntryKeys,  \* the keys whose eventType is ENTRY
  Emits,      \* Bars x Forms -> events of the step, one trace for each
  Faults      \* the failures the environment may show

(* "db": an awaited call throws and changes nothing                        *)
(* "crash": the API process dies                                           *)
(* "gap": a bar is left out of the feed, and may arrive later              *)
(* "pause": an operator changes the status of the instance                 *)
FaultKinds == {"db", "crash", "gap", "pause"}

Bars == 1..MaxBar
Forms == {"forming", "final"}
Lanes == {"intents", "actions"}

ASSUME ConstantsAssumption ==
  /\ MaxBar \in Nat
  /\ EntryKeys \subseteq Keys
  /\ Emits \in [Bars \X Forms -> Seq(Keys)]
  /\ Faults \subseteq FaultKinds

VARIABLES
  candles,  \* price_candles: the form in which each bar was last upserted
  row,      \* indicator_instances: status, startedAt, checkpoint, plugin state
  events,   \* signal_events, unique by bar and key
  handed,   \* events handed over to each lane
  traces,   \* signal_logic_traces with the event each is linked to
  running,  \* processingInstances holds the instance
  tick      \* progress of each runTick

vars == <<candles, row, events, handed, traces, running, tick>>

Event == [bar : Bars, key : Keys]
FoldedBar == Bars \X Forms

NoTick == [pc |-> "idle", active |-> FALSE, from |-> 0, state |-> <<>>,
           todo |-> {}, out |-> <<>>, n |-> 0, saved |-> <<>>]

Newest == CHOOSE b \in 0..MaxBar :
  (b = 0 \/ candles[b] # "absent") /\ \A c \in Bars : candles[c] # "absent" => c <= b

BarOf(t) == tick[t].state[Len(tick[t].state)][1]

At(t, p) == tick[t].pc = p
InTry == {"query", "bar", "save", "intents", "actions", "traces", "checkpoint"}

Put(t, x) == tick' = [tick EXCEPT ![t] = x]
Move(t, p) == Put(t, [tick[t] EXCEPT !.pc = p])

Init ==
  /\ candles = [b \in Bars |-> "absent"]
  /\ row = [active |-> TRUE, started |-> 0, upto |-> 0, state |-> <<>>]
  /\ events = {}
  /\ handed = [l \in Lanes |-> {}]
  /\ traces = {}
  /\ running = FALSE
  /\ tick = [t \in Ticks |-> NoTick]
-----------------------------------------------------------------------------
(* INGESTION: upsertCandles, then triggerIndicators without waiting        *)

(* The feed pushes the newest bar again and again while it is forming, and *)
(* is_closed is always written true.  An older bar is final.               *)
Ingest(t, b) ==
  /\ At(t, "idle")
  /\ \E form \in Forms :
       /\ form = "forming" => b >= Newest /\ candles[b] # "final"
       /\ candles[b] = "absent" => b = Newest + 1 \/ "gap" \in Faults
       /\ candles' = [candles EXCEPT ![b] = form]
  /\ Move(t, "enter")
  /\ UNCHANGED <<row, events, handed, traces, running>>

(* updateStatus by an operator; startedAt is written on every activation.  *)
UpdateStatus(active) ==
  /\ "pause" \in Faults
  /\ row' = [row EXCEPT !.active = active, !.started = IF active THEN Newest ELSE row.started]
  /\ UNCHANGED <<candles, events, handed, traces, running, tick>>
-----------------------------------------------------------------------------
(* RUNTICK                                                                 *)

(* processingInstances.has: a request that finds the marker returns.       *)
Enter(t) ==
  /\ At(t, "enter")
  /\ \/ running /\ Put(t, NoTick)
     \/ ~running /\ Move(t, "load")
  /\ UNCHANGED <<candles, row, events, handed, traces, running>>

(* Variant: starts one bar before the activation.                          *)
GetInstanceEarly(t) ==
  /\ At(t, "load")
  /\ Put(t, [tick[t] EXCEPT !.pc = "mark", !.active = row.active, !.state = row.state,
              !.from = IF row.upto > 0 THEN row.upto ELSE row.started - 1])
  /\ UNCHANGED <<candles, row, events, handed, traces, running>>

(* await getInstance: the row is read here and used until the end.         *)
(* lastProcessedCandleTime, or startedAt before the first checkpoint.      *)
GetInstance(t) ==
  /\ At(t, "load")
  /\ Put(t, [tick[t] EXCEPT !.pc = "mark", !.active = row.active, !.state = row.state,
              !.from = IF row.upto > 0 THEN row.upto ELSE row.started])
  /\ UNCHANGED <<candles, row, events, handed, traces, running>>

(* The status check, then processingInstances.add.                         *)
Mark(t) ==
  /\ At(t, "mark")
  /\ \/ ~tick[t].active /\ Put(t, NoTick) /\ UNCHANGED running
     \/ tick[t].active /\ running' = TRUE /\ Move(t, "query")
  /\ UNCHANGED <<candles, row, events, handed, traces>>

(* Variant: keeps the bar the query returns again (it uses gte).           *)
NewBarsGte(t) == {b \in Bars : candles[b] # "absent" /\ b >= tick[t].from}

(* newBars: the query returns the checkpoint bar too, the filter drops it. *)
NewBars(t) == {b \in Bars : candles[b] # "absent" /\ b > tick[t].from}

(* Variant: returns before the try, so that the marker stays.              *)
QueryKeepsMarker(t) ==
  /\ At(t, "query")
  /\ LET new == {<<b, candles[b]>> : b \in NewBars(t)} IN
     \/ new = {} /\ Put(t, NoTick)
     \/ new # {} /\ Put(t, [tick[t] EXCEPT !.pc = "bar", !.todo = new])
  /\ UNCHANGED <<candles, row, events, handed, traces, running>>

(* getCandles; without new bars the finally block ends the tick.           *)
QueryBars(t) ==
  /\ At(t, "query")
  /\ LET new == {<<b, candles[b]>> : b \in NewBars(t)} IN
     \/ /\ new = {} /\ running' = FALSE
        /\ Put(t, NoTick)
     \/ /\ new # {} /\ UNCHANGED running
        /\ Put(t, [tick[t] EXCEPT !.pc = "bar", !.todo = new])
  /\ UNCHANGED <<candles, row, events, handed, traces>>

(* plugin.onBar on the oldest bar that is left.                            *)
OnBar(t) ==
  /\ At(t, "bar")
  /\ \E x \in tick[t].todo :
       /\ \A y \in tick[t].todo : x[1] <= y[1]
       /\ Put(t, [tick[t] EXCEPT !.pc = IF Emits[x] # <<>> THEN "save" ELSE
                                          IF tick[t].todo = {x} THEN "checkpoint" ELSE "bar",
                   !.state = Append(@, x), !.todo = @ \ {x},
                   !.out = Emits[x], !.n = 1, !.saved = <<>>])
  /\ UNCHANGED <<candles, row, events, handed, traces, running>>

(* Variant: takes every error of the insert for a duplicate.               *)
SaveEventAnyError(t) ==
  /\ At(t, "save")
  /\ LET key == tick[t].out[tick[t].n]
         e == [bar |-> BarOf(t), key |-> key] IN
     /\ \/ events' = events \cup {e}
        \/ "db" \in Faults /\ UNCHANGED events
     /\ Put(t, [tick[t] EXCEPT !.pc = IF tick[t].n < Len(tick[t].out) THEN "save" ELSE "intents",
                 !.n = @ + 1, !.saved = IF e \in events' \ events THEN Append(@, key) ELSE @])
  /\ UNCHANGED <<candles, row, handed, traces, running>>

(* Variant: goes on with the row that exists already.                      *)
SaveEventOrFind(t) ==
  /\ At(t, "save")
  /\ LET key == tick[t].out[tick[t].n] IN
     /\ events' = events \cup {[bar |-> BarOf(t), key |-> key]}
     /\ Put(t, [tick[t] EXCEPT !.pc = IF tick[t].n < Len(tick[t].out) THEN "save" ELSE "intents",
                 !.n = @ + 1, !.saved = Append(@, key)])
  /\ UNCHANGED <<candles, row, handed, traces, running>>

(* signalEvent.create; a duplicate (P2002) is skipped.                     *)
SaveEvent(t) ==
  /\ At(t, "save")
  /\ LET key == tick[t].out[tick[t].n]
         e == [bar |-> BarOf(t), key |-> key] IN
     /\ events' = events \cup {e}
     /\ Put(t, [tick[t] EXCEPT !.pc = IF tick[t].n < Len(tick[t].out) THEN "save" ELSE "intents",
                 !.n = @ + 1, !.saved = IF e \in events THEN @ ELSE Append(@, key)])
  /\ UNCHANGED <<candles, row, handed, traces, running>>

(* Variant: only if the step was stored as a whole.                        *)
EntriesOfWholeStep(t) == {[bar |-> BarOf(t), key |-> tick[t].saved[k]] : k \in
  {k \in 1..Len(tick[t].saved) :
     tick[t].saved[k] \in EntryKeys /\ Len(tick[t].saved) = Len(tick[t].out)}}

(* The ENTRY events this tick created itself.                              *)
Entries(t) == {[bar |-> BarOf(t), key |-> tick[t].saved[k]] : k \in
                {k \in 1..Len(tick[t].saved) : tick[t].saved[k] \in EntryKeys}}

(* captureAutoExecuteEntryIntents, captureActionableEvents: what they      *)
(* throw is logged and forgotten.                                          *)
HandOver(t, lane, next) ==
  /\ At(t, lane)
  /\ \/ handed' = [handed EXCEPT ![lane] = @ \cup Entries(t)]
     \/ "db" \in Faults /\ UNCHANGED handed
  /\ Move(t, next)
  /\ UNCHANGED <<candles, row, events, traces, running>>

CaptureIntents(t) == HandOver(t, "intents", "actions")
CaptureActions(t) == HandOver(t, "actions", "traces")

(* persistedEvents pairs the n-th stored event with the n-th drafted one,  *)
(* and a trace takes the stored event paired with the draft of its key.    *)
LinkOf(t, n) == IF n <= Len(tick[t].saved) THEN {tick[t].saved[n]} ELSE {}

SaveTraces(t) ==
  /\ At(t, "traces")
  /\ traces' = traces \cup {[bar |-> BarOf(t), key |-> tick[t].out[n], link |-> LinkOf(t, n)] :
                              n \in 1..Len(tick[t].out)}
  /\ Move(t, IF tick[t].todo = {} THEN "checkpoint" ELSE "bar")
  /\ UNCHANGED <<candles, row, events, handed, running>>

(* saveCheckpoint and the finally block.                                   *)
SaveCheckpoint(t) ==
  /\ At(t, "checkpoint")
  /\ row' = [row EXCEPT !.upto = BarOf(t), !.state = tick[t].state]
  /\ running' = FALSE
  /\ Put(t, NoTick)
  /\ UNCHANGED <<candles, events, handed, traces>>

(* Variant: no finally block.                                              *)
TickFailsMarked(t) ==
  /\ "db" \in Faults
  /\ tick[t].pc \in InTry \cup {"load"}
  /\ Put(t, NoTick)
  /\ UNCHANGED <<candles, row, events, handed, traces, running>>

(* An awaited call throws: runTick rejects before the try; inside it the   *)
(* tick ends without a checkpoint and finally removes the marker.          *)
TickFails(t) ==
  /\ "db" \in Faults
  /\ \/ At(t, "load") /\ UNCHANGED running
     \/ tick[t].pc \in InTry /\ running' = FALSE
  /\ Put(t, NoTick)
  /\ UNCHANGED <<candles, row, events, handed, traces>>

(* The API process dies; the rows survive, the marker does not.            *)
Crash ==
  /\ "crash" \in Faults
  /\ running' = FALSE
  /\ tick' = [t \in Ticks |-> NoTick]
  /\ UNCHANGED <<candles, row, events, handed, traces>>

RunTick(t) ==
  \/ Enter(t) \/ GetInstance(t) \/ Mark(t) \/ QueryBars(t) \/ OnBar(t) \/ SaveEvent(t)
  \/ CaptureIntents(t) \/ CaptureActions(t) \/ SaveTraces(t) \/ SaveCheckpoint(t)

Feed == \E t \in Ticks, b \in Bars : Ingest(t, b)

Next ==
  \/ Feed
  \/ \E active \in BOOLEAN : UpdateStatus(active)
  \/ \E t \in Ticks : RunTick(t) \/ TickFails(t)
  \/ Crash

Spec == Init /\ [][Next]_vars

(* A tick that started runs on, and the feed pushes its latest bars every  *)
(* few seconds for as long as the market is open.                          *)
FairSpec == Spec /\ (\A t \in Ticks : WF_vars(RunTick(t))) /\ WF_vars(Feed)
-----------------------------------------------------------------------------
(* PROPERTIES                                                              *)

(* Every variable keeps the shape of the rows and records it models.       *)
TypeOK ==
  /\ candles \in [Bars -> Forms \cup {"absent"}]
  /\ row \in [active : BOOLEAN, started : 0..MaxBar, upto : 0..MaxBar, state : Seq(FoldedBar)]
  /\ events \subseteq Event
  /\ handed \in [Lanes -> SUBSET Event]
  /\ traces \subseteq [bar : Bars, key : Keys, link : SUBSET Keys]
  /\ running \in BOOLEAN
  /\ tick \in [Ticks -> [pc : {"idle", "enter", "load", "mark"} \cup InTry, active : BOOLEAN,
                         from : 0..MaxBar, state : Seq(FoldedBar), todo : SUBSET FoldedBar,
                         out : Seq(Keys), n : Nat, saved : Seq(Keys)]]

(* The plugin state of the checkpoint has consumed each bar once, oldest   *)
(* first, and up to the very bar the checkpoint names: whatever ticks      *)
(* overlap, fail or are cut short, state and time belong together.         *)
CheckpointIsFold ==
  /\ \A j, k \in DOMAIN row.state : j < k => row.state[j][1] < row.state[k][1]
  /\ IF row.state = <<>> THEN row.upto = 0 ELSE row.upto = row.state[Len(row.state)][1]

(* A bar behind the checkpoint is never looked at again, so all its events *)
(* are stored by then: a failed insert holds the checkpoint back.          *)
CheckpointCoversEvents ==
  \A k \in DOMAIN row.state :
    LET x == row.state[k] IN
    \A n \in DOMAIN Emits[x] : [bar |-> x[1], key |-> Emits[x][n]] \in events

(* An entry event that no lane has received is still in the hands of the   *)
(* tick that stored it: an overlapping tick that skips it as a duplicate   *)
(* never lets it go unnoticed.  Without crashes and failed calls.          *)
EntriesReachLanes ==
  \A e \in events, lane \in Lanes : e.key \in EntryKeys /\ e \notin handed[lane] =>
    \E t \in Ticks : tick[t].pc \in {"save", "intents", "actions"} /\ e.bar = BarOf(t)
                     /\ \E k \in DOMAIN tick[t].saved : tick[t].saved[k] = e.key

(* The marker of processingInstances is never left behind by a tick that   *)
(* ended, however it ended: the instance would never be evaluated again.   *)
MarkerReleased == running => \E t \in Ticks : tick[t].pc \in InTry

(* signal_event_id is unique in signal_logic_traces: if a tick linked a    *)
(* trace to an event that has one already, the insert would throw and the  *)
(* replay of the bar would throw again, for ever.  Overlapping ticks and   *)
(* replays never do.                                                       *)
LinksFresh ==
  \A t \in Ticks : At(t, "traces") =>
    \A x \in traces, n \in DOMAIN tick[t].out : x.bar = BarOf(t) => x.link \cap LinkOf(t, n) = {}

(* What the documentation prefers: an entry that was stored is delivered,  *)
(* possibly twice, rather than dropped.  Once no tick works on the bar any *)
(* more and the checkpoint has passed it, both lanes have the entry.       *)
NoEntryDropped ==
  \A e \in events, lane \in Lanes :
    e.key \in EntryKeys /\ row.upto >= e.bar /\ (\A t \in Ticks : At(t, "idle")) => e \in handed[lane]

(* The bar is newer than what the checkpoint and the ticks under way have  *)
(* passed.  One that arrives behind them is filtered out and never looked  *)
(* at, so that nothing is said of it.                                      *)
Ahead(b) ==
  /\ candles[b] # "absent" /\ row.upto < b
  /\ \A t \in Ticks : /\ tick[t].from < b
                      /\ \A x \in tick[t].todo : x[1] <= b
                      /\ \A k \in DOMAIN tick[t].state : tick[t].state[k][1] <= b

(* Every bar that arrives ahead of the checkpoint is folded into it, if    *)
(* the feed goes on: a request turned away by the marker, or an            *)
(* overlapping tick that writes an older checkpoint, does not lose it.     *)
BarsEvaluated ==
  \A b \in Bars : Ahead(b) ~> \E k \in DOMAIN row.state : row.state[k][1] = b
=============================================================================
