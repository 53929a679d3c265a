---------------------------- MODULE PusherBuffer ----------------------------
(***************************************************************************)
(* The market-data service for one symbol and timeframe.  At its start it  *)
(* asks the backend for the last candle and fetches what is missing since; *)
(* then the live job pushes the newest bars, with retries; what cannot be  *)
(* pushed goes to a bounded buffer, which a second job flushes.  The jobs  *)
(* are threads of one scheduler, each with one instance, and the backend   *)
(* overwrites what it has.                                                 *)
(*                                                                         *)
(* A payload is the bars of one fetch, as they stood at its tick `at`.     *)
(***************************************************************************)
EXTENDS Integers, Sequences, FiniteSets

CONSTANTS
  BarTicks,        \* ticks that form one bar
  FetchBars,       \* LIVE_FETCH_BARS
  HistoricalBars,  \* historical_days, in bars
  Lag,             \* the broker's clock less UTC, in bars
  RetryMax,        \* RETRY_MAX
  BufferSize,      \* BUFFER_SIZE
  Ticks,           \* bound: ticks of the market
  MaxPending,      \* bound: requests that are late at the same time
  PushFaults       \* the failures the environment may show

(* "lost": a request that fails may have been carried out, or a part of it *)
(* "late": it may be carried out later                                     *)
(* "restart": the service is stopped at any time, its memory is gone       *)
(* "status": the question for the last candle fails                        *)
(* "fetch": the fetch of the startup fails, or skips a part of its range   *)
(* "weekend": the service is started while the market is closed            *)
PushFaultKinds == {"lost", "late", "restart", "status", "fetch", "weekend"}

ASSUME PusherAssumption ==
  /\ BarTicks \in Nat \ {0} /\ FetchBars \in Nat \ {0, 1} /\ HistoricalBars \in Nat \ {0}
  /\ Lag \in Nat
  /\ RetryMax \in Nat \ {0} /\ BufferSize \in Nat \ {0} /\ Ticks \in Nat \ {0}
  /\ MaxPending \in Nat
  /\ PushFaults \subseteq PushFaultKinds

VARIABLES
  clock,    \* ticks so far
  stored,   \* the tick each stored candle shows, 0 for none
  phase,    \* of the service: "down", "sync", "up"
  live,     \* payload and attempts of the startup or live job
  flush,    \* payload the flush job has taken from the buffer
  buffer,   \* _failed_buffer, oldest first
  pending,  \* requests given up by the client that the backend still runs
  reached,  \* history: the newest bar of the start or of the last live fetch
  flushed,  \* history: the tick of the last payload a flush has written
  givenUp   \* history: a payload is gone, or bars were never fetched

pusherVars ==
  <<clock, stored, phase, live, flush, buffer, pending, reached, flushed, givenUp>>

BarOf(t) == (t - 1) \div BarTicks
AllBars == 0..BarOf(Ticks)
StoredBars == {b \in AllBars : stored[b] # 0}
Newest(bars) == CHOOSE b \in bars : \A c \in bars : c <= b
Latest == Newest(StoredBars)

Payloads == {p \in [bars : SUBSET AllBars, at : 0..Ticks] : \A b \in p.bars : b <= BarOf(p.at)}
NoPayload == [bars |-> {}, at |-> 0]
IdleJob == [payload |-> NoPayload, attempts |-> 0]
Shown(b, t) == IF BarOf(t) = b THEN t ELSE (b + 1) * BarTicks
Fetched(bars) == IF bars = {} THEN NoPayload ELSE [bars |-> bars, at |-> clock]

PusherInit ==
  /\ clock = 1
  /\ stored = [b \in AllBars |-> 0]
  /\ phase = "down"
  /\ live = IdleJob /\ flush = NoPayload /\ buffer = <<>> /\ pending = {}
  /\ reached = 0 /\ flushed = 0 /\ givenUp = FALSE

(* Bars that the live job is too late for are missing from then on.        *)
MarketTick ==
  /\ clock < Ticks /\ clock' = clock + 1
  /\ givenUp' = (givenUp \/ (phase # "down" /\ BarOf(clock') - reached > FetchBars))
  /\ UNCHANGED <<stored, phase, live, flush, buffer, pending, reached, flushed>>

(***************************************************************************)
(* The backend                                                             *)
(***************************************************************************)
(* upsertCandles: the update overwrites, whatever is there.                *)
Upsert(p, bars) == stored' = [b \in AllBars |-> IF b \in bars THEN Shown(b, p.at) ELSE stored[b]]

(* The candles are written in order, 500 in a transaction.                 *)
UpsertPart(p) == \E last \in p.bars : Upsert(p, {b \in p.bars : b <= last})

RequestFails(p) ==
  \/ UNCHANGED <<stored, pending>>
  \/ "lost" \in PushFaults /\ UpsertPart(p) /\ UNCHANGED pending
  \/ /\ "late" \in PushFaults /\ Cardinality(pending) < MaxPending
     /\ pending' = pending \cup {p} /\ UNCHANGED stored

LateWrite ==
  /\ \E p \in pending : Upsert(p, p.bars) /\ pending' = pending \ {p}
  /\ UNCHANGED <<clock, phase, live, flush, buffer, reached, flushed, givenUp>>

(***************************************************************************)
(* Startup                                                                 *)
(***************************************************************************)
(* Variant: a gap of three bars is left to the live job.                   *)
GapOfFour(bar) == BarOf(clock) >= bar + 4
GapSince(bar) == BarOf(clock) >= bar + 2

(* The times of a range are UTC, those of the broker's bars are not: of a  *)
(* range that begins with `first`, the bars come that opened Lag earlier.  *)
LaggedRange(first) == {b \in AllBars : first - Lag <= b /\ b <= BarOf(clock) - Lag}

(* A gap of at most two bars is left to the live job.  Without an answer,  *)
(* or a candle, the history is fetched.  On a weekend there is no sync.    *)
SyncRange(known, closed) ==
  IF closed THEN {}
  ELSE IF ~known THEN LaggedRange(BarOf(clock) - HistoricalBars + 1)
  ELSE IF GapSince(Latest) THEN LaggedRange(Latest) ELSE {}

(* What the startup gives up: the bars of a weekend start, a range that    *)
(* does not come, or does not join what is stored because the history is   *)
(* too short, and requests of an earlier run still to be carried out.      *)
Overlooks(range, got, closed) ==
  \/ closed /\ StoredBars # {} /\ Latest < BarOf(clock)
  \/ got # range
  \/ /\ range # {} /\ StoredBars # {}
     /\ ~ \E b \in range, c \in StoredBars : c - 1 <= b /\ b <= c + 1
  \/ \E p \in pending : p.bars \ StoredBars # {}

Start ==
  /\ phase = "down"
  /\ \E answered, closed \in BOOLEAN :
       /\ answered \/ "status" \in PushFaults
       /\ ~closed \/ "weekend" \in PushFaults
       /\ LET range == SyncRange(answered /\ StoredBars # {}, closed)
              joined == StoredBars \cup range
          IN  \E got \in SUBSET range :
                /\ got = range \/ "fetch" \in PushFaults
                /\ phase' = IF got = {} THEN "up" ELSE "sync"
                /\ live' = [payload |-> Fetched(got), attempts |-> 0]
                /\ reached' = IF joined = {} THEN BarOf(clock) ELSE Newest(joined)
                /\ givenUp' = (givenUp \/ Overlooks(range, got, closed))
  /\ UNCHANGED <<clock, stored, flush, buffer, pending, flushed>>

(***************************************************************************)
(* push_batch and the buffer                                               *)
(***************************************************************************)
(* A full deque drops an element at its other end.                         *)
(* Variant: the deque has no maximum.                                      *)
AppendAny(q, p) == Append(q, p)
AppendRight(q, p) == IF Len(q) = BufferSize THEN Append(Tail(q), p) ELSE Append(q, p)
AppendLeft(q, p) == <<p>> \o (IF Len(q) = BufferSize THEN SubSeq(q, 1, Len(q) - 1) ELSE q)
Full == Len(buffer) = BufferSize

FetchLatest ==
  /\ phase = "up" /\ live = IdleJob
  /\ live' = [payload |-> Fetched({b \in AllBars : BarOf(clock) - FetchBars < b /\ b <= BarOf(clock)}),
              attempts |-> 0]
  /\ reached' = BarOf(clock)
  /\ UNCHANGED <<clock, stored, phase, flush, buffer, pending, flushed, givenUp>>

PushSucceeds ==
  /\ live # IdleJob /\ Upsert(live.payload, live.payload.bars)
  /\ live' = IdleJob /\ phase' = "up"
  /\ UNCHANGED <<clock, flush, buffer, pending, reached, flushed, givenUp>>

PushFails ==
  /\ live # IdleJob /\ RequestFails(live.payload)
  /\ IF live.attempts + 1 < RetryMax
     THEN live' = [live EXCEPT !.attempts = @ + 1] /\ UNCHANGED <<phase, buffer, givenUp>>
     ELSE /\ live' = IdleJob /\ phase' = "up"
          /\ buffer' = AppendRight(buffer, live.payload)
          /\ givenUp' = (givenUp \/ Full)
  /\ UNCHANGED <<clock, flush, reached, flushed>>

FlushTakes ==
  /\ phase = "up" /\ flush = NoPayload /\ buffer # <<>>
  /\ flush' = Head(buffer) /\ buffer' = Tail(buffer)
  /\ UNCHANGED <<clock, stored, phase, live, pending, reached, flushed, givenUp>>

FlushSucceeds ==
  /\ flush # NoPayload /\ Upsert(flush, flush.bars)
  /\ flushed' = flush.at /\ flush' = NoPayload
  /\ UNCHANGED <<clock, phase, live, buffer, pending, reached, givenUp>>

(* Variant: the payload goes to the end of the line.                       *)
FlushRequeues ==
  /\ flush # NoPayload /\ RequestFails(flush)
  /\ buffer' = AppendRight(buffer, flush) /\ flush' = NoPayload
  /\ flushed' = IF stored' # stored THEN flush.at ELSE flushed
  /\ givenUp' = (givenUp \/ Full)
  /\ UNCHANGED <<clock, phase, live, reached>>

FlushFails ==
  /\ flush # NoPayload /\ RequestFails(flush)
  /\ buffer' = AppendLeft(buffer, flush) /\ flush' = NoPayload
  /\ flushed' = IF stored' # stored THEN flush.at ELSE flushed
  /\ givenUp' = (givenUp \/ Full)
  /\ UNCHANGED <<clock, phase, live, reached>>

(* Bars the service still has to push.                                     *)
HeldPayloads == {live.payload, flush} \cup {buffer[i] : i \in 1..Len(buffer)}
Held == UNION {p.bars : p \in HeldPayloads}

(* The buffer is memory.  What is lost is fetched again, unless a later    *)
(* bar is stored or will be.                                               *)
Stop ==
  /\ "restart" \in PushFaults /\ phase # "down"
  /\ phase' = "down"
  /\ live' = IdleJob /\ flush' = NoPayload /\ buffer' = <<>>
  /\ givenUp' = (givenUp \/ \E b \in Held \ StoredBars :
                   \E c \in StoredBars \cup UNION {p.bars : p \in pending} : c > b)
  /\ UNCHANGED <<clock, stored, pending, reached, flushed>>

PusherNext ==
  \/ MarketTick \/ LateWrite \/ Start \/ Stop
  \/ FetchLatest \/ PushSucceeds \/ PushFails
  \/ FlushTakes \/ FlushSucceeds \/ FlushFails

PusherSpec == PusherInit /\ [][PusherNext]_pusherVars

(***************************************************************************)
(* Properties                                                              *)
(***************************************************************************)
PusherTypeOK ==
  /\ clock \in 1..Ticks
  /\ stored \in [AllBars -> 0..Ticks]
  /\ phase \in {"down", "sync", "up"}
  /\ live \in [payload : Payloads, attempts : 0..(RetryMax - 1)]
  /\ flush \in Payloads
  /\ buffer \in Seq(Payloads) /\ Len(buffer) <= BufferSize
  /\ pending \subseteq Payloads
  /\ reached \in AllBars /\ flushed \in 0..clock
  /\ givenUp \in BOOLEAN

(* A flush may write a candle back to an older state, but two flushes do   *)
(* not undo each other: whatever fails, is pushed or dropped in between,   *)
(* payloads are written in the order of their fetches.  So a candle that   *)
(* goes back does so in one flush, unless a late request is written.       *)
FlushInOrder == [][flushed' >= flushed]_pusherVars

(* The startup asks only for the last candle, so that a hole before it is  *)
(* never found again.  Retries, the buffer, parts of requests and restarts *)
(* in between leave none: a bar that is missing before a stored one is     *)
(* still held by the service.  The exceptions are the payloads and bars    *)
(* that the service itself gave up.                                        *)
NoHole ==
  ~givenUp => \A b \in AllBars \ (StoredBars \cup Held) :
    ~ \E a, c \in StoredBars : a < b /\ b < c
=============================================================================
