---------------------------- MODULE SignalMatch ----------------------------
(***************************************************************************)
(* ComposedSignalPlugin.onBar: the condition window of the blocks, the     *)
(* match of the window, the signature that keeps a match from being        *)
(* emitted twice, and the signal area that caps the signals of one place.  *)
(* What a block finds on a bar is any result; the risk of a signal, which  *)
(* scales the area, is taken as constant.                                  *)
(***************************************************************************)
EXTENDS Integers, Sequences, FiniteSets

CONSTANTS
  Modes,         \* match modes to choose from
  Blocks,        \* number of blocks, in the order of the definition
  Stride,        \* base bars of one bar of the block's timeframe
  WindowBars,
  Caps,          \* maxSignalsPerArea to choose from
  ResetBars,
  PriceDistance, \* priceDistanceR * risk
  SignalPrices,  \* bound: closes of a bar
  Bars           \* bound: bars seen

Ids == 1..Blocks

ASSUME MatchAssumption ==
  /\ Modes \subseteq {"ALL", "ANY", "SEQUENCE"}
  /\ Blocks \in Nat \ {0} /\ Stride \in [Ids -> Nat \ {0}]
  /\ WindowBars \in Nat \ {0} /\ ResetBars \in Nat \ {0} /\ PriceDistance \in Nat \ {0}
  /\ Caps \subseteq Nat \ {0} /\ SignalPrices \subseteq Int /\ Bars \in Nat \ {0}

VARIABLES
  mode, cap,     \* matchMode, maxSignalsPerArea
  index,         \* the last bar seen
  window,        \* conditionWindow: last active bar of each block, 0 for none
  area,          \* signalArea, or NoArea
  signature,     \* lastEmittedMatchSignature
  signals        \* history: index and price of every signal

matchVars == <<mode, cap, index, window, area, signature, signals>>

Empty == [b \in Ids |-> 0]
NoArea == [anchor |-> 0, last |-> 0, emitted |-> 0]
NoSignature == <<>>

MatchInit ==
  /\ mode \in Modes /\ cap \in Caps
  /\ index = 0
  /\ window = Empty
  /\ area = NoArea
  /\ signature = NoSignature
  /\ signals = <<>>

(* Every active block is entered at this bar; what fell out is purged.     *)
Observed(n, active) ==
  [b \in Ids |-> IF b \in active THEN n
                 ELSE IF n - window[b] >= WindowBars THEN 0 ELSE window[b]]

(* checkMatch                                                              *)
Matches(w) ==
  \/ mode = "ANY" /\ \E b \in Ids : w[b] > 0
  \/ mode = "ALL" /\ \A b \in Ids : w[b] > 0
  \/ /\ mode = "SEQUENCE" /\ \A b \in Ids : w[b] > 0
     /\ \A b \in 2..Blocks : w[b - 1] <= w[b]

(* buildMatchSignature: of each block its own bar and what it found.       *)
Signature(n, active) == [b \in Ids |-> <<(n - 1) \div Stride[b], b \in active>>]

(* Variant: a price at the very distance begins an area of its own.        *)
NearerArea(n, price) ==
  /\ area # NoArea /\ n - area.last <= ResetBars
  /\ price - area.anchor < PriceDistance /\ area.anchor - price < PriceDistance

(* isSameSignalArea                                                        *)
SameArea(n, price) ==
  /\ area # NoArea /\ n - area.last <= ResetBars
  /\ price - area.anchor <= PriceDistance /\ area.anchor - price <= PriceDistance

NextArea(n, price) ==
  IF SameArea(n, price) THEN [area EXCEPT !.last = n]
  ELSE [anchor |-> price, last |-> n, emitted |-> 0]

(* A match in an area that is full is consumed: the window starts again.   *)
Suppress(n, price) ==
  /\ NextArea(n, price).emitted >= cap
  /\ window' = Empty
  /\ area' = NextArea(n, price)
  /\ UNCHANGED <<signature, signals>>

Emit(n, price, active) ==
  /\ NextArea(n, price).emitted < cap
  /\ window' = Empty
  /\ area' = [NextArea(n, price) EXCEPT !.emitted = @ + 1]
  /\ signature' = Signature(n, active)
  /\ signals' = Append(signals, [index |-> n, price |-> price])

OnBar ==
  /\ index < Bars /\ index' = index + 1
  /\ \E price \in SignalPrices, active \in SUBSET Ids :
       LET w == Observed(index', active) IN
       IF Matches(w) /\ signature # Signature(index', active)
       THEN Suppress(index', price) \/ Emit(index', price, active)
       ELSE window' = w /\ UNCHANGED <<area, signature, signals>>
  /\ UNCHANGED <<mode, cap>>

MatchSpec == MatchInit /\ [][OnBar]_matchVars

(***************************************************************************)
(* Properties                                                              *)
(***************************************************************************)
MatchTypeOK ==
  /\ mode \in Modes /\ cap \in Caps
  /\ index \in 0..Bars
  /\ window \in [Ids -> 0..index]
  /\ area \in [anchor : SignalPrices \cup {0}, last : 0..index, emitted : 0..cap]
  /\ signature = NoSignature \/ signature \in [Ids -> (0..Bars) \X BOOLEAN]
  /\ signals \in Seq([index : 1..index, price : SignalPrices])

(* Signals that follow each other within ResetBars and lie all within the  *)
(* distance of each other.                                                 *)
Cluster(first, last) ==
  /\ \A i \in first..(last - 1) : signals[i + 1].index - signals[i].index <= ResetBars
  /\ \A i, j \in first..last : signals[i].price - signals[j].price <= PriceDistance

(* The code remembers one area, anchored where its first signal was, so a  *)
(* cluster may begin in an area anchored elsewhere: it has more signals    *)
(* than the cap, but less than twice as many.                              *)
ClusterBound ==
  \A first \in DOMAIN signals, last \in DOMAIN signals :
    first <= last /\ Cluster(first, last) => last - first + 1 < 2 * cap
=============================================================================
