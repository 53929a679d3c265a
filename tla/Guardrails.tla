----------------------------- MODULE Guardrails -----------------------------
(***************************************************************************)
(* The guardrails of the auto-execution processor: several intents of one  *)
(* account are checked against one cached position count, against the      *)
(* broker, or, when the bridge does not answer, against the local mirror,  *)
(* whose contents are those of module Reconciliation and are left open.    *)
(*                                                                         *)
(* One action is the code between two awaits, or what the broker does with *)
(* a request; a Tick is the passing of time, between any two of them.  The *)
(* limit is maxOpenPositions; what the account's balance says is one of    *)
(* "ok", "loss" (daily loss) and "drawdown" (kill switch).                 *)
(***************************************************************************)
EXTENDS Integers

CONSTANTS
  Slots,      \* intents under way in the worker
  MaxOpen,    \* maxOpenPositions
  CacheTtl,   \* GUARDRAILS_CACHE_TTL_MS, in ticks
  StaleAfter, \* GUARDRAILS_STALE_MIRROR_MS, in ticks
  MaxPositions \* bound: positions at the broker

ASSUME GuardrailsAssumption ==
  /\ MaxOpen \in Nat \ {0} /\ MaxPositions \in Nat
  /\ CacheTtl \in Nat \ {0} /\ StaleAfter \in Nat

VARIABLES
  positions,  \* open positions at the broker
  sinceRoom,  \* history: ticks since there was room for one more
  killSwitch, \* killSwitchActive
  cache,      \* guardrailsCache: count, finding and age of the entry; history:
              \* lag, from the broker's count to the stamp of the entry
  mirrorAge,  \* age of the latest snapshot of the mirror
  inquiry,    \* count the broker has sent, for each slot; history: its lag
  check       \* where checkGuardrails is, for each slot

guardrailVars == <<positions, sinceRoom, killSwitch, cache, mirrorAge, inquiry, check>>

Findings == {"ok", "loss", "drawdown"}
Oldest == CacheTtl + StaleAfter + 1
Older(age) == IF age < Oldest THEN age + 1 ELSE age
Room(n) == IF n < MaxOpen THEN 0 ELSE sinceRoom

NoInquiry == [count |-> 0, lag |-> 0]

GuardrailsInit ==
  /\ positions = 0 /\ sinceRoom = 0
  /\ killSwitch = FALSE
  /\ cache = [count |-> 0, finding |-> "ok", age |-> Oldest, lag |-> 0]
  /\ mirrorAge = Oldest
  /\ inquiry = [s \in Slots |-> NoInquiry]
  /\ check = [s \in Slots |-> "idle"]

(* checkGuardrails on the data found: a limit that is reached rejects the  *)
(* intent, a drawdown also activates the kill switch.                      *)
Decide(s, count, finding) ==
  LET passes == count < MaxOpen /\ finding = "ok"
      kills == count < MaxOpen /\ finding = "drawdown"
  IN check' = [check EXCEPT ![s] = IF passes THEN "order" ELSE IF kills THEN "kill" ELSE "idle"]
Moves(s, to) == check' = [check EXCEPT ![s] = to]

(* The binding is read with the intent; an entry of the cache is used      *)
(* while it is younger than its time to live.                              *)
StartCheck(s) ==
  /\ check[s] = "idle" /\ ~killSwitch
  /\ IF cache.age < CacheTtl THEN Decide(s, cache.count, cache.finding) ELSE Moves(s, "fetch")
  /\ UNCHANGED <<positions, sinceRoom, killSwitch, cache, mirrorAge, inquiry>>

(* fetchPositions and fetchSummary are awaited together, without a limit   *)
(* of time.  The broker counts at some point of the call.                  *)
BrokerCounts(s) ==
  /\ check[s] = "fetch" /\ Moves(s, "counted")
  /\ inquiry' = [inquiry EXCEPT ![s] = [count |-> positions, lag |-> 0]]
  /\ UNCHANGED <<positions, sinceRoom, killSwitch, cache, mirrorAge>>

(* Both have answered.  The entry is stamped now, and replaces one that    *)
(* another slot may have fetched in the meantime.                          *)
BridgeAnswers(s) ==
  /\ check[s] = "counted"
  /\ \E finding \in Findings :
       /\ cache' = [count |-> inquiry[s].count, finding |-> finding, age |-> 0, lag |-> inquiry[s].lag]
       /\ Decide(s, inquiry[s].count, finding)
  /\ inquiry' = [inquiry EXCEPT ![s] = NoInquiry]
  /\ UNCHANGED <<positions, sinceRoom, killSwitch, mirrorAge>>

(* One of the requests throws.  Without a credential nothing is requested, *)
(* and the intent is rejected.                                             *)
BridgeFails(s) ==
  /\ \/ check[s] \in {"fetch", "counted"} /\ Moves(s, "mirror")
     \/ check[s] = "fetch" /\ Moves(s, "idle")
  /\ inquiry' = [inquiry EXCEPT ![s] = NoInquiry]
  /\ UNCHANGED <<positions, sinceRoom, killSwitch, cache, mirrorAge>>

(* Variant: what the mirror says is cached like an answer of the broker.   *)
MirrorIsCached(s) ==
  /\ check[s] = "mirror" /\ mirrorAge <= StaleAfter
  /\ \E count \in 0..MaxPositions, finding \in Findings :
       /\ Decide(s, count, finding)
       /\ cache' = [count |-> count, finding |-> finding, age |-> mirrorAge, lag |-> 0]
  /\ UNCHANGED <<positions, sinceRoom, killSwitch, mirrorAge, inquiry>>

(* The mirror stands in.  Without a snapshot, with a stale one or on an    *)
(* error the intent is rejected.  What the mirror says is not cached.  It  *)
(* may say anything: syncs that overlap, or fail to fetch the positions,   *)
(* stamp a snapshot beside older rows.                                     *)
MirrorAnswers(s) ==
  /\ check[s] = "mirror"
  /\ \/ /\ mirrorAge <= StaleAfter
        /\ \E count \in 0..MaxPositions, finding \in Findings : Decide(s, count, finding)
     \/ Moves(s, "idle")
  /\ UNCHANGED <<positions, sinceRoom, killSwitch, cache, mirrorAge, inquiry>>

ActivateKillSwitch(s) ==
  /\ check[s] = "kill"
  /\ killSwitch' = TRUE
  /\ check' = [check EXCEPT ![s] = "idle"]
  /\ UNCHANGED <<positions, sinceRoom, cache, mirrorAge, inquiry>>

(* The rest of the handler: the order is sent, or rejected after all.      *)
PlaceOrder(s) ==
  /\ check[s] = "order"
  /\ positions' \in {positions} \cup {n \in {positions + 1} : n <= MaxPositions}
  /\ sinceRoom' = Room(positions')
  /\ check' = [check EXCEPT ![s] = "idle"]
  /\ UNCHANGED <<killSwitch, cache, mirrorAge, inquiry>>

(* The broker: a position is closed, or opened by hand.                    *)
PositionsMove ==
  /\ positions' \in {positions - 1, positions + 1} \cap (0..MaxPositions)
  /\ sinceRoom' = Room(positions')
  /\ UNCHANGED <<killSwitch, cache, mirrorAge, inquiry, check>>

(* persistSummary of a reconciliation stamps a new snapshot.               *)
SyncMirror ==
  /\ mirrorAge' = 0
  /\ UNCHANGED <<positions, sinceRoom, killSwitch, cache, inquiry, check>>

(* updateBindingStatus: the switch asked for, or the one it read before.   *)
OperatorWrites ==
  /\ killSwitch' \in BOOLEAN
  /\ UNCHANGED <<positions, sinceRoom, cache, mirrorAge, inquiry, check>>

(* Time passes at any point of a handler, a pending call included.         *)
Tick ==
  /\ sinceRoom' = IF positions < MaxOpen THEN 0 ELSE Older(sinceRoom)
  /\ cache' = [cache EXCEPT !.age = Older(@)]
  /\ mirrorAge' = Older(mirrorAge)
  /\ inquiry' = [s \in Slots |-> IF check[s] = "counted"
                                  THEN [inquiry[s] EXCEPT !.lag = Older(@)] ELSE inquiry[s]]
  /\ UNCHANGED <<positions, killSwitch, check>>

GuardrailsNext ==
  \/ \E s \in Slots : \/ StartCheck(s) \/ BrokerCounts(s) \/ BridgeAnswers(s)
                      \/ BridgeFails(s) \/ MirrorAnswers(s)
                      \/ ActivateKillSwitch(s) \/ PlaceOrder(s)
  \/ PositionsMove \/ SyncMirror \/ OperatorWrites \/ Tick

GuardrailsSpec == GuardrailsInit /\ [][GuardrailsNext]_guardrailVars

(***************************************************************************)
(* Properties                                                              *)
(***************************************************************************)
GuardrailsTypeOK ==
  /\ positions \in 0..MaxPositions /\ sinceRoom \in 0..Oldest
  /\ killSwitch \in BOOLEAN
  /\ cache \in [count : 0..MaxPositions, finding : Findings, age : 0..Oldest, lag : 0..Oldest]
  /\ mirrorAge \in 0..Oldest
  /\ inquiry \in [Slots -> [count : 0..MaxPositions, lag : 0..Oldest]]
  /\ check \in [Slots -> {"idle", "fetch", "counted", "mirror", "kill", "order"}]

(* Whom the broker's count lets through, there was room for not long ago:  *)
(* on a fresh answer, within the time the call took since the broker       *)
(* counted; on the cache, which slower calls of other slots may have       *)
(* overwritten with older counts, within CacheTtl more than that.  The     *)
(* time of the call itself is not bounded.  Nothing is said of the mirror: *)
(* its snapshot does not date its rows.                                    *)
RoomWasRecent ==
  [][\A s \in Slots : check[s] # "order" /\ check'[s] = "order" =>
       \/ check[s] = "idle" /\ sinceRoom < CacheTtl + cache.lag
       \/ check[s] = "counted" /\ sinceRoom <= inquiry[s].lag
       \/ check[s] = "mirror"]_guardrailVars
=============================================================================
