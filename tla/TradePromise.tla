----------------------------- MODULE TradePromise -----------------------------
(***************************************************************************)
(* What the auto-execution lane promises about one captured entry signal,  *)
(* seen from outside: an intent is opened, at most one order is placed for *)
(* it while it is open, and it is closed with a verdict that tells which   *)
(* of the two happened.  "executed" and "rejected" are final.  "failed" is *)
(* not: the processor keeps FAILED intents claimable, and a job that is    *)
(* run again reopens one.  An intent may stay open for ever (a worker that *)
(* died).  IntentExecution implements this module when the bridge tells    *)
(* the truth and the database works.                                       *)
(***************************************************************************)
EXTENDS Naturals

CONSTANT Intents

VARIABLES
  outcome,  \* see Outcomes, per intent
  placed    \* orders at the broker, per intent

Outcomes == {"absent", "open", "executed", "rejected", "failed"}

Init ==
  /\ outcome = [i \in Intents |-> "absent"]
  /\ placed = [i \in Intents |-> 0]

Open(i) ==
  /\ outcome[i] \in {"absent", "failed"}
  /\ outcome' = [outcome EXCEPT ![i] = "open"]
  /\ UNCHANGED placed

Place(i) ==
  /\ outcome[i] = "open"
  /\ placed[i] = 0
  /\ placed' = [placed EXCEPT ![i] = 1]
  /\ UNCHANGED outcome

Close(i) ==
  /\ outcome[i] = "open"
  /\ \E v \in IF placed[i] = 1 THEN {"executed"} ELSE {"rejected", "failed"} :
       outcome' = [outcome EXCEPT ![i] = v]
  /\ UNCHANGED placed

Next == \E i \in Intents : Open(i) \/ Place(i) \/ Close(i)

Spec == Init /\ [][Next]_<<outcome, placed>>
=============================================================================
