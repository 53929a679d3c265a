-------------------------- MODULE MCIntentExecution --------------------------
(* Instances of IntentExecution for TLC.                                   *)
EXTENDS IntentExecution, TLC

CONSTANTS i1, i2, b1, w1, w2

OneIntent == {i1}
TwoIntents == {i1, i2}
OneBinding == {b1}
OneWorker == {w1}
TwoWorkers == {w1, w2}

(* All intents of the instance belong to its only binding.                 *)
SameBinding == [i \in Intents |-> b1]

(* Intents and worker slots are interchangeable.                           *)
Symmetry == Permutations(Intents) \cup Permutations(Workers)
=============================================================================
