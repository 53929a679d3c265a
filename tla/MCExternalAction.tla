-------------------------- MODULE MCExternalAction --------------------------
(* Instances of ExternalAction for TLC.                                    *)
EXTENDS ExternalAction, TLC

CONSTANTS e1, r1, r2, w1, w2

OneEvent == {e1}
OneReplay == {r1}
TwoReplays == {r1, r2}
OneWorker == {w1}
TwoWorkers == {w1, w2}

(* All replays are of the only event.                                      *)
SameEvent == [j \in Jobs |-> e1]

Symmetry == Permutations(Workers) \cup Permutations(Replays)
=============================================================================
