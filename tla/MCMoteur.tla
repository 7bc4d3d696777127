------------------------------- MODULE MCMoteur -------------------------------
(* Instances of Moteur for TLC.                                            *)
EXTENDS Moteur, TLC

CONSTANTS w1, w2, p1, p2, k1, k2

(* One volume, one key: full backup at once when mounted, then periodic.   *)
UnVolume == [p \in {p1} |-> k1]
UneCle(v) == [id \in {k1} |-> v]
Deux == UneCle(2)

(* Two keys: k1 incremental and periodic, planned from its last backup,    *)
(* k2 synchronised, only when the user asks.                               *)
DeuxVolumes == [p \in {p1, p2} |-> IF p = p1 THEN k1 ELSE k2]
Mixte == [id \in {k1, k2} |-> IF id = k1 THEN 3 ELSE 4]
RienAInsersion == [id \in {k1, k2} |-> 1]
MixtePlanning == [id \in {k1, k2} |-> IF id = k1 THEN 2 ELSE 1]

(* One key that is saved only when the user asks.                          *)
Manuelle == UneCle(1)

Symetrie == Permutations(Travailleurs)
=============================================================================
