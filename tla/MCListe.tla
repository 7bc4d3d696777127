-------------------------------- MODULE MCListe --------------------------------
(* Three keys, sorted by their names one way or the other.                 *)
EXTENDS ListeDesCles, TLC

CONSTANTS a, b, c, croissant, decroissant

MCCles == {a, b, c}
MCTris == {croissant, decroissant}

Rang == a :> 1 @@ b :> 2 @@ c :> 3
AvantSelon(t, k, m) ==
    IF t = croissant THEN Rang[k] < Rang[m] ELSE Rang[m] < Rang[k]

MCTrier ==
    [t \in MCTris |-> [l \in Listes |->
        SortSeq(l, LAMBDA k, m : AvantSelon(t, k, m))]]
=============================================================================
