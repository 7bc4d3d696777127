-------------------------------- MODULE MCPool --------------------------------
(* Instances of CR_TraitementsMultiThreads for TLC: two threads, and one   *)
(* task more than they are.                                                *)
EXTENDS CR_TraitementsMultiThreads

CONSTANTS w1, w2, t1, t2, t3

DeuxThreads == {w1, w2}
TroisTaches == {t1, t2, t3}
=============================================================================
