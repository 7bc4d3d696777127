------------------------------- MODULE Selection -------------------------------
(***************************************************************************)
(* What the window of the restoration promises about its check boxes: the  *)
(* user chooses files, one by one or all those below a directory, in any   *)
(* of the backups of the key, and what is restored is what was chosen.     *)
(* CR_NoeudFS implements it with trees that are read from the disk bit by  *)
(* bit and boxes of three states.                                          *)
(***************************************************************************)
CONSTANTS
    Lots    \* the sets of files one box stands for

VARIABLES
    choisis,  \* the chosen files
    liste     \* the files the last restoration was asked for

vars == <<choisis, liste>>

Init ==
    /\ choisis = {}
    /\ liste = {}

Choisir(lot) ==
    /\ choisis' = choisis \cup lot
    /\ UNCHANGED liste

Retirer(lot) ==
    /\ choisis' = choisis \ lot
    /\ UNCHANGED liste

Demander ==
    /\ liste' = choisis
    /\ UNCHANGED choisis

Fermer ==
    /\ choisis' = {}
    /\ UNCHANGED liste

Next ==
    \/ \E lot \in Lots : Choisir(lot) \/ Retirer(lot)
    \/ Demander
    \/ Fermer

Spec == Init /\ [][Next]_vars
=============================================================================
