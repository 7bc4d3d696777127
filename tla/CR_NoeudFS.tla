------------------------------- MODULE CR_NoeudFS -------------------------------
(***************************************************************************)
(* The trees of the restoration window (CR_NoeudFS, CR_ArbreFS,            *)
(* CR_ForetFS) and the check boxes of CI_Restauration: a tree for each     *)
(* backup that was shown, whose directories are read when they are opened, *)
(* each node with a box that is on, off or mixed. A click changes what is  *)
(* below and is carried up; the list of what is to be restored reads the   *)
(* directories nobody has opened.                                          *)
(*                                                                         *)
(* A node is its path: the names from its root on. All this is done by the *)
(* main thread, and the disk does not change while the window is open.     *)
(***************************************************************************)
EXTENDS Naturals, Sequences

CONSTANTS
    Noms,
    Noeuds,       \* the paths of the backups, without the hidden names
    Repertoires,  \* those the tree can open: an application is a leaf
    Aucun         \* no tree

Racines == {n \in Noeuds : Len(n) = 1}
Fichiers == Noeuds \ Repertoires

ASSUME ArbreAssumption ==
    /\ Noeuds \subseteq Seq(Noms)
    /\ Repertoires \subseteq Noeuds
    /\ Racines \subseteq Repertoires
    /\ \A n \in Noeuds :
         /\ n # << >>
         /\ \A k \in 1 .. Len(n) - 1 : SubSeq(n, 1, k) \in Repertoires
    /\ Aucun \notin Noeuds

On == "on"
Off == "off"
Mixte == "mixte"
Etats == {On, Off, Mixte}

VARIABLES
    arbre,     \* unArbre: the root of the tree on show
    etat,      \* of the nodes there are: the roots and what was read
    deployes,  \* the directories whose fils is there
    liste      \* what listeFichiersSelectionnes: gave to the last restoration

vars == <<arbre, etat, deployes, liste>>

Presents == DOMAIN etat

Sous == [n \in Noeuds |->
            {m \in Noeuds : Len(n) < Len(m) /\ SubSeq(m, 1, Len(n)) = n}]
Fils == [n \in Noeuds |-> {m \in Sous[n] : Len(m) = Len(n) + 1}]
Ancetres == [n \in Noeuds |-> {p \in Noeuds : n \in Sous[p]}]
Branche(n) == {n} \cup Sous[n]

-----------------------------------------------------------------------------
Init ==
    /\ arbre = Aucun
    /\ etat = [n \in {} |-> Off]
    /\ deployes = {}
    /\ liste = {}

(* chargerArbreFullSync:, chargerArbreIncr: the root of a tree is made     *)
(* once, off.                                                              *)
Charger(r) ==
    /\ r \in Racines
    /\ arbre # r
    /\ arbre' = r
    /\ etat' = [n \in Presents \cup {r} |->
                   IF n \in Presents THEN etat[n] ELSE Off]
    /\ UNCHANGED <<deployes, liste>>

(* A row of the table.                                                     *)
Ligne(n) == arbre # Aucun /\ n \in Presents \cap Branche(arbre)

(* The table asks for the number of rows below n: deployer.                *)
Deployer(n) ==
    /\ Ligne(n)
    /\ n \in Repertoires \ deployes
    /\ deployes' = deployes \cup {n}
    /\ etat' = [m \in Presents \cup Fils[n] |->
                   IF m \in Presents THEN etat[m]
                   ELSE IF etat[n] = On THEN On ELSE Off]
    /\ UNCHANGED <<arbre, liste>>

-----------------------------------------------------------------------------
(* Wrong variant: only the rows next to those that lead to n are looked    *)
(* at, and a mixed one is not off.                                         *)
AutresProches(p, n) ==
    {m \in Presents \cap Sous[p] : \E q \in Ancetres[n] \ Ancetres[p] :
        m \in Fils[q] \ (Branche(n) \cup Ancetres[n])}

(* What filsSontTousSelectionnes: and filsSontTousDeselectionnes: look at, *)
(* from n up to p: all that was read below p, without what the click has   *)
(* set and the directories that lead to it.                                *)
Autres(p, n) ==
    (Presents \cap Sous[p]) \ (Branche(n) \cup Ancetres[n])

(* ajusterSelectionsParents: a directory on the way up is mixed as soon as *)
(* one below it is; a mixed box counts as selected.                        *)
EtatPere(p, n, e) ==
    IF e = On
    THEN IF \A m \in Autres(p, n) : etat[m] # Off THEN On ELSE Mixte
    ELSE IF \A m \in Autres(p, n) : etat[m] = Off THEN Off ELSE Mixte

(* The state AppKit gives the cell on a click, left open here; mixed turns *)
(* the node over, a mixed one to off.                                      *)
EtatVoulu(n, cellule) ==
    IF cellule # Mixte THEN cellule
    ELSE IF etat[n] = Off THEN On ELSE Off

(* clickCheckBox:.                                                         *)
Cliquer(n, e) ==
    /\ Ligne(n)
    /\ etat' = [m \in Presents |->
                   IF m \in Branche(n) THEN e
                   ELSE IF m \in Ancetres[n] THEN EtatPere(m, n, e)
                   ELSE etat[m]]
    /\ UNCHANGED <<arbre, deployes, liste>>

-----------------------------------------------------------------------------
(* listeFichiersSelectionnes:, over all the trees.                         *)

Parcourus ==
    {n \in Presents : \A p \in {n} \cup Ancetres[n] : etat[p] # Off}

(* The directories nobody has opened, and all they hold.                   *)
Ouverts == (Parcourus \cap Repertoires) \ deployes
Lus == UNION {Sous[d] : d \in Ouverts}

(* Wrong variant: a directory nobody has opened gives nothing.             *)
ListerSansLire ==
    /\ arbre # Aucun
    /\ liste' = {f \in Parcourus \cap Fichiers : etat[f] = On}
    /\ UNCHANGED <<arbre, etat, deployes>>

Lister ==
    /\ arbre # Aucun
    /\ etat' = [n \in Presents \cup Lus |-> IF n \in Lus THEN On ELSE etat[n]]
    /\ deployes' = deployes \cup Ouverts \cup (Lus \cap Repertoires)
    /\ liste' = (Lus \cap Fichiers)
                  \cup {f \in Parcourus \cap Fichiers : etat[f] = On}
    /\ UNCHANGED arbre

(* Wrong variant: the trees keep what was read.                            *)
FermerSansReplier ==
    /\ arbre # Aucun
    /\ arbre' = Aucun
    /\ etat' = [n \in {} |-> Off]
    /\ UNCHANGED <<deployes, liste>>

(* windowWillClose: empties the forest.                                    *)
Fermer ==
    /\ arbre # Aucun
    /\ arbre' = Aucun
    /\ etat' = [n \in {} |-> Off]
    /\ deployes' = {}
    /\ UNCHANGED liste

Next ==
    \/ \E r \in Racines : Charger(r)
    \/ \E n \in Noeuds :
         \/ Deployer(n)
         \/ \E cellule \in Etats : Ligne(n) /\ Cliquer(n, EtatVoulu(n, cellule))
    \/ Lister
    \/ Fermer

Spec == Init /\ [][Next]_vars

-----------------------------------------------------------------------------
(* What is there is what the opened directories hold, and the roots.       *)
TypeOK ==
    /\ arbre \in Racines \cup {Aucun}
    /\ arbre # Aucun => arbre \in Presents
    /\ etat \in [Presents -> Etats]
    /\ Presents \subseteq Noeuds
    /\ deployes \subseteq Presents \cap Repertoires
    /\ \A n \in Noeuds \ Racines :
         n \in Presents <=> \E d \in deployes : n \in Fils[d]
    /\ liste \subseteq Fichiers

(* Whatever was clicked, in any order and whatever was open: below a box   *)
(* that is on all are on, below one that is off all are off, and below a   *)
(* mixed one there are both (CR_NoeudFS.m:92-237).                         *)
Coherence ==
    \A n \in Presents :
        LET dessous == Presents \cap Sous[n]
        IN  CASE etat[n] = On  -> \A m \in dessous : etat[m] = On
              [] etat[n] = Off -> \A m \in dessous : etat[m] = Off
              [] OTHER         -> /\ \E m \in dessous : etat[m] = On
                                  /\ \E m \in dessous : etat[m] = Off

(* The files that are chosen: those that are on, and those below a         *)
(* directory that is.                                                      *)
Choisis ==
    {f \in Fichiers : \E n \in Presents : f \in Branche(n) /\ etat[n] = On}

Lot(n) == Fichiers \cap Branche(n)

Abstraite == INSTANCE Selection WITH
                Lots <- {Lot(n) : n \in Noeuds},
                choisis <- Choisis,
                liste <- liste

(* Reading a directory late changes nothing of what is chosen, a click     *)
(* changes the files below its row and no other, and the list is what was  *)
(* chosen (CI_Restauration.m:497-549).                                     *)
RaffineSelection == Abstraite!Spec
=============================================================================
