----------------------------- MODULE ListeDesCles -----------------------------
(***************************************************************************)
(* The known keys: DB_Cles keeps one array, an index from idCle to         *)
(* position and a sorted view of it; the dispatcher adds the keys it meets *)
(* (PD_Enregistreur enregistrer:) while the window of the keys shows the   *)
(* view and turns the selected row into a key (CI_ListeCles).              *)
(*                                                                         *)
(* A method of DB_Cles is one action: no lock keeps two threads from being *)
(* inside at once, but that takes a microsecond, where a dialog stays open *)
(* for minutes. Positions are those of a sequence, from 1.                 *)
(***************************************************************************)
EXTENDS Naturals, Sequences, FiniteSets

CONSTANTS
    Cles,      \* the idCle
    Tris,      \* the sort descriptors of the table
    SansTri,   \* no sort descriptor
    Trier,     \* sortedArrayUsingDescriptors: for each of Tris
    Aucune,    \* no key
    MaxMontages, MaxBoutons   \* bounds: mounts, uses of a button

Listes == {l \in UNION {[1 .. n -> Cles] : n \in 0 .. Cardinality(Cles)} :
              \A i, j \in DOMAIN l : l[i] = l[j] => i = j}

Contenu(l) == {l[i] : i \in DOMAIN l}

ASSUME ListeAssumption ==
    /\ IsFiniteSet(Cles)
    /\ Aucune \notin Cles
    /\ SansTri \notin Tris
    /\ MaxMontages \in Nat /\ MaxBoutons \in Nat
    /\ Trier \in [Tris -> [Listes -> Listes]]
    /\ \A t \in Tris, l \in Listes :
         /\ Contenu(Trier[t][l]) = Contenu(l)
         /\ Len(Trier[t][l]) = Len(l)

VARIABLES
    liste,        \* listeDesClesDefinies
    triee,        \* listeTrieeDesClesDefinies
    index,        \* indexIdClesSurlisteDesClesDefinies
    descripteurs, \* descripteursDeTri
    montees,      \* the keys of listeDesClesMontees
    disp,         \* the dispatcher in enregistrer:, [pc, cle]
    fenetre,      \* the main thread in a button, [pc, bouton, ligne, position,
                  \*   choisie]: the row, its position in liste as the button
                  \*   computed it, the key the user saw there
    fait,         \* what the last button did: [bouton, choisie, moteur, base]
    ajout,        \* a key was added since the user clicked
    croise,       \* some deletion met a registration on its way
    nbMontages, nbBoutons

base == <<liste, triee, index, descripteurs>>
bornes == <<nbMontages, nbBoutons>>
vars == <<base, montees, disp, fenetre, fait, ajout, croise, bornes>>

-----------------------------------------------------------------------------
(* DB_Cles.                                                                *)

PositionDe(l, cle) == CHOOSE i \in DOMAIN l : l[i] = cle

(* creerIndexIdCle.                                                        *)
IndexDe(l) == [cle \in Contenu(l) |-> PositionDe(l, cle)]

(* trier.                                                                  *)
Vue(l, d) == IF d = SansTri THEN l ELSE Trier[d][l]

(* Wrong variant: the first position is taken for none.                    *)
ConnueSaufPremiere(cle) == cle \in DOMAIN index /\ index[cle] # 1

Connue(cle) == cle \in DOMAIN index

SansPosition(l, p) ==
    [i \in 1 .. Len(l) - 1 |-> IF i < p THEN l[i] ELSE l[i + 1]]

(* Wrong variant: the index is not made again.                             *)
ChangerSansIndex(l) ==
    /\ liste' = l
    /\ triee' = Vue(l, descripteurs)
    /\ UNCHANGED <<index, descripteurs>>

(* What adding and removing end with: creerIndexIdCle, trier.              *)
Changer(l) ==
    /\ liste' = l
    /\ index' = IndexDe(l)
    /\ triee' = Vue(l, descripteurs)
    /\ UNCHANGED descripteurs

(* ajouterEnregistrement:enregistrement:, after the removal of the record  *)
(* the key had, if any.                                                    *)
Ajouter(cle) ==
    Changer(<<cle>> \o
        (IF Connue(cle) THEN SansPosition(liste, index[cle]) ELSE liste))

SupprimerCleParPosition(p) == Changer(SansPosition(liste, p))

Repos == [pc |-> "repos", cle |-> Aucune]
Fermee == [pc |-> "fermee", bouton |-> "aucun", ligne |-> 0, position |-> 0,
           choisie |-> Aucune]
Rien == [bouton |-> "aucun", choisie |-> Aucune, moteur |-> Aucune,
         base |-> Aucune]

(* charger: the file has the array only.                                   *)
Init ==
    /\ liste \in Listes
    /\ triee = liste
    /\ index = IndexDe(liste)
    /\ descripteurs = SansTri
    /\ montees = {}
    /\ disp = Repos
    /\ fenetre = Fermee
    /\ fait = Rien
    /\ ajout = FALSE
    /\ croise = FALSE
    /\ nbMontages = 0
    /\ nbBoutons = 0

-----------------------------------------------------------------------------
(* The dispatcher registers a key that was mounted. A key without a tag    *)
(* gets an idCle the base does not have.                                   *)

DispChercher(cle) ==
    /\ disp.pc = "repos"
    /\ nbMontages < MaxMontages
    /\ nbMontages' = nbMontages + 1
    /\ disp' = [pc |-> IF Connue(cle) THEN "charger" ELSE "ajouter", cle |-> cle]
    /\ UNCHANGED <<base, montees, fenetre, fait, ajout, croise, nbBoutons>>

(* The user wants nothing to do with the new key.                          *)
DispRenoncer ==
    /\ disp.pc = "ajouter"
    /\ disp' = Repos
    /\ UNCHANGED <<base, montees, fenetre, fait, ajout, croise, bornes>>

DispAjouter ==
    /\ disp.pc = "ajouter"
    /\ Ajouter(disp.cle)
    /\ disp' = [disp EXCEPT !.pc = "configurer"]
    /\ ajout' = TRUE
    /\ UNCHANGED <<montees, fenetre, fait, croise, bornes>>

(* The new key takes the settings the user gives, or the default ones.     *)
DispConfigurer ==
    /\ disp.pc = "configurer"
    /\ disp' = [disp EXCEPT !.pc = "inscrire"]
    /\ UNCHANGED <<base, montees, fenetre, fait, ajout, croise, bornes>>

(* There are no default ones: the key is not registered, and its record    *)
(* stays in the base.                                                      *)
DispSansDefaut ==
    /\ disp.pc = "configurer"
    /\ disp' = Repos
    /\ UNCHANGED <<base, montees, fenetre, fait, ajout, croise, bornes>>

(* Its record, if it is still there, becomes the one of the key.           *)
DispCharger ==
    /\ disp.pc = "charger"
    /\ disp' = [disp EXCEPT !.pc = "inscrire"]
    /\ UNCHANGED <<base, montees, fenetre, fait, ajout, croise, bornes>>

(* Under the monitor of the mounted keys.                                  *)
DispInscrire ==
    /\ disp.pc = "inscrire"
    /\ fenetre.pc # "moniteur"
    /\ montees' = montees \cup {disp.cle}
    /\ disp' = Repos
    /\ UNCHANGED <<base, fenetre, fait, ajout, croise, bornes>>

Demonter(cle) ==
    /\ disp.pc = "repos"
    /\ fenetre.pc # "moniteur"
    /\ cle \in montees
    /\ montees' = montees \ {cle}
    /\ UNCHANGED <<base, disp, fenetre, fait, ajout, croise, bornes>>

-----------------------------------------------------------------------------
(* The window.                                                             *)

(* tableView:sortDescriptorsDidChange:.                                    *)
ChangerTri(t) ==
    /\ fenetre.pc = "fermee"
    /\ descripteurs # t
    /\ descripteurs' = t
    /\ triee' = Trier[t][liste]
    /\ UNCHANGED <<liste, index, montees, disp, fenetre, fait, ajout, croise,
                   bornes>>

(* Wrong variant: the row of the table is taken for a position.            *)
PositionDeLigneDirecte(ligne) == ligne

PositionDeLigne(ligne) == PositionDe(liste, triee[ligne])

Presser ==
    /\ fenetre.pc = "fermee"
    /\ nbBoutons < MaxBoutons
    /\ nbBoutons' = nbBoutons + 1
    /\ ajout' = FALSE

(* Delete keeps the row over its dialog, back up at a date the position.   *)
Cliquer(bouton, ligne) ==
    /\ Presser
    /\ bouton \in {"supprimer", "aLaDate"}
    /\ ligne \in DOMAIN triee
    /\ fenetre' = [pc |-> "dialogue", bouton |-> bouton, ligne |-> ligne,
                   position |-> IF bouton = "aLaDate" THEN PositionDeLigne(ligne)
                                ELSE 0,
                   choisie |-> triee[ligne]]
    /\ fait' = Rien
    /\ UNCHANGED <<base, montees, disp, croise, nbMontages>>

Annuler ==
    /\ fenetre.pc = "dialogue"
    /\ fenetre' = Fermee
    /\ UNCHANGED <<base, montees, disp, fait, ajout, croise, bornes>>

Planifiee(cle) == IF cle \in montees THEN cle ELSE Aucune

SauvegarderALaDate ==
    /\ fenetre.pc = "dialogue"
    /\ fenetre.bouton = "aLaDate"
    /\ fait' = [bouton |-> "aLaDate", choisie |-> fenetre.choisie,
                moteur |-> Planifiee(liste[fenetre.position]), base |-> Aucune]
    /\ fenetre' = Fermee
    /\ UNCHANGED <<base, montees, disp, ajout, croise, bornes>>

(* This button asks nothing, and takes the row for a position.             *)
SauvegarderMaintenant(ligne) ==
    /\ Presser
    /\ ligne \in DOMAIN triee
    /\ fait' = [bouton |-> "maintenant", choisie |-> triee[ligne],
                moteur |-> Planifiee(liste[ligne]), base |-> Aucune]
    /\ UNCHANGED <<base, montees, disp, fenetre, croise, nbMontages>>

(* Wrong variant: the engine goes on with the key.                         *)
SupprMoteurSansOublier ==
    /\ fenetre.pc = "dialogue"
    /\ fenetre.bouton = "supprimer"
    /\ fenetre' = [fenetre EXCEPT !.pc = "moniteur"]
    /\ fait' = [bouton |-> "supprimer", choisie |-> fenetre.choisie,
                moteur |-> triee[fenetre.ligne], base |-> Aucune]
    /\ UNCHANGED <<base, montees, disp, ajout, croise, bornes>>

(* With the monitor: the engine forgets the key of the row.                *)
SupprMoteur ==
    /\ fenetre.pc = "dialogue"
    /\ fenetre.bouton = "supprimer"
    /\ fenetre' = [fenetre EXCEPT !.pc = "moniteur"]
    /\ montees' = montees \ {triee[fenetre.ligne]}
    /\ fait' = [bouton |-> "supprimer", choisie |-> fenetre.choisie,
                moteur |-> triee[fenetre.ligne], base |-> Aucune]
    /\ UNCHANGED <<base, disp, ajout, croise, bornes>>

(* Then the base does, which looks at the row again.                       *)
SupprBase ==
    /\ fenetre.pc = "moniteur"
    /\ SupprimerCleParPosition(PositionDeLigne(fenetre.ligne))
    /\ fait' = [fait EXCEPT !.base = triee[fenetre.ligne]]
    /\ fenetre' = Fermee
    /\ croise' = (croise \/ ajout \/ disp.pc # "repos")
    /\ UNCHANGED <<montees, disp, ajout, bornes>>

-----------------------------------------------------------------------------
Dispatcheur ==
    \/ \E cle \in Cles : DispChercher(cle) \/ Demonter(cle)
    \/ DispRenoncer
    \/ DispAjouter
    \/ DispConfigurer
    \/ DispSansDefaut
    \/ DispCharger
    \/ DispInscrire

Fenetre ==
    \/ \E t \in Tris : ChangerTri(t)
    \/ \E ligne \in DOMAIN triee :
         \/ \E b \in {"supprimer", "aLaDate"} : Cliquer(b, ligne)
         \/ SauvegarderMaintenant(ligne)
    \/ Annuler
    \/ SauvegarderALaDate
    \/ SupprMoteur
    \/ SupprBase

Next == Dispatcheur \/ Fenetre

Spec == Init /\ [][Next]_vars

-----------------------------------------------------------------------------
ClesOuAucune == Cles \cup {Aucune}

TypeOK ==
    /\ liste \in Listes
    /\ triee \in Listes
    /\ descripteurs \in Tris \cup {SansTri}
    /\ montees \in SUBSET Cles
    /\ disp \in [pc : {"repos", "ajouter", "configurer", "charger", "inscrire"},
                 cle : ClesOuAucune]
    /\ disp.pc # "repos" => disp.cle \in Cles
    /\ fenetre \in [pc : {"fermee", "dialogue", "moniteur"},
                    bouton : {"aucun", "supprimer", "aLaDate"},
                    ligne : Nat, position : Nat, choisie : ClesOuAucune]
    /\ fait \in [bouton : {"aucun", "supprimer", "aLaDate", "maintenant"},
                 choisie : ClesOuAucune, moteur : ClesOuAucune,
                 base : ClesOuAucune]
    /\ ajout \in BOOLEAN /\ croise \in BOOLEAN
    /\ nbMontages \in Nat /\ nbBoutons \in Nat

(* Whatever was added, removed and sorted, in any order: one record for a  *)
(* key, the index gives its position, and the view shows every key once    *)
(* (DB_Cles.m:100-273).                                                    *)
BaseCoherente ==
    /\ \A i, j \in DOMAIN liste : liste[i] = liste[j] => i = j
    /\ DOMAIN index = Contenu(liste)
    /\ \A cle \in DOMAIN index :
         index[cle] \in DOMAIN liste /\ liste[index[cle]] = cle
    /\ Contenu(triee) = Contenu(liste) /\ Len(triee) = Len(liste)

(* A button works on the key the user chose, if no key was added while its *)
(* dialog was open: the row is a row of the view, the position one of the  *)
(* array (CI_ListeCles.m:232-364). "Back up now" does without a sort only. *)
ActionSurCleChoisie ==
    (~ajout /\ (fait.bouton = "maintenant" => descripteurs = SansTri)) =>
        /\ fait.moteur \in {Aucune, fait.choisie}
        /\ fait.base \in {Aucune, fait.choisie}

(* A key at work in the engine is a known one, as long as no deletion met  *)
(* a registration on its way (CI_ListeCles.m:251-265,                      *)
(* PD_Enregistreur.m:227-296).                                             *)
MonteeConnue ==
    ~croise => \A cle \in montees : Connue(cle)

(* English.lproj/Localizable.strings:39, "Do you really want to remove     *)
(* this key from the list of the known keys ?": the key that is removed is *)
(* the one this was asked about.                                           *)
SupprCleConfirmee == fait.base \in {Aucune, fait.choisie}
=============================================================================
