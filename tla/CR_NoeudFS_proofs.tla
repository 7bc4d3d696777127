--------------------------- MODULE CR_NoeudFS_proofs ---------------------------
(***************************************************************************)
(* Proofs about the trees of the restoration window: the boxes are always  *)
(* coherent, and the trees, read bit by bit, implement Selection.          *)
(***************************************************************************)
EXTENDS CR_NoeudFS, SequenceTheorems, WellFoundedInduction, TLAPS

-----------------------------------------------------------------------------
(* The order of the paths.                                                 *)

LEMMA MinExiste ==
    ASSUME NEW T \in SUBSET Nat, T # {}
    PROVE  \E m \in T : \A x \in T : m <= x
<1> DEFINE R == OpToRel(<, Nat)
<1>1. IsWellFoundedOn(R, Nat)
  BY NatLessThanWellFounded
<1> HIDE DEF R
<1>2. PICK m \in T : \A y \in T : ~(<<y, m>> \in R)
  BY <1>1, WFMin
<1>3. \A y \in T : ~(y < m)
  BY <1>2 DEF R, OpToRel
<1> QED BY <1>3

LEMMA Longueur ==
    ASSUME NEW n \in Noeuds
    PROVE  n \in Seq(Noms) /\ Len(n) \in Nat \ {0}
BY ArbreAssumption, EmptySeq, LenProperties

LEMMA SousDef ==
    ASSUME NEW n \in Noeuds, NEW m \in Noeuds
    PROVE  m \in Sous[n] <=>
             Len(n) < Len(m) /\ \A i \in 1 .. Len(n) : m[i] = n[i]
<1>0. n \in Seq(Noms) /\ m \in Seq(Noms) /\ Len(n) \in Nat /\ Len(m) \in Nat
  BY Longueur
<1>1. m \in Sous[n] <=> Len(n) < Len(m) /\ SubSeq(m, 1, Len(n)) = n
  BY DEF Sous
<1>2. ASSUME Len(n) < Len(m)
      PROVE  SubSeq(m, 1, Len(n)) = n <=> \A i \in 1 .. Len(n) : m[i] = n[i]
  <2> DEFINE s == SubSeq(m, 1, Len(n))
  <2>1. s \in Seq(Noms) /\ Len(s) = Len(n) /\ \A i \in 1 .. Len(n) : s[i] = m[i]
    <3>1. 1 \in 1 .. Len(m) + 1 /\ Len(n) \in 1 - 1 .. Len(m)
      BY <1>0, <1>2
    <3> QED BY <1>0, <3>1, SubSeqProperties
  <2> HIDE DEF s
  <2>2. s = n <=> \A i \in 1 .. Len(n) : s[i] = n[i]
    BY <1>0, <2>1, SeqEqual
  <2> QED BY <2>1, <2>2 DEF s
<1> QED BY <1>1, <1>2

LEMMA SousDansNoeuds ==
    ASSUME NEW n \in Noeuds
    PROVE  /\ Sous[n] \subseteq Noeuds
           /\ Fils[n] = {m \in Sous[n] : Len(m) = Len(n) + 1}
           /\ Ancetres[n] = {p \in Noeuds : n \in Sous[p]}
BY DEF Sous, Fils, Ancetres

LEMMA SousPlusLong ==
    ASSUME NEW n \in Noeuds, NEW m \in Sous[n]
    PROVE  m \in Noeuds /\ Len(n) < Len(m) /\ m # n
<1>1. m \in Noeuds
  BY SousDansNoeuds
<1>2. Len(n) < Len(m)
  BY <1>1, SousDef
<1> QED BY <1>1, <1>2, Longueur

LEMMA SousTransitif ==
    ASSUME NEW n \in Noeuds, NEW m \in Sous[n], NEW k \in Sous[m]
    PROVE  k \in Sous[n]
<1>1. m \in Noeuds
  BY SousPlusLong
<1>2. k \in Noeuds
  BY <1>1, SousPlusLong
<1>3. Len(n) \in Nat /\ Len(m) \in Nat /\ Len(k) \in Nat
  BY <1>1, <1>2, Longueur
<1>4. Len(n) < Len(m) /\ \A i \in 1 .. Len(n) : m[i] = n[i]
  BY <1>1, SousDef
<1>5. Len(m) < Len(k) /\ \A i \in 1 .. Len(m) : k[i] = m[i]
  BY <1>1, <1>2, SousDef
<1>6. Len(n) < Len(k) /\ \A i \in 1 .. Len(n) : k[i] = n[i]
  BY <1>3, <1>4, <1>5
<1> QED BY <1>2, <1>6, SousDef

(* Of two paths above one, one is above the other.                         *)
LEMMA Chaine ==
    ASSUME NEW p \in Noeuds, NEW q \in Noeuds, NEW n, n \in Sous[p], n \in Sous[q]
    PROVE  p = q \/ p \in Sous[q] \/ q \in Sous[p]
<1>1. n \in Noeuds
  BY SousPlusLong
<1>2. /\ p \in Seq(Noms) /\ q \in Seq(Noms)
      /\ Len(p) \in Nat /\ Len(q) \in Nat /\ Len(n) \in Nat
  BY <1>1, Longueur
<1>3. /\ \A i \in 1 .. Len(p) : n[i] = p[i]
      /\ \A i \in 1 .. Len(q) : n[i] = q[i]
  BY <1>1, SousDef
<1>4. CASE Len(p) < Len(q)
  <2>1. \A i \in 1 .. Len(p) : q[i] = p[i]
    BY <1>2, <1>3, <1>4
  <2> QED BY <1>4, <2>1, SousDef
<1>5. CASE Len(q) < Len(p)
  <2>1. \A i \in 1 .. Len(q) : p[i] = q[i]
    BY <1>2, <1>3, <1>5
  <2> QED BY <1>5, <2>1, SousDef
<1>6. CASE Len(p) = Len(q)
  <2>1. \A i \in 1 .. Len(p) : p[i] = q[i]
    BY <1>2, <1>3, <1>6
  <2> QED BY <1>2, <1>6, <2>1, SeqEqual
<1> QED BY <1>2, <1>4, <1>5, <1>6

(* What has something below is a directory.                                *)
LEMMA DessusRepertoire ==
    ASSUME NEW p \in Noeuds, NEW n \in Sous[p]
    PROVE  p \in Repertoires
<1>1. n \in Noeuds /\ Len(p) < Len(n)
  BY SousPlusLong
<1>2. Len(p) \in Nat \ {0} /\ Len(n) \in Nat
  BY <1>1, Longueur
<1>3. Len(p) \in 1 .. Len(n) - 1
  BY <1>1, <1>2
<1>4. SubSeq(n, 1, Len(p)) \in Repertoires
  BY <1>1, <1>3, ArbreAssumption
<1>5. SubSeq(n, 1, Len(p)) = p
  BY DEF Sous
<1> QED BY <1>4, <1>5

(* On the way from n down to f there is a child of n.                      *)
LEMMA FilsVers ==
    ASSUME NEW n \in Noeuds, NEW f \in Sous[n]
    PROVE  \E c \in Fils[n] : f \in Branche(c)
<1>1. f \in Noeuds /\ Len(n) < Len(f)
  BY SousPlusLong
<1>2. f \in Seq(Noms) /\ Len(n) \in Nat /\ Len(f) \in Nat
  BY <1>1, Longueur
<1>3. \A i \in 1 .. Len(n) : f[i] = n[i]
  BY <1>1, SousDef
<1>4. CASE Len(f) = Len(n) + 1
  BY <1>4, SousDansNoeuds DEF Branche
<1>5. CASE Len(f) # Len(n) + 1
  <2> DEFINE c == SubSeq(f, 1, Len(n) + 1)
  <2>1. Len(n) + 1 \in 1 .. Len(f) - 1
    BY <1>1, <1>2, <1>5
  <2>2. c \in Noeuds
    BY <1>1, <2>1, ArbreAssumption
  <2>3. Len(c) = Len(n) + 1 /\ \A i \in 1 .. Len(n) + 1 : c[i] = f[i]
    <3>1. 1 \in 1 .. Len(f) + 1 /\ Len(n) + 1 \in 1 - 1 .. Len(f)
      BY <1>2, <2>1
    <3> QED BY <1>2, <3>1, SubSeqProperties
  <2> HIDE DEF c
  <2>4. \A i \in 1 .. Len(n) : c[i] = n[i]
    BY <1>2, <1>3, <2>3
  <2>5. c \in Sous[n]
    BY <1>2, <2>2, <2>3, <2>4, SousDef
  <2>6. f \in Sous[c]
    BY <1>1, <1>2, <2>1, <2>2, <2>3, SousDef
  <2> QED BY <2>3, <2>5, <2>6, SousDansNoeuds DEF Branche
<1> QED BY <1>4, <1>5

LEMMA Parent ==
    ASSUME NEW n \in Noeuds, n \notin Racines
    PROVE  \E p \in Repertoires : n \in Fils[p]
<1>1. n \in Seq(Noms) /\ Len(n) \in Nat \ {0} /\ Len(n) # 1
  BY Longueur DEF Racines
<1>2. PICK k \in Nat : k \in 1 .. Len(n) - 1 /\ k + 1 = Len(n)
  <2>1. \A l \in Nat \ {0} : l # 1 => l - 1 \in Nat /\ l - 1 \in 1 .. l - 1
    OBVIOUS
  <2>2. \A l \in Nat \ {0} : (l - 1) + 1 = l
    OBVIOUS
  <2> QED BY <1>1, <2>1, <2>2
<1> DEFINE p == SubSeq(n, 1, k)
<1>3. p \in Repertoires /\ p \in Noeuds
  BY <1>2, ArbreAssumption
<1>4. Len(p) = k /\ \A i \in 1 .. k : p[i] = n[i]
  <2>1. 1 \in 1 .. Len(n) + 1 /\ k \in 1 - 1 .. Len(n)
    BY <1>1, <1>2
  <2> QED BY <1>1, <1>2, <2>1, SubSeqProperties
<1> HIDE DEF p
<1>5. n \in Sous[p]
  BY <1>1, <1>2, <1>3, <1>4, SousDef
<1> QED BY <1>2, <1>3, <1>4, <1>5, SousDansNoeuds

LEMMA RacineSansAncetre ==
    ASSUME NEW p \in Noeuds, NEW r \in Racines
    PROVE  r \notin Sous[p]
BY SousPlusLong, Longueur DEF Racines

(* What is above a child is the parent or is above it.                     *)
LEMMA AncetresDuFils ==
    ASSUME NEW n \in Noeuds, NEW c \in Fils[n], NEW p \in Noeuds, c \in Sous[p]
    PROVE  p = n \/ n \in Sous[p]
<1>1. c \in Sous[n] /\ c \in Noeuds /\ Len(c) = Len(n) + 1
  BY SousDansNoeuds
<1>2. p = n \/ p \in Sous[n] \/ n \in Sous[p]
  BY <1>1, Chaine
<1>3. ~(p \in Sous[n])
  <2> SUFFICES ASSUME p \in Sous[n] PROVE FALSE
    OBVIOUS
  <2>1. Len(n) < Len(p) /\ Len(p) < Len(c)
    BY SousPlusLong
  <2> QED BY <1>1, <2>1, Longueur
<1> QED BY <1>2, <1>3

LEMMA BrancheBase ==
    ASSUME NEW n \in Noeuds, NEW m \in Branche(n)
    PROVE  m \in Noeuds /\ Sous[m] \subseteq Sous[n] /\ Branche(m) \subseteq Branche(n)
BY SousPlusLong, SousTransitif DEF Branche

(* Below what is neither above n nor below it nothing is either.           *)
LEMMA HorsChemin ==
    ASSUME NEW n \in Noeuds, NEW y \in Noeuds,
           y \notin Branche(n) \cup Ancetres[n], NEW z \in Sous[y]
    PROVE  z \notin Branche(n) \cup Ancetres[n]
<1>1. y # n /\ y \notin Sous[n] /\ n \notin Sous[y]
  BY SousDansNoeuds DEF Branche
<1>2. z # n
  BY <1>1
<1>3. z \notin Sous[n]
  BY <1>1, Chaine
<1>4. z \notin Ancetres[n]
  BY <1>1, SousTransitif, SousDansNoeuds
<1> QED BY <1>2, <1>3, <1>4 DEF Branche

(* Where the way from p to a file parts with the way from p to n.          *)
LEMMA Fourche ==
    ASSUME NEW n \in Noeuds, NEW p \in Ancetres[n], NEW f \in Fichiers,
           f \in Sous[p], f \notin Branche(n)
    PROVE  \E q \in Ancetres[n] : \E c \in Fils[q] :
             /\ c \in Sous[p] /\ f \in Branche(c)
             /\ c \notin Branche(n) \cup Ancetres[n]
<1>0. p \in Noeuds /\ n \in Sous[p] /\ f \in Noeuds
  BY SousDansNoeuds DEF Fichiers
<1> DEFINE A == {q \in Ancetres[n] : f \in Sous[q]}
           T == {Len(n) - Len(q) : q \in A}
<1>1. \A q \in A : q \in Noeuds /\ n \in Sous[q] /\ f \in Sous[q]
  BY SousDansNoeuds
<1>2. T \in SUBSET Nat /\ T # {}
  <2>1. \A q \in A : Len(n) - Len(q) \in Nat
    BY <1>1, SousPlusLong, Longueur
  <2> QED BY <2>1
<1>3. PICK q \in A : \A x \in A : Len(n) - Len(q) <= Len(n) - Len(x)
  <2>1. PICK k \in T : \A x \in T : k <= x
    BY <1>2, MinExiste
  <2> QED BY <2>1
<1> HIDE DEF T
<1>4. \A x \in A : Len(x) <= Len(q)
  BY <1>1, <1>3, Longueur
<1>5. q \in Branche(p)
  <2>1. q = p \/ q \in Sous[p] \/ p \in Sous[q]
    BY <1>0, <1>1, Chaine
  <2>2. ~(p \in Sous[q])
    BY <1>0, <1>1, <1>4, SousPlusLong, Longueur
  <2> QED BY <2>1, <2>2 DEF Branche
<1>6. PICK c \in Fils[q] : f \in Branche(c)
  BY <1>1, FilsVers
<1>7. c \in Sous[q] /\ c \in Noeuds
  BY <1>1, SousDansNoeuds
<1>8. c \in Sous[p]
  BY <1>0, <1>5, <1>7, BrancheBase
<1>9. c \notin Branche(n)
  BY <1>6, BrancheBase
<1>10. c \notin Ancetres[n]
  <2> SUFFICES ASSUME c \in Ancetres[n] PROVE FALSE
    OBVIOUS
  <2>1. n \in Sous[c]
    BY <1>7, SousDansNoeuds
  <2>2. c \in Repertoires
    BY <1>7, <2>1, DessusRepertoire
  <2>3. f \in Sous[c]
    BY <1>6, <2>2 DEF Branche, Fichiers
  <2>4. c \in A
    BY <2>3
  <2> QED BY <1>1, <1>4, <1>7, <2>4, SousPlusLong, Longueur
<1> QED BY <1>6, <1>8, <1>9, <1>10

-----------------------------------------------------------------------------
(* The inductive invariant.                                                *)

(* Whatever leads to a node that was read is open.                         *)
Haut == \A m \in Presents : Ancetres[m] \subseteq deployes

ToutOn ==
    \A x \in Presents : etat[x] = On =>
        \A m \in Presents \cap Sous[x] : etat[m] = On

ToutOff ==
    \A x \in Presents : etat[x] = Off =>
        \A m \in Presents \cap Sous[x] : etat[m] = Off

Melange ==
    \A x \in Presents : etat[x] = Mixte =>
        /\ \E m \in Presents \cap Sous[x] : etat[m] = On
        /\ \E m \in Presents \cap Sous[x] : etat[m] = Off

Inductif == TypeOK /\ Haut /\ ToutOn /\ ToutOff /\ Melange

LEMMA EtatsDifferents == On # Off /\ On # Mixte /\ Off # Mixte
BY DEF On, Off, Mixte

LEMMA InductifDonneCoherence == Inductif => Coherence
BY EtatsDifferents DEF Inductif, TypeOK, Etats, ToutOn, ToutOff, Melange, Coherence, Presents

(* Nothing has been read below a directory that is not open; it is not     *)
(* mixed.                                                                  *)
LEMMA RienSousFerme ==
    ASSUME Inductif, NEW d \in Presents, d \notin deployes
    PROVE  /\ \A m \in Presents : m \notin Sous[d]
           /\ etat[d] \in {On, Off}
<1>1. d \in Noeuds /\ Presents \subseteq Noeuds
  BY DEF Inductif, TypeOK
<1>2. \A m \in Presents : m \notin Sous[d]
  BY <1>1, SousDansNoeuds DEF Inductif, Haut
<1>3. etat[d] \in Etats
  BY DEF Inductif, TypeOK
<1>4. etat[d] # Mixte
  BY <1>2 DEF Inductif, Melange
<1> QED BY <1>2, <1>3, <1>4 DEF Etats

(* A child of an open directory has been read.                             *)
LEMMA FilsPresents ==
    ASSUME Inductif, NEW d \in deployes, NEW c \in Fils[d]
    PROVE  c \in Presents
<1>1. d \in Noeuds
  BY ArbreAssumption DEF Inductif, TypeOK
<1>2. c \in Noeuds /\ c \in Sous[d]
  BY <1>1, SousDansNoeuds
<1>3. c \notin Racines
  BY <1>1, <1>2, RacineSansAncetre
<1> QED BY <1>2, <1>3 DEF Inductif, TypeOK

(* Below a node that was read, what was not is below a closed directory.   *)
LEMMA PlusBas ==
    ASSUME Inductif, NEW y \in Presents, NEW f \in Sous[y], f \notin Presents
    PROVE  \E d \in (Presents \cap Branche(y)) \ deployes : f \in Sous[d]
<1>0. y \in Noeuds /\ f \in Noeuds /\ Presents \subseteq Noeuds
  BY SousPlusLong DEF Inductif, TypeOK
<1> DEFINE A == {d \in Presents \cap Branche(y) : f \in Sous[d]}
           T == {Len(f) - Len(d) : d \in A}
<1>1. T \in SUBSET Nat /\ T # {}
  <2>1. \A d \in A : Len(f) - Len(d) \in Nat
    BY <1>0, SousPlusLong, Longueur
  <2>2. y \in A
    BY DEF Branche
  <2> QED BY <2>1, <2>2
<1>2. PICK d \in A : \A x \in A : Len(f) - Len(d) <= Len(f) - Len(x)
  <2>1. PICK k \in T : \A x \in T : k <= x
    BY <1>1, MinExiste
  <2> QED BY <2>1
<1> HIDE DEF T
<1>3. d \notin deployes
  <2> SUFFICES ASSUME d \in deployes PROVE FALSE
    OBVIOUS
  <2>1. PICK c \in Fils[d] : f \in Branche(c)
    BY <1>0, FilsVers
  <2>2. c \in Presents /\ c \in Noeuds
    BY <1>0, FilsPresents
  <2>3. c \in Sous[d] /\ Len(c) = Len(d) + 1
    BY <1>0, SousDansNoeuds
  <2>4. f \in Sous[c]
    BY <2>1, <2>2 DEF Branche
  <2>5. c \in Branche(y)
    BY <1>0, <2>3, BrancheBase DEF Branche
  <2>6. c \in A
    BY <2>2, <2>4, <2>5
  <2> QED BY <1>0, <1>2, <2>2, <2>3, <2>6, Longueur
<1> QED BY <1>2, <1>3

-----------------------------------------------------------------------------
(* The click.                                                              *)

LEMMA AutresPetits ==
    ASSUME NEW n \in Noeuds, NEW p \in Noeuds, NEW q \in Sous[p]
    PROVE  Autres(q, n) \subseteq Autres(p, n)
BY SousTransitif DEF Autres

(* When none of the others is off they are all on, and there is one on     *)
(* when one of them is not off.                                            *)
LEMMA AutresPurs ==
    ASSUME Inductif, NEW n \in Noeuds, NEW p \in Noeuds,
           NEW m \in Autres(p, n), etat[m] = Mixte
    PROVE  /\ \E z \in Autres(p, n) : etat[z] = On
           /\ \E z \in Autres(p, n) : etat[z] = Off
<1>1. /\ m \in Presents /\ m \in Noeuds /\ m \in Sous[p]
      /\ m \notin Branche(n) \cup Ancetres[n]
  BY SousPlusLong DEF Autres
<1>2. \A z \in Presents \cap Sous[m] : z \in Autres(p, n)
  BY <1>1, HorsChemin, SousTransitif DEF Autres
<1> QED BY <1>1, <1>2 DEF Inductif, Melange

LEMMA EtatsPossibles ==
    ASSUME Inductif, NEW m \in Presents
    PROVE  etat[m] = On \/ etat[m] = Off \/ etat[m] = Mixte
BY DEF Inductif, TypeOK, Etats

LEMMA CliquerEtats ==
    ASSUME Inductif, NEW n \in Noeuds, NEW e \in {On, Off}, Cliquer(n, e)
    PROVE  /\ Presents' = Presents /\ n \in Presents
           /\ \A m \in Presents \cap Branche(n) : etat'[m] = e
           /\ \A m \in Presents \cap Ancetres[n] :
                /\ m \notin Branche(n)
                /\ etat'[m] = EtatPere(m, n, e)
           /\ \A m \in Presents \ (Branche(n) \cup Ancetres[n]) :
                etat'[m] = etat[m]
<1>1. Presents \subseteq Noeuds
  BY DEF Inductif, TypeOK
<1>2. \A m \in Presents \cap Ancetres[n] : m \notin Branche(n)
  BY <1>1, SousDansNoeuds, SousPlusLong, SousTransitif DEF Branche
<1>3. etat' = [m \in Presents |->
                   IF m \in Branche(n) THEN e
                   ELSE IF m \in Ancetres[n] THEN EtatPere(m, n, e)
                   ELSE etat[m]]
  BY DEF Cliquer
<1>4. Presents' = Presents
  BY <1>3 DEF Presents
<1>5. n \in Presents
  BY DEF Cliquer, Ligne
<1> QED BY <1>2, <1>3, <1>4, <1>5

(* A directory above n gets one of the three states, with its reason.      *)
LEMMA PereOn ==
    ASSUME Inductif, NEW n \in Noeuds, NEW p \in Noeuds
    PROVE  /\ EtatPere(p, n, On) \in {On, Mixte}
           /\ EtatPere(p, n, On) = On => \A m \in Autres(p, n) : etat[m] = On
           /\ EtatPere(p, n, On) = Mixte => \E m \in Autres(p, n) : etat[m] = Off
           /\ (\A m \in Autres(p, n) : etat[m] = On) => EtatPere(p, n, On) = On
<1>1. Autres(p, n) \subseteq Presents
  BY DEF Autres
<1>2. (\A m \in Autres(p, n) : etat[m] # Off) =>
        \A m \in Autres(p, n) : etat[m] = On
  BY <1>1, AutresPurs, EtatsPossibles
<1> QED BY <1>2, EtatsDifferents DEF EtatPere

LEMMA PereOff ==
    ASSUME Inductif, NEW n \in Noeuds, NEW p \in Noeuds
    PROVE  /\ EtatPere(p, n, Off) \in {Off, Mixte}
           /\ EtatPere(p, n, Off) = Off => \A m \in Autres(p, n) : etat[m] = Off
           /\ EtatPere(p, n, Off) = Mixte => \E m \in Autres(p, n) : etat[m] = On
           /\ (\A m \in Autres(p, n) : etat[m] = Off) => EtatPere(p, n, Off) = Off
<1>1. Autres(p, n) \subseteq Presents
  BY DEF Autres
<1>2. (\E m \in Autres(p, n) : etat[m] # Off) =>
        \E m \in Autres(p, n) : etat[m] = On
  BY <1>1, AutresPurs, EtatsPossibles
<1> QED BY <1>2, EtatsDifferents DEF EtatPere

-----------------------------------------------------------------------------
(* Each step keeps the invariant.                                          *)

LEMMA InitInductif == Init => Inductif
<1> SUFFICES ASSUME Init PROVE Inductif
  OBVIOUS
<1>1. Presents = {} /\ etat = [n \in {} |-> Off]
  BY DEF Init, Presents
<1>2. TypeOK
  BY <1>1 DEF Init, TypeOK
<1> QED BY <1>1, <1>2 DEF Inductif, Haut, ToutOn, ToutOff, Melange

LEMMA ChargerInductif ==
    ASSUME Inductif, NEW r \in Racines, Charger(r)
    PROVE  Inductif'
<1>1. /\ Presents \subseteq Noeuds /\ Racines \subseteq Noeuds
      /\ deployes \subseteq Presents
  BY DEF Inductif, TypeOK, Racines
<1>2. etat' = [n \in Presents \cup {r} |->
                  IF n \in Presents THEN etat[n] ELSE Off]
  BY DEF Charger
<1>3. Presents' = Presents \cup {r}
  BY <1>2 DEF Presents
<1>4. /\ \A n \in Presents : etat'[n] = etat[n]
      /\ r \notin Presents => etat'[r] = Off
  BY <1>2
<1>5. deployes' = deployes /\ liste' = liste /\ arbre' = r
  BY DEF Charger
<1>6. \A x \in Noeuds : r \notin Sous[x]
  BY RacineSansAncetre
<1>7. r \notin Presents => \A m \in Presents : m \notin Sous[r]
  BY <1>1, SousDansNoeuds DEF Inductif, Haut
<1>8. r \notin Sous[r]
  BY <1>1, <1>6
<1>9. TypeOK'
  <2>1. etat' \in [Presents' -> Etats]
    BY <1>2, <1>3 DEF Inductif, TypeOK, Etats
  <2>2. \A n \in Noeuds \ Racines :
          n \in Presents' <=> \E d \in deployes' : n \in Fils[d]
    BY <1>3, <1>5 DEF Inductif, TypeOK
  <2> QED BY <1>1, <1>3, <1>5, <2>1, <2>2 DEF Inductif, TypeOK
<1>10. Haut'
  BY <1>1, <1>3, <1>5, <1>6, SousDansNoeuds DEF Inductif, Haut
<1>11. ToutOn'
  BY <1>1, <1>3, <1>4, <1>6, <1>7, EtatsDifferents DEF Inductif, ToutOn
<1>12. ToutOff'
  BY <1>1, <1>3, <1>4, <1>6, <1>7, EtatsDifferents DEF Inductif, ToutOff
<1>13. Melange'
  BY <1>1, <1>3, <1>4, <1>6, <1>7, EtatsDifferents DEF Inductif, Melange
<1> QED BY <1>9, <1>10, <1>11, <1>12, <1>13 DEF Inductif

(* What opening a directory reads: its children, in its state.             *)
LEMMA DeployerEtats ==
    ASSUME Inductif, NEW n \in Noeuds, Deployer(n)
    PROVE  /\ n \in Presents /\ n \in Repertoires /\ n \notin deployes
           /\ Presents' = Presents \cup Fils[n]
           /\ \A m \in Presents : etat'[m] = etat[m] /\ m \notin Sous[n]
           /\ \A c \in Fils[n] : /\ c \notin Presents /\ c \in Sous[n]
                                 /\ c \in Noeuds
                                 /\ etat'[c] = etat[n]
           /\ etat[n] \in {On, Off}
           /\ deployes' = deployes \cup {n}
           /\ UNCHANGED <<arbre, liste>>
<1>1. n \in Presents /\ n \in Repertoires /\ n \notin deployes
  BY DEF Deployer, Ligne
<1>2. etat' = [m \in Presents \cup Fils[n] |->
                   IF m \in Presents THEN etat[m]
                   ELSE IF etat[n] = On THEN On ELSE Off]
  BY DEF Deployer
<1>3. Presents' = Presents \cup Fils[n]
  BY <1>2 DEF Presents
<1>4. (\A m \in Presents : m \notin Sous[n]) /\ etat[n] \in {On, Off}
  BY <1>1, RienSousFerme
<1>5. \A c \in Fils[n] : c \in Sous[n] /\ c \in Noeuds
  BY SousDansNoeuds
<1>6. \A c \in Fils[n] : c \notin Presents /\ etat'[c] = etat[n]
  BY <1>2, <1>4, <1>5
<1>7. \A m \in Presents : etat'[m] = etat[m]
  BY <1>2
<1> QED BY <1>1, <1>3, <1>4, <1>5, <1>6, <1>7 DEF Deployer

LEMMA DeployerInductif ==
    ASSUME Inductif, NEW n \in Noeuds, Deployer(n)
    PROVE  Inductif'
<1>1. /\ n \in Presents /\ n \in Repertoires /\ n \notin deployes
      /\ Presents' = Presents \cup Fils[n]
      /\ \A m \in Presents : etat'[m] = etat[m] /\ m \notin Sous[n]
      /\ \A c \in Fils[n] : /\ c \notin Presents /\ c \in Sous[n]
                            /\ c \in Noeuds
                            /\ etat'[c] = etat[n]
      /\ etat[n] \in {On, Off}
      /\ deployes' = deployes \cup {n}
      /\ UNCHANGED <<arbre, liste>>
  BY DeployerEtats
<1>2. Presents \subseteq Noeuds
  BY DEF Inductif, TypeOK
<1>3. \A c \in Fils[n], x \in Noeuds : c \in Sous[x] => x = n \/ n \in Sous[x]
  BY AncetresDuFils
<1>4. \A c \in Fils[n], x \in Fils[n] : c \notin Sous[x]
  BY <1>1, <1>3, SousPlusLong
<1>5. \A x \in Fils[n], m \in Presents : m \notin Sous[x]
  BY <1>1, SousTransitif
<1>6. TypeOK'
  <2>1. etat' \in [Presents' -> Etats]
    BY <1>1 DEF Deployer, Inductif, TypeOK, Etats, Presents
  <2>2. ASSUME NEW m \in Noeuds \ Racines
        PROVE  m \in Presents' <=> \E d \in deployes' : m \in Fils[d]
    BY <1>1 DEF Inductif, TypeOK
  <2>3. deployes' \subseteq Presents' \cap Repertoires
    BY <1>1 DEF Inductif, TypeOK
  <2>4. Presents' \subseteq Noeuds
    BY <1>1, <1>2
  <2> QED BY <1>1, <2>1, <2>2, <2>3, <2>4 DEF Inductif, TypeOK
<1>7. Haut'
  <2>1. ASSUME NEW m \in Presents PROVE Ancetres[m] \subseteq deployes'
    BY <1>1 DEF Inductif, Haut
  <2>2. ASSUME NEW c \in Fils[n] PROVE Ancetres[c] \subseteq deployes'
    <3>1. ASSUME NEW x \in Ancetres[c] PROVE x \in deployes'
      <4>1. x \in Noeuds /\ c \in Sous[x]
        BY <1>1, SousDansNoeuds
      <4>2. x = n \/ x \in Ancetres[n]
        BY <1>3, <4>1, SousDansNoeuds
      <4> QED BY <1>1, <4>2 DEF Inductif, Haut
    <3> QED BY <3>1
  <2> QED BY <1>1, <2>1, <2>2 DEF Haut
<1>8. \A x \in Presents, c \in Fils[n] :
        c \in Sous[x] => x = n \/ n \in Presents \cap Sous[x]
  BY <1>1, <1>2, <1>3
<1>9. ToutOn'
  BY <1>1, <1>4, <1>5, <1>8 DEF Inductif, ToutOn
<1>10. ToutOff'
  BY <1>1, <1>4, <1>5, <1>8 DEF Inductif, ToutOff
<1>11. Melange'
  BY <1>1, EtatsDifferents DEF Inductif, Melange
<1> QED BY <1>6, <1>7, <1>9, <1>10, <1>11 DEF Inductif

LEMMA CliquerInductif ==
    ASSUME Inductif, NEW n \in Noeuds, NEW e \in {On, Off}, Cliquer(n, e)
    PROVE  Inductif'
<1>1. /\ Presents' = Presents /\ n \in Presents
      /\ \A m \in Presents \cap Branche(n) : etat'[m] = e
      /\ \A m \in Presents \cap Ancetres[n] :
           /\ m \notin Branche(n)
           /\ etat'[m] = EtatPere(m, n, e)
      /\ \A m \in Presents \ (Branche(n) \cup Ancetres[n]) :
           etat'[m] = etat[m]
  BY CliquerEtats
<1>2. Presents \subseteq Noeuds
  BY DEF Inductif, TypeOK
<1>3. UNCHANGED <<arbre, deployes, liste>>
  BY DEF Cliquer
<1>4. \A x \in Noeuds : EtatPere(x, n, e) \in Etats
  BY PereOn, PereOff DEF Etats
<1>5. TypeOK'
  <2>1. \A m \in Presents : etat'[m] \in Etats
    BY <1>1, <1>2, <1>4 DEF Inductif, TypeOK, Etats
  <2>2. etat' \in [Presents' -> Etats]
    BY <1>1, <2>1 DEF Cliquer, Presents
  <2> QED BY <1>1, <1>3, <2>2 DEF Inductif, TypeOK
<1>6. Haut'
  BY <1>1, <1>3 DEF Inductif, Haut
(* The three cases of a node.                                              *)
<1>7. ASSUME NEW x \in Presents, x \in Branche(n)
      PROVE  etat'[x] = e /\ \A m \in Presents \cap Sous[x] : etat'[m] = e
  BY <1>1, <1>7, BrancheBase DEF Branche
<1>8. ASSUME NEW x \in Presents, x \notin Branche(n) \cup Ancetres[n]
      PROVE  etat'[x] = etat[x] /\ \A m \in Presents \cap Sous[x] : etat'[m] = etat[m]
  BY <1>1, <1>2, <1>8, HorsChemin
<1>9. ASSUME NEW x \in Presents, x \in Ancetres[n]
      PROVE  /\ x \in Noeuds /\ n \in Sous[x]
             /\ etat'[x] = EtatPere(x, n, e) /\ etat'[n] = e
             /\ \A m \in Autres(x, n) : m \in Presents \cap Sous[x] /\ etat'[m] = etat[m]
             /\ \A m \in Presents \cap Sous[x] :
                  \/ etat'[m] = e
                  \/ m \in Autres(x, n)
                  \/ m \in Noeuds /\ etat'[m] = EtatPere(m, n, e)
                       /\ Autres(m, n) \subseteq Autres(x, n)
  <2>1. x \in Noeuds /\ n \in Sous[x]
    BY <1>2, <1>9, SousDansNoeuds
  <2>2. n \in Branche(n)
    BY DEF Branche
  <2>3. \A m \in Presents \cap Sous[x] : Autres(m, n) \subseteq Autres(x, n)
    BY <1>2, AutresPetits
  <2>4. \A m \in Autres(x, n) : m \in Presents \cap Sous[x] /\ etat'[m] = etat[m]
    BY <1>1 DEF Autres
  <2>5. \A m \in Presents \cap Sous[x] :
          m \in Branche(n) \/ m \in Ancetres[n] \/ m \in Autres(x, n)
    BY DEF Autres
  <2> QED BY <1>1, <1>2, <1>9, <2>1, <2>2, <2>3, <2>4, <2>5
<1>10. ASSUME NEW x \in Presents, x \in Ancetres[n]
       PROVE  /\ etat'[x] = On => \A m \in Presents \cap Sous[x] : etat'[m] = On
              /\ etat'[x] = Off => \A m \in Presents \cap Sous[x] : etat'[m] = Off
              /\ etat'[x] = Mixte =>
                   /\ \E m \in Presents \cap Sous[x] : etat'[m] = On
                   /\ \E m \in Presents \cap Sous[x] : etat'[m] = Off
  <2>1. CASE e = On
    <3>1. etat'[x] \in {On, Mixte}
      BY <1>9, <1>10, <2>1, PereOn
    <3>2. ASSUME etat'[x] = On, NEW m \in Presents \cap Sous[x] PROVE etat'[m] = On
      <4>1. \A z \in Autres(x, n) : etat[z] = On
        BY <1>9, <1>10, <2>1, <3>2, PereOn
      <4>2. CASE m \in Autres(x, n)
        BY <1>9, <1>10, <4>1, <4>2
      <4>3. CASE m \in Noeuds /\ etat'[m] = EtatPere(m, n, e)
                   /\ Autres(m, n) \subseteq Autres(x, n)
        BY <2>1, <4>1, <4>3, PereOn
      <4> QED BY <1>9, <1>10, <2>1, <4>2, <4>3
    <3>3. ASSUME etat'[x] = Mixte
          PROVE  /\ \E m \in Presents \cap Sous[x] : etat'[m] = On
                 /\ \E m \in Presents \cap Sous[x] : etat'[m] = Off
      <4>1. \E z \in Autres(x, n) : etat[z] = Off
        BY <1>9, <1>10, <2>1, <3>3, PereOn
      <4> QED BY <1>1, <1>9, <1>10, <2>1, <4>1
    <3> QED BY <3>1, <3>2, <3>3, EtatsDifferents
  <2>2. CASE e = Off
    <3>1. etat'[x] \in {Off, Mixte}
      BY <1>9, <1>10, <2>2, PereOff
    <3>2. ASSUME etat'[x] = Off, NEW m \in Presents \cap Sous[x] PROVE etat'[m] = Off
      <4>1. \A z \in Autres(x, n) : etat[z] = Off
        BY <1>9, <1>10, <2>2, <3>2, PereOff
      <4>2. CASE m \in Autres(x, n)
        BY <1>9, <1>10, <4>1, <4>2
      <4>3. CASE m \in Noeuds /\ etat'[m] = EtatPere(m, n, e)
                   /\ Autres(m, n) \subseteq Autres(x, n)
        BY <2>2, <4>1, <4>3, PereOff
      <4> QED BY <1>9, <1>10, <2>2, <4>2, <4>3
    <3>3. ASSUME etat'[x] = Mixte
          PROVE  /\ \E m \in Presents \cap Sous[x] : etat'[m] = On
                 /\ \E m \in Presents \cap Sous[x] : etat'[m] = Off
      <4>1. \E z \in Autres(x, n) : etat[z] = On
        BY <1>9, <1>10, <2>2, <3>3, PereOff
      <4> QED BY <1>1, <1>9, <1>10, <2>2, <4>1
    <3> QED BY <3>1, <3>2, <3>3, EtatsDifferents
  <2> QED BY <2>1, <2>2
<1>11. ToutOn'
  BY <1>1, <1>7, <1>8, <1>10 DEF Inductif, ToutOn
<1>12. ToutOff'
  BY <1>1, <1>7, <1>8, <1>10 DEF Inductif, ToutOff
<1>13. Melange'
  <2> SUFFICES ASSUME NEW x \in Presents, etat'[x] = Mixte
               PROVE  /\ \E m \in Presents \cap Sous[x] : etat'[m] = On
                      /\ \E m \in Presents \cap Sous[x] : etat'[m] = Off
    BY <1>1 DEF Melange
  <2>1. x \notin Branche(n)
    BY <1>7, EtatsDifferents
  <2>2. CASE x \in Ancetres[n]
    BY <1>10, <2>2
  <2>3. CASE x \notin Ancetres[n]
    BY <1>8, <2>1, <2>3 DEF Inductif, Melange
  <2> QED BY <2>2, <2>3
<1> QED BY <1>5, <1>6, <1>11, <1>12, <1>13 DEF Inductif

(* The directories listeFichiersSelectionnes: opens are on, and hold       *)
(* nothing that was read.                                                  *)
LEMMA ListerEtats ==
    ASSUME Inductif, Lister
    PROVE  /\ \A d \in Ouverts : /\ d \in Presents /\ d \in Noeuds
                                 /\ d \in Repertoires /\ d \notin deployes
                                 /\ etat[d] = On
                                 /\ \A m \in Presents : m \notin Sous[d]
           /\ \A x \in Lus : /\ x \notin Presents /\ x \in Noeuds
                             /\ \E d \in Ouverts : x \in Sous[d]
           /\ \A d \in Ouverts : Sous[d] \subseteq Lus
           /\ Presents' = Presents \cup Lus
           /\ \A m \in Presents : etat'[m] = etat[m]
           /\ \A x \in Lus : etat'[x] = On
           /\ deployes' = deployes \cup Ouverts \cup (Lus \cap Repertoires)
           /\ arbre' = arbre
<1>1. etat' = [n \in Presents \cup Lus |-> IF n \in Lus THEN On ELSE etat[n]]
  BY DEF Lister
<1>2. Presents' = Presents \cup Lus
  BY <1>1 DEF Presents
<1>3. \A d \in Ouverts : /\ d \in Presents /\ d \in Noeuds
                         /\ d \in Repertoires /\ d \notin deployes
                         /\ etat[d] # Off
  BY DEF Ouverts, Parcourus, Inductif, TypeOK
<1>4. \A d \in Ouverts : etat[d] = On /\ \A m \in Presents : m \notin Sous[d]
  BY <1>3, RienSousFerme
<1>5. \A x \in Lus : \E d \in Ouverts : x \in Sous[d]
  BY DEF Lus
<1>6. \A d \in Ouverts : Sous[d] \subseteq Lus
  BY DEF Lus
<1>7. \A x \in Lus : x \notin Presents /\ x \in Noeuds
  BY <1>3, <1>4, <1>5, SousPlusLong
<1>8. /\ \A m \in Presents : etat'[m] = etat[m]
      /\ \A x \in Lus : etat'[x] = On
  BY <1>1, <1>7
<1>9. deployes' = deployes \cup Ouverts \cup (Lus \cap Repertoires) /\ arbre' = arbre
  BY DEF Lister
<1> QED BY <1>2, <1>3, <1>4, <1>5, <1>6, <1>7, <1>8, <1>9

LEMMA ListerInductif ==
    ASSUME Inductif, Lister
    PROVE  Inductif'
<1>1. /\ \A d \in Ouverts : /\ d \in Presents /\ d \in Noeuds
                            /\ d \in Repertoires /\ d \notin deployes
                            /\ etat[d] = On
                            /\ \A m \in Presents : m \notin Sous[d]
      /\ \A x \in Lus : /\ x \notin Presents /\ x \in Noeuds
                        /\ \E d \in Ouverts : x \in Sous[d]
      /\ \A d \in Ouverts : Sous[d] \subseteq Lus
      /\ Presents' = Presents \cup Lus
      /\ \A m \in Presents : etat'[m] = etat[m]
      /\ \A x \in Lus : etat'[x] = On
      /\ deployes' = deployes \cup Ouverts \cup (Lus \cap Repertoires)
      /\ arbre' = arbre
  BY ListerEtats
<1>2. Presents \subseteq Noeuds /\ deployes \subseteq Presents \cap Repertoires
  BY DEF Inductif, TypeOK
<1>3. \A x \in Lus : Sous[x] \subseteq Lus
  BY <1>1, SousTransitif
(* What leads to something that is read was open or is opened.             *)
<1>4. \A x \in Lus, p \in Noeuds : x \in Sous[p] =>
        /\ p \in deployes'
        /\ p \in Lus \/ \E d \in Ouverts : p = d \/ d \in Sous[p]
  <2> SUFFICES ASSUME NEW x \in Lus, NEW p \in Noeuds, x \in Sous[p]
               PROVE  /\ p \in deployes'
                      /\ p \in Lus \/ \E d \in Ouverts : p = d \/ d \in Sous[p]
    OBVIOUS
  <2>1. PICK d \in Ouverts : x \in Sous[d]
    BY <1>1
  <2>2. p = d \/ p \in Sous[d] \/ d \in Sous[p]
    BY <1>1, <2>1, Chaine
  <2>3. CASE p = d
    BY <1>1, <2>3
  <2>4. CASE p \in Sous[d]
    <3>1. p \in Lus /\ p \in Repertoires
      BY <1>1, <2>4, DessusRepertoire
    <3> QED BY <1>1, <3>1
  <2>5. CASE d \in Sous[p]
    <3>1. p \in Ancetres[d]
      BY <1>1, <2>5, SousDansNoeuds
    <3>2. p \in deployes
      BY <1>1, <3>1 DEF Inductif, Haut
    <3> QED BY <1>1, <2>5, <3>2
  <2> QED BY <2>2, <2>3, <2>4, <2>5
<1>5. TypeOK'
  <2>1. etat' \in [Presents' -> Etats]
    <3>1. \A m \in Presents' : etat'[m] \in Etats
      BY <1>1 DEF Inductif, TypeOK, Etats
    <3> QED BY <1>1, <3>1 DEF Lister, Presents
  <2>2. ASSUME NEW m \in Noeuds \ Racines
        PROVE  m \in Presents' => \E d \in deployes' : m \in Fils[d]
    <3>1. CASE m \in Presents
      BY <1>1, <3>1 DEF Inductif, TypeOK
    <3>2. CASE m \in Lus
      <4>1. PICK p \in Repertoires : m \in Fils[p]
        BY Parent
      <4>2. p \in Noeuds /\ m \in Sous[p]
        BY <4>1, ArbreAssumption, SousDansNoeuds
      <4> QED BY <1>4, <3>2, <4>1, <4>2
    <3> QED BY <1>1, <3>1, <3>2
  <2>3. ASSUME NEW m \in Noeuds \ Racines, NEW d \in deployes', m \in Fils[d]
        PROVE  m \in Presents'
    <3>1. d \in Noeuds
      BY <1>1, <1>2
    <3>2. m \in Sous[d]
      BY <2>3, <3>1, SousDansNoeuds
    <3>3. CASE d \in deployes
      BY <1>1, <2>3, <3>3, FilsPresents
    <3>4. CASE d \in Ouverts
      BY <1>1, <3>2, <3>4
    <3>5. CASE d \in Lus
      BY <1>1, <1>3, <3>2, <3>5
    <3> QED BY <1>1, <3>3, <3>4, <3>5
  <2>4. deployes' \subseteq Presents' \cap Repertoires
    BY <1>1, <1>2
  <2>5. Presents' \subseteq Noeuds
    BY <1>1, <1>2
  <2>6. liste' \subseteq Fichiers
    BY DEF Lister
  <2> QED BY <1>1, <2>1, <2>2, <2>3, <2>4, <2>5, <2>6 DEF Inductif, TypeOK
<1>6. Haut'
  <2>1. ASSUME NEW m \in Presents PROVE Ancetres[m] \subseteq deployes'
    BY <1>1 DEF Inductif, Haut
  <2>2. ASSUME NEW x \in Lus PROVE Ancetres[x] \subseteq deployes'
    BY <1>1, <1>4, SousDansNoeuds
  <2> QED BY <1>1, <2>1, <2>2 DEF Haut
<1>7. ToutOn'
  <2> SUFFICES ASSUME NEW x \in Presents', etat'[x] = On,
                      NEW m \in Presents' \cap Sous[x]
               PROVE  etat'[m] = On
    BY DEF ToutOn
  <2>1. CASE m \in Lus
    BY <1>1, <2>1
  <2>2. CASE m \in Presents
    <3>1. x \in Presents
      BY <1>1, <1>3, <2>2
    <3> QED BY <1>1, <2>2, <3>1 DEF Inductif, ToutOn
  <2> QED BY <1>1, <2>1, <2>2
<1>8. ToutOff'
  <2> SUFFICES ASSUME NEW x \in Presents', etat'[x] = Off,
                      NEW m \in Presents' \cap Sous[x]
               PROVE  etat'[m] = Off
    BY DEF ToutOff
  <2>1. x \in Presents /\ x \notin Lus /\ etat[x] = Off /\ x \in Noeuds
    BY <1>1, <1>2, EtatsDifferents
  <2>2. m \notin Lus
    <3> SUFFICES ASSUME m \in Lus PROVE FALSE
      OBVIOUS
    <3>1. PICK d \in Ouverts : x = d \/ d \in Sous[x]
      BY <1>4, <2>1
    <3>2. d \in Presents /\ etat[d] = On
      BY <1>1
    <3> QED BY <2>1, <3>1, <3>2, EtatsDifferents DEF Inductif, ToutOff
  <2> QED BY <1>1, <2>1, <2>2 DEF Inductif, ToutOff
<1>9. Melange'
  BY <1>1, EtatsDifferents DEF Inductif, Melange
<1> QED BY <1>5, <1>6, <1>7, <1>8, <1>9 DEF Inductif

LEMMA FermerInductif ==
    ASSUME Inductif, Fermer
    PROVE  Inductif'
<1>1. /\ Presents' = {} /\ etat' = [n \in {} |-> Off]
      /\ arbre' = Aucun /\ deployes' = {} /\ liste' = liste
  BY DEF Fermer, Presents
<1>2. TypeOK'
  BY <1>1 DEF Inductif, TypeOK
<1> QED BY <1>1, <1>2 DEF Inductif, Haut, ToutOn, ToutOff, Melange

(* A click sets a row on or off.                                           *)
LEMMA EtatVouluPur ==
    ASSUME NEW n \in Noeuds, NEW cellule \in Etats
    PROVE  EtatVoulu(n, cellule) \in {On, Off}
BY EtatsDifferents DEF EtatVoulu, Etats

LEMMA PasInductif == Inductif /\ [Next]_vars => Inductif'
<1> SUFFICES ASSUME Inductif, [Next]_vars PROVE Inductif'
  OBVIOUS
<1>1. ASSUME NEW r \in Racines, Charger(r) PROVE Inductif'
  BY <1>1, ChargerInductif
<1>2. ASSUME NEW n \in Noeuds, Deployer(n) PROVE Inductif'
  BY <1>2, DeployerInductif
<1>3. ASSUME NEW n \in Noeuds, NEW cellule \in Etats,
             Cliquer(n, EtatVoulu(n, cellule))
      PROVE  Inductif'
  BY <1>3, EtatVouluPur, CliquerInductif
<1>4. CASE Lister
  BY <1>4, ListerInductif
<1>5. CASE Fermer
  BY <1>5, FermerInductif
<1>6. CASE UNCHANGED vars
  BY <1>6 DEF vars, Inductif, TypeOK, Haut, ToutOn, ToutOff, Melange, Presents
<1> QED BY <1>1, <1>2, <1>3, <1>4, <1>5, <1>6 DEF Next

LEMMA ToujoursInductif == Spec => []Inductif
BY InitInductif, PasInductif, PTL DEF Spec

(* What is on show is what the open directories hold.                      *)
THEOREM TypesDeLArbre == Spec => []TypeOK
<1>1. Inductif => TypeOK
  BY DEF Inductif
<1> QED BY <1>1, ToujoursInductif, PTL

(* The three states tell the truth, for every tree, whatever is clicked    *)
(* and opened, in any order (CR_NoeudFS.m:92-237).                        *)
THEOREM CasesCoherentes == Spec => []Coherence
BY InductifDonneCoherence, ToujoursInductif, PTL

-----------------------------------------------------------------------------
(* The trees implement Selection.                                          *)

(* Reading the roots and the directories changes nothing.                  *)
LEMMA ChargerChoisis ==
    ASSUME Inductif, NEW r \in Racines, Charger(r)
    PROVE  Choisis' = Choisis /\ liste' = liste
<1>1. etat' = [n \in Presents \cup {r} |->
                  IF n \in Presents THEN etat[n] ELSE Off]
  BY DEF Charger
<1>2. /\ Presents' = Presents \cup {r}
      /\ \A n \in Presents : etat'[n] = etat[n]
      /\ r \notin Presents => etat'[r] = Off
  BY <1>1 DEF Presents
<1>3. Choisis' = Choisis
  BY <1>2, EtatsDifferents DEF Choisis
<1> QED BY <1>3 DEF Charger

LEMMA DeployerChoisis ==
    ASSUME Inductif, NEW n \in Noeuds, Deployer(n)
    PROVE  Choisis' = Choisis /\ liste' = liste
<1>1. /\ n \in Presents
      /\ Presents' = Presents \cup Fils[n]
      /\ \A m \in Presents : etat'[m] = etat[m]
      /\ \A c \in Fils[n] : /\ c \in Sous[n]
                            /\ etat'[c] = etat[n]
      /\ liste' = liste
  BY DeployerEtats
<1>2. \A c \in Fils[n] : Branche(c) \subseteq Branche(n)
  BY <1>1, BrancheBase DEF Branche
<1>3. Choisis' = Choisis
  BY <1>1, <1>2 DEF Choisis
<1> QED BY <1>1, <1>3

(* A file below p and not below n is below a row that was read and that a  *)
(* click on n leaves alone.                                                *)
LEMMA AutreVoie ==
    ASSUME Inductif, NEW n \in Presents, NEW p \in Ancetres[n],
           NEW f \in Fichiers, f \in Branche(p), f \notin Branche(n)
    PROVE  \E c \in Autres(p, n) : f \in Branche(c)
<1>1. n \in Noeuds
  BY DEF Inductif, TypeOK
<1>2. p \in Noeuds /\ n \in Sous[p]
  BY <1>1, SousDansNoeuds
<1>3. f \in Sous[p]
  BY <1>2, DessusRepertoire DEF Branche, Fichiers
<1>4. PICK q \in Ancetres[n] : \E c \in Fils[q] :
             /\ c \in Sous[p] /\ f \in Branche(c)
             /\ c \notin Branche(n) \cup Ancetres[n]
  BY <1>1, <1>3, Fourche
<1>5. PICK c \in Fils[q] : /\ c \in Sous[p] /\ f \in Branche(c)
                           /\ c \notin Branche(n) \cup Ancetres[n]
  BY <1>4
<1>6. q \in deployes
  BY <1>4 DEF Inductif, Haut
<1>7. c \in Presents
  BY <1>5, <1>6, FilsPresents
<1> QED BY <1>5, <1>7 DEF Autres

LEMMA CliquerChoisis ==
    ASSUME Inductif, NEW n \in Noeuds, NEW e \in {On, Off}, Cliquer(n, e)
    PROVE  /\ e = On => Choisis' = Choisis \cup Lot(n)
           /\ e = Off => Choisis' = Choisis \ Lot(n)
           /\ liste' = liste
<1>1. /\ Presents' = Presents /\ n \in Presents
      /\ \A m \in Presents \cap Branche(n) : etat'[m] = e
      /\ \A m \in Presents \cap Ancetres[n] :
           /\ m \notin Branche(n)
           /\ etat'[m] = EtatPere(m, n, e)
      /\ \A m \in Presents \ (Branche(n) \cup Ancetres[n]) :
           etat'[m] = etat[m]
  BY CliquerEtats
<1>2. Presents \subseteq Noeuds /\ n \in Branche(n)
  BY DEF Inductif, TypeOK, Branche
<1>3. \A p \in Ancetres[n] : p \in Noeuds /\ n \in Sous[p]
  BY SousDansNoeuds
<1>4. \A p \in Ancetres[n] : \A c \in Autres(p, n) :
        c \in Presents /\ c \in Sous[p] /\ etat'[c] = etat[c]
  BY <1>1 DEF Autres
<1>5. ASSUME e = On PROVE Choisis' = Choisis \cup Lot(n)
  <2>1. ASSUME NEW f \in Choisis PROVE f \in Choisis'
    <3>1. PICK y \in Presents : f \in Branche(y) /\ etat[y] = On
      BY DEF Choisis
    <3>2. etat'[y] = On
      <4>1. CASE y \in Ancetres[n]
        <5>1. \A c \in Autres(y, n) : etat[c] = On
          BY <1>4, <3>1, <4>1 DEF Inductif, ToutOn
        <5> QED BY <1>1, <1>2, <1>5, <4>1, <5>1, PereOn
      <4> QED BY <1>1, <1>5, <3>1, <4>1
    <3>3. f \in Fichiers
      BY DEF Choisis
    <3> QED BY <1>1, <3>1, <3>2, <3>3 DEF Choisis
  <2>2. Lot(n) \subseteq Choisis'
    BY <1>1, <1>2, <1>5 DEF Choisis, Lot
  <2>3. ASSUME NEW f \in Choisis', f \notin Branche(n) PROVE f \in Choisis
    <3>1. f \in Fichiers
      BY DEF Choisis
    <3>2. PICK y \in Presents : f \in Branche(y) /\ etat'[y] = On
      BY <1>1 DEF Choisis
    <3>3. y \notin Branche(n)
      BY <1>1, <2>3, <3>2, BrancheBase
    <3>4. CASE y \in Ancetres[n]
      <4>1. \A c \in Autres(y, n) : etat[c] = On
        BY <1>1, <1>2, <1>5, <3>2, <3>4, PereOn
      <4>2. PICK c \in Autres(y, n) : f \in Branche(c)
        BY <1>1, <2>3, <3>1, <3>2, <3>4, AutreVoie
      <4> QED BY <1>4, <3>1, <3>4, <4>1, <4>2 DEF Choisis
    <3>5. CASE y \notin Ancetres[n]
      BY <1>1, <3>1, <3>2, <3>3, <3>5 DEF Choisis
    <3> QED BY <3>4, <3>5
  <2>4. \A f \in Choisis' : f \in Branche(n) => f \in Lot(n)
    BY DEF Choisis, Lot
  <2> QED BY <2>1, <2>2, <2>3, <2>4
<1>6. ASSUME e = Off PROVE Choisis' = Choisis \ Lot(n)
  <2>1. ASSUME NEW f \in Choisis, f \notin Lot(n) PROVE f \in Choisis'
    <3>1. PICK y \in Presents : f \in Branche(y) /\ etat[y] = On
      BY DEF Choisis
    <3>2. f \in Fichiers /\ f \notin Branche(n)
      BY <2>1 DEF Choisis, Lot
    <3>3. y \notin Branche(n)
      BY <1>2, <3>1, <3>2, BrancheBase
    <3>4. CASE y \in Ancetres[n]
      <4>1. PICK c \in Autres(y, n) : f \in Branche(c)
        BY <1>1, <3>1, <3>2, <3>4, AutreVoie
      <4>2. c \in Presents /\ etat'[c] = On
        BY <1>4, <3>1, <3>4, <4>1 DEF Inductif, ToutOn
      <4> QED BY <1>1, <3>2, <4>1, <4>2 DEF Choisis
    <3>5. CASE y \notin Ancetres[n]
      BY <1>1, <3>1, <3>2, <3>3, <3>5 DEF Choisis
    <3> QED BY <3>4, <3>5
  <2>2. ASSUME NEW f \in Choisis' PROVE f \in Choisis /\ f \notin Lot(n)
    <3>1. f \in Fichiers
      BY DEF Choisis
    <3>2. PICK y \in Presents : f \in Branche(y) /\ etat'[y] = On
      BY <1>1 DEF Choisis
    <3>3. y \notin Branche(n)
      BY <1>1, <1>6, <3>2, EtatsDifferents
    <3>4. y \notin Ancetres[n]
      BY <1>1, <1>2, <1>6, <3>2, PereOff, EtatsDifferents
    <3>5. f \notin Branche(n)
      BY <1>2, <3>2, <3>3, <3>4, HorsChemin DEF Branche
    <3> QED BY <1>1, <3>1, <3>2, <3>3, <3>4, <3>5 DEF Choisis, Lot
  <2> QED BY <2>1, <2>2
<1> QED BY <1>5, <1>6 DEF Cliquer

LEMMA ListerChoisis ==
    ASSUME Inductif, Lister
    PROVE  Choisis' = Choisis /\ liste' = Choisis
<1>1. /\ \A d \in Ouverts : /\ d \in Presents /\ d \in Noeuds
                            /\ etat[d] = On
      /\ \A x \in Lus : /\ x \notin Presents /\ x \in Noeuds
                        /\ \E d \in Ouverts : x \in Sous[d]
      /\ \A d \in Ouverts : Sous[d] \subseteq Lus
      /\ Presents' = Presents \cup Lus
      /\ \A m \in Presents : etat'[m] = etat[m]
  BY ListerEtats
<1>2. Presents \subseteq Noeuds /\ deployes \subseteq Presents
  BY DEF Inductif, TypeOK
<1>3. \A x \in Lus : \E d \in Ouverts : Branche(x) \subseteq Branche(d)
  BY <1>1, BrancheBase DEF Branche
<1>4. Choisis' = Choisis
  <2>1. Choisis \subseteq Choisis'
    BY <1>1 DEF Choisis
  <2>2. ASSUME NEW f \in Choisis' PROVE f \in Choisis
    <3>1. PICK y \in Presents' : f \in Branche(y) /\ etat'[y] = On
      BY DEF Choisis
    <3>2. \E d \in Presents : f \in Branche(d) /\ etat[d] = On
      BY <1>1, <1>3, <3>1
    <3> QED BY <3>2 DEF Choisis
  <2> QED BY <2>1, <2>2
(* What is on is gone through.                                             *)
<1>5. \A x \in Presents : etat[x] = On => x \in Parcourus
  <2> SUFFICES ASSUME NEW x \in Presents, etat[x] = On,
                      NEW p \in {x} \cup Ancetres[x]
               PROVE  etat[p] # Off
    BY DEF Parcourus
  <2>1. CASE p = x
    BY <2>1, EtatsDifferents
  <2>2. CASE p \in Ancetres[x]
    <3>1. p \in Presents /\ x \in Sous[p]
      BY <1>2, <2>2, SousDansNoeuds DEF Inductif, Haut
    <3> QED BY <3>1, EtatsDifferents DEF Inductif, ToutOff
  <2> QED BY <2>1, <2>2
<1>6. liste' = (Lus \cap Fichiers)
                  \cup {f \in Parcourus \cap Fichiers : etat[f] = On}
  BY DEF Lister
<1>7. ASSUME NEW f \in liste' PROVE f \in Choisis
  <2>1. CASE f \in Lus \cap Fichiers
    <3>1. PICK d \in Ouverts : f \in Sous[d]
      BY <1>1, <2>1
    <3> QED BY <1>1, <2>1, <3>1 DEF Choisis, Branche
  <2>2. CASE f \in Parcourus \cap Fichiers /\ etat[f] = On
    BY <2>2 DEF Choisis, Branche, Parcourus
  <2> QED BY <1>6, <1>7, <2>1, <2>2
<1>8. ASSUME NEW f \in Choisis PROVE f \in liste'
  <2>1. f \in Fichiers
    BY DEF Choisis
  <2>2. PICK y \in Presents : f \in Branche(y) /\ etat[y] = On
    BY DEF Choisis
  <2>3. \A m \in Presents \cap Branche(y) : etat[m] = On
    BY <2>2 DEF Branche, Inductif, ToutOn
  <2>4. CASE f \in Presents
    BY <1>5, <1>6, <2>1, <2>2, <2>3, <2>4
  <2>5. CASE f \notin Presents
    <3>1. f \in Sous[y]
      BY <2>2, <2>5 DEF Branche
    <3>2. PICK d \in (Presents \cap Branche(y)) \ deployes : f \in Sous[d]
      BY <2>5, <3>1, PlusBas
    <3>3. d \in Parcourus /\ d \in Noeuds
      BY <1>2, <1>5, <2>3, <3>2
    <3>4. d \in Ouverts
      BY <3>2, <3>3, DessusRepertoire DEF Ouverts
    <3> QED BY <1>1, <1>6, <2>1, <3>2, <3>4
  <2> QED BY <2>4, <2>5
<1> QED BY <1>4, <1>7, <1>8

LEMMA InitAbstraite == Init => Abstraite!Init
<1> SUFFICES ASSUME Init PROVE Abstraite!Init
  OBVIOUS
<1>1. Presents = {} /\ liste = {}
  BY DEF Init, Presents
<1>2. Choisis = {}
  BY <1>1 DEF Choisis
<1> QED BY <1>1, <1>2 DEF Abstraite!Init

LEMMA PasAbstrait == Inductif /\ [Next]_vars => [Abstraite!Next]_(Abstraite!vars)
<1> SUFFICES ASSUME Inductif, [Next]_vars
             PROVE  [Abstraite!Next]_(Abstraite!vars)
  OBVIOUS
<1>1. ASSUME NEW r \in Racines, Charger(r) PROVE UNCHANGED Abstraite!vars
  BY <1>1, ChargerChoisis DEF Abstraite!vars
<1>2. ASSUME NEW n \in Noeuds, Deployer(n) PROVE UNCHANGED Abstraite!vars
  BY <1>2, DeployerChoisis DEF Abstraite!vars
<1>3. ASSUME NEW n \in Noeuds, NEW cellule \in Etats,
             Cliquer(n, EtatVoulu(n, cellule))
      PROVE  Abstraite!Next
  <2> DEFINE e == EtatVoulu(n, cellule)
  <2>1. e \in {On, Off}
    BY EtatVouluPur
  <2> HIDE DEF e
  <2>2. /\ e = On => Choisis' = Choisis \cup Lot(n)
        /\ e = Off => Choisis' = Choisis \ Lot(n)
        /\ liste' = liste
    BY <1>3, <2>1, CliquerChoisis DEF e
  <2> QED BY <2>1, <2>2 DEF Abstraite!Next, Abstraite!Choisir, Abstraite!Retirer
<1>4. CASE Lister
  BY <1>4, ListerChoisis DEF Abstraite!Next, Abstraite!Demander
<1>5. CASE Fermer
  <2>1. Presents' = {} /\ liste' = liste
    BY <1>5 DEF Fermer, Presents
  <2>2. Choisis' = {}
    BY <2>1 DEF Choisis
  <2> QED BY <2>1, <2>2 DEF Abstraite!Next, Abstraite!Fermer
<1>6. CASE UNCHANGED vars
  BY <1>6 DEF vars, Abstraite!vars, Choisis, Presents
<1> QED BY <1>1, <1>2, <1>3, <1>4, <1>5, <1>6 DEF Next

(* For every tree: reading late changes nothing, a click changes the files *)
(* below its row and no other, and what is restored is what was chosen     *)
(* (CI_Restauration.m:497-549).                                            *)
THEOREM SelectionImplementee == Spec => RaffineSelection
<1>1. Init => Abstraite!Init
  BY InitAbstraite
<1>2. Inductif /\ [Next]_vars => [Abstraite!Next]_(Abstraite!vars)
  BY PasAbstrait
<1>3. Spec => Abstraite!Spec
  BY <1>1, <1>2, ToujoursInductif, PTL DEF Spec, Abstraite!Spec
<1> QED BY <1>3 DEF RaffineSelection
=============================================================================
