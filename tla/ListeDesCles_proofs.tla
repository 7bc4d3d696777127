-------------------------- MODULE ListeDesCles_proofs --------------------------
(***************************************************************************)
(* The base of the keys and the window over it, for every set of keys,     *)
(* every sort and any number of mounts and clicks.                         *)
(***************************************************************************)
EXTENDS ListeDesCles, FiniteSetTheorems, TLAPS

(* A sequence without repetition is not longer than there are keys.        *)
LEMMA ListeCourte ==
    ASSUME NEW n \in Nat, NEW l \in [1 .. n -> Cles],
           \A i, j \in 1 .. n : l[i] = l[j] => i = j
    PROVE  l \in Listes /\ Len(l) = n
<1>1. l \in Injection(1 .. n, Cles)
  BY DEF Injection, IsInjective
<1>2. Cardinality(1 .. n) <= Cardinality(Cles)
  BY <1>1, FS_Injection, ListeAssumption
<1>3. Cardinality(1 .. n) = n
  BY FS_Interval
<1>4. Cardinality(Cles) \in Nat
  BY FS_CardinalityType, ListeAssumption
<1>5. n \in 0 .. Cardinality(Cles)
  BY <1>2, <1>3, <1>4
<1>6. QED
  BY <1>5 DEF Listes

(* What a list is.                                                         *)
LEMMA ListeType ==
    ASSUME NEW l \in Listes
    PROVE  /\ l \in Seq(Cles)
           /\ Len(l) \in Nat
           /\ DOMAIN l = 1 .. Len(l)
           /\ l \in [1 .. Len(l) -> Cles]
           /\ \A i, j \in 1 .. Len(l) : l[i] = l[j] => i = j
           /\ Contenu(l) \subseteq Cles
  BY DEF Listes, Contenu

LEMMA PositionBonne ==
    ASSUME NEW l \in Listes, NEW cle \in Contenu(l)
    PROVE  PositionDe(l, cle) \in DOMAIN l /\ l[PositionDe(l, cle)] = cle
  BY DEF PositionDe, Contenu

(* Removing a position removes its key and no other.                       *)
LEMMA SansPositionBonne ==
    ASSUME NEW l \in Listes, NEW p \in DOMAIN l
    PROVE  /\ SansPosition(l, p) \in Listes
           /\ Len(SansPosition(l, p)) = Len(l) - 1
           /\ Contenu(SansPosition(l, p)) = Contenu(l) \ {l[p]}
<1> DEFINE n == Len(l) - 1
           s == SansPosition(l, p)
<1>1. n \in Nat /\ p \in 1 .. Len(l)
  BY ListeType
<1>2. s \in [1 .. n -> Cles]
  BY <1>1, ListeType DEF SansPosition
<1>3. \A i, j \in 1 .. n : s[i] = s[j] => i = j
  BY <1>1, ListeType DEF SansPosition
<1>4. s \in Listes /\ Len(s) = n
  BY <1>1, <1>2, <1>3, ListeCourte
<1>5. Contenu(s) \subseteq Contenu(l) \ {l[p]}
  BY <1>1, ListeType DEF SansPosition, Contenu
<1>6. ASSUME NEW i \in 1 .. Len(l), l[i] # l[p]
      PROVE  l[i] \in Contenu(s)
  <2>1. CASE i < p
    BY <2>1, <1>1, ListeType DEF SansPosition, Contenu
  <2>2. CASE i > p
    <3>1. i - 1 \in 1 .. n /\ s[i - 1] = l[i]
      BY <2>2, <1>1, ListeType DEF SansPosition
    <3>2. DOMAIN s = 1 .. n
      BY <1>2
    <3> HIDE DEF s
    <3>3. QED
      BY <3>1, <3>2 DEF Contenu
  <2>3. QED
    BY <1>6, <2>1, <2>2, <1>1
<1>7. Contenu(l) \ {l[p]} \subseteq Contenu(s)
  BY <1>6, ListeType DEF Contenu
<1>8. QED
  BY <1>4, <1>5, <1>7

(* A new key goes in front.                                                *)
LEMMA EnTeteBonne ==
    ASSUME NEW l \in Listes, NEW cle \in Cles \ Contenu(l)
    PROVE  /\ <<cle>> \o l \in Listes
           /\ Len(<<cle>> \o l) = Len(l) + 1
           /\ Contenu(<<cle>> \o l) = {cle} \cup Contenu(l)
<1> DEFINE n == Len(l) + 1
           s == <<cle>> \o l
<1>0. Len(l) \in Nat /\ l \in Seq(Cles)
  BY ListeType
<1>1. /\ s \in Seq(Cles) /\ Len(s) = n
      /\ s[1] = cle
      /\ \A i \in 1 .. Len(l) : s[i + 1] = l[i]
  BY <1>0
<1> HIDE DEF s
<1>2. n \in Nat /\ s \in [1 .. n -> Cles]
  BY <1>0, <1>1
<1>3. \A i \in 1 .. Len(l) : s[i + 1] = l[i] /\ i + 1 \in 1 .. n
  BY <1>0, <1>1
<1>4. \A i \in 1 .. Len(l) : l[i] # cle
  BY ListeType DEF Contenu
<1>5. ASSUME NEW i \in 1 .. n, NEW j \in 1 .. n, s[i] = s[j]
      PROVE  i = j
  <2>1. \A k \in 1 .. n : k = 1 \/ (k - 1 \in 1 .. Len(l) /\ s[k] = l[k - 1])
    <3>1. ASSUME NEW k \in 1 .. n, k # 1
          PROVE  k - 1 \in 1 .. Len(l) /\ s[k] = l[k - 1]
      <4>1. k - 1 \in 1 .. Len(l) /\ (k - 1) + 1 = k
        BY <1>0, <3>1
      <4>2. s[(k - 1) + 1] = l[k - 1]
        BY <4>1, <1>1
      <4>3. QED
        BY <4>1, <4>2
    <3>2. QED
      BY <3>1
  <2>2. CASE i = 1 \/ j = 1
    BY <2>1, <2>2, <1>1, <1>4, <1>5
  <2>3. CASE i # 1 /\ j # 1
    <3>1. l[i - 1] = l[j - 1] /\ i - 1 \in 1 .. Len(l) /\ j - 1 \in 1 .. Len(l)
      BY <2>1, <2>3, <1>5
    <3>2. i - 1 = j - 1
      BY <3>1, ListeType
    <3>3. QED
      BY <3>2, <1>0
  <2>4. QED
    BY <2>2, <2>3
<1>6. s \in Listes
  BY <1>2, <1>5, ListeCourte
<1>7. Contenu(s) \subseteq {cle} \cup Contenu(l)
  <2>1. ASSUME NEW i \in 1 .. n
        PROVE  s[i] \in {cle} \cup Contenu(l)
    <3>1. CASE i = 1
      BY <3>1, <1>1
    <3>2. CASE i # 1
      <4>1. i - 1 \in 1 .. Len(l) /\ (i - 1) + 1 = i
        BY <1>0, <3>2
      <4>2. s[(i - 1) + 1] = l[i - 1]
        BY <4>1, <1>1
      <4>3. l[i - 1] \in Contenu(l)
        BY <4>1, ListeType DEF Contenu
      <4>4. QED
        BY <4>1, <4>2, <4>3
    <3>3. QED
      BY <3>1, <3>2
  <2>2. QED
    BY <2>1, <1>2 DEF Contenu
<1>8. {cle} \cup Contenu(l) \subseteq Contenu(s)
  <2>1. cle \in Contenu(s)
    BY <1>1, <1>2, ListeType DEF Contenu
  <2>2. ASSUME NEW i \in 1 .. Len(l)
        PROVE  l[i] \in Contenu(s)
    BY <1>2, <1>3 DEF Contenu
  <2>3. QED
    BY <2>1, <2>2, ListeType DEF Contenu
<1>9. QED
  BY <1>1, <1>6, <1>7, <1>8 DEF s

LEMMA VueBonne ==
    ASSUME NEW l \in Listes, NEW d \in Tris \cup {SansTri}
    PROVE  /\ Vue(l, d) \in Listes
           /\ Contenu(Vue(l, d)) = Contenu(l)
           /\ Len(Vue(l, d)) = Len(l)
  BY ListeAssumption DEF Vue
-----------------------------------------------------------------------------
(* The base is coherent, and has the types it should.                      *)
IBase ==
    /\ liste \in Listes
    /\ triee \in Listes
    /\ descripteurs \in Tris \cup {SansTri}
    /\ descripteurs = SansTri => triee = liste
    /\ BaseCoherente

(* Any change through Changer leaves it so.                                *)
LEMMA ChangerCoherent ==
    ASSUME NEW l \in Listes, descripteurs \in Tris \cup {SansTri}, Changer(l)
    PROVE  /\ IBase'
           /\ Len(triee') = Len(l)
           /\ Contenu(liste') = Contenu(l)
           /\ DOMAIN index' = Contenu(l)
<1>1. /\ triee' \in Listes
      /\ Contenu(triee') = Contenu(l)
      /\ Len(triee') = Len(l)
  BY VueBonne DEF Changer
<1>2. /\ liste' = l
      /\ descripteurs' = descripteurs
      /\ descripteurs' = SansTri => triee' = liste'
  BY DEF Changer, Vue
<1>3. /\ DOMAIN index' = Contenu(l)
      /\ \A cle \in Contenu(l) :
           index'[cle] \in DOMAIN l /\ l[index'[cle]] = cle
  BY PositionBonne DEF Changer, IndexDe
<1>4. \A i, j \in DOMAIN l : l[i] = l[j] => i = j
  BY ListeType
<1>5. QED
  BY <1>1, <1>2, <1>3, <1>4 DEF IBase, BaseCoherente

(* Adding a key keeps the others, and the list does not get shorter.       *)
LEMMA AjouterCoherent ==
    ASSUME NEW cle \in Cles, IBase, Ajouter(cle)
    PROVE  /\ IBase'
           /\ Len(triee') \in Nat /\ Len(triee) \in Nat
           /\ Len(triee') >= Len(triee)
           /\ DOMAIN index' = DOMAIN index \cup {cle}
<1> DEFINE reste == IF Connue(cle) THEN SansPosition(liste, index[cle])
                    ELSE liste
<1>1. /\ reste \in Listes
      /\ Contenu(reste) = Contenu(liste) \ {cle}
      /\ Len(reste) \in Nat
      /\ Len(reste) >= Len(liste) - 1
  <2>1. CASE Connue(cle)
    <3>1. index[cle] \in DOMAIN liste /\ liste[index[cle]] = cle
      BY <2>1 DEF IBase, BaseCoherente, Connue
    <3>2. QED
      BY <2>1, <3>1, SansPositionBonne, ListeType DEF IBase
  <2>2. CASE ~Connue(cle)
    BY <2>2, ListeType DEF IBase, BaseCoherente, Connue
  <2>3. QED
    BY <2>1, <2>2
<1> HIDE DEF reste
<1>2. /\ <<cle>> \o reste \in Listes
      /\ Len(<<cle>> \o reste) = Len(reste) + 1
      /\ Contenu(<<cle>> \o reste) = Contenu(liste) \cup {cle}
  BY <1>1, EnTeteBonne
<1>3. Changer(<<cle>> \o reste)
  BY DEF Ajouter, reste
<1>4. /\ IBase'
      /\ Len(triee') = Len(reste) + 1
      /\ DOMAIN index' = Contenu(liste) \cup {cle}
  BY <1>2, <1>3, ChangerCoherent DEF IBase
<1>5. Len(triee) = Len(liste) /\ Len(liste) \in Nat /\ DOMAIN index = Contenu(liste)
  BY ListeType DEF IBase, BaseCoherente
<1>6. QED
  BY <1>1, <1>4, <1>5

LEMMA LigneBonne ==
    ASSUME IBase, NEW ligne \in DOMAIN triee
    PROVE  /\ triee[ligne] \in Contenu(liste)
           /\ PositionDeLigne(ligne) \in DOMAIN liste
           /\ liste[PositionDeLigne(ligne)] = triee[ligne]
<1>1. triee[ligne] \in Contenu(liste)
  BY DEF IBase, BaseCoherente, Contenu
<1>2. QED
  BY <1>1, PositionBonne DEF IBase, PositionDeLigne

(* Removing the key of a row removes it and no other.                      *)
LEMMA SupprimerCoherent ==
    ASSUME IBase, NEW ligne \in DOMAIN triee,
           SupprimerCleParPosition(PositionDeLigne(ligne))
    PROVE  IBase' /\ DOMAIN index' = DOMAIN index \ {triee[ligne]}
<1> DEFINE p == PositionDeLigne(ligne)
           s == SansPosition(liste, p)
<1>1. p \in DOMAIN liste /\ liste[p] = triee[ligne]
  BY LigneBonne
<1>2. s \in Listes /\ Contenu(s) = Contenu(liste) \ {triee[ligne]}
  BY <1>1, SansPositionBonne DEF IBase
<1>3. Changer(s)
  BY DEF SupprimerCleParPosition
<1> HIDE DEF s
<1>4. QED
  BY <1>2, <1>3, ChangerCoherent DEF IBase, BaseCoherente
-----------------------------------------------------------------------------
(* The inductive invariant. While a dialog is open the row of the click is *)
(* a row, and as long as no key was added it shows the key of the click.   *)
(* What the dispatcher is about to inscribe is in the base, if no deletion *)
(* came between.                                                           *)
ITypes ==
    /\ montees \in SUBSET Cles
    /\ disp \in [pc : {"repos", "ajouter", "configurer", "charger", "inscrire"},
                 cle : ClesOuAucune]
    /\ disp.pc # "repos" => disp.cle \in Cles
    /\ fenetre \in [pc : {"fermee", "dialogue", "moniteur"},
                    bouton : {"aucun", "supprimer", "aLaDate"},
                    ligne : Nat, position : Nat, choisie : ClesOuAucune]
    /\ fait \in [bouton : {"aucun", "supprimer", "aLaDate", "maintenant"},
                 choisie : ClesOuAucune, moteur : ClesOuAucune,
                 base : ClesOuAucune]
    /\ ajout \in BOOLEAN /\ croise \in BOOLEAN
    /\ nbMontages \in Nat /\ nbBoutons \in Nat

ILigne ==
    fenetre.pc # "fermee" =>
        /\ fenetre.ligne \in DOMAIN triee
        /\ ~ajout =>
             /\ triee[fenetre.ligne] = fenetre.choisie
             /\ fenetre.bouton = "aLaDate" =>
                  liste[fenetre.position] = fenetre.choisie

IMoniteur ==
    /\ fenetre.pc # "fermee" => fenetre.bouton # "aucun"
    /\ fenetre.pc = "moniteur" =>
        /\ fait.bouton = "supprimer"
        /\ fait.choisie = fenetre.choisie
        /\ ~ajout => triee[fenetre.ligne] \notin montees

IDisp ==
    disp.pc \in {"charger", "configurer", "inscrire"} /\ ~croise => Connue(disp.cle)

IInv ==
    /\ IBase
    /\ ITypes
    /\ ILigne
    /\ IMoniteur
    /\ IDisp
    /\ ActionSurCleChoisie
    /\ MonteeConnue

LEMMA InitIInv == Init => IInv
<1> SUFFICES ASSUME Init
             PROVE  IInv
  OBVIOUS
<1>1. IBase
  BY PositionBonne, ListeType DEF Init, IBase, BaseCoherente, IndexDe
<1>2. ITypes /\ ILigne /\ IMoniteur /\ IDisp /\ ActionSurCleChoisie /\ MonteeConnue
  BY ListeAssumption DEF Init, ITypes, ILigne, IMoniteur, IDisp,
     ActionSurCleChoisie, MonteeConnue, Repos, Fermee, Rien, ClesOuAucune
<1>3. QED
  BY <1>1, <1>2 DEF IInv

(* A step that leaves the base alone leaves its part of the invariant.     *)
LEMMA BaseInchangee ==
    ASSUME IBase, UNCHANGED base
    PROVE  IBase'
  BY DEF IBase, BaseCoherente, base

LEMMA DispatcheurIInv ==
    ASSUME IInv, Dispatcheur
    PROVE  IInv'
<1>1. ASSUME NEW cle \in Cles, DispChercher(cle)
      PROVE  IInv'
  <2>1. UNCHANGED base /\ UNCHANGED <<montees, fenetre, fait, ajout, croise>>
    BY <1>1 DEF DispChercher
  <2>2. IBase'
    BY <2>1, BaseInchangee DEF IInv
  <2>3. ITypes' /\ IDisp'
    BY <1>1, <2>1 DEF DispChercher, IInv, ITypes, IDisp, Connue, base, ClesOuAucune
  <2>4. ILigne' /\ IMoniteur' /\ ActionSurCleChoisie' /\ MonteeConnue'
    BY <2>1 DEF IInv, ILigne, IMoniteur, ActionSurCleChoisie, MonteeConnue,
       Connue, base
  <2>5. QED
    BY <2>2, <2>3, <2>4 DEF IInv
<1>2. ASSUME NEW cle \in Cles, Demonter(cle)
      PROVE  IInv'
  <2>1. UNCHANGED base /\ UNCHANGED <<disp, fenetre, fait, ajout, croise, bornes>>
    BY <1>2 DEF Demonter
  <2>2. IBase'
    BY <2>1, BaseInchangee DEF IInv
  <2>3. ITypes' /\ IDisp'
    BY <1>2, <2>1 DEF Demonter, IInv, ITypes, IDisp, Connue, base, bornes
  <2>4. ILigne' /\ IMoniteur' /\ ActionSurCleChoisie' /\ MonteeConnue'
    BY <1>2, <2>1 DEF Demonter, IInv, ILigne, IMoniteur, ActionSurCleChoisie,
       MonteeConnue, Connue, base
  <2>5. QED
    BY <2>2, <2>3, <2>4 DEF IInv
<1>3. ASSUME DispRenoncer
      PROVE  IInv'
  <2>1. /\ UNCHANGED base
        /\ UNCHANGED <<montees, fenetre, fait, ajout, croise, bornes>>
        /\ disp' = Repos
    BY <1>3 DEF DispRenoncer
  <2>2. IBase'
    BY <2>1, BaseInchangee DEF IInv
  <2>3. ITypes' /\ IDisp'
    BY <2>1 DEF IInv, ITypes, IDisp, Repos, ClesOuAucune, bornes
  <2>4. ILigne' /\ IMoniteur' /\ ActionSurCleChoisie' /\ MonteeConnue'
    BY <2>1 DEF IInv, ILigne, IMoniteur, ActionSurCleChoisie, MonteeConnue,
       Connue, base
  <2>5. QED
    BY <2>2, <2>3, <2>4 DEF IInv
<1>4. ASSUME DispAjouter
      PROVE  IInv'
  <2>1. /\ disp.cle \in Cles
        /\ Ajouter(disp.cle)
        /\ disp' = [disp EXCEPT !.pc = "configurer"]
        /\ ajout' = TRUE
        /\ UNCHANGED <<montees, fenetre, fait, croise, bornes>>
    BY <1>4 DEF DispAjouter, IInv, ITypes
  <2>2. /\ IBase'
        /\ Len(triee') \in Nat /\ Len(triee) \in Nat
        /\ Len(triee') >= Len(triee)
        /\ DOMAIN index' = DOMAIN index \cup {disp.cle}
    BY <2>1, AjouterCoherent DEF IInv
  <2>3. ITypes'
    BY <2>1 DEF IInv, ITypes, bornes
  <2>4. IDisp' /\ MonteeConnue'
    BY <2>1, <2>2 DEF IInv, ITypes, IDisp, MonteeConnue, Connue
  <2>5. ILigne'
    <3>1. DOMAIN triee = 1 .. Len(triee) /\ DOMAIN triee' = 1 .. Len(triee')
      BY <2>2, ListeType DEF IInv, IBase
    <3>2. QED
      BY <2>1, <2>2, <3>1 DEF IInv, ILigne
  <2>6. IMoniteur' /\ ActionSurCleChoisie'
    BY <2>1 DEF IInv, IMoniteur, ActionSurCleChoisie
  <2>7. QED
    BY <2>2, <2>3, <2>4, <2>5, <2>6 DEF IInv
<1>5. ASSUME DispCharger
      PROVE  IInv'
  <2>1. /\ UNCHANGED base
        /\ UNCHANGED <<montees, fenetre, fait, ajout, croise, bornes>>
        /\ disp.pc = "charger"
        /\ disp' = [disp EXCEPT !.pc = "inscrire"]
    BY <1>5 DEF DispCharger
  <2>2. IBase'
    BY <2>1, BaseInchangee DEF IInv
  <2>3. ITypes' /\ IDisp'
    BY <2>1 DEF IInv, ITypes, IDisp, Connue, base, bornes
  <2>4. ILigne' /\ IMoniteur' /\ ActionSurCleChoisie' /\ MonteeConnue'
    BY <2>1 DEF IInv, ILigne, IMoniteur, ActionSurCleChoisie, MonteeConnue,
       Connue, base
  <2>5. QED
    BY <2>2, <2>3, <2>4 DEF IInv
<1>6. ASSUME DispInscrire
      PROVE  IInv'
  <2>1. /\ UNCHANGED base
        /\ UNCHANGED <<fenetre, fait, ajout, croise, bornes>>
        /\ disp.pc = "inscrire"
        /\ fenetre.pc # "moniteur"
        /\ montees' = montees \cup {disp.cle}
        /\ disp' = Repos
    BY <1>6 DEF DispInscrire
  <2>2. IBase'
    BY <2>1, BaseInchangee DEF IInv
  <2>3. ITypes' /\ IDisp'
    BY <2>1 DEF IInv, ITypes, IDisp, Repos, ClesOuAucune, bornes
  <2>4. ILigne' /\ IMoniteur' /\ ActionSurCleChoisie'
    BY <2>1 DEF IInv, ILigne, IMoniteur, ActionSurCleChoisie, base
  <2>5. MonteeConnue'
    BY <2>1 DEF IInv, MonteeConnue, IDisp, Connue, base
  <2>6. QED
    BY <2>2, <2>3, <2>4, <2>5 DEF IInv
<1>7. ASSUME DispConfigurer
      PROVE  IInv'
  <2>1. /\ UNCHANGED base
        /\ UNCHANGED <<montees, fenetre, fait, ajout, croise, bornes>>
        /\ disp.pc = "configurer"
        /\ disp' = [disp EXCEPT !.pc = "inscrire"]
    BY <1>7 DEF DispConfigurer
  <2>2. IBase'
    BY <2>1, BaseInchangee DEF IInv
  <2>3. ITypes' /\ IDisp'
    BY <2>1 DEF IInv, ITypes, IDisp, Connue, base, bornes
  <2>4. ILigne' /\ IMoniteur' /\ ActionSurCleChoisie' /\ MonteeConnue'
    BY <2>1 DEF IInv, ILigne, IMoniteur, ActionSurCleChoisie, MonteeConnue,
       Connue, base
  <2>5. QED
    BY <2>2, <2>3, <2>4 DEF IInv
<1>8. ASSUME DispSansDefaut
      PROVE  IInv'
  <2>1. /\ UNCHANGED base
        /\ UNCHANGED <<montees, fenetre, fait, ajout, croise, bornes>>
        /\ disp' = Repos
    BY <1>8 DEF DispSansDefaut
  <2>2. IBase'
    BY <2>1, BaseInchangee DEF IInv
  <2>3. ITypes' /\ IDisp'
    BY <2>1 DEF IInv, ITypes, IDisp, Repos, ClesOuAucune, bornes
  <2>4. ILigne' /\ IMoniteur' /\ ActionSurCleChoisie' /\ MonteeConnue'
    BY <2>1 DEF IInv, ILigne, IMoniteur, ActionSurCleChoisie, MonteeConnue,
       Connue, base
  <2>5. QED
    BY <2>2, <2>3, <2>4 DEF IInv
<1>9. QED
  BY <1>1, <1>2, <1>3, <1>4, <1>5, <1>6, <1>7, <1>8
  DEF Dispatcheur

LEMMA FenetreIInv ==
    ASSUME IInv, Fenetre
    PROVE  IInv'
<1>1. ASSUME NEW t \in Tris, ChangerTri(t)
      PROVE  IInv'
  <2>1. /\ UNCHANGED <<liste, index, montees, disp, fenetre, fait, ajout,
                       croise, bornes>>
        /\ descripteurs' = t
        /\ triee' = Trier[t][liste]
        /\ fenetre.pc = "fermee"
        /\ t # SansTri
    BY <1>1, ListeAssumption DEF ChangerTri
  <2>2. IBase'
    <3>1. /\ triee' \in Listes
          /\ Contenu(triee') = Contenu(liste) /\ Len(triee') = Len(liste)
      BY <2>1, ListeAssumption DEF IInv, IBase
    <3>2. QED
      BY <2>1, <3>1 DEF IInv, IBase, BaseCoherente
  <2>3. ITypes' /\ IDisp' /\ ILigne' /\ IMoniteur' /\ MonteeConnue'
    BY <2>1 DEF IInv, ITypes, IDisp, ILigne, IMoniteur, MonteeConnue, Connue, bornes
  <2>4. ActionSurCleChoisie'
    BY <2>1 DEF IInv, ActionSurCleChoisie
  <2>5. QED
    BY <2>2, <2>3, <2>4 DEF IInv
<1>2. ASSUME NEW ligne \in DOMAIN triee, NEW b \in {"supprimer", "aLaDate"},
             Cliquer(b, ligne)
      PROVE  IInv'
  <2> DEFINE pos == IF b = "aLaDate" THEN PositionDeLigne(ligne) ELSE 0
  <2>1. /\ UNCHANGED base
        /\ UNCHANGED <<montees, disp, croise, nbMontages>>
        /\ fenetre' = [pc |-> "dialogue", bouton |-> b, ligne |-> ligne,
                       position |-> pos, choisie |-> triee[ligne]]
        /\ fait' = Rien
        /\ ajout' = FALSE
        /\ nbBoutons' = nbBoutons + 1
    BY <1>2 DEF Cliquer, Presser
  <2>2. IBase'
    BY <2>1, BaseInchangee DEF IInv
  <2>3. /\ triee[ligne] \in Cles
        /\ ligne \in Nat
        /\ pos \in Nat
        /\ b = "aLaDate" => liste[pos] = triee[ligne]
    BY LigneBonne, ListeType DEF IInv, IBase
  <2> HIDE DEF pos
  <2>4. ITypes'
    <3>1. fenetre' \in [pc : {"fermee", "dialogue", "moniteur"},
                        bouton : {"aucun", "supprimer", "aLaDate"},
                        ligne : Nat, position : Nat, choisie : ClesOuAucune]
      BY <2>1, <2>3 DEF ClesOuAucune
    <3>2. fait' \in [bouton : {"aucun", "supprimer", "aLaDate", "maintenant"},
                     choisie : ClesOuAucune, moteur : ClesOuAucune,
                     base : ClesOuAucune]
      BY <2>1 DEF Rien, ClesOuAucune
    <3>3. nbBoutons' \in Nat
      BY <2>1 DEF IInv, ITypes
    <3>4. QED
      BY <2>1, <3>1, <3>2, <3>3 DEF IInv, ITypes
  <2>5. IDisp' /\ MonteeConnue'
    BY <2>1 DEF IInv, IDisp, MonteeConnue, Connue, base
  <2>6. ILigne' /\ IMoniteur' /\ ActionSurCleChoisie'
    BY <2>1, <2>3 DEF IInv, ILigne, IMoniteur, ActionSurCleChoisie, Rien, base
  <2>7. QED
    BY <2>2, <2>4, <2>5, <2>6 DEF IInv
<1>3. ASSUME NEW ligne \in DOMAIN triee, SauvegarderMaintenant(ligne)
      PROVE  IInv'
  <2>1. /\ UNCHANGED base
        /\ UNCHANGED <<montees, disp, fenetre, croise, nbMontages>>
        /\ fait' = [bouton |-> "maintenant", choisie |-> triee[ligne],
                    moteur |-> Planifiee(liste[ligne]), base |-> Aucune]
        /\ fenetre.pc = "fermee"
        /\ ajout' = FALSE
        /\ nbBoutons' = nbBoutons + 1
    BY <1>3 DEF SauvegarderMaintenant, Presser
  <2>2. IBase'
    BY <2>1, BaseInchangee DEF IInv
  <2>3. /\ triee[ligne] \in Cles
        /\ Planifiee(liste[ligne]) \in ClesOuAucune
    BY LigneBonne, ListeType DEF IInv, IBase, ITypes, Planifiee, ClesOuAucune
  <2>4. ITypes'
    <3>1. fait' \in [bouton : {"aucun", "supprimer", "aLaDate", "maintenant"},
                     choisie : ClesOuAucune, moteur : ClesOuAucune,
                     base : ClesOuAucune]
      BY <2>1, <2>3 DEF ClesOuAucune
    <3>2. nbBoutons' \in Nat
      BY <2>1 DEF IInv, ITypes
    <3>3. QED
      BY <2>1, <3>1, <3>2 DEF IInv, ITypes
  <2>5. IDisp' /\ MonteeConnue' /\ ILigne' /\ IMoniteur'
    BY <2>1 DEF IInv, IDisp, MonteeConnue, Connue, base, ILigne, IMoniteur
  <2>6. ActionSurCleChoisie'
    BY <2>1 DEF IInv, IBase, ActionSurCleChoisie, Planifiee, base
  <2>7. QED
    BY <2>2, <2>4, <2>5, <2>6 DEF IInv
<1>4. ASSUME Annuler
      PROVE  IInv'
  <2>1. /\ UNCHANGED base
        /\ UNCHANGED <<montees, disp, fait, ajout, croise, bornes>>
        /\ fenetre' = Fermee
    BY <1>4 DEF Annuler
  <2>2. IBase'
    BY <2>1, BaseInchangee DEF IInv
  <2>3. ITypes' /\ IDisp' /\ ILigne' /\ IMoniteur' /\ MonteeConnue'
    BY <2>1 DEF IInv, ITypes, IDisp, ILigne, IMoniteur, MonteeConnue, Connue,
       base, bornes, Fermee, ClesOuAucune
  <2>4. ActionSurCleChoisie'
    BY <2>1 DEF IInv, ActionSurCleChoisie, base
  <2>5. QED
    BY <2>2, <2>3, <2>4 DEF IInv
<1>5. ASSUME SauvegarderALaDate
      PROVE  IInv'
  <2>1. /\ UNCHANGED base
        /\ UNCHANGED <<montees, disp, ajout, croise, bornes>>
        /\ fenetre.pc = "dialogue" /\ fenetre.bouton = "aLaDate"
        /\ fenetre' = Fermee
        /\ fait' = [bouton |-> "aLaDate", choisie |-> fenetre.choisie,
                    moteur |-> Planifiee(liste[fenetre.position]),
                    base |-> Aucune]
    BY <1>5 DEF SauvegarderALaDate
  <2>2. IBase'
    BY <2>1, BaseInchangee DEF IInv
  <2>3. Planifiee(liste[fenetre.position]) \in ClesOuAucune
    BY DEF IInv, ITypes, Planifiee, ClesOuAucune
  <2>4. ITypes'
    BY <2>1, <2>3 DEF IInv, ITypes, bornes, Fermee, ClesOuAucune
  <2>5. IDisp' /\ ILigne' /\ IMoniteur' /\ MonteeConnue'
    BY <2>1 DEF IInv, IDisp, ILigne, IMoniteur, MonteeConnue, Connue, base,
       Fermee
  <2>6. ActionSurCleChoisie'
    BY <2>1 DEF IInv, ILigne, ActionSurCleChoisie, Planifiee, base
  <2>7. QED
    BY <2>2, <2>4, <2>5, <2>6 DEF IInv
<1>6. ASSUME SupprMoteur
      PROVE  IInv'
  <2>1. /\ UNCHANGED base
        /\ UNCHANGED <<disp, ajout, croise, bornes>>
        /\ fenetre.pc = "dialogue" /\ fenetre.bouton = "supprimer"
        /\ fenetre' = [fenetre EXCEPT !.pc = "moniteur"]
        /\ montees' = montees \ {triee[fenetre.ligne]}
        /\ fait' = [bouton |-> "supprimer", choisie |-> fenetre.choisie,
                    moteur |-> triee[fenetre.ligne], base |-> Aucune]
    BY <1>6 DEF SupprMoteur
  <2>2. IBase'
    BY <2>1, BaseInchangee DEF IInv
  <2>3. triee[fenetre.ligne] \in Cles
    BY <2>1, LigneBonne, ListeType DEF IInv, IBase, ILigne
  <2>4. ITypes'
    BY <2>1, <2>3 DEF IInv, ITypes, bornes, ClesOuAucune
  <2>5. IDisp' /\ ILigne' /\ MonteeConnue'
    BY <2>1 DEF IInv, ITypes, IDisp, ILigne, MonteeConnue, Connue, base
  <2>6. IMoniteur' /\ ActionSurCleChoisie'
    BY <2>1 DEF IInv, ITypes, ILigne, IMoniteur, ActionSurCleChoisie, base
  <2>7. QED
    BY <2>2, <2>4, <2>5, <2>6 DEF IInv
<1>7. ASSUME SupprBase
      PROVE  IInv'
  <2> DEFINE cle == triee[fenetre.ligne]
  <2>1. /\ UNCHANGED <<montees, disp, ajout, bornes>>
        /\ fenetre.pc = "moniteur"
        /\ fenetre.ligne \in DOMAIN triee
        /\ fenetre' = Fermee
        /\ SupprimerCleParPosition(PositionDeLigne(fenetre.ligne))
        /\ fait' = [fait EXCEPT !.base = cle]
        /\ croise' = (croise \/ ajout \/ disp.pc # "repos")
    BY <1>7 DEF SupprBase, IInv, ILigne
  <2>2. IBase' /\ DOMAIN index' = DOMAIN index \ {cle}
    BY <2>1, SupprimerCoherent DEF IInv
  <2>3. descripteurs' = descripteurs
    BY <2>1 DEF SupprimerCleParPosition, Changer
  <2>4. cle \in Cles
    BY <2>1, LigneBonne, ListeType DEF IInv, IBase
  <2>5. ITypes'
    <3>1. croise' \in BOOLEAN
      BY <2>1 DEF IInv, ITypes
    <3>2. QED
      BY <2>1, <2>4, <3>1 DEF IInv, ITypes, bornes, Fermee, ClesOuAucune
  <2>6. IDisp' /\ ILigne' /\ IMoniteur'
    BY <2>1, <2>2 DEF IInv, ITypes, IDisp, ILigne, IMoniteur, Fermee
  <2>7. MonteeConnue'
    BY <2>1, <2>2 DEF IInv, IMoniteur, MonteeConnue, Connue
  <2>8. ActionSurCleChoisie'
    BY <2>1, <2>3 DEF IInv, ITypes, ILigne, IMoniteur, ActionSurCleChoisie
  <2>9. QED
    BY <2>2, <2>5, <2>6, <2>7, <2>8 DEF IInv
<1>8. QED
  BY <1>1, <1>2, <1>3, <1>4, <1>5, <1>6, <1>7 DEF Fenetre

LEMMA IInvInductif == IInv /\ [Next]_vars => IInv'
<1>1. ASSUME IInv, UNCHANGED vars
      PROVE  IInv'
  <2>1. IBase'
    BY <1>1, BaseInchangee DEF IInv, vars
  <2>2. ITypes' /\ IDisp' /\ ILigne' /\ IMoniteur'
    BY <1>1 DEF IInv, ITypes, IDisp, ILigne, IMoniteur, Connue, vars, base, bornes
  <2>3. MonteeConnue' /\ ActionSurCleChoisie'
    BY <1>1 DEF IInv, MonteeConnue, ActionSurCleChoisie, Connue, vars, base
  <2>4. QED
    BY <2>1, <2>2, <2>3 DEF IInv
<1>2. QED
  BY <1>1, DispatcheurIInv, FenetreIInv DEF Next

LEMMA InvariantListe == Spec => []IInv
  BY InitIInv, IInvInductif, PTL DEF Spec

(* Types, for every set of keys and every order of events.                 *)
THEOREM ListeTypes == Spec => []TypeOK
<1>1. IInv => TypeOK
  BY DEF IInv, IBase, ITypes, TypeOK
<1>2. QED
  BY <1>1, InvariantListe, PTL

(* The array, its index and the sorted view always say the same            *)
(* (DB_Cles.m:97-268).                                                     *)
THEOREM BaseToujoursCoherente == Spec => []BaseCoherente
<1>1. IInv => BaseCoherente
  BY DEF IInv, IBase
<1>2. QED
  BY <1>1, InvariantListe, PTL

(* A button works on the key the user saw, if no key was added under its   *)
(* dialog (CI_ListeCles.m:232-364).                                        *)
THEOREM BoutonSurSaCle == Spec => []ActionSurCleChoisie
<1>1. IInv => ActionSurCleChoisie
  BY DEF IInv
<1>2. QED
  BY <1>1, InvariantListe, PTL

(* What the engine works on is known, unless a deletion met a registration *)
(* (CI_ListeCles.m:251-265, PD_Enregistreur.m:227-296).                    *)
THEOREM MonteesConnues == Spec => []MonteeConnue
<1>1. IInv => MonteeConnue
  BY DEF IInv
<1>2. QED
  BY <1>1, InvariantListe, PTL
=============================================================================
