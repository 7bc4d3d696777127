----------------------------- MODULE Moteur_proofs -----------------------------
(***************************************************************************)
(* Theorems about Moteur, for any set of mount points, of keys and of      *)
(* backup threads, any settings of the keys and any bound.                 *)
(***************************************************************************)
EXTENDS Moteur, PD_Planificateur_proofs

Entrees == [date : Nat, cle : Cles, aReplanifier : BOOLEAN]

-----------------------------------------------------------------------------
(* The operations of CR_File, whatever the elements.                       *)

(* inWithLock keeps the type of the file and loses no wake-up.             *)
LEMMA FileAjout ==
    ASSUME NEW E, NEW e \in E, TypeFile(E), InWithLock(e)
    PROVE  TypeFile(E)' /\ PasDeReveilPerdu'
  BY DEF TypeFile, InWithLock, PasDeReveilPerdu, EST_VIDE, NON_VIDE

(* outWithLockAndTimeOut too, and what it answers was in the file.         *)
LEMMA FileRetrait ==
    ASSUME NEW E, NEW e, TypeFile(E), OutWithLock(e)
    PROVE  e \in E /\ TypeFile(E)' /\ PasDeReveilPerdu'
<1>1. /\ Tail(laFile) \in Seq(E)
      /\ Head(laFile) \in E
      /\ Tail(laFile) # <<>> => Len(Tail(laFile)) > 0
  BY HeadTailProperties DEF TypeFile, OutWithLock
<1>2. QED
  BY <1>1 DEF TypeFile, OutWithLock, PasDeReveilPerdu, EtatVerrou,
              EST_VIDE, NON_VIDE

-----------------------------------------------------------------------------
(* The types of the shared structures, one operation at a time.            *)

(* An entry that is planned keeps the type of the planning.                *)
LEMMA TypePlanifier ==
    ASSUME TypePlan(Cles), NEW e \in Entrees, Planifier(e)
    PROVE  TypePlan(Cles)'
<1>1. Rang(planif, e) \in 1 .. Len(planif) + 1
  BY RangDansLaListe DEF TypePlan
<1>2. InsertAt(planif, Rang(planif, e), e) \in Seq(Entrees)
  BY <1>1, InsererA DEF TypePlan, Entrees
<1>3. QED
  BY <1>2 DEF TypePlan, Planifier, Entrees

(* So does the removal of the entries of a key.                            *)
LEMMA TypeDeplanifier ==
    ASSUME TypePlan(Cles), NEW id, DeplanifierCle(id)
    PROVE  TypePlan(Cles)'
<1>1. SansCle(planif, id) \in Seq(Entrees)
  BY SansCleContenu DEF TypePlan, Entrees
<1>2. QED
  BY <1>1 DEF TypePlan, DeplanifierCle, Entrees

(* So do the other sections on the planning.                               *)
LEMMA TypeOrdonnancer ==
    ASSUME TypePlan(Cles),
           \/ PlanifierSansDate \/ MessagePris
           \/ OrdonnancerDebut \/ OrdonnancerSauter \/ OrdonnancerFin
           \/ Horloge(MaxTemps)
           \/ \E n \in DOMAIN planif : n = passe /\ OrdonnancerLancer(planif[n])
    PROVE  TypePlan(Cles)'
<1>1. ASSUME NEW n \in DOMAIN planif, n = passe, OrdonnancerLancer(planif[n])
      PROVE  TypePlan(Cles)'
  <2>1. RemoveAt(planif, n) \in Seq(Entrees)
    BY RetirerA DEF TypePlan, Entrees
  <2>2. QED
    BY <1>1, <2>1 DEF TypePlan, OrdonnancerLancer, Entrees
<1>2. CASE PlanifierSansDate \/ MessagePris
  BY <1>2 DEF TypePlan, PlanifierSansDate, MessagePris
<1>3. CASE OrdonnancerDebut \/ OrdonnancerSauter \/ OrdonnancerFin
  BY <1>3 DEF TypePlan, OrdonnancerDebut, OrdonnancerSauter, OrdonnancerFin
<1>4. CASE Horloge(MaxTemps)
  BY <1>4 DEF TypePlan, Horloge
<1>5. QED
  BY <1>1, <1>2, <1>3, <1>4, Zenon

(* The removal of a waiting task keeps the type of the file, its wake-ups  *)
(* and the tasks of the other objects.                                     *)
LEMMA TypeRetirerDeLaFile ==
    ASSUME TypeFile(Taches), NEW c, RetirerDeLaFile(c)
    PROVE  /\ TypeFile(Taches)'
           /\ PasDeReveilPerdu => PasDeReveilPerdu'
           /\ \A n \in DOMAIN laFile : laFile[n].cle # c =>
                 \E m \in DOMAIN laFile' : laFile'[m] = laFile[n]
<1>1. CASE UNCHANGED fileVars
  BY <1>1 DEF fileVars, TypeFile, PasDeReveilPerdu
<1>2. ASSUME NEW i \in DOMAIN laFile, laFile[i].cle = c,
             SupprimerElemALaPosition(i)
      PROVE  /\ TypeFile(Taches)'
             /\ PasDeReveilPerdu'
             /\ \A n \in DOMAIN laFile : laFile[n].cle # c =>
                   \E m \in DOMAIN laFile' : laFile'[m] = laFile[n]
  <2> DEFINE l == RemoveAt(laFile, i)
  <2>1. laFile \in Seq(Taches) /\ i \in 1 .. Len(laFile)
    BY DEF TypeFile
  <2>2. /\ l \in Seq(Taches)
        /\ Len(l) = Len(laFile) - 1
        /\ \A k \in 1 .. Len(laFile) - 1 :
              l[k] = IF k < i THEN laFile[k] ELSE laFile[k + 1]
    BY <2>1, RetirerA
  <2>3. laFile' = l /\ condition' = EtatVerrou(l) /\ verrouTenu' = verrouTenu
    BY <1>2 DEF SupprimerElemALaPosition
  <2> HIDE DEF l
  <2>4. TypeFile(Taches)'
    BY <2>2, <2>3 DEF TypeFile, EtatVerrou, EST_VIDE, NON_VIDE
  <2>5. PasDeReveilPerdu'
    BY <2>2, <2>3 DEF PasDeReveilPerdu, EtatVerrou
  <2>6. ASSUME NEW n \in DOMAIN laFile, laFile[n].cle # c
        PROVE  \E m \in DOMAIN laFile' : laFile'[m] = laFile[n]
    <3>1. n \in 1 .. Len(laFile) /\ n # i
      BY <1>2, <2>1, <2>6
    <3>2. DOMAIN laFile' = 1 .. Len(laFile) - 1
      BY <2>1, <2>2, <2>3
    <3>3. CASE n < i
      <4>1. n \in DOMAIN laFile' /\ laFile'[n] = laFile[n]
        BY <2>1, <2>2, <2>3, <3>1, <3>2, <3>3
      <4>2. QED
        BY <4>1, Zenon
    <3>4. CASE n > i
      <4>1. n - 1 \in DOMAIN laFile' /\ laFile'[n - 1] = laFile[n]
        BY <2>1, <2>2, <2>3, <3>1, <3>2, <3>4
      <4>2. QED
        BY <4>1, Zenon
    <3>5. n < i \/ n > i
      BY <2>1, <3>1
    <3>6. QED
      BY <3>3, <3>4, <3>5, Zenon
  <2>7. QED
    BY <2>4, <2>5, <2>6
<1>3. QED
  BY <1>1, <1>2, Zenon DEF RetirerDeLaFile
-----------------------------------------------------------------------------
(* What the steps do to the backup threads.                                *)

EtatTrav == [pc : PcTrav, cle : Cles \cup {Aucune}, aReplanifier : BOOLEAN,
             interrompre : BOOLEAN, fin : Nat]

(* No thread moves, some are asked to stop.                                *)
SeulArret ==
    /\ trav' \in [Travailleurs -> EtatTrav]
    /\ \A w \in Travailleurs :
          /\ trav'[w].pc = trav[w].pc
          /\ trav'[w].cle = trav[w].cle
          /\ trav'[w].aReplanifier = trav[w].aReplanifier
          /\ trav[w].interrompre => trav'[w].interrompre
    /\ UNCHANGED <<tachesEnCours, ressource, sauvegardeEnCours>>

(* Thread w goes from de to vers, with its task.                           *)
SeulPc(w, de, vers) ==
    /\ trav[w].pc = de
    /\ trav' \in [Travailleurs -> EtatTrav]
    /\ trav'[w].pc = vers
    /\ trav'[w].cle = trav[w].cle
    /\ trav'[w].aReplanifier = trav[w].aReplanifier
    /\ trav'[w].interrompre = trav[w].interrompre
    /\ \A v \in Travailleurs : v # w => trav'[v] = trav[v]

(* The buttons and the unmount ask, they do not move.                      *)
LEMMA ArreterSeulArret ==
    ASSUME TypeTravailleurs, NEW c, ArreterTachesPourCle(c),
           UNCHANGED <<tachesEnCours, ressource, sauvegardeEnCours>>
    PROVE  SeulArret
<1>1. CASE trav' = trav
  BY <1>1 DEF SeulArret, TypeTravailleurs, EtatTrav
<1>2. ASSUME NEW i \in DOMAIN tachesEnCours,
             trav' = [trav EXCEPT ![tachesEnCours[i]].interrompre = TRUE]
      PROVE  SeulArret
  <2>1. tachesEnCours[i] \in Travailleurs
    BY DEF TypeTravailleurs
  <2>2. QED
    BY <1>2, <2>1 DEF SeulArret, TypeTravailleurs, EtatTrav
<1>3. QED
  BY <1>1, <1>2, Zenon DEF ArreterTachesPourCle

(* A move to a named place of executerTache:.                              *)
LEMMA AvancerSeulPc ==
    ASSUME TypeTravailleurs, NEW w \in Travailleurs, NEW de,
           NEW vers \in PcTrav, TravAvancer(w, de, vers)
    PROVE  SeulPc(w, de, vers)
  BY DEF TypeTravailleurs, TravAvancer, SeulPc, EtatTrav

(* The request to stop keeps the types of the threads.                     *)
LEMMA TypeSeulArret ==
    ASSUME TypeTravailleurs, SeulArret PROVE TypeTravailleurs'
  BY DEF TypeTravailleurs, SeulArret, EtatTrav

(* So does the move.                                                       *)
LEMMA TypeSeulPc ==
    ASSUME TypeTravailleurs, NEW w \in Travailleurs, NEW de \in PcTrav,
           NEW vers \in PcTrav, SeulPc(w, de, vers), de # "libre",
           tachesEnCours' \in Seq(Travailleurs),
           ressource' \in [Ids -> Travailleurs \cup {Personne}],
           sauvegardeEnCours' \subseteq Cles
    PROVE  TypeTravailleurs'
  BY DEF TypeTravailleurs, SeulPc, EtatTrav

-----------------------------------------------------------------------------
(* Type correctness, one group of actions after the other.                 *)

(* A part whose variables do not change keeps its type.                    *)
LEMMA TypesInchanges ==
    /\ UNCHANGED fileVars /\ TypeFile(Taches) => TypeFile(Taches)'
    /\ UNCHANGED planVars /\ TypePlan(Cles) => TypePlan(Cles)'
    /\ UNCHANGED dispVars /\ TypeDispatcheur => TypeDispatcheur'
    /\ UNCHANGED travVars /\ TypeTravailleurs => TypeTravailleurs'
    /\ UNCHANGED mainVars /\ TypePrincipal => TypePrincipal'
    /\ UNCHANGED systVars /\ TypeSysteme => TypeSysteme'
<1>1. UNCHANGED fileVars /\ TypeFile(Taches) => TypeFile(Taches)'
  BY DEF fileVars, TypeFile
<1>2. UNCHANGED planVars /\ TypePlan(Cles) => TypePlan(Cles)'
  BY DEF planVars, TypePlan
<1>3. UNCHANGED dispVars /\ TypeDispatcheur => TypeDispatcheur'
  BY DEF dispVars, TypeDispatcheur
<1>4. UNCHANGED travVars /\ TypeTravailleurs => TypeTravailleurs'
  BY DEF travVars, TypeTravailleurs
<1>5. UNCHANGED mainVars /\ TypePrincipal => TypePrincipal'
  BY DEF mainVars, TypePrincipal, MoniteurLibre
<1>6. UNCHANGED systVars /\ TypeSysteme => TypeSysteme'
  BY DEF systVars, TypeSysteme
<1>7. QED
  BY <1>1, <1>2, <1>3, <1>4, <1>5, <1>6

(* Volumes and time.                                                       *)
LEMMA TypePasSysteme == TypeOK /\ Systeme => TypeOK'
<1> SUFFICES ASSUME TypeOK, Systeme PROVE TypeOK'
  OBVIOUS
<1>1. ASSUME NEW p \in Points, Brancher(p) PROVE TypeOK'
  <2>1. TypeDispatcheur'
    BY <1>1 DEF Brancher, Evenement, TypeDispatcheur, TypeOK
  <2>2. TypeSysteme'
    BY <1>1 DEF Brancher, TypeSysteme, TypeOK
  <2>3. QED
    BY <1>1, <2>1, <2>2, TypesInchanges DEF TypeOK, Brancher
<1>2. ASSUME NEW p \in Points, Debrancher(p) PROVE TypeOK'
  <2>1. TypeDispatcheur'
    BY <1>2 DEF Debrancher, Evenement, TypeDispatcheur, TypeOK
  <2>2. TypeSysteme'
    BY <1>2 DEF Debrancher, TypeSysteme, TypeOK
  <2>3. QED
    BY <1>2, <2>1, <2>2, TypesInchanges DEF TypeOK, Debrancher
<1>3. CASE Temps
  <2>1. TypePlan(Cles)'
    BY <1>3, TypeOrdonnancer DEF Temps, TypeOK
  <2>2. QED
    BY <1>3, <2>1, TypesInchanges DEF TypeOK, Temps
<1>4. QED
  BY <1>1, <1>2, <1>3, Zenon DEF Systeme

(* The dates planifier: computes are dates.                                *)
LEMMA DatesNaturelles ==
    ASSUME NEW id \in Ids, maintenant \in Nat
    PROVE  DatesAuMontage(id) \subseteq Nat
  BY MoteurAssumption DEF DatesAuMontage, DernSauv

(* A key at an index of the dictionary, and a new object.                  *)
LEMMA CleTypee ==
    ASSUME NEW p \in Points, NEW n \in Nat
    PROVE  Cle(p, n) \in Cles /\ Cle(p, n).id \in Ids
  BY MoteurAssumption DEF Cle, Cles

(* The dispatcher.                                                         *)
LEMMA TypePasDispatcheur == TypeOK /\ Dispatcheur => TypeOK'
<1> SUFFICES ASSUME TypeOK, Dispatcheur PROVE TypeOK'
  OBVIOUS
<1> DEFINE Evts == [montage : BOOLEAN, point : Points]
<1>1. fileDispatch # <<>> =>
         Tail(fileDispatch) \in Seq(Evts) /\ Head(fileDispatch) \in Evts
  BY HeadTailProperties DEF TypeOK, TypeDispatcheur
<1>2. CASE DispIgnorer
  <2>1. TypeDispatcheur'
    BY <1>1, <1>2 DEF DispIgnorer, Repartir, TypeOK, TypeDispatcheur
  <2>2. QED
    BY <1>2, <2>1, TypesInchanges DEF TypeOK, DispIgnorer
<1>3. ASSUME NEW p \in Points, DispEnregistrer(p) PROVE TypeOK'
  <2>1. nbCles' = nbCles + 1 /\ nbCles' \in Nat
    BY <1>3 DEF DispEnregistrer, TypeOK, TypeDispatcheur
  <2>2. Cle(p, nbCles') \in Cles /\ Cle(p, nbCles').id \in Ids
    BY <2>1, CleTypee
  <2>3. TypeDispatcheur'
    BY <1>1, <1>3, <2>1, <2>2
       DEF DispEnregistrer, Repartir, Inactif, PcDisp, TypeOK,
           TypeDispatcheur
  <2>4. QED
    BY <1>3, <2>3, TypesInchanges DEF TypeOK, DispEnregistrer
<1>4. CASE DispPlanifier
  <2>1. dispatcheur.cle \in Cles /\ dispatcheur.cle.id \in Ids
    BY <1>4 DEF DispPlanifier, TypeOK, TypeDispatcheur, Cles
  <2>2. PICK d \in DatesAuMontage(dispatcheur.cle.id) :
           Planifier(Entree(d, dispatcheur.cle, TRUE))
    BY <1>4 DEF DispPlanifier
  <2>3. Entree(d, dispatcheur.cle, TRUE) \in Entrees
    BY <2>1, DatesNaturelles DEF Entree, Entrees, TypeOK, TypePlan
  <2>4. TypePlan(Cles)'
    BY <2>2, <2>3, TypePlanifier DEF TypeOK
  <2>5. TypeDispatcheur'
    BY <1>4 DEF DispPlanifier, Inactif, PcDisp, TypeOK, TypeDispatcheur
  <2>6. QED
    BY <1>4, <2>4, <2>5, TypesInchanges DEF TypeOK, DispPlanifier
<1>5. CASE DispJournaliser
  <2>1. TypePlan(Cles)'
    BY <1>5, TypeOrdonnancer DEF DispJournaliser, TypeOK
  <2>2. TypeDispatcheur'
    BY <1>5 DEF DispJournaliser, PcDisp, TypeOK, TypeDispatcheur
  <2>3. QED
    BY <1>5, <2>1, <2>2, TypesInchanges DEF TypeOK, DispJournaliser
<1>6. CASE DispJournalise
  <2>1. TypePlan(Cles)'
    BY <1>6, TypeOrdonnancer DEF DispJournalise, TypeOK
  <2>2. TypeDispatcheur'
    BY <1>6 DEF DispJournalise, Inactif, PcDisp, TypeOK, TypeDispatcheur
  <2>3. QED
    BY <1>6, <2>1, <2>2, TypesInchanges DEF TypeOK, DispJournalise
<1>7. ASSUME NEW id \in Ids, DispDemonter(id) PROVE TypeOK'
  <2>1. montees[id] \in Cles
    BY <1>7 DEF DispDemonter, MonteesEn, TypeOK, TypeDispatcheur
  <2>2. TypeDispatcheur'
    BY <1>1, <1>7, <2>1
       DEF DispDemonter, Repartir, PcDisp, TypeOK, TypeDispatcheur
  <2>3. QED
    BY <1>7, <2>2, TypesInchanges DEF TypeOK, DispDemonter
<1>8. ASSUME NEW de \in PcDisp, NEW vers \in PcDisp, de # "repos",
             DispAvancer(de, vers)
      PROVE  TypeDispatcheur' /\ TypeSysteme' /\ TypePrincipal'
  <2>1. TypeDispatcheur'
    BY <1>8 DEF DispAvancer, TypeOK, TypeDispatcheur
  <2>2. QED
    BY <1>8, <2>1, TypesInchanges DEF TypeOK, DispAvancer
<1>9. CASE DispArreter
  <2>1. TypeDispatcheur' /\ TypeSysteme' /\ TypePrincipal'
    BY <1>8, <1>9 DEF DispArreter, PcDisp
  <2>2. TypeTravailleurs'
    BY <1>9, ArreterSeulArret, TypeSeulArret DEF DispArreter, TypeOK
  <2>3. QED
    BY <1>9, <2>1, <2>2, TypesInchanges DEF TypeOK, DispArreter
<1>10. CASE DispArreterSaute
  <2>1. TypeDispatcheur' /\ TypeSysteme' /\ TypePrincipal'
    BY <1>8, <1>10 DEF DispArreterSaute, PcDisp
  <2>2. QED
    BY <1>10, <2>1, TypesInchanges DEF TypeOK, DispArreterSaute
<1>11. CASE DispArreterException
  <2>1. TypeDispatcheur'
    BY <1>11 DEF DispArreterException, Inactif, PcDisp, TypeOK,
                 TypeDispatcheur
  <2>2. QED
    BY <1>11, <2>1, TypesInchanges DEF TypeOK, DispArreterException
<1>12. CASE DispRetirer
  <2>1. TypeDispatcheur' /\ TypeSysteme' /\ TypePrincipal'
    BY <1>8, <1>12 DEF DispRetirer, PcDisp
  <2>2. TypeFile(Taches)'
    BY <1>12, TypeRetirerDeLaFile DEF DispRetirer, TypeOK
  <2>3. QED
    BY <1>12, <2>1, <2>2, TypesInchanges DEF TypeOK, DispRetirer
<1>13. CASE DispDeplanifier
  <2>1. TypeDispatcheur' /\ TypeSysteme' /\ TypePrincipal'
    BY <1>8, <1>13 DEF DispDeplanifier, PcDisp
  <2>2. TypePlan(Cles)'
    BY <1>13, TypeDeplanifier DEF DispDeplanifier, TypeOK
  <2>3. QED
    BY <1>13, <2>1, <2>2, TypesInchanges DEF TypeOK, DispDeplanifier
<1>14. CASE DispDesenregistrer
  <2>1. TypeDispatcheur'
    BY <1>14 DEF DispDesenregistrer, Inactif, PcDisp, TypeOK,
                 TypeDispatcheur
  <2>2. QED
    BY <1>14, <2>1, TypesInchanges DEF TypeOK, DispDesenregistrer
<1>15. QED
  BY <1>2, <1>3, <1>4, <1>5, <1>6, <1>7, <1>9, <1>10, <1>11, <1>12, <1>13,
     <1>14, Zenon DEF Dispatcheur

(* The main thread enters a method...                                      *)
LEMMA TypeMainEntre ==
    ASSUME TypePrincipal, NEW pc \in PcMain, NEW c \in Cles \cup {Aucune},
           MainEntre(pc, c), nbDemandes' \in Nat,
           c \in Cles \/ pc \in {"demarrage", "repos", "ordonnancer"}
    PROVE  TypePrincipal'
  BY DEF TypePrincipal, MainEntre, MoniteurLibre

(* ... and goes on in it, or leaves it.                                    *)
LEMMA TypeMainAvance ==
    ASSUME TypePrincipal, NEW de \in PcMain, NEW vers \in PcMain,
           MainAvance(de, vers),
           de \in {"retirer", "arreter"} \/ vers = "repos"
    PROVE  TypePrincipal'
  BY DEF TypePrincipal, MainAvance, MoniteurLibre, Inactif, PcMain

(* The main thread, without the user's clicks.                             *)
LEMMA TypePasPrincipal == TypeOK /\ Principal => TypeOK'
<1> SUFFICES ASSUME TypeOK, Principal PROVE TypeOK'
  OBVIOUS
<1> USE DEF PcMain
<1>1. CASE DetectionInitiale
  <2>1. PICK chemins \in SetToSeqs(montes) :
           fileDispatch' = fileDispatch \o
              [i \in DOMAIN chemins |-> Evenement(TRUE, chemins[i])]
    BY <1>1 DEF DetectionInitiale
  <2> DEFINE n == Cardinality(montes)
             suite == [i \in DOMAIN chemins |-> Evenement(TRUE, chemins[i])]
             Evts == [montage : BOOLEAN, point : Points]
  <2>2. n \in Nat
    <3>1. montes \in SUBSET Points
      BY DEF TypeOK, TypeSysteme
    <3>2. QED
      BY <3>1, MoteurAssumption, FS_Subset, FS_CardinalityType
  <2>3. chemins \in [1 .. n -> montes]
    BY DEF SetToSeqs
  <2> HIDE DEF n
  <2>4. \A i \in 1 .. n : Evenement(TRUE, chemins[i]) \in Evts
    BY <2>3 DEF Evenement, TypeOK, TypeSysteme
  <2>5. suite \in Seq(Evts)
    <3>1. suite = [i \in 1 .. n |-> Evenement(TRUE, chemins[i])]
      BY <2>3
    <3> HIDE DEF suite, Evts
    <3>2. suite \in [1 .. n -> Evts]
      BY <2>4, <3>1
    <3>3. QED
      BY <2>2, <3>2, SeqDef
  <2> HIDE DEF suite
  <2>6. fileDispatch \in Seq(Evts)
    BY DEF TypeOK, TypeDispatcheur
  <2>7. fileDispatch \o suite \in Seq(Evts)
    BY <2>5, <2>6, ConcatProperties
  <2>8. TypeDispatcheur'
    BY <1>1, <2>1, <2>7
       DEF DetectionInitiale, suite, TypeOK, TypeDispatcheur
  <2>9. TypePrincipal'
    BY <1>1 DEF DetectionInitiale, Inactif, TypeOK, TypePrincipal,
                MoniteurLibre
  <2>10. QED
    BY <1>1, <2>8, <2>9, TypesInchanges DEF TypeOK, DetectionInitiale
<1>2. CASE OrdAppel
  <2>1. TypePrincipal'
    BY <1>2, TypeMainEntre DEF OrdAppel, TypeOK, TypePrincipal
  <2>2. QED
    BY <1>2, <2>1, TypesInchanges DEF TypeOK, OrdAppel
<1>3. CASE OrdDebut
  <2>1. TypePlan(Cles)'
    BY <1>3, TypeOrdonnancer DEF OrdDebut, TypeOK
  <2>2. QED
    BY <1>3, <2>1, TypesInchanges DEF TypeOK, OrdDebut
<1>4. CASE OrdLancer
  <2>1. PICK n \in DOMAIN planif :
           /\ OrdonnancerLancer(planif[n])
           /\ n = passe
           /\ InWithLock(Tache(planif[n].cle, planif[n].aReplanifier))
    BY <1>4 DEF OrdLancer
  <2>2. planif[n] \in Entrees
    <3>1. planif \in Seq(Entrees)
      BY DEF TypeOK, TypePlan, Entrees
    <3>2. QED
      BY <3>1, ElementOfSeq
  <2>3. Tache(planif[n].cle, planif[n].aReplanifier) \in Taches
    BY <2>2 DEF Tache, Taches, Entrees
  <2>4. TypeFile(Taches)'
    BY <2>1, <2>3, FileAjout DEF TypeOK
  <2>5. TypePlan(Cles)'
    BY <2>1, TypeOrdonnancer DEF TypeOK
  <2>6. QED
    BY <1>4, <2>4, <2>5, TypesInchanges DEF TypeOK, OrdLancer
<1>5. CASE OrdSauter
  <2>1. TypePlan(Cles)'
    BY <1>5, TypeOrdonnancer DEF OrdSauter, TypeOK
  <2>2. QED
    BY <1>5, <2>1, TypesInchanges DEF TypeOK, OrdSauter
<1>6. CASE OrdFin
  <2>1. TypePlan(Cles)'
    BY <1>6, TypeOrdonnancer DEF OrdFin, TypeOK
  <2>2. TypePrincipal'
    BY <1>6, TypeMainAvance DEF OrdFin, TypeOK
  <2>3. QED
    BY <1>6, <2>1, <2>2, TypesInchanges DEF TypeOK, OrdFin
<1>7. ASSUME NEW d \in 0 .. MaxTemps, SauvegarderALaDate(d) PROVE TypeOK'
  <2>1. principal.cle \in Cles /\ d \in Nat
    BY <1>7, MoteurAssumption
       DEF SauvegarderALaDate, MainAvance, MoniteurLibre, TypeOK,
           TypePrincipal
  <2>2. Entree(d, principal.cle, FALSE) \in Entrees
    BY <2>1 DEF Entree, Entrees
  <2>3. TypePlan(Cles)'
    BY <1>7, <2>2, TypePlanifier DEF SauvegarderALaDate, TypeOK
  <2>4. TypePrincipal'
    BY <1>7, TypeMainAvance DEF SauvegarderALaDate, TypeOK
  <2>5. QED
    BY <1>7, <2>3, <2>4, TypesInchanges DEF TypeOK, SauvegarderALaDate
<1>8. CASE SupprRetirer
  <2>1. TypeFile(Taches)'
    BY <1>8, TypeRetirerDeLaFile DEF SupprRetirer, TypeOK
  <2>2. TypePrincipal'
    BY <1>8, TypeMainAvance DEF SupprRetirer, TypeOK
  <2>3. QED
    BY <1>8, <2>1, <2>2, TypesInchanges DEF TypeOK, SupprRetirer
<1>9. CASE SupprArreter
  <2>1. TypeTravailleurs'
    BY <1>9, ArreterSeulArret, TypeSeulArret DEF SupprArreter, TypeOK
  <2>2. TypePrincipal'
    BY <1>9, TypeMainAvance DEF SupprArreter, TypeOK
  <2>3. QED
    BY <1>9, <2>1, <2>2, TypesInchanges DEF TypeOK, SupprArreter
<1>10. CASE SupprArreterSaute
  <2>1. TypePrincipal'
    BY <1>10, TypeMainAvance DEF SupprArreterSaute, TypeOK
  <2>2. QED
    BY <1>10, <2>1, TypesInchanges DEF TypeOK, SupprArreterSaute
<1>11. CASE SupprArreterException
  <2>1. TypePrincipal'
    BY <1>11, TypeMainAvance DEF SupprArreterException, TypeOK
  <2>2. QED
    BY <1>11, <2>1, TypesInchanges DEF TypeOK, SupprArreterException
<1>12. CASE SupprDeplanifier
  <2>1. TypePlan(Cles)'
    BY <1>12, TypeDeplanifier DEF SupprDeplanifier, TypeOK
  <2>2. TypePrincipal'
    BY <1>12, TypeMainAvance DEF SupprDeplanifier, TypeOK
  <2>3. QED
    BY <1>12, <2>1, <2>2, TypesInchanges DEF TypeOK, SupprDeplanifier
<1>13. QED
  BY <1>1, <1>2, <1>3, <1>4, <1>5, <1>6, <1>7, <1>8, <1>9, <1>10, <1>11,
     <1>12, Zenon DEF Principal

(* The user.                                                               *)
LEMMA TypePasUtilisateur == TypeOK /\ Utilisateur => TypeOK'
<1> SUFFICES ASSUME TypeOK, Utilisateur PROVE TypeOK'
  OBVIOUS
<1>1. ASSUME Demander PROVE nbDemandes' \in Nat
  BY <1>1 DEF Demander, TypeOK, TypePrincipal
<1>2. ASSUME NEW id \in Ids, montees[id] # Aucune PROVE montees[id] \in Cles
  BY <1>2 DEF TypeOK, TypeDispatcheur
<1>3. ASSUME NEW id \in Ids, Sauvegarder(id) PROVE TypeOK'
  <2>1. TypePrincipal'
    BY <1>1, <1>2, <1>3, TypeMainEntre DEF Sauvegarder, TypeOK, PcMain
  <2>2. QED
    BY <1>3, <2>1, TypesInchanges DEF TypeOK, Sauvegarder
<1>4. ASSUME NEW id \in Ids, SupprDesenregistrer(id) PROVE TypeOK'
  <2>1. TypePrincipal'
    BY <1>1, <1>2, <1>4, TypeMainEntre DEF SupprDesenregistrer, TypeOK, PcMain
  <2>2. TypeDispatcheur'
    BY <1>4 DEF SupprDesenregistrer, TypeOK, TypeDispatcheur
  <2>3. QED
    BY <1>4, <2>1, <2>2, TypesInchanges DEF TypeOK, SupprDesenregistrer
<1>5. ASSUME NEW w \in Travailleurs, StopTache(w) PROVE TypeOK'
  <2>1. SeulArret
    BY <1>5 DEF StopTache, SeulArret, EtatTrav, TypeOK, TypeTravailleurs
  <2>2. TypeTravailleurs'
    BY <2>1, TypeSeulArret DEF TypeOK
  <2>3. TypePrincipal'
    BY <1>1, <1>5 DEF StopTache, TypeOK, TypePrincipal, MoniteurLibre
  <2>4. QED
    BY <1>5, <2>2, <2>3, TypesInchanges DEF TypeOK, StopTache
<1>6. QED
  BY <1>3, <1>4, <1>5, Zenon DEF Utilisateur

(* The backup threads.                                                     *)
LEMMA TypePasTravailleur ==
    TypeOK /\ (\E w \in Travailleurs : Travailleur(w)) => TypeOK'
<1> SUFFICES ASSUME TypeOK, NEW w \in Travailleurs, Travailleur(w)
             PROVE  TypeOK'
  OBVIOUS
<1> USE DEF PcTrav
<1>1. /\ tachesEnCours \in Seq(Travailleurs)
      /\ ressource \in [Ids -> Travailleurs \cup {Personne}]
      /\ sauvegardeEnCours \subseteq Cles
      /\ trav[w].pc # "libre" => trav[w].cle \in Cles
      /\ TypeTravailleurs
  BY DEF TypeOK, TypeTravailleurs
<1>2. CASE Prendre(w)
  <2>1. PICK n \in DOMAIN laFile :
          /\ OutWithLock(laFile[n])
          /\ trav' = [trav EXCEPT ![w] =
                       [pc |-> "prise", cle |-> laFile[n].cle,
                        aReplanifier |-> laFile[n].aReplanifier,
                        interrompre |-> FALSE, fin |-> 0]]
    BY <1>2 DEF Prendre
  <2>2. laFile[n] \in Taches /\ TypeFile(Taches)'
    BY <2>1, FileRetrait DEF TypeOK
  <2>3. TypeTravailleurs'
    BY <1>2, <2>1, <2>2 DEF Prendre, Taches, TypeOK, TypeTravailleurs
  <2>4. QED
    BY <1>2, <2>2, <2>3, TypesInchanges DEF TypeOK, Prendre
<1>3. CASE Lancer(w)
  <2>1. SeulPc(w, "prise", "attente")
    BY <1>1, <1>3, AvancerSeulPc DEF Lancer
  <2>2. TypeTravailleurs'
    BY <1>1, <1>3, <2>1, TypeSeulPc DEF Lancer, TravAvancer
  <2>3. QED
    BY <1>3, <2>2, TypesInchanges DEF TypeOK, Lancer
<1>4. CASE PrendreRessource(w)
  <2>1. SeulPc(w, "attente", "sauvegarde")
    BY <1>1, <1>4, AvancerSeulPc DEF PrendreRessource
  <2>2. TypeTravailleurs'
    BY <1>1, <1>4, <2>1, TypeSeulPc DEF PrendreRessource
  <2>3. QED
    BY <1>4, <2>2, TypesInchanges DEF TypeOK, PrendreRessource
<1>5. CASE RenoncerRessource(w)
  <2>1. SeulPc(w, "attente", "sauvegarde")
    BY <1>1, <1>5, AvancerSeulPc DEF RenoncerRessource
  <2>2. TypeTravailleurs'
    BY <1>1, <1>5, <2>1, TypeSeulPc DEF RenoncerRessource
  <2>3. QED
    BY <1>5, <2>2, TypesInchanges DEF TypeOK, RenoncerRessource
<1>6. CASE FinSauvegarde(w)
  <2>1. maintenant \in Nat
    BY DEF TypeOK, TypePlan
  <2>2. TypeTravailleurs'
    BY <1>1, <1>6, <2>1 DEF FinSauvegarde, TypeTravailleurs
  <2>3. QED
    BY <1>6, <2>2, TypesInchanges DEF TypeOK, FinSauvegarde
<1>7. CASE Verifier(w)
  <2>1. \E vers \in {"deplanifier", "rendre"} : SeulPc(w, "verifier", vers)
    BY <1>1, <1>7, AvancerSeulPc DEF Verifier
  <2>2. TypeTravailleurs'
    BY <1>1, <1>7, <2>1, TypeSeulPc DEF Verifier
  <2>3. QED
    BY <1>7, <2>2, TypesInchanges DEF TypeOK, Verifier
<1>8. CASE Deplanifier(w)
  <2>1. SeulPc(w, "deplanifier", "planifier")
    BY <1>1, <1>8, AvancerSeulPc DEF Deplanifier
  <2>2. TypeTravailleurs'
    BY <1>1, <1>8, <2>1, TypeSeulPc DEF Deplanifier
  <2>3. TypePlan(Cles)'
    BY <1>8, TypeDeplanifier DEF Deplanifier, TypeOK
  <2>4. QED
    BY <1>8, <2>2, <2>3, TypesInchanges DEF TypeOK, Deplanifier
<1>9. CASE Replanifier(w)
  <2>1. SeulPc(w, "planifier", "rendre")
    BY <1>1, <1>9, AvancerSeulPc DEF Replanifier
  <2>2. TypeTravailleurs'
    BY <1>1, <1>9, <2>1, TypeSeulPc DEF Replanifier
  <2>3. PICK d \in trav[w].fin .. maintenant :
           Planifier(Entree(d + Intervalle, trav[w].cle, TRUE))
    BY <1>9 DEF Replanifier
  <2>4. trav[w].fin \in Nat /\ maintenant \in Nat
    BY DEF TypeOK, TypePlan, TypeTravailleurs
  <2>5. d + Intervalle \in Nat
    BY <2>4, MoteurAssumption
  <2>6. Entree(d + Intervalle, trav[w].cle, TRUE) \in Entrees
    BY <1>1, <2>1, <2>5 DEF Entree, Entrees, SeulPc
  <2>7. TypePlan(Cles)'
    BY <2>3, <2>6, TypePlanifier DEF TypeOK
  <2>8. QED
    BY <1>9, <2>2, <2>7, TypesInchanges DEF TypeOK, Replanifier
<1>10. CASE Rendre(w)
  <2>1. SeulPc(w, "rendre", "retirer")
    BY <1>1, <1>10, AvancerSeulPc DEF Rendre
  <2>2. ressource' \in [Ids -> Travailleurs \cup {Personne}]
    BY <1>1, <1>10 DEF Rendre
  <2>3. TypeTravailleurs'
    BY <1>1, <1>10, <2>1, <2>2, TypeSeulPc DEF Rendre
  <2>4. QED
    BY <1>10, <2>3, TypesInchanges DEF TypeOK, Rendre
<1>11. CASE Retirer(w)
  <2>1. tachesEnCours' \in Seq(Travailleurs)
    BY <1>1, <1>11, RetirerA DEF Retirer
  <2>2. TypeTravailleurs'
    BY <1>1, <1>11, <2>1 DEF Retirer, TravailleurLibre, TypeTravailleurs
  <2>3. QED
    BY <1>11, <2>2, TypesInchanges DEF TypeOK, Retirer
<1>12. QED
  BY <1>2, <1>3, <1>4, <1>5, <1>6, <1>7, <1>8, <1>9, <1>10, <1>11, Zenon
     DEF Travailleur

(* A step that is no step keeps the types too.                             *)
LEMMA TypeConserve == TypeOK /\ [Next]_vars => TypeOK'
<1>1. TypeOK /\ UNCHANGED vars => TypeOK'
  BY TypesInchanges DEF TypeOK, vars
<1>2. QED
  BY <1>1, TypePasSysteme, TypePasDispatcheur, TypePasPrincipal,
     TypePasUtilisateur, TypePasTravailleur DEF Next

-----------------------------------------------------------------------------
(* A step leaves the backup threads where they are, or is one of theirs.   *)
LEMMA PasSurTrav ==
    ASSUME TypeOK, [Next]_vars
    PROVE  SeulArret \/ \E w \in Travailleurs : Travailleur(w)
<1>0. TypeTravailleurs
  BY DEF TypeOK
<1>1. CASE UNCHANGED travVars
  BY <1>0, <1>1 DEF travVars, SeulArret, TypeTravailleurs, EtatTrav
<1>2. CASE Systeme
  <2>1. UNCHANGED travVars
    BY <1>2 DEF Systeme, Brancher, Debrancher, Temps
  <2>2. QED
    BY <1>1, <2>1, Zenon
<1>3. CASE DispArreter
  BY <1>0, <1>3, ArreterSeulArret DEF DispArreter
<1>4. CASE Dispatcheur /\ ~DispArreter
  <2>1. UNCHANGED travVars
    BY <1>4 DEF Dispatcheur, DispIgnorer, DispEnregistrer, DispPlanifier,
                DispJournaliser, DispJournalise, DispDemonter,
                DispArreterSaute, DispArreterException, DispRetirer,
                DispDeplanifier, DispDesenregistrer
  <2>2. QED
    BY <1>1, <2>1, Zenon
<1>5. CASE SupprArreter
  BY <1>0, <1>5, ArreterSeulArret DEF SupprArreter
<1>6. CASE Principal /\ ~SupprArreter
  <2>1. UNCHANGED travVars
    BY <1>6 DEF Principal, DetectionInitiale, OrdAppel, OrdDebut, OrdLancer,
                OrdSauter, OrdFin, SauvegarderALaDate, SupprRetirer,
                SupprArreterSaute, SupprArreterException, SupprDeplanifier
  <2>2. QED
    BY <1>1, <2>1, Zenon
<1>7. ASSUME NEW w \in Travailleurs, StopTache(w) PROVE SeulArret
  BY <1>0, <1>7 DEF StopTache, SeulArret, EtatTrav, TypeTravailleurs
<1>8. CASE \E id \in Ids : Sauvegarder(id) \/ SupprDesenregistrer(id)
  <2>1. UNCHANGED travVars
    BY <1>8 DEF Sauvegarder, SupprDesenregistrer
  <2>2. QED
    BY <1>1, <2>1, Zenon
<1>9. CASE Utilisateur
  BY <1>7, <1>8, <1>9, Zenon DEF Utilisateur
<1>10. CASE UNCHANGED vars
  BY <1>1, <1>10 DEF vars
<1>11. QED
  BY <1>2, <1>3, <1>4, <1>5, <1>6, <1>9, <1>10, Zenon DEF Next

(* The lock of a key: taken by a thread that was waiting, given back by    *)
(* the thread that owns it, at the end of its section.                     *)
LEMMA RessourceConservee ==
    TypeOK /\ RessourceFidele /\ [Next]_vars => RessourceFidele'
<1> SUFFICES ASSUME TypeOK, RessourceFidele, [Next]_vars
             PROVE  RessourceFidele'
  OBVIOUS
<1>1. /\ TypeTravailleurs
      /\ ressource \in [Ids -> Travailleurs \cup {Personne}]
      /\ Personne \notin Travailleurs
      /\ \A w \in Travailleurs :
            trav[w].pc # "libre" => trav[w].cle \in Cles /\ trav[w].cle.id \in Ids
  BY MoteurAssumption DEF TypeOK, TypeTravailleurs, Cles
<1>2. CASE SeulArret
  BY <1>1, <1>2 DEF RessourceFidele, SeulArret, EnSection
<1>3. ASSUME NEW w \in Travailleurs, NEW de, NEW vers, SeulPc(w, de, vers),
             de \in {"verifier", "deplanifier", "planifier"}
                => vers \in {"deplanifier", "planifier", "rendre"},
             de \in {"prise", "verifier", "deplanifier", "planifier"},
             de = "prise" => vers = "attente",
             UNCHANGED ressource
      PROVE  RessourceFidele'
  BY <1>1, <1>3 DEF RessourceFidele, SeulPc, EnSection
<1>4. ASSUME NEW w \in Travailleurs, Travailleur(w) PROVE RessourceFidele'
  <2>1. CASE Prendre(w)
    <3>1. \E c, r : trav' = [trav EXCEPT ![w] =
             [pc |-> "prise", cle |-> c, aReplanifier |-> r,
              interrompre |-> FALSE, fin |-> 0]]
      BY <2>1 DEF Prendre
    <3>2. QED
      BY <1>1, <2>1, <3>1
         DEF Prendre, RessourceFidele, EnSection, TypeTravailleurs
  <2>2. CASE Lancer(w)
    <3>1. SeulPc(w, "prise", "attente")
      BY <1>1, <2>2, AvancerSeulPc DEF Lancer, PcTrav
    <3>2. QED
      BY <1>3, <2>2, <3>1 DEF Lancer
  <2>3. CASE PrendreRessource(w)
    <3>1. SeulPc(w, "attente", "sauvegarde")
      BY <1>1, <2>3, AvancerSeulPc DEF PrendreRessource, PcTrav
    <3>2. trav[w].cle.id \in Ids
      BY <1>1, <3>1 DEF SeulPc
    <3>3. QED
      BY <1>1, <2>3, <3>1, <3>2
         DEF PrendreRessource, RessourceFidele, EnSection, SeulPc
  <2>4. CASE RenoncerRessource(w)
    <3>1. SeulPc(w, "attente", "sauvegarde")
      BY <1>1, <2>4, AvancerSeulPc DEF RenoncerRessource, PcTrav
    <3>2. trav'[w].interrompre /\ ressource' = ressource
      BY <2>4, <3>1 DEF RenoncerRessource, SeulPc
    <3>3. \A id \in Ids : ressource[id] # w
      BY <1>1, <3>1 DEF RessourceFidele, EnSection, SeulPc
    <3>4. QED
      BY <1>1, <3>1, <3>2, <3>3 DEF RessourceFidele, EnSection, SeulPc
  <2>5. CASE FinSauvegarde(w)
    <3>1. /\ trav[w].pc = "sauvegarde"
          /\ trav'[w].pc \in {"verifier", "rendre"}
          /\ trav'[w].cle = trav[w].cle
          /\ trav'[w].interrompre = trav[w].interrompre
          /\ \A v \in Travailleurs : v # w => trav'[v] = trav[v]
          /\ ressource' = ressource
      BY <1>1, <2>5 DEF FinSauvegarde, TypeTravailleurs
    <3>2. QED
      BY <1>1, <3>1 DEF RessourceFidele, EnSection
  <2>6. CASE Verifier(w)
    <3>1. \E vers \in {"deplanifier", "rendre"} : SeulPc(w, "verifier", vers)
      BY <1>1, <2>6, AvancerSeulPc DEF Verifier, PcTrav
    <3>2. QED
      BY <1>3, <2>6, <3>1 DEF Verifier
  <2>7. CASE Deplanifier(w)
    <3>1. SeulPc(w, "deplanifier", "planifier")
      BY <1>1, <2>7, AvancerSeulPc DEF Deplanifier, PcTrav
    <3>2. QED
      BY <1>3, <2>7, <3>1 DEF Deplanifier
  <2>8. CASE Replanifier(w)
    <3>1. SeulPc(w, "planifier", "rendre")
      BY <1>1, <2>8, AvancerSeulPc DEF Replanifier, PcTrav
    <3>2. QED
      BY <1>3, <2>8, <3>1 DEF Replanifier
  <2>9. CASE Rendre(w)
    <3>1. SeulPc(w, "rendre", "retirer")
      BY <1>1, <2>9, AvancerSeulPc DEF Rendre, PcTrav
    <3>2. \A id \in Ids : ressource'[id] =
             IF id = trav[w].cle.id /\ ressource[id] = w THEN Personne
             ELSE ressource[id]
      BY <2>9 DEF Rendre
    <3>3. QED
      BY <1>1, <3>1, <3>2 DEF RessourceFidele, EnSection, SeulPc
  <2>10. CASE Retirer(w)
    <3>1. /\ trav[w].pc = "retirer"
          /\ trav'[w].pc = "libre"
          /\ \A v \in Travailleurs : v # w => trav'[v] = trav[v]
          /\ ressource' = ressource
      BY <1>1, <2>10 DEF Retirer, TravailleurLibre, TypeTravailleurs
    <3>2. QED
      BY <1>1, <3>1 DEF RessourceFidele, EnSection
  <2>11. QED
    BY <1>4, <2>1, <2>2, <2>3, <2>4, <2>5, <2>6, <2>7, <2>8, <2>9, <2>10,
       Zenon DEF Travailleur
<1>5. QED
  BY <1>2, <1>4, PasSurTrav

(* The flag: set by a thread that begins to wait, cleared by the thread    *)
(* whose backup ends.                                                      *)
LEMMA DrapeauConserve ==
    TypeOK /\ DrapeauJamaisOublie /\ [Next]_vars => DrapeauJamaisOublie'
<1> SUFFICES ASSUME TypeOK, DrapeauJamaisOublie, [Next]_vars
             PROVE  DrapeauJamaisOublie'
  OBVIOUS
<1>1. TypeTravailleurs
  BY DEF TypeOK
<1>2. CASE SeulArret
  BY <1>2 DEF DrapeauJamaisOublie, SeulArret
<1>3. ASSUME NEW w \in Travailleurs, Travailleur(w)
      PROVE  DrapeauJamaisOublie'
  <2>1. CASE Lancer(w)
    <3>1. SeulPc(w, "prise", "attente")
      BY <1>1, <2>1, AvancerSeulPc DEF Lancer, PcTrav
    <3>2. sauvegardeEnCours' = sauvegardeEnCours \cup {trav[w].cle}
      BY <2>1 DEF Lancer
    <3>3. QED
      BY <3>1, <3>2 DEF DrapeauJamaisOublie, SeulPc
  <2>2. CASE PrendreRessource(w) \/ RenoncerRessource(w)
    <3>1. SeulPc(w, "attente", "sauvegarde")
      BY <1>1, <2>2, AvancerSeulPc
         DEF PrendreRessource, RenoncerRessource, PcTrav
    <3>2. sauvegardeEnCours' = sauvegardeEnCours
      BY <2>2 DEF PrendreRessource, RenoncerRessource
    <3>3. QED
      BY <3>1, <3>2 DEF DrapeauJamaisOublie, SeulPc
  <2>3. CASE FinSauvegarde(w)
    <3>1. /\ sauvegardeEnCours' = sauvegardeEnCours \ {trav[w].cle}
          /\ \A v \in Travailleurs : v # w => trav'[v] = trav[v]
      BY <1>1, <2>3 DEF FinSauvegarde, TypeTravailleurs
    <3>2. QED
      BY <3>1 DEF DrapeauJamaisOublie
  <2>4. ASSUME trav[w].pc \notin {"attente", "sauvegarde"},
               sauvegardeEnCours' = sauvegardeEnCours,
               \A v \in Travailleurs : v # w => trav'[v] = trav[v]
        PROVE  DrapeauJamaisOublie'
    BY <2>4 DEF DrapeauJamaisOublie
  <2>5. CASE Prendre(w)
    BY <1>1, <2>4, <2>5 DEF Prendre, TypeTravailleurs
  <2>6. CASE Verifier(w)
    BY <1>1, <2>4, <2>6 DEF Verifier, TravAvancer, TypeTravailleurs
  <2>7. CASE Deplanifier(w) \/ Replanifier(w)
    BY <1>1, <2>4, <2>7
       DEF Deplanifier, Replanifier, TravAvancer, TypeTravailleurs
  <2>8. CASE Rendre(w)
    BY <1>1, <2>4, <2>8 DEF Rendre, TravAvancer, TypeTravailleurs
  <2>9. CASE Retirer(w)
    BY <1>1, <2>4, <2>9 DEF Retirer, TypeTravailleurs
  <2>10. QED
    BY <1>3, <2>1, <2>2, <2>3, <2>5, <2>6, <2>7, <2>8, <2>9, Zenon
       DEF Travailleur
<1>4. QED
  BY <1>2, <1>3, PasSurTrav

-----------------------------------------------------------------------------
(* A step leaves the planning, plans an entry, removes a key or launches   *)
(* one entry.                                                              *)
LEMMA PasSurPlan ==
    ASSUME TypeOK, [Next]_vars
    PROVE  \/ planif' = planif
           \/ \E e \in Entrees : Planifier(e)
           \/ \E id \in Ids : DeplanifierCle(id)
           \/ \E n \in DOMAIN planif : planif' = RemoveAt(planif, n)
<1> DEFINE But == \/ planif' = planif
                  \/ \E e \in Entrees : Planifier(e)
                  \/ \E id \in Ids : DeplanifierCle(id)
                  \/ \E n \in DOMAIN planif : planif' = RemoveAt(planif, n)
<1>1. CASE Systeme \/ Utilisateur \/ UNCHANGED vars
  BY <1>1 DEF Systeme, Brancher, Debrancher, Temps, Horloge, Utilisateur,
              Sauvegarder, SupprDesenregistrer, StopTache, planVars, vars
<1>2. CASE DispPlanifier
  <2>1. dispatcheur.cle \in Cles /\ dispatcheur.cle.id \in Ids
    BY <1>2 DEF DispPlanifier, TypeOK, TypeDispatcheur, Cles
  <2>2. PICK d \in DatesAuMontage(dispatcheur.cle.id) :
           Planifier(Entree(d, dispatcheur.cle, TRUE))
    BY <1>2 DEF DispPlanifier
  <2>3. Entree(d, dispatcheur.cle, TRUE) \in Entrees
    BY <2>1, DatesNaturelles DEF Entree, Entrees, TypeOK, TypePlan
  <2>4. QED
    BY <2>2, <2>3, Zenon
<1>3. CASE DispDeplanifier
  <2>1. dispatcheur.cle.id \in Ids /\ DeplanifierCle(dispatcheur.cle.id)
    BY <1>3 DEF DispDeplanifier, DispAvancer, TypeOK, TypeDispatcheur, Cles
  <2>2. QED
    BY <2>1, Zenon
<1>4. CASE Dispatcheur /\ ~DispPlanifier /\ ~DispDeplanifier
  <2>1. planif' = planif
    BY <1>4 DEF Dispatcheur, DispIgnorer, DispEnregistrer, DispJournaliser,
                DispJournalise, DispDemonter, DispArreter, DispArreterSaute,
                DispArreterException, DispRetirer, DispDesenregistrer,
                PlanifierSansDate, MessagePris, planVars
  <2>2. QED
    BY <2>1, Zenon
<1>5. CASE OrdLancer
  BY <1>5 DEF OrdLancer, OrdonnancerLancer
<1>6. ASSUME NEW d \in 0 .. MaxTemps, SauvegarderALaDate(d)
      PROVE  But
  <2>1. principal.cle \in Cles /\ d \in Nat
    BY <1>6, MoteurAssumption
       DEF SauvegarderALaDate, MainAvance, MoniteurLibre, TypeOK,
           TypePrincipal
  <2>2. Entree(d, principal.cle, FALSE) \in Entrees
    BY <2>1 DEF Entree, Entrees
  <2>3. Planifier(Entree(d, principal.cle, FALSE))
    BY <1>6 DEF SauvegarderALaDate
  <2>4. QED
    BY <2>2, <2>3, Zenon
<1>7. CASE SupprDeplanifier
  <2>1. principal.cle.id \in Ids /\ DeplanifierCle(principal.cle.id)
    BY <1>7 DEF SupprDeplanifier, MainAvance, MoniteurLibre, TypeOK,
                TypePrincipal, Cles
  <2>2. QED
    BY <2>1, Zenon
<1>8. CASE DetectionInitiale \/ OrdAppel \/ OrdDebut \/ OrdSauter \/ OrdFin
  BY <1>8 DEF DetectionInitiale, OrdAppel, OrdDebut, OrdSauter, OrdFin,
              OrdonnancerDebut, OrdonnancerSauter, OrdonnancerFin, planVars
<1>9. CASE \/ SupprRetirer \/ SupprArreter \/ SupprArreterSaute
           \/ SupprArreterException
  BY <1>9 DEF SupprRetirer, SupprArreter, SupprArreterSaute,
              SupprArreterException, planVars
<1>10. ASSUME NEW w \in Travailleurs, Travailleur(w)
       PROVE  But
  <2>1. CASE Deplanifier(w)
    <3>1. trav[w].cle.id \in Ids /\ DeplanifierCle(trav[w].cle.id)
      BY <2>1 DEF Deplanifier, TravAvancer, TypeOK, TypeTravailleurs, Cles
    <3>2. QED
      BY <3>1, Zenon
  <2>2. CASE Replanifier(w)
    <3>1. PICK d \in trav[w].fin .. maintenant :
             Planifier(Entree(d + Intervalle, trav[w].cle, TRUE))
      BY <2>2 DEF Replanifier
    <3>2. /\ trav[w].fin \in Nat /\ maintenant \in Nat
          /\ trav[w].cle \in Cles
      BY <2>2 DEF Replanifier, TravAvancer, TypeOK, TypePlan,
                  TypeTravailleurs
    <3>3. d + Intervalle \in Nat
      BY <3>2, MoteurAssumption
    <3>4. Entree(d + Intervalle, trav[w].cle, TRUE) \in Entrees
      BY <3>2, <3>3 DEF Entree, Entrees
    <3>5. QED
      BY <3>1, <3>4, Zenon
  <2>3. CASE ~Deplanifier(w) /\ ~Replanifier(w)
    <3>1. planif' = planif
      BY <1>10, <2>3
         DEF Travailleur, Prendre, Lancer, PrendreRessource,
             RenoncerRessource, FinSauvegarde, Verifier, Rendre, Retirer,
             planVars
    <3>2. QED
      BY <3>1, Zenon
  <2>4. QED
    BY <2>1, <2>2, <2>3, Zenon
<1>11. CASE Principal
  BY <1>5, <1>6, <1>7, <1>8, <1>9, <1>11, Zenon DEF Principal
<1>12. QED
  BY <1>1, <1>2, <1>3, <1>4, <1>10, <1>11, Zenon DEF Next

(* The order of the planning.                                              *)
LEMMA PlanConserve ==
    TypeOK /\ PlanTriee /\ [Next]_vars => PlanTriee'
<1> SUFFICES ASSUME TypeOK, PlanTriee, [Next]_vars PROVE PlanTriee'
  OBVIOUS
<1>1. planif \in Seq(Entrees) /\ Triee(planif)
  BY DEF TypeOK, TypePlan, Entrees, PlanTriee, Triee
<1>2. Dates(Entrees)
  BY DEF Dates, Entrees
<1>3. ASSUME planif' = planif PROVE Triee(planif')
  BY <1>1, <1>3
<1>4. ASSUME NEW e \in Entrees, Planifier(e) PROVE Triee(planif')
  BY <1>1, <1>2, <1>4, InsererTriee DEF Planifier
<1>5. ASSUME NEW id \in Ids, DeplanifierCle(id) PROVE Triee(planif')
  BY <1>1, <1>2, <1>5, SansCleTriee DEF DeplanifierCle
<1>6. ASSUME NEW n \in DOMAIN planif, planif' = RemoveAt(planif, n)
      PROVE  Triee(planif')
  BY <1>1, <1>2, <1>6, RetirerTriee
<1>7. Triee(planif')
  BY <1>3, <1>4, <1>5, <1>6, PasSurPlan, Zenon
<1>8. QED
  BY <1>7 DEF Triee, PlanTriee
-----------------------------------------------------------------------------
(* Where the next backup of a key goes, an operation at a time.            *)

(* What does not change keeps what it holds.                               *)
LEMMA SuiviInchange ==
    ASSUME NEW id \in Ids
    PROVE  /\ planif' = planif /\ EnPlan(id) => EnPlan(id)'
           /\ laFile' = laFile /\ EnFile(id) => EnFile(id)'
           /\ trav' = trav /\ EnCours(id) => EnCours(id)'
           /\ SeulArret /\ EnCours(id) => EnCours(id)'
  BY DEF EnPlan, EnFile, EnCours, SeulArret

(* planifier adds an entry and loses none.                                 *)
LEMMA SuiviPlanifier ==
    ASSUME TypeOK, NEW id \in Ids, NEW e \in Entrees, Planifier(e)
    PROVE  /\ EnPlan(id) => EnPlan(id)'
           /\ e.cle.id = id /\ e.aReplanifier => EnPlan(id)'
<1> DEFINE r == Rang(planif, e)
           n == Len(planif)
<1>1. planif \in Seq(Entrees) /\ n \in Nat /\ DOMAIN planif = 1 .. n
  BY DEF TypeOK, TypePlan, Entrees
<1>2. r \in 1 .. n + 1
  BY <1>1, RangDansLaListe
<1> HIDE DEF r
<1>3. /\ planif' = InsertAt(planif, r, e)
      /\ Len(planif') = n + 1 /\ DOMAIN planif' = 1 .. n + 1
      /\ \A k \in 1 .. n + 1 : planif'[k] =
           IF k < r THEN planif[k] ELSE IF k = r THEN e ELSE planif[k - 1]
  BY <1>1, <1>2, InsererA DEF Planifier, r
<1> HIDE DEF n
<1>4. \A k \in 1 .. n : \E m \in 1 .. n + 1 : planif'[m] = planif[k]
  <2> SUFFICES ASSUME NEW k \in 1 .. n
               PROVE  \E m \in 1 .. n + 1 : planif'[m] = planif[k]
    OBVIOUS
  <2>1. CASE k < r
    <3>1. k \in 1 .. n + 1 /\ planif'[k] = planif[k]
      BY <1>1, <1>2, <1>3, <2>1
    <3>2. QED
      BY <3>1, Zenon
  <2>2. CASE r <= k
    <3>1. k + 1 \in 1 .. n + 1 /\ planif'[k + 1] = planif[k]
      BY <1>1, <1>2, <1>3, <2>2
    <3>2. QED
      BY <3>1, Zenon
  <2>3. k < r \/ r <= k
    BY <1>1, <1>2
  <2>4. QED
    BY <2>1, <2>2, <2>3, Zenon
<1>5. planif'[r] = e
  BY <1>2, <1>3
<1>6. EnPlan(id) => EnPlan(id)'
  <2>1. ASSUME NEW k \in 1 .. n, planif[k].cle.id = id, planif[k].aReplanifier
        PROVE  EnPlan(id)'
    BY <1>3, <1>4, <2>1 DEF EnPlan
  <2>2. QED
    BY <1>1, <2>1 DEF EnPlan
<1>7. e.cle.id = id /\ e.aReplanifier => EnPlan(id)'
  BY <1>2, <1>3, <1>5, Zenon DEF EnPlan
<1>8. QED
  BY <1>6, <1>7

(* deplanifierCle keeps the entries of the other keys.                     *)
LEMMA SuiviDeplanifier ==
    ASSUME TypeOK, NEW id \in Ids, NEW autre, autre # id,
           DeplanifierCle(autre), EnPlan(id)
    PROVE  EnPlan(id)'
<1>1. planif \in Seq(Entrees)
  BY DEF TypeOK, TypePlan, Entrees
<1>2. PICK n \in DOMAIN planif :
         planif[n].cle.id = id /\ planif[n].aReplanifier
  BY DEF EnPlan
<1>3. \E k \in DOMAIN SansCle(planif, autre) :
         SansCle(planif, autre)[k] = planif[n]
  BY <1>1, <1>2, SansCleContenu
<1>4. QED
  BY <1>2, <1>3 DEF EnPlan, DeplanifierCle

(* What the scheduler takes from the planning it gives to the file.        *)
LEMMA SuiviLancer ==
    ASSUME TypeOK, NEW id \in Ids, OrdLancer
    PROVE  /\ EnPlan(id) => EnPlan(id)' \/ EnFile(id)'
           /\ EnFile(id) => EnFile(id)'
<1>1. PICK n \in DOMAIN planif :
         /\ OrdonnancerLancer(planif[n])
         /\ n = passe
         /\ InWithLock(Tache(planif[n].cle, planif[n].aReplanifier))
  BY DEF OrdLancer
<1> DEFINE t == Tache(planif[n].cle, planif[n].aReplanifier)
           l == Len(planif)
           f == Len(laFile)
<1>2. /\ planif \in Seq(Entrees) /\ laFile \in Seq(Taches)
      /\ n \in 1 .. l /\ DOMAIN planif = 1 .. l /\ l \in Nat
      /\ DOMAIN laFile = 1 .. f /\ f \in Nat
  BY DEF TypeOK, TypePlan, TypeFile, Entrees
<1>3. /\ Len(planif') = l - 1 /\ DOMAIN planif' = 1 .. l - 1
      /\ \A k \in 1 .. l - 1 :
            planif'[k] = IF k < n THEN planif[k] ELSE planif[k + 1]
  <2> DEFINE s == RemoveAt(planif, n)
  <2>1. planif' = s
    BY <1>1 DEF OrdonnancerLancer
  <2>2. /\ s \in Seq(Entrees) /\ Len(s) = l - 1
        /\ \A k \in 1 .. l - 1 :
              s[k] = IF k < n THEN planif[k] ELSE planif[k + 1]
    BY <1>2, RetirerA
  <2> HIDE DEF s, l
  <2>3. QED
    BY <2>1, <2>2
<1>4. t \in Taches
  <2>1. planif[n] \in Entrees
    BY <1>2, ElementOfSeq
  <2>2. QED
    BY <2>1 DEF Tache, Taches, Entrees
<1>5. /\ DOMAIN laFile' = 1 .. f + 1
      /\ \A k \in 1 .. f : laFile'[k] = laFile[k]
      /\ laFile'[f + 1] = t
  <2> HIDE DEF t
  <2>1. laFile' = Append(laFile, t)
    BY <1>1 DEF InWithLock, t
  <2>2. QED
    BY <1>2, <1>4, <2>1, AppendProperties
<1> HIDE DEF l, f
<1>6. EnFile(id) => EnFile(id)'
  <2>1. \A k \in 1 .. f : k \in 1 .. f + 1
    BY <1>2
  <2>2. QED
    BY <1>2, <1>5, <2>1, Zenon DEF EnFile
<1>7. ASSUME NEW k \in 1 .. l, planif[k].cle.id = id, planif[k].aReplanifier
      PROVE  EnPlan(id)' \/ EnFile(id)'
  <2>1. CASE k = n
    <3>1. t.cle.id = id /\ t.aReplanifier
      BY <1>7, <2>1 DEF Tache
    <3>2. f + 1 \in 1 .. f + 1
      BY <1>2
    <3>3. QED
      BY <1>5, <3>1, <3>2 DEF EnFile
  <2>2. CASE k < n
    <3>1. k \in 1 .. l - 1 /\ planif'[k] = planif[k]
      BY <1>2, <1>3, <2>2
    <3>2. QED
      BY <1>3, <1>7, <3>1 DEF EnPlan
  <2>3. CASE n < k
    <3>1. k - 1 \in 1 .. l - 1 /\ planif'[k - 1] = planif[k]
      BY <1>2, <1>3, <2>3
    <3>2. QED
      BY <1>3, <1>7, <3>1 DEF EnPlan
  <2>4. k = n \/ k < n \/ n < k
    BY <1>2
  <2>5. QED
    BY <2>1, <2>2, <2>3, <2>4, Zenon
<1>8. EnPlan(id) => EnPlan(id)' \/ EnFile(id)'
  BY <1>2, <1>7, Zenon DEF EnPlan
<1>9. QED
  BY <1>6, <1>8

(* The removal of a waiting task of a key keeps those of the others.       *)
LEMMA SuiviRetirerDeLaFile ==
    ASSUME TypeOK, NEW id \in Ids, NEW c, c.id # id, RetirerDeLaFile(c),
           EnFile(id)
    PROVE  EnFile(id)'
<1>1. PICK n \in DOMAIN laFile :
         laFile[n].cle.id = id /\ laFile[n].aReplanifier
  BY DEF EnFile
<1>2. laFile[n].cle # c
  BY <1>1
<1>3. \E m \in DOMAIN laFile' : laFile'[m] = laFile[n]
  BY <1>2, TypeRetirerDeLaFile DEF TypeOK
<1>4. QED
  BY <1>1, <1>3 DEF EnFile

(* A backup thread takes what it takes from the file.                      *)
LEMMA SuiviPrendre ==
    ASSUME TypeOK, NEW id \in Ids, NEW w \in Travailleurs, Prendre(w)
    PROVE  /\ EnFile(id) => EnFile(id)' \/ EnCours(id)'
           /\ EnCours(id) => EnCours(id)'
<1>1. /\ trav[w].pc = "libre"
      /\ laFile # <<>> /\ laFile' = Tail(laFile)
      /\ trav' = [trav EXCEPT ![w] =
                    [pc |-> "prise", cle |-> laFile[1].cle,
                     aReplanifier |-> laFile[1].aReplanifier,
                     interrompre |-> FALSE, fin |-> 0]]
  BY DEF Prendre, OutWithLock
<1>2. /\ trav'[w] = [pc |-> "prise", cle |-> laFile[1].cle,
                     aReplanifier |-> laFile[1].aReplanifier,
                     interrompre |-> FALSE, fin |-> 0]
      /\ \A v \in Travailleurs : v # w => trav'[v] = trav[v]
  BY <1>1 DEF TypeOK, TypeTravailleurs
<1>3. EnCours(id) => EnCours(id)'
  BY <1>1, <1>2 DEF EnCours
<1>4. ASSUME NEW n \in DOMAIN laFile, laFile[n].cle.id = id,
             laFile[n].aReplanifier
      PROVE  EnFile(id)' \/ EnCours(id)'
  <2>1. laFile \in Seq(Taches) /\ n \in 1 .. Len(laFile)
    BY DEF TypeOK, TypeFile
  <2>2. CASE n = 1
    BY <1>2, <1>4, <2>2 DEF EnCours
  <2>3. CASE n # 1
    <3>1. n - 1 \in DOMAIN laFile' /\ laFile'[n - 1] = laFile[n]
      BY <1>1, <2>1, <2>3, HeadTailProperties
    <3>2. QED
      BY <1>4, <3>1, Zenon DEF EnFile
  <2>4. QED
    BY <2>2, <2>3
<1>5. QED
  BY <1>3, <1>4, Zenon DEF EnFile
-----------------------------------------------------------------------------
(* The facts CleJamaisOubliee rests on. While the button that forgets  *)
(* a key is at work it keeps the monitor: nobody registers the key again.  *)
SupprSansCle ==
    principal.pc \in {"retirer", "arreter", "deplanifier"} =>
        montees[principal.cle.id] = Aucune

(* The dictionary gives for an idCle a key with this idCle.                *)
MonteesFideles ==
    \A id \in Ids : montees[id] # Aucune => montees[id].id = id

(* A thread that replans was told to.                                      *)
ReplanifieDemande ==
    \A w \in Travailleurs :
        trav[w].pc \in {"verifier", "deplanifier", "planifier"} =>
            trav[w].aReplanifier

(* The monitor protects the first one.                                     *)
LEMMA SupprConserve ==
    TypeOK /\ SupprSansCle /\ MonteesFideles /\ [Next]_vars => SupprSansCle'
<1> SUFFICES ASSUME TypeOK, SupprSansCle, MonteesFideles, [Next]_vars
             PROVE  SupprSansCle'
  OBVIOUS
<1> USE DEF SupprSansCle
<1>0. montees \in [Ids -> Cles \cup {Aucune}]
  BY DEF TypeOK, TypeDispatcheur
<1>1. CASE UNCHANGED <<principal, montees>>
  BY <1>1
<1>2. CASE Systeme \/ (\E w \in Travailleurs : Travailleur(w)) \/ UNCHANGED vars
  <2>1. UNCHANGED <<principal, montees>>
    BY <1>2
       DEF Systeme, Brancher, Debrancher, Temps, Travailleur, Prendre, Lancer,
           PrendreRessource, RenoncerRessource, FinSauvegarde, Verifier,
           Deplanifier, Replanifier, Rendre, Retirer, vars, mainVars, dispVars
  <2>2. QED
    BY <1>1, <2>1
<1>3. CASE Dispatcheur
  <2>1. CASE UNCHANGED montees
    <3>1. principal' = principal
      BY <1>3
         DEF Dispatcheur, DispIgnorer, DispEnregistrer, DispPlanifier,
             DispJournaliser, DispJournalise, DispDemonter, DispAvancer,
             DispArreter, DispArreterSaute, DispArreterException, DispRetirer,
             DispDeplanifier, DispDesenregistrer, mainVars
    <3>2. QED
      BY <1>1, <2>1, <3>1
  <2>2. CASE ~UNCHANGED montees
    <3>1. MoniteurLibre /\ principal' = principal
      BY <1>3, <2>2
         DEF Dispatcheur, DispIgnorer, DispEnregistrer, DispPlanifier,
             DispJournaliser, DispJournalise, DispDemonter, DispAvancer,
             DispArreter, DispArreterSaute, DispArreterException, DispRetirer,
             DispDeplanifier, DispDesenregistrer, mainVars
    <3>2. QED
      BY <3>1 DEF MoniteurLibre
  <2>3. QED
    BY <2>1, <2>2
<1>4. CASE Principal
  <2>1. montees' = montees
    BY <1>4
       DEF Principal, DetectionInitiale, OrdAppel, OrdDebut, OrdLancer,
           OrdSauter, OrdFin, SauvegarderALaDate, SupprRetirer, SupprArreter,
           SupprArreterSaute, SupprArreterException, SupprDeplanifier,
           dispVars
  <2>2. CASE SupprRetirer \/ SupprArreter \/ SupprArreterSaute
    BY <2>1, <2>2
       DEF SupprRetirer, SupprArreter, SupprArreterSaute, MainAvance, TypeOK,
           TypePrincipal
  <2>3. CASE OrdDebut \/ OrdLancer \/ OrdSauter
    BY <1>1, <2>1, <2>3 DEF OrdDebut, OrdLancer, OrdSauter, mainVars
  <2>4. CASE \/ DetectionInitiale \/ OrdAppel \/ OrdFin
             \/ SupprArreterException \/ SupprDeplanifier
             \/ \E d \in 0 .. MaxTemps : SauvegarderALaDate(d)
    <3>1. \/ principal' = Inactif
          \/ principal' = [pc |-> "ordonnancer", cle |-> Aucune]
      BY <2>4
         DEF DetectionInitiale, OrdAppel, OrdFin, SupprArreterException,
             SupprDeplanifier, SauvegarderALaDate, MainEntre, MainAvance
    <3>2. principal'.pc \in {"repos", "ordonnancer"}
      BY <3>1 DEF Inactif
    <3>3. QED
      BY <3>2
  <2>5. QED
    BY <1>4, <2>2, <2>3, <2>4 DEF Principal
<1>5. ASSUME NEW id \in Ids, SupprDesenregistrer(id) PROVE SupprSansCle'
  <2>1. montees[id].id = id
    BY <1>5 DEF SupprDesenregistrer, MonteesFideles
  <2>2. QED
    BY <1>0, <1>5, <2>1 DEF SupprDesenregistrer, MainEntre
<1>6. ASSUME NEW id \in Ids, Sauvegarder(id) PROVE SupprSansCle'
  BY <1>6 DEF Sauvegarder, MainEntre
<1>7. ASSUME NEW w \in Travailleurs, StopTache(w) PROVE SupprSansCle'
  BY <1>1, <1>7 DEF StopTache, dispVars
<1>8. QED
  BY <1>2, <1>3, <1>4, <1>5, <1>6, <1>7 DEF Next, Utilisateur

(* What writes the dictionary.                                             *)
LEMMA MonteesConservees ==
    TypeOK /\ MonteesFideles /\ [Next]_vars => MonteesFideles'
<1> SUFFICES ASSUME TypeOK, MonteesFideles, [Next]_vars
             PROVE  MonteesFideles'
  OBVIOUS
<1> USE DEF MonteesFideles
<1>0. montees \in [Ids -> Cles \cup {Aucune}]
  BY DEF TypeOK, TypeDispatcheur
<1>1. ASSUME NEW p \in Points, DispEnregistrer(p) PROVE MonteesFideles'
  <2>1. \E c : montees' = [montees EXCEPT ![c.id] = c]
    BY <1>1 DEF DispEnregistrer
  <2>2. QED
    BY <1>0, <2>1
<1>2. CASE DispDesenregistrer
  BY <1>0, <1>2 DEF DispDesenregistrer
<1>3. ASSUME NEW id \in Ids, SupprDesenregistrer(id) PROVE MonteesFideles'
  BY <1>0, <1>3 DEF SupprDesenregistrer
<1>4. CASE montees' = montees
  BY <1>4
<1>5. QED
  BY <1>1, <1>2, <1>3, <1>4
     DEF Next, Systeme, Brancher, Debrancher, Temps, Dispatcheur, DispIgnorer,
         DispPlanifier, DispJournaliser, DispJournalise, DispDemonter,
         DispAvancer, DispArreter, DispArreterSaute, DispArreterException,
         DispRetirer, DispDeplanifier, Principal, DetectionInitiale, OrdAppel,
         OrdDebut, OrdLancer, OrdSauter, OrdFin, SauvegarderALaDate,
         SupprRetirer, SupprArreter, SupprArreterSaute, SupprArreterException,
         SupprDeplanifier, Utilisateur, Sauvegarder, StopTache, Travailleur,
         Prendre, Lancer, PrendreRessource, RenoncerRessource, FinSauvegarde,
         Verifier, Deplanifier, Replanifier, Rendre, Retirer, vars, dispVars

(* A thread replans only what it was told to replan.                       *)
LEMMA DemandeConservee ==
    TypeOK /\ ReplanifieDemande /\ [Next]_vars => ReplanifieDemande'
<1> SUFFICES ASSUME TypeOK, ReplanifieDemande, [Next]_vars
             PROVE  ReplanifieDemande'
  OBVIOUS
<1> USE DEF ReplanifieDemande
<1>0. TypeTravailleurs
  BY DEF TypeOK
<1>1. CASE SeulArret
  BY <1>1 DEF SeulArret
<1>2. ASSUME NEW w \in Travailleurs, Travailleur(w) PROVE ReplanifieDemande'
  <2>1. ASSUME \A v \in Travailleurs : v # w => trav'[v] = trav[v],
               trav'[w].pc \in {"verifier", "deplanifier", "planifier"}
                  => trav'[w].aReplanifier
        PROVE  ReplanifieDemande'
    BY <2>1
  <2>2. CASE Prendre(w)
    BY <1>0, <2>1, <2>2 DEF Prendre, TypeTravailleurs
  <2>3. ASSUME NEW de, NEW vers, SeulPc(w, de, vers),
               vers \in {"verifier", "deplanifier", "planifier"}
                  => de \in {"verifier", "deplanifier", "planifier"}
        PROVE  ReplanifieDemande'
    BY <2>1, <2>3 DEF SeulPc
  <2>4. CASE Lancer(w)
    BY <1>0, <2>3, <2>4, AvancerSeulPc DEF Lancer, PcTrav
  <2>5. CASE PrendreRessource(w)
    BY <1>0, <2>3, <2>5, AvancerSeulPc DEF PrendreRessource, PcTrav
  <2>6. CASE RenoncerRessource(w)
    BY <1>0, <2>3, <2>6, AvancerSeulPc DEF RenoncerRessource, PcTrav
  <2>7. CASE FinSauvegarde(w)
    BY <1>0, <2>1, <2>7 DEF FinSauvegarde, TypeTravailleurs
  <2>8. CASE Verifier(w)
    BY <1>0, <2>3, <2>8, AvancerSeulPc DEF Verifier, PcTrav
  <2>9. CASE Deplanifier(w)
    BY <1>0, <2>3, <2>9, AvancerSeulPc DEF Deplanifier, PcTrav
  <2>10. CASE Replanifier(w)
    BY <1>0, <2>3, <2>10, AvancerSeulPc DEF Replanifier, PcTrav
  <2>11. CASE Rendre(w)
    BY <1>0, <2>3, <2>11, AvancerSeulPc DEF Rendre, PcTrav
  <2>12. CASE Retirer(w)
    BY <1>0, <2>1, <2>12 DEF Retirer, TravailleurLibre, TypeTravailleurs
  <2>13. QED
    BY <1>2, <2>2, <2>4, <2>5, <2>6, <2>7, <2>8, <2>9, <2>10, <2>11, <2>12,
       Zenon DEF Travailleur
<1>3. QED
  BY <1>1, <1>2, PasSurTrav
-----------------------------------------------------------------------------
(* No key is forgotten, one group of actions after the other.              *)
Suivie(id) == EnPlan(id) \/ EnFile(id) \/ EnCours(id) \/ ChezDispatcheur(id)

(* The dispatcher: only the unmount takes a key's entries and tasks away,  *)
(* and from then on it answers for the key.                                *)
LEMMA SuiviDispatcheur ==
    ASSUME TypeOK, Dispatcheur, NEW id \in Ids, Periodique(id),
           montees'[id] # Aucune, montees[id] # Aucune => Suivie(id)
    PROVE  Suivie(id)'
<1> USE DEF Suivie, ChezDispatcheur
<1>0. montees \in [Ids -> Cles \cup {Aucune}]
  BY DEF TypeOK, TypeDispatcheur
<1>1. CASE DispIgnorer
  BY <1>1, SuiviInchange DEF DispIgnorer, fileVars, planVars, travVars
<1>2. ASSUME NEW p \in Points, DispEnregistrer(p) PROVE Suivie(id)'
  <2> DEFINE c == Cle(p, nbCles')
  <2>1. CASE c.id = id
    BY <1>2, <2>1 DEF DispEnregistrer, Periodique
  <2>2. CASE c.id # id
    <3>1. montees'[id] = montees[id]
      BY <1>0, <1>2, <2>2 DEF DispEnregistrer
    <3>2. dispatcheur.pc = "repos"
      BY <1>2 DEF DispEnregistrer
    <3>3. UNCHANGED <<planif, laFile, trav>>
      BY <1>2 DEF DispEnregistrer, fileVars, planVars, travVars
    <3>4. QED
      BY <3>1, <3>2, <3>3, SuiviInchange
  <2>3. QED
    BY <2>1, <2>2
<1>3. CASE DispPlanifier
  <2>1. dispatcheur.cle \in Cles /\ dispatcheur.cle.id \in Ids
    BY <1>3 DEF DispPlanifier, TypeOK, TypeDispatcheur, Cles
  <2>2. PICK d \in DatesAuMontage(dispatcheur.cle.id) :
           Planifier(Entree(d, dispatcheur.cle, TRUE))
    BY <1>3 DEF DispPlanifier
  <2> DEFINE e == Entree(d, dispatcheur.cle, TRUE)
  <2>3. e \in Entrees /\ e.cle = dispatcheur.cle /\ e.aReplanifier
    BY <2>1, DatesNaturelles DEF Entree, Entrees, TypeOK, TypePlan
  <2> HIDE DEF e
  <2>4. Planifier(e)
    BY <2>2 DEF e
  <2>5. CASE dispatcheur.cle.id = id
    BY <2>3, <2>4, <2>5, SuiviPlanifier
  <2>6. CASE dispatcheur.cle.id # id
    <3>1. UNCHANGED <<laFile, trav, montees>>
      BY <1>3 DEF DispPlanifier, fileVars, travVars
    <3>2. QED
      BY <2>3, <2>4, <2>6, <3>1, SuiviPlanifier, SuiviInchange
  <2>7. QED
    BY <2>5, <2>6
<1>4. CASE DispJournaliser
  <2>1. dispatcheur.pc = "planifier" /\ DatesAuMontage(dispatcheur.cle.id) = {}
    BY <1>4 DEF DispJournaliser
  <2>2. dispatcheur.cle.id # id
    <3>1. DatesAuMontage(id) # {}
      <4>1. 0 \in DernSauv /\ Planning[id] = 2 /\ ActionInsersion[id] \in 1 .. 3
        BY MoteurAssumption DEF DernSauv, Periodique, TypeOK, TypePlan
      <4>2. QED
        BY <4>1 DEF DatesAuMontage
    <3>2. QED
      BY <2>1, <3>1
  <2>3. UNCHANGED <<planif, laFile, trav, montees>>
    BY <1>4 DEF DispJournaliser, PlanifierSansDate, fileVars, travVars
  <2>4. QED
    BY <2>2, <2>3, SuiviInchange
<1>5. CASE DispJournalise
  <2>1. dispatcheur.pc = "journal" /\ UNCHANGED <<planif, laFile, trav, montees>>
    BY <1>5 DEF DispJournalise, MessagePris, fileVars, travVars
  <2>2. QED
    BY <2>1, SuiviInchange
<1>6. ASSUME NEW autre \in Ids, DispDemonter(autre) PROVE Suivie(id)'
  <2>1. dispatcheur.pc = "repos" /\ UNCHANGED <<planif, laFile, trav, montees>>
    BY <1>6 DEF DispDemonter, fileVars, planVars, travVars
  <2>2. QED
    BY <2>1, SuiviInchange
<1>7. CASE DispArreter
  <2>1. SeulArret
    BY <1>7, ArreterSeulArret DEF DispArreter, TypeOK
  <2>2. dispatcheur.pc = "arreter" /\ UNCHANGED <<planif, laFile, montees>>
    BY <1>7 DEF DispArreter, DispAvancer, fileVars, planVars
  <2>3. QED
    BY <2>1, <2>2, SuiviInchange
<1>8. CASE DispArreterSaute \/ DispArreterException
  <2>1. /\ dispatcheur.pc = "arreter"
        /\ UNCHANGED <<planif, laFile, trav, montees>>
    BY <1>8 DEF DispArreterSaute, DispArreterException, DispAvancer, fileVars,
                planVars, travVars
  <2>2. QED
    BY <2>1, SuiviInchange
<1>9. CASE DispRetirer
  <2>1. /\ dispatcheur.pc = "retirer"
        /\ dispatcheur' = [dispatcheur EXCEPT !.pc = "deplanifier"]
        /\ RetirerDeLaFile(dispatcheur.cle)
        /\ UNCHANGED <<planif, trav, montees>>
    BY <1>9 DEF DispRetirer, DispAvancer, planVars, travVars
  <2>2. CASE dispatcheur.cle.id = id
    BY <2>1, <2>2 DEF TypeOK, TypeDispatcheur
  <2>3. CASE dispatcheur.cle.id # id
    BY <2>1, <2>3, SuiviInchange, SuiviRetirerDeLaFile
  <2>4. QED
    BY <2>2, <2>3
<1>10. CASE DispDeplanifier
  <2>1. /\ dispatcheur.pc = "deplanifier"
        /\ dispatcheur' = [dispatcheur EXCEPT !.pc = "desenregistrer"]
        /\ DeplanifierCle(dispatcheur.cle.id)
        /\ UNCHANGED <<laFile, trav, montees>>
    BY <1>10 DEF DispDeplanifier, DispAvancer, fileVars, travVars
  <2>2. CASE dispatcheur.cle.id = id
    BY <2>1, <2>2 DEF TypeOK, TypeDispatcheur
  <2>3. CASE dispatcheur.cle.id # id
    BY <2>1, <2>3, SuiviInchange, SuiviDeplanifier
  <2>4. QED
    BY <2>2, <2>3
<1>11. CASE DispDesenregistrer
  <2>1. dispatcheur.cle.id # id /\ montees'[id] = montees[id]
    BY <1>0, <1>11 DEF DispDesenregistrer
  <2>2. UNCHANGED <<planif, laFile, trav>>
    BY <1>11 DEF DispDesenregistrer, fileVars, planVars, travVars
  <2>3. QED
    BY <2>1, <2>2, SuiviInchange
<1>12. QED
  BY <1>1, <1>2, <1>3, <1>4, <1>5, <1>6, <1>7, <1>8, <1>9, <1>10, <1>11,
     Zenon DEF Dispatcheur

(* The main thread: what it takes from the planning it posts, and it       *)
(* removes only what belongs to a key it has just forgotten.               *)
LEMMA SuiviPrincipal ==
    ASSUME TypeOK, SupprSansCle, Principal \/ Utilisateur, NEW id \in Ids,
           montees'[id] # Aucune, montees[id] # Aucune => Suivie(id)
    PROVE  Suivie(id)'
<1> USE DEF Suivie, ChezDispatcheur
<1>0. montees \in [Ids -> Cles \cup {Aucune}]
  BY DEF TypeOK, TypeDispatcheur
<1>1. CASE DetectionInitiale \/ OrdAppel
  <2>1. UNCHANGED <<planif, laFile, trav, montees, dispatcheur>>
    BY <1>1 DEF DetectionInitiale, OrdAppel, fileVars, planVars, travVars,
                dispVars
  <2>2. QED
    BY <2>1, SuiviInchange
<1>2. CASE OrdDebut \/ OrdSauter \/ OrdFin
  <2>1. UNCHANGED <<planif, laFile, trav, montees, dispatcheur>>
    BY <1>2 DEF OrdDebut, OrdSauter, OrdFin, OrdonnancerDebut,
                OrdonnancerSauter, OrdonnancerFin, fileVars, travVars,
                dispVars
  <2>2. QED
    BY <2>1, SuiviInchange
<1>3. CASE OrdLancer
  <2>1. UNCHANGED <<trav, montees, dispatcheur>>
    BY <1>3 DEF OrdLancer, travVars, dispVars
  <2>2. QED
    BY <1>3, <2>1, SuiviInchange, SuiviLancer
<1>4. ASSUME NEW d \in 0 .. MaxTemps, SauvegarderALaDate(d) PROVE Suivie(id)'
  <2>1. principal.cle \in Cles /\ d \in Nat
    BY <1>4, MoteurAssumption
       DEF SauvegarderALaDate, MainAvance, MoniteurLibre, TypeOK,
           TypePrincipal
  <2>2. Entree(d, principal.cle, FALSE) \in Entrees
    BY <2>1 DEF Entree, Entrees
  <2>3. /\ Planifier(Entree(d, principal.cle, FALSE))
        /\ UNCHANGED <<laFile, trav, montees, dispatcheur>>
    BY <1>4 DEF SauvegarderALaDate, fileVars, travVars, dispVars
  <2>4. EnPlan(id) => EnPlan(id)'
    BY <2>2, <2>3, SuiviPlanifier
  <2>5. QED
    BY <2>3, <2>4, SuiviInchange
<1>5. CASE SupprRetirer
  <2>1. /\ RetirerDeLaFile(principal.cle)
        /\ UNCHANGED <<planif, trav, montees, dispatcheur>>
    BY <1>5 DEF SupprRetirer, planVars, travVars, dispVars
  <2>2. principal.cle.id # id
    BY <1>5, <2>1 DEF SupprRetirer, MainAvance, SupprSansCle
  <2>3. QED
    BY <2>1, <2>2, SuiviInchange, SuiviRetirerDeLaFile
<1>6. CASE SupprArreter
  <2>1. SeulArret
    BY <1>6, ArreterSeulArret DEF SupprArreter, TypeOK
  <2>2. UNCHANGED <<planif, laFile, montees, dispatcheur>>
    BY <1>6 DEF SupprArreter, fileVars, planVars, dispVars
  <2>3. QED
    BY <2>1, <2>2, SuiviInchange
<1>7. CASE SupprArreterSaute \/ SupprArreterException
  <2>1. UNCHANGED <<planif, laFile, trav, montees, dispatcheur>>
    BY <1>7 DEF SupprArreterSaute, SupprArreterException, fileVars, planVars,
                travVars, dispVars
  <2>2. QED
    BY <2>1, SuiviInchange
<1>8. CASE SupprDeplanifier
  <2>1. /\ DeplanifierCle(principal.cle.id)
        /\ UNCHANGED <<laFile, trav, montees, dispatcheur>>
    BY <1>8 DEF SupprDeplanifier, fileVars, travVars, dispVars
  <2>2. principal.cle.id # id
    BY <1>8, <2>1 DEF SupprDeplanifier, MainAvance, SupprSansCle
  <2>3. QED
    BY <2>1, <2>2, SuiviInchange, SuiviDeplanifier
<1>9. ASSUME NEW autre \in Ids, SupprDesenregistrer(autre) PROVE Suivie(id)'
  <2>1. /\ montees'[id] = montees[id]
        /\ UNCHANGED <<planif, laFile, trav, dispatcheur>>
    BY <1>0, <1>9 DEF SupprDesenregistrer, fileVars, planVars, travVars
  <2>2. QED
    BY <2>1, SuiviInchange
<1>10. ASSUME NEW autre \in Ids, Sauvegarder(autre) PROVE Suivie(id)'
  <2>1. UNCHANGED <<planif, laFile, trav, montees, dispatcheur>>
    BY <1>10 DEF Sauvegarder, fileVars, planVars, travVars, dispVars
  <2>2. QED
    BY <2>1, SuiviInchange
<1>11. ASSUME NEW w \in Travailleurs, StopTache(w) PROVE Suivie(id)'
  <2>1. SeulArret
    BY <1>11 DEF StopTache, SeulArret, EtatTrav, TypeOK, TypeTravailleurs
  <2>2. UNCHANGED <<planif, laFile, montees, dispatcheur>>
    BY <1>11 DEF StopTache, fileVars, planVars, dispVars
  <2>3. QED
    BY <2>1, <2>2, SuiviInchange
<1>12. QED
  BY <1>1, <1>2, <1>3, <1>4, <1>5, <1>6, <1>7, <1>8, <1>9, <1>10, <1>11,
     Zenon DEF Principal, Utilisateur

(* The backup threads: the one that removes the entries of a key will plan *)
(* the next one, and leaves without planning only a key that is no longer  *)
(* registered.                                                             *)
LEMMA SuiviTravailleur ==
    ASSUME TypeOK, ReplanifieDemande, NEW w \in Travailleurs, Travailleur(w),
           NEW id \in Ids, Periodique(id),
           montees'[id] # Aucune, montees[id] # Aucune => Suivie(id)
    PROVE  Suivie(id)'
<1> USE DEF Suivie
<1>0. TypeTravailleurs
  BY DEF TypeOK
<1>1. montees' = montees /\ dispatcheur' = dispatcheur
  BY DEF Travailleur, Prendre, Lancer, PrendreRessource, RenoncerRessource,
         FinSauvegarde, Verifier, Deplanifier, Replanifier, Rendre, Retirer,
         dispVars
<1>2. ChezDispatcheur(id) => ChezDispatcheur(id)'
  BY <1>1 DEF ChezDispatcheur
<1>3. Suivie(id)
  BY <1>1
<1>4. ASSUME NEW de, NEW vers, SeulPc(w, de, vers),
             vers \notin {"libre", "rendre", "retirer"}
      PROVE  /\ EnCours(id) => EnCours(id)'
             /\ trav[w].cle.id = id /\ trav[w].aReplanifier => EnCours(id)'
  BY <1>4 DEF SeulPc, EnCours
<1>5. ASSUME \A v \in Travailleurs : v # w => trav'[v] = trav[v],
             \/ trav[w].pc \in {"libre", "rendre", "retirer"}
             \/ trav[w].cle.id # id
             \/ ~trav[w].aReplanifier
      PROVE  EnCours(id) => EnCours(id)'
  BY <1>5 DEF EnCours
<1>6. CASE Prendre(w)
  <2>1. planif' = planif
    BY <1>6 DEF Prendre, planVars
  <2>2. QED
    BY <1>2, <1>3, <1>6, <2>1, SuiviInchange, SuiviPrendre
<1>7. CASE Lancer(w) \/ PrendreRessource(w) \/ RenoncerRessource(w)
  <2>1. \E de, vers : SeulPc(w, de, vers) /\ vers \in {"attente", "sauvegarde"}
    BY <1>0, <1>7, AvancerSeulPc
       DEF Lancer, PrendreRessource, RenoncerRessource, PcTrav
  <2>2. EnCours(id) => EnCours(id)'
    BY <1>4, <2>1
  <2>3. UNCHANGED <<planif, laFile>>
    BY <1>7 DEF Lancer, PrendreRessource, RenoncerRessource, planVars,
                fileVars
  <2>4. QED
    BY <1>2, <1>3, <2>2, <2>3, SuiviInchange
<1>8. CASE FinSauvegarde(w)
  <2>1. /\ \A v \in Travailleurs : v # w => trav'[v] = trav[v]
        /\ trav'[w].cle = trav[w].cle
        /\ trav'[w].aReplanifier = trav[w].aReplanifier
        /\ trav'[w].pc =
             IF trav[w].aReplanifier /\ Planning[trav[w].cle.id] = 2
             THEN "verifier" ELSE "rendre"
    BY <1>0, <1>8 DEF FinSauvegarde, TypeTravailleurs
  <2>2. EnCours(id) => EnCours(id)'
    BY <2>1 DEF EnCours, Periodique
  <2>3. UNCHANGED <<planif, laFile>>
    BY <1>8 DEF FinSauvegarde, planVars, fileVars
  <2>4. QED
    BY <1>2, <1>3, <2>2, <2>3, SuiviInchange
<1>9. CASE Verifier(w)
  <2>1. UNCHANGED <<planif, laFile>>
    BY <1>9 DEF Verifier, planVars, fileVars
  <2>2. CASE montees[trav[w].cle.id] # Aucune
    <3>1. SeulPc(w, "verifier", "deplanifier")
      BY <1>0, <1>9, <2>2, AvancerSeulPc DEF Verifier, PcTrav
    <3>2. EnCours(id) => EnCours(id)'
      BY <1>4, <3>1
    <3>3. QED
      BY <1>2, <1>3, <2>1, <3>2, SuiviInchange
  <2>3. CASE montees[trav[w].cle.id] = Aucune
    <3>1. trav[w].cle.id # id
      BY <1>1, <2>3
    <3>2. \A v \in Travailleurs : v # w => trav'[v] = trav[v]
      BY <1>0, <1>9 DEF Verifier, TravAvancer, TypeTravailleurs
    <3>3. EnCours(id) => EnCours(id)'
      BY <1>5, <3>1, <3>2
    <3>4. QED
      BY <1>2, <1>3, <2>1, <3>3, SuiviInchange
  <2>4. QED
    BY <2>2, <2>3
<1>10. CASE Deplanifier(w)
  <2>1. SeulPc(w, "deplanifier", "planifier")
    BY <1>0, <1>10, AvancerSeulPc DEF Deplanifier, PcTrav
  <2>2. trav[w].aReplanifier
    BY <2>1 DEF SeulPc, ReplanifieDemande
  <2>3. laFile' = laFile /\ DeplanifierCle(trav[w].cle.id)
    BY <1>10 DEF Deplanifier, fileVars
  <2>4. CASE trav[w].cle.id = id
    BY <1>4, <2>1, <2>2, <2>4
  <2>5. CASE trav[w].cle.id # id
    <3>1. EnCours(id) => EnCours(id)'
      BY <1>4, <2>1
    <3>2. EnPlan(id) => EnPlan(id)'
      BY <2>3, <2>5, SuiviDeplanifier
    <3>3. QED
      BY <1>2, <1>3, <2>3, <3>1, <3>2, SuiviInchange
  <2>6. QED
    BY <2>4, <2>5
<1>11. CASE Replanifier(w)
  <2>1. PICK d \in trav[w].fin .. maintenant :
           Planifier(Entree(d + Intervalle, trav[w].cle, TRUE))
    BY <1>11 DEF Replanifier
  <2> DEFINE e == Entree(d + Intervalle, trav[w].cle, TRUE)
  <2>2. /\ trav[w].fin \in Nat /\ maintenant \in Nat
        /\ trav[w].cle \in Cles
    BY <1>11 DEF Replanifier, TravAvancer, TypeOK, TypePlan, TypeTravailleurs
  <2>3. d + Intervalle \in Nat
    BY <2>2, MoteurAssumption
  <2>4. e \in Entrees /\ e.cle = trav[w].cle /\ e.aReplanifier
    BY <2>2, <2>3 DEF Entree, Entrees
  <2> HIDE DEF e
  <2>5. Planifier(e)
    BY <2>1 DEF e
  <2>6. CASE trav[w].cle.id = id
    BY <2>4, <2>5, <2>6, SuiviPlanifier
  <2>7. CASE trav[w].cle.id # id
    <3>1. \A v \in Travailleurs : v # w => trav'[v] = trav[v]
      BY <1>0, <1>11 DEF Replanifier, TravAvancer, TypeTravailleurs
    <3>2. EnCours(id) => EnCours(id)'
      BY <1>5, <2>7, <3>1
    <3>3. EnPlan(id) => EnPlan(id)'
      BY <2>4, <2>5, SuiviPlanifier
    <3>4. laFile' = laFile
      BY <1>11 DEF Replanifier, fileVars
    <3>5. QED
      BY <1>2, <1>3, <3>2, <3>3, <3>4, SuiviInchange
  <2>8. QED
    BY <2>6, <2>7
<1>12. CASE Rendre(w) \/ Retirer(w)
  <2>1. /\ trav[w].pc \in {"rendre", "retirer"}
        /\ \A v \in Travailleurs : v # w => trav'[v] = trav[v]
    BY <1>0, <1>12 DEF Rendre, Retirer, TravAvancer, TypeTravailleurs
  <2>2. EnCours(id) => EnCours(id)'
    BY <1>5, <2>1
  <2>3. UNCHANGED <<planif, laFile>>
    BY <1>12 DEF Rendre, Retirer, planVars, fileVars
  <2>4. QED
    BY <1>2, <1>3, <2>2, <2>3, SuiviInchange
<1>13. QED
  BY <1>6, <1>7, <1>8, <1>9, <1>10, <1>11, <1>12, Zenon DEF Travailleur

(* Every step.                                                             *)
LEMMA SuiviConserve ==
    ASSUME TypeOK, SupprSansCle, ReplanifieDemande, CleJamaisOubliee,
           [Next]_vars
    PROVE  CleJamaisOubliee'
<1> SUFFICES ASSUME NEW id \in Ids, Periodique(id), montees'[id] # Aucune
             PROVE  Suivie(id)'
  BY DEF CleJamaisOubliee, Suivie, Periodique
<1>1. montees[id] # Aucune => Suivie(id)
  BY DEF CleJamaisOubliee, Suivie
<1>2. CASE Dispatcheur
  BY <1>1, <1>2, SuiviDispatcheur
<1>3. CASE Principal \/ Utilisateur
  BY <1>1, <1>3, SuiviPrincipal
<1>4. ASSUME NEW w \in Travailleurs, Travailleur(w) PROVE Suivie(id)'
  BY <1>1, <1>4, SuiviTravailleur
<1>5. CASE Systeme \/ UNCHANGED vars
  <2>1. UNCHANGED <<planif, laFile, trav, montees, dispatcheur>>
    BY <1>5 DEF Systeme, Brancher, Debrancher, Temps, Horloge, vars, fileVars,
                planVars, travVars, dispVars
  <2>2. QED
    BY <1>1, <2>1, SuiviInchange DEF Suivie, ChezDispatcheur
<1>6. QED
  BY <1>2, <1>3, <1>4, <1>5, Zenon DEF Next
-----------------------------------------------------------------------------
(* The wake-ups of the file of the backups.                                *)
LEMMA ReveilConserve ==
    TypeOK /\ PasDeReveilPerdu /\ [Next]_vars => PasDeReveilPerdu'
<1> SUFFICES ASSUME TypeOK, PasDeReveilPerdu, [Next]_vars
             PROVE  PasDeReveilPerdu'
  OBVIOUS
<1>0. TypeFile(Taches)
  BY DEF TypeOK
<1>1. CASE UNCHANGED fileVars
  BY <1>1 DEF fileVars, PasDeReveilPerdu
<1>2. CASE OrdLancer
  <2>1. PICK n \in DOMAIN planif :
           InWithLock(Tache(planif[n].cle, planif[n].aReplanifier))
    BY <1>2 DEF OrdLancer
  <2>2. QED
    BY <2>1 DEF InWithLock, PasDeReveilPerdu
<1>3. CASE DispRetirer \/ SupprRetirer
  BY <1>0, <1>3, TypeRetirerDeLaFile DEF DispRetirer, SupprRetirer
<1>4. ASSUME NEW w \in Travailleurs, Prendre(w) PROVE PasDeReveilPerdu'
  BY <1>0, <1>4, FileRetrait DEF Prendre
<1>5. CASE Systeme \/ Utilisateur \/ UNCHANGED vars
  <2>1. UNCHANGED fileVars
    BY <1>5 DEF Systeme, Brancher, Debrancher, Temps, Utilisateur,
                Sauvegarder, SupprDesenregistrer, StopTache, vars, fileVars
  <2>2. QED
    BY <1>1, <2>1
<1>6. CASE Dispatcheur /\ ~DispRetirer
  <2>1. UNCHANGED fileVars
    BY <1>6 DEF Dispatcheur, DispIgnorer, DispEnregistrer, DispPlanifier,
                DispJournaliser, DispJournalise, DispDemonter, DispArreter,
                DispArreterSaute, DispArreterException, DispDeplanifier,
                DispDesenregistrer
  <2>2. QED
    BY <1>1, <2>1
<1>7. CASE Principal /\ ~OrdLancer /\ ~SupprRetirer
  <2>1. UNCHANGED fileVars
    BY <1>7 DEF Principal, DetectionInitiale, OrdAppel, OrdDebut, OrdSauter,
                OrdFin, SauvegarderALaDate, SupprArreter, SupprArreterSaute,
                SupprArreterException, SupprDeplanifier
  <2>2. QED
    BY <1>1, <2>1
<1>8. CASE \E w \in Travailleurs : Travailleur(w) /\ ~Prendre(w)
  <2>1. UNCHANGED fileVars
    BY <1>8 DEF Travailleur, Lancer, PrendreRessource, RenoncerRessource,
                FinSauvegarde, Verifier, Deplanifier, Replanifier, Rendre,
                Retirer
  <2>2. QED
    BY <1>1, <2>1
<1>9. QED
  BY <1>2, <1>3, <1>4, <1>5, <1>6, <1>7, <1>8, Zenon DEF Next

-----------------------------------------------------------------------------
(* The properties of Moteur, and what makes them inductive: the main thread, *)
(* under the monitor, deletes a key that is no longer registered; the      *)
(* dictionary maps an idCle to an object of that idCle; only a thread with a *)
(* task to plan again is on its way to plan.                               *)
Inductif ==
    /\ TypeOK
    /\ PasDeReveilPerdu
    /\ RessourceFidele
    /\ DrapeauJamaisOublie
    /\ PlanTriee
    /\ SupprSansCle
    /\ MonteesFideles
    /\ ReplanifieDemande
    /\ CleJamaisOubliee

(* The engine starts with nothing: no key, no task, no lock.               *)
LEMMA InductifInit == Init => Inductif
<1> SUFFICES ASSUME Init PROVE Inductif
  OBVIOUS
<1>1. TypeFile(Taches) /\ TypePlan(Cles)
  BY EmptySeq DEF Init, InitFile, InitPlan, TypeFile, TypePlan
<1>2. TypeSysteme /\ TypeDispatcheur /\ TypePrincipal
  BY EmptySeq DEF Init, TypeSysteme, TypeDispatcheur, TypePrincipal, Inactif,
                  PcDisp, PcMain, MoniteurLibre
<1>3. TypeTravailleurs
  BY EmptySeq DEF Init, TypeTravailleurs, TravailleurLibre, PcTrav
<1>4. RessourceFidele
  BY MoteurAssumption
     DEF Init, RessourceFidele, EnSection, TravailleurLibre
<1>5. /\ PasDeReveilPerdu /\ DrapeauJamaisOublie /\ PlanTriee
      /\ SupprSansCle /\ MonteesFideles /\ ReplanifieDemande
      /\ CleJamaisOubliee
  BY DEF Init, InitFile, InitPlan, PasDeReveilPerdu, DrapeauJamaisOublie,
         PlanTriee, SupprSansCle, MonteesFideles, ReplanifieDemande,
         CleJamaisOubliee, TravailleurLibre
<1>6. QED
  BY <1>1, <1>2, <1>3, <1>4, <1>5 DEF Inductif, TypeOK

(* The invariant the theorems below are parts of.                          *)
THEOREM InductifToujours == Spec => []Inductif
<1>1. Inductif /\ [Next]_vars => Inductif'
  BY TypeConserve, ReveilConserve, RessourceConservee, DrapeauConserve,
     PlanConserve, SupprConserve, MonteesConservees, DemandeConservee,
     SuiviConserve DEF Inductif
<1>2. QED
  BY InductifInit, <1>1, PTL DEF Spec

(* Type correctness of the engine.                                         *)
THEOREM TypeCorrect == Spec => []TypeOK
<1>1. Inductif => TypeOK
  BY DEF Inductif
<1>2. QED
  BY <1>1, InductifToujours, PTL

(* The lock of a key is held by the thread at work on it and by no other,  *)
(* whatever the number of threads, keys and stop requests                  *)
(* (CR_RessourceSpeciale.m:52-116, PD_TacheSauvegarde.m:772-835).          *)
THEOREM RessourceToujoursFidele == Spec => []RessourceFidele
<1>1. Inductif => RessourceFidele
  BY DEF Inductif
<1>2. QED
  BY <1>1, InductifToujours, PTL

(* So two backups of one key overlap only when one was asked to stop.      *)
THEOREM ExclusionToujours == Spec => []ExclusionHorsInterruption
<1>1. RessourceFidele => ExclusionHorsInterruption
  BY DEF RessourceFidele, ExclusionHorsInterruption
<1>2. QED
  BY <1>1, RessourceToujoursFidele, PTL

(* The flag the window shows belongs to a backup that waits or runs        *)
(* (PD_TacheSauvegarde.m:753 and 814).                                     *)
THEOREM DrapeauToujours == Spec => []DrapeauJamaisOublie
<1>1. Inductif => DrapeauJamaisOublie
  BY DEF Inductif
<1>2. QED
  BY <1>1, InductifToujours, PTL

(* The planning stays in the order of its dates, whatever the threads that *)
(* insert and remove (PD_Planificateur.m:52-241, PD_Ordonnanceur.m:49-102).*)
THEOREM PlanToujoursTriee == Spec => []PlanTriee
<1>1. Inductif => PlanTriee
  BY DEF Inductif
<1>2. QED
  BY <1>1, InductifToujours, PTL

(* No wake-up is lost in the file of the backups, which the unmount and the*)
(* buttons shorten (CR_File.m:52-120, PD_TraitementDesTaches.m:29-58).     *)
THEOREM AucunReveilPerdu == Spec => []PasDeReveilPerdu
<1>1. Inductif => PasDeReveilPerdu
  BY DEF Inductif
<1>2. QED
  BY <1>1, InductifToujours, PTL

(* A registered key with a periodic planning always has its next backup    *)
(* planned, waiting, running or in the hands of the dispatcher             *)
(* (PD_Planificateur.m:160-241, PD_TacheSauvegarde.m:821-833).             *)
THEOREM CleToujoursSuivie == Spec => []CleJamaisOubliee
<1>1. Inductif => CleJamaisOubliee
  BY DEF Inductif
<1>2. QED
  BY <1>1, InductifToujours, PTL
=============================================================================
