------------------- MODULE CR_TraitementsMultiThreads_proofs -------------------
(***************************************************************************)
(* Theorems about CR_TraitementsMultiThreads, for any number of threads and*)
(* of tasks.                                                               *)
(***************************************************************************)
EXTENDS CR_TraitementsMultiThreads, FiniteSetTheorems, SequenceTheorems,
        TLAPS

(* A thread that has taken a task keeps it until it is over.               *)
PriseReelle ==
    \A w \in Threads : pc[w] \in {"prise", "execution"} => tache[w] \in Taches

(* Every listed task is being run.                                         *)
ListeFidele ==
    \A t \in tachesEnCours :
        \E w \in Threads : pc[w] = "execution" /\ tache[w] = t

(* The threads run from run: on, and not before.                           *)
TousDemarres ==
    \A w \in Threads :
        pc[w] = "eteint" <=> ~traitementsEnCours /\ arret = "repos"

(* When arreter: has answered YES nobody is left.                          *)
OuiSansPersonne == arret = "oui" => Vivants = {}

(* The file holds submitted tasks, each once and none that is taken, until *)
(* arreter: empties it, and only stop objects afterwards.                  *)
FileDeTaches ==
    IF arret = "repos"
    THEN /\ EnFile \subseteq soumises \ Prises
         /\ \A i, j \in DOMAIN laFile : laFile[i] = laFile[j] => i = j
    ELSE EnFile \subseteq {Arret}

(* A taken task was submitted, and one thread has it.                      *)
PriseUnique ==
    /\ Prises \subseteq soumises
    /\ \A v, w \in Threads :
           /\ pc[v] \in {"prise", "execution"}
           /\ pc[w] \in {"prise", "execution"}
           /\ tache[v] = tache[w]
           => v = w

(* The properties of the pool, and what makes them inductive.              *)
Inductif ==
    /\ TypeOK
    /\ PasDeReveilPerdu
    /\ CompteurFidele
    /\ PriseReelle
    /\ ListeFidele
    /\ TousDemarres
    /\ OuiSansPersonne
    /\ FileDeTaches
    /\ PriseUnique

-----------------------------------------------------------------------------
(* The operations of CR_File, whatever the elements.                       *)

(* inWithLock keeps the type of the file and loses no wake-up.             *)
LEMMA FileAjout ==
    ASSUME NEW E, NEW e \in E, TypeFile(E), InWithLock(e)
    PROVE  TypeFile(E)' /\ PasDeReveilPerdu'
  BY DEF TypeFile, InWithLock, PasDeReveilPerdu, EST_VIDE, NON_VIDE

(* outWithLockAndTimeOut too, and what it answers was in the file.         *)
LEMMA FileRetrait ==
    ASSUME NEW E, NEW e, TypeFile(E), OutWithLock(e)
    PROVE  e \in E /\ TypeFile(E)' /\ PasDeReveilPerdu'
<1>1. /\ Tail(laFile) \in Seq(E)
      /\ Head(laFile) \in E
      /\ Tail(laFile) # <<>> => Len(Tail(laFile)) > 0
  BY HeadTailProperties DEF TypeFile, OutWithLock
<1>2. QED
  BY <1>1 DEF TypeFile, OutWithLock, PasDeReveilPerdu, EtatVerrou,
              EST_VIDE, NON_VIDE

-----------------------------------------------------------------------------
(* Vivants can be counted.                                                 *)
LEMMA VivantsFinis == IsFiniteSet(Vivants) /\ Cardinality(Vivants) \in Nat
<1>1. Vivants \in SUBSET Threads
  BY DEF Vivants
<1>2. QED
  BY <1>1, ThreadsAssumption, FS_Subset, FS_CardinalityType

(* A thread that leaves for good leaves one less to count.                 *)
LEMMA UnDeMoins ==
    ASSUME CompteurFidele, NEW w \in Vivants
    PROVE  synchro - 1 \in Nat /\ synchro - 1 = Cardinality(Vivants \ {w})
<1>1. /\ Cardinality(Vivants \ {w}) = Cardinality(Vivants) - 1
      /\ IsFiniteSet(Vivants \ {w})
  BY VivantsFinis, FS_RemoveElement
<1>2. Cardinality(Vivants \ {w}) \in Nat
  BY <1>1, FS_CardinalityType
<1>3. QED
  BY <1>1, <1>2, VivantsFinis DEF CompteurFidele

-----------------------------------------------------------------------------
(* Each part of the invariant is kept by every step.                       *)

(* The types.                                                              *)
LEMMA TypeConserve ==
    TypeOK /\ CompteurFidele /\ PriseReelle /\ [Next]_vars => TypeOK'
<1> SUFFICES ASSUME TypeOK, CompteurFidele, PriseReelle, [Next]_vars
             PROVE  TypeOK'
  OBVIOUS
<1> USE DEF TypeOK, PcThread, PcArret
<1>1. CASE Run
  BY <1>1, ThreadsAssumption, FS_CardinalityType
     DEF Run, fileVars, TypeFile
<1>2. ASSUME NEW t \in Taches, AjouterTache(t) PROVE TypeOK'
  <2>1. TypeFile(Taches \cup {Arret})'
    BY <1>2, FileAjout DEF AjouterTache
  <2>2. QED
    BY <1>2, <2>1 DEF AjouterTache
<1>3. CASE ArreterVider
  BY <1>3, EmptySeq DEF ArreterVider, TypeFile
<1>4. CASE ArreterInterrompre
  BY <1>4 DEF ArreterInterrompre, fileVars, TypeFile
<1>5. ASSUME NEW w \in Threads, ArreterPousser(w) PROVE TypeOK'
  <2>1. TypeFile(Taches \cup {Arret})'
    BY <1>5, FileAjout DEF ArreterPousser
  <2>2. QED
    BY <1>5, <2>1 DEF ArreterPousser
<1>6. ASSUME NEW w \in Threads, ArreterMarquer(w) PROVE TypeOK'
  BY <1>6 DEF ArreterMarquer, fileVars, TypeFile
<1>7. CASE ArreterOui
  BY <1>7 DEF ArreterOui, fileVars, TypeFile
<1>8. CASE ArreterNon
  BY <1>8 DEF ArreterNon, fileVars, TypeFile
<1>9. ASSUME NEW w \in Threads, NEW t \in Taches, Prendre(w, t) PROVE TypeOK'
  <2>1. TypeFile(Taches \cup {Arret})'
    BY <1>9, FileRetrait DEF Prendre
  <2>2. QED
    BY <1>9, <2>1 DEF Prendre, AllerEn
<1>10. ASSUME NEW w \in Threads, PrendreArret(w) PROVE TypeOK'
  <2>1. TypeFile(Taches \cup {Arret})'
    BY <1>10, FileRetrait DEF PrendreArret
  <2>2. QED
    BY <1>10, <2>1 DEF PrendreArret, AllerEn
<1>11. ASSUME NEW w \in Threads, PrendreSurVide(w) PROVE TypeOK'
  BY <1>11 DEF PrendreSurVide, OutWithLockSurVide, AllerEn, TypeFile
<1>12. ASSUME NEW w \in Threads, PrendreNil(w) PROVE TypeOK'
  BY <1>12 DEF PrendreNil, OutWithLockTimeOut, AllerEn, fileVars, TypeFile
<1>13. ASSUME NEW w \in Threads, LireDoitSArreter(w) PROVE TypeOK'
  BY <1>13 DEF LireDoitSArreter, AllerEn, fileVars, TypeFile
<1>14. ASSUME NEW w \in Threads, Lancer(w) PROVE TypeOK'
  BY <1>14 DEF Lancer, PriseReelle, AllerEn, fileVars, TypeFile
<1>15. ASSUME NEW w \in Threads, FinTache(w) PROVE TypeOK'
  BY <1>15 DEF FinTache, AllerEn, fileVars, TypeFile
<1>16. ASSUME NEW w \in Threads, Sortir(w) PROVE TypeOK'
  <2>1. w \in Vivants
    BY <1>16 DEF Sortir, Vivants
  <2>2. synchro - 1 \in Nat
    BY <2>1, UnDeMoins
  <2>3. QED
    BY <1>16, <2>2 DEF Sortir, AllerEn, fileVars, TypeFile
<1>17. CASE UNCHANGED vars
  BY <1>17 DEF vars, poolVars, fileVars, TypeFile
<1>18. QED
  BY <1>1, <1>2, <1>3, <1>4, <1>5, <1>6, <1>7, <1>8, <1>9, <1>10, <1>11,
     <1>12, <1>13, <1>14, <1>15, <1>16, <1>17
     DEF Next, PasThread, PasArreter

(* The wake-ups: only arreter: writes the array without the condition, and *)
(* it empties it.                                                          *)
LEMMA ReveilConserve ==
    TypeOK /\ PasDeReveilPerdu /\ [Next]_vars => PasDeReveilPerdu'
<1> SUFFICES ASSUME TypeOK, PasDeReveilPerdu, [Next]_vars
             PROVE  PasDeReveilPerdu'
  OBVIOUS
<1>1. ASSUME NEW e \in Taches \cup {Arret}, InWithLock(e)
      PROVE  PasDeReveilPerdu'
  BY <1>1, FileAjout DEF TypeOK
<1>2. ASSUME NEW e, OutWithLock(e) PROVE PasDeReveilPerdu'
  BY <1>2, FileRetrait DEF TypeOK
<1>3. CASE ArreterVider
  BY <1>3 DEF ArreterVider, PasDeReveilPerdu
<1>4. CASE UNCHANGED <<laFile, condition>>
  BY <1>4 DEF PasDeReveilPerdu
<1>5. QED
  BY <1>1, <1>2, <1>3, <1>4
     DEF Next, PasThread, PasArreter, vars, fileVars, Run, AjouterTache,
         ArreterInterrompre, ArreterPousser, ArreterMarquer, ArreterOui,
         ArreterNon, Prendre, PrendreArret, PrendreSurVide,
         OutWithLockSurVide, PrendreNil, OutWithLockTimeOut,
         LireDoitSArreter, Lancer, FinTache, Sortir

(* The counter and the set of the threads still there move together.       *)
LEMMA CompteurConserve ==
    TypeOK /\ CompteurFidele /\ [Next]_vars => CompteurFidele'
<1> SUFFICES ASSUME TypeOK, CompteurFidele, [Next]_vars
             PROVE  CompteurFidele'
  OBVIOUS
<1>1. CASE Run
  <2>1. Vivants' = Threads
    BY <1>1 DEF Run, Vivants, PcThread
  <2>2. QED
    BY <1>1, <2>1 DEF Run, CompteurFidele
<1>2. ASSUME NEW w \in Threads, Sortir(w) PROVE CompteurFidele'
  <2>1. w \in Vivants /\ Vivants' = Vivants \ {w}
    BY <1>2 DEF Sortir, AllerEn, Vivants, PcThread, TypeOK
  <2>2. synchro' = Cardinality(Vivants \ {w})
    BY <1>2, <2>1, UnDeMoins DEF Sortir
  <2>3. QED
    BY <2>1, <2>2 DEF CompteurFidele
<1>3. ASSUME NEW w \in Threads, PasThread(w), ~Sortir(w)
      PROVE  CompteurFidele'
  <2>1. Vivants' = Vivants /\ synchro' = synchro
    BY <1>3 DEF PasThread, Prendre, PrendreArret, PrendreSurVide, PrendreNil,
                LireDoitSArreter, Lancer, FinTache, AllerEn, Vivants,
                PcThread, TypeOK
  <2>2. QED
    BY <2>1 DEF CompteurFidele
<1>4. CASE UNCHANGED <<pc, synchro>>
  <2>1. Vivants' = Vivants /\ synchro' = synchro
    BY <1>4 DEF Vivants
  <2>2. QED
    BY <2>1 DEF CompteurFidele
<1>5. QED
  BY <1>1, <1>2, <1>3, <1>4
     DEF Next, PasArreter, vars, poolVars, AjouterTache, ArreterVider,
         ArreterInterrompre, ArreterPousser, ArreterMarquer, ArreterOui,
         ArreterNon

(* What a thread holds and what is listed.                                 *)
LEMMA TachesConservees ==
    TypeOK /\ PriseReelle /\ ListeFidele /\ TousDemarres /\ [Next]_vars
        => PriseReelle' /\ ListeFidele'
<1> SUFFICES ASSUME TypeOK, PriseReelle, ListeFidele, TousDemarres,
                    [Next]_vars
             PROVE  PriseReelle' /\ ListeFidele'
  OBVIOUS
<1> USE DEF PriseReelle, ListeFidele, TypeOK
<1>1. CASE Run
  <2>1. tachesEnCours = {}
    BY <1>1 DEF Run, TousDemarres
  <2>2. QED
    BY <1>1, <2>1 DEF Run
<1>2. ASSUME NEW w \in Threads, NEW t \in Taches, Prendre(w, t)
      PROVE  PriseReelle' /\ ListeFidele'
  BY <1>2 DEF Prendre, AllerEn
<1>3. ASSUME NEW w \in Threads,
             PrendreArret(w) \/ PrendreSurVide(w) \/ PrendreNil(w)
                \/ LireDoitSArreter(w) \/ Sortir(w)
      PROVE  PriseReelle' /\ ListeFidele'
  BY <1>3 DEF PrendreArret, PrendreSurVide, PrendreNil, LireDoitSArreter,
              Sortir, AllerEn
<1>4. ASSUME NEW w \in Threads, Lancer(w)
      PROVE  PriseReelle' /\ ListeFidele'
  BY <1>4 DEF Lancer, AllerEn
<1>5. ASSUME NEW w \in Threads, FinTache(w)
      PROVE  PriseReelle' /\ ListeFidele'
  BY <1>5 DEF FinTache, AllerEn
<1>6. CASE UNCHANGED <<pc, tache, tachesEnCours>>
  BY <1>6
<1>7. QED
  BY <1>1, <1>2, <1>3, <1>4, <1>5, <1>6
     DEF Next, PasThread, PasArreter, vars, poolVars, AjouterTache,
         ArreterVider, ArreterInterrompre, ArreterPousser, ArreterMarquer,
         ArreterOui, ArreterNon

(* Only run: starts the threads, and arreter: answers only after it.       *)
LEMMA DemarrageConserve ==
    TypeOK /\ TousDemarres /\ [Next]_vars => TousDemarres'
<1> SUFFICES ASSUME TypeOK, TousDemarres, [Next]_vars PROVE TousDemarres'
  OBVIOUS
<1> USE DEF TousDemarres, TypeOK, PcArret
<1>1. CASE Run
  BY <1>1 DEF Run
<1>2. ASSUME NEW w \in Threads, PasThread(w) PROVE TousDemarres'
  BY <1>2 DEF PasThread, Prendre, PrendreArret, PrendreSurVide, PrendreNil,
              LireDoitSArreter, Lancer, FinTache, Sortir, AllerEn
<1>3. CASE ArreterVider \/ PasArreter
  BY <1>3, ThreadsAssumption
     DEF PasArreter, ArreterVider, ArreterInterrompre, ArreterPousser,
         ArreterMarquer, ArreterOui, ArreterNon
<1>4. CASE UNCHANGED <<pc, traitementsEnCours, arret>>
  BY <1>4
<1>5. QED
  BY <1>1, <1>2, <1>3, <1>4 DEF Next, vars, poolVars, AjouterTache

(* The answer YES is given on a counter at 0, and nobody comes back.       *)
LEMMA OuiConserve ==
    TypeOK /\ CompteurFidele /\ OuiSansPersonne /\ [Next]_vars
        => OuiSansPersonne'
<1> SUFFICES ASSUME TypeOK, CompteurFidele, OuiSansPersonne, [Next]_vars
             PROVE  OuiSansPersonne'
  OBVIOUS
<1>1. CASE ArreterOui
  <2>1. Vivants = {}
    BY <1>1, VivantsFinis, FS_EmptySet DEF ArreterOui, CompteurFidele
  <2>2. QED
    BY <1>1, <2>1 DEF ArreterOui, OuiSansPersonne, Vivants
<1>2. ASSUME NEW w \in Threads, PasThread(w) PROVE OuiSansPersonne'
  <2>1. arret' = arret /\ Vivants' \subseteq Vivants
    BY <1>2 DEF PasThread, Prendre, PrendreArret, PrendreSurVide, PrendreNil,
                LireDoitSArreter, Lancer, FinTache, Sortir, AllerEn, Vivants,
                PcThread, TypeOK
  <2>2. QED
    BY <2>1 DEF OuiSansPersonne
<1>3. ASSUME arret' # "oui" PROVE OuiSansPersonne'
  BY <1>3 DEF OuiSansPersonne
<1>4. CASE UNCHANGED <<pc, arret>>
  BY <1>4 DEF OuiSansPersonne, Vivants
<1>5. QED
  BY <1>1, <1>2, <1>3, <1>4
     DEF Next, PasArreter, vars, poolVars, Run, AjouterTache, ArreterVider,
         ArreterInterrompre, ArreterPousser, ArreterMarquer, ArreterNon

-----------------------------------------------------------------------------
(* The file as a set of tasks, and the tasks that are taken.               *)

(* What is added is in the file, once if it was not there.                 *)
LEMMA AjoutEnFile ==
    ASSUME TypeFile(Taches \cup {Arret}), NEW e \in Taches \cup {Arret},
           InWithLock(e)
    PROVE  /\ EnFile' = EnFile \cup {e}
           /\ (/\ e \notin EnFile
               /\ \A i, j \in DOMAIN laFile : laFile[i] = laFile[j] => i = j)
              => (\A i, j \in DOMAIN laFile :
                     laFile[i] = laFile[j] => i = j)'
<1> DEFINE n == Len(laFile)
<1>1. /\ n \in Nat /\ DOMAIN laFile = 1 .. n
      /\ DOMAIN laFile' = 1 .. n + 1
      /\ \A i \in 1 .. n : laFile'[i] = laFile[i]
      /\ laFile'[n + 1] = e
  <2>1. laFile' = Append(laFile, e) /\ laFile \in Seq(Taches \cup {Arret})
    BY DEF InWithLock, TypeFile
  <2>2. QED
    BY <2>1
<1>2. EnFile' = EnFile \cup {e}
  BY <1>1 DEF EnFile
<1>3. ASSUME e \notin EnFile,
             \A i, j \in DOMAIN laFile : laFile[i] = laFile[j] => i = j,
             NEW i \in DOMAIN laFile', NEW j \in DOMAIN laFile',
             laFile'[i] = laFile'[j]
      PROVE  i = j
  BY <1>1, <1>3 DEF EnFile
<1>4. QED
  BY <1>2, <1>3

(* What is taken was the head, and is not there any more if it was there   *)
(* once.                                                                   *)
LEMMA RetraitEnFile ==
    ASSUME TypeFile(Taches \cup {Arret}), NEW e, OutWithLock(e)
    PROVE  /\ e \in EnFile
           /\ EnFile' \cup {e} = EnFile
           /\ (\A i, j \in DOMAIN laFile : laFile[i] = laFile[j] => i = j)
              => /\ EnFile' = EnFile \ {e}
                 /\ (\A i, j \in DOMAIN laFile :
                        laFile[i] = laFile[j] => i = j)'
<1> DEFINE n == Len(laFile)
<1>1. /\ n \in Nat \ {0} /\ DOMAIN laFile = 1 .. n /\ laFile[1] = e
      /\ DOMAIN laFile' = 1 .. n - 1
      /\ \A i \in 1 .. n - 1 : laFile'[i] = laFile[i + 1]
  <2>1. /\ laFile \in Seq(Taches \cup {Arret}) /\ laFile # <<>>
        /\ e = Head(laFile) /\ laFile' = Tail(laFile)
    BY DEF OutWithLock, TypeFile
  <2>2. QED
    BY <2>1
<1>2. e \in EnFile
  BY <1>1 DEF EnFile
<1>3. \A i \in 1 .. n :
          \/ i = 1
          \/ i - 1 \in 1 .. n - 1 /\ laFile[i] = laFile'[i - 1]
  BY <1>1
<1>4. EnFile' \cup {e} = EnFile
  <2>1. EnFile' \subseteq EnFile
    BY <1>1 DEF EnFile
  <2>2. ASSUME NEW i \in 1 .. n PROVE laFile[i] \in EnFile' \cup {e}
    BY <1>1, <1>3 DEF EnFile
  <2>3. EnFile \subseteq EnFile' \cup {e}
    BY <1>1, <2>2 DEF EnFile
  <2>4. QED
    BY <1>2, <2>1, <2>3
<1>5. ASSUME \A i, j \in DOMAIN laFile : laFile[i] = laFile[j] => i = j
      PROVE  /\ EnFile' = EnFile \ {e}
             /\ \A i, j \in DOMAIN laFile' : laFile'[i] = laFile'[j] => i = j
  <2>1. e \notin EnFile'
    BY <1>1, <1>5 DEF EnFile
  <2>2. \A i, j \in DOMAIN laFile' : laFile'[i] = laFile'[j] => i = j
    BY <1>1, <1>5
  <2>3. QED
    BY <1>4, <2>1, <2>2
<1>6. QED
  BY <1>2, <1>4, <1>5

(* A take adds the task to those taken, the end of a task removes it.      *)
LEMMA PrisesApresPrendre ==
    ASSUME TypeOK, NEW w \in Threads, NEW t \in Taches, Prendre(w, t)
    PROVE  Prises' = Prises \cup {t}
BY DEF TypeOK, Prendre, AllerEn, Prises

LEMMA PrisesApresFin ==
    ASSUME TypeOK, PriseUnique, NEW w \in Threads, FinTache(w)
    PROVE  tache[w] \in Prises /\ Prises' = Prises \ {tache[w]}
BY DEF TypeOK, PriseUnique, FinTache, AllerEn, Prises

(* Every other step leaves them, and run: finds none.                      *)
LEMMA PrisesInchangees ==
    ASSUME TypeOK, TousDemarres, [Next]_vars,
           \A w \in Threads :
               ~FinTache(w) /\ \A t \in Taches : ~Prendre(w, t)
    PROVE  Prises' = Prises
<1>1. CASE Run
  <2>1. Prises = {}
    BY <1>1 DEF Run, TousDemarres, Prises
  <2>2. Prises' = {}
    BY <1>1 DEF Run, Prises
  <2>3. QED
    BY <2>1, <2>2
<1>2. ASSUME NEW w \in Threads, PasThread(w) PROVE Prises' = Prises
  BY <1>2 DEF PasThread, PrendreArret, PrendreSurVide, PrendreNil,
              LireDoitSArreter, Lancer, Sortir, AllerEn, Prises, TypeOK
<1>3. CASE UNCHANGED <<pc, tache>>
  BY <1>3 DEF Prises
<1>4. QED
  BY <1>1, <1>2, <1>3
     DEF Next, PasArreter, vars, poolVars, AjouterTache, ArreterVider,
         ArreterInterrompre, ArreterPousser, ArreterMarquer, ArreterOui,
         ArreterNon

(* A step that is not named here leaves the file and what was submitted,   *)
(* and arreter: does not begin.                                            *)
LEMMA FileInchangee ==
    ASSUME [Next]_vars,
           \A t \in Taches : ~AjouterTache(t),
           ~ArreterVider,
           \A w \in Threads :
               /\ ~ArreterPousser(w) /\ ~PrendreArret(w)
               /\ \A t \in Taches : ~Prendre(w, t)
    PROVE  /\ laFile' = laFile /\ soumises' = soumises
           /\ (arret' = "repos") = (arret = "repos")
BY DEF Next, PasThread, PasArreter, vars, poolVars, fileVars, Run,
       ArreterInterrompre, ArreterMarquer, ArreterOui, ArreterNon,
       PrendreSurVide, OutWithLockSurVide, PrendreNil, OutWithLockTimeOut,
       LireDoitSArreter, Lancer, FinTache, Sortir

-----------------------------------------------------------------------------
(* The file and the tasks that are taken.                                  *)
LEMMA FileConservee ==
    TypeOK /\ PriseUnique /\ TousDemarres /\ FileDeTaches /\ [Next]_vars
        => FileDeTaches'
<1> SUFFICES ASSUME TypeOK, PriseUnique, TousDemarres, FileDeTaches,
                    [Next]_vars
             PROVE  FileDeTaches'
  OBVIOUS
<1>0. /\ TypeFile(Taches \cup {Arret}) /\ Arret \notin Taches
      /\ soumises \subseteq Taches /\ Prises \subseteq soumises
  BY TachesAssumption DEF TypeOK, PriseUnique
<1>1. ASSUME NEW t \in Taches, AjouterTache(t) PROVE FileDeTaches'
  <2>1. /\ arret = "repos" /\ arret' = "repos" /\ t \notin soumises
        /\ soumises' = soumises \cup {t} /\ Prises' = Prises
    BY <1>1 DEF AjouterTache, Prises
  <2>2. EnFile \subseteq soumises \ Prises /\ t \notin EnFile
    BY <2>1 DEF FileDeTaches
  <2>3. EnFile' = EnFile \cup {t}
    BY <1>0, <1>1, AjoutEnFile DEF AjouterTache
  <2>4. (\A i, j \in DOMAIN laFile : laFile[i] = laFile[j] => i = j)'
    BY <1>0, <1>1, <2>1, <2>2, AjoutEnFile DEF AjouterTache, FileDeTaches
  <2>5. EnFile' \subseteq soumises' \ Prises'
    BY <1>0, <2>1, <2>2, <2>3
  <2>6. QED
    BY <2>1, <2>4, <2>5 DEF FileDeTaches
<1>2. CASE ArreterVider
  <2>1. arret' = "vide" /\ EnFile' = {}
    BY <1>2 DEF ArreterVider, EnFile
  <2>2. QED
    BY <2>1 DEF FileDeTaches
<1>3. ASSUME NEW w \in Threads, ArreterPousser(w) PROVE FileDeTaches'
  <2>1. arret = "drapeaux" /\ arret' = arret
    BY <1>3 DEF ArreterPousser
  <2>2. EnFile' = EnFile \cup {Arret}
    BY <1>0, <1>3, AjoutEnFile DEF ArreterPousser
  <2>3. QED
    BY <2>1, <2>2 DEF FileDeTaches
<1>4. ASSUME NEW w \in Threads, PrendreArret(w) PROVE FileDeTaches'
  <2>1. Arret \in EnFile /\ EnFile' \subseteq EnFile /\ arret' = arret
    BY <1>0, <1>4, RetraitEnFile DEF PrendreArret
  <2>2. arret # "repos"
    BY <1>0, <2>1 DEF FileDeTaches
  <2>3. QED
    BY <2>1, <2>2 DEF FileDeTaches
<1>5. ASSUME NEW w \in Threads, NEW t \in Taches, Prendre(w, t)
      PROVE  FileDeTaches'
  <2>1. /\ t \in EnFile
        /\ arret' = arret /\ soumises' = soumises
    BY <1>0, <1>5, RetraitEnFile DEF Prendre
  <2>2. arret = "repos"
    BY <1>0, <2>1 DEF FileDeTaches
  <2>3. /\ EnFile' = EnFile \ {t}
        /\ (\A i, j \in DOMAIN laFile : laFile[i] = laFile[j] => i = j)'
    BY <1>0, <1>5, <2>2, RetraitEnFile DEF Prendre, FileDeTaches
  <2>4. Prises' = Prises \cup {t}
    BY <1>5, PrisesApresPrendre
  <2>5. EnFile' \subseteq soumises' \ Prises'
    BY <2>1, <2>2, <2>3, <2>4 DEF FileDeTaches
  <2>6. QED
    BY <2>1, <2>2, <2>3, <2>5 DEF FileDeTaches
<1>6. ASSUME laFile' = laFile, soumises' = soumises,
             (arret' = "repos") = (arret = "repos"), Prises' \subseteq Prises
      PROVE  FileDeTaches'
  <2>1. EnFile' = EnFile
    BY <1>6 DEF EnFile
  <2>2. QED
    BY <1>6, <2>1 DEF FileDeTaches
<1>7. ASSUME NEW w \in Threads, FinTache(w) PROVE FileDeTaches'
  <2>1. Prises' \subseteq Prises
    BY <1>7, PrisesApresFin
  <2>2. QED
    BY <1>6, <1>7, <2>1 DEF FinTache, fileVars
<1>8. QED
  BY <1>1, <1>2, <1>3, <1>4, <1>5, <1>6, <1>7, FileInchangee,
     PrisesInchangees

(* A task comes out of the file once, and then belongs to one thread.      *)
LEMMA PrisesConservees ==
    TypeOK /\ PriseUnique /\ TousDemarres /\ FileDeTaches /\ [Next]_vars
        => PriseUnique'
<1> SUFFICES ASSUME TypeOK, PriseUnique, TousDemarres, FileDeTaches,
                    [Next]_vars
             PROVE  PriseUnique'
  OBVIOUS
<1>1. ASSUME NEW w \in Threads, NEW t \in Taches, Prendre(w, t)
      PROVE  PriseUnique'
  <2>1. t \in EnFile
    BY <1>1, RetraitEnFile DEF Prendre, TypeOK
  <2>2. t \in soumises \ Prises
    BY <2>1, TachesAssumption DEF FileDeTaches
  <2>3. Prises' \subseteq soumises'
    BY <1>1, <2>2, PrisesApresPrendre DEF PriseUnique, Prendre
  <2>4. \A v \in Threads : pc[v] \in {"prise", "execution"} => tache[v] # t
    BY <2>2 DEF Prises
  <2>5. QED
    BY <1>1, <2>3, <2>4 DEF PriseUnique, Prendre, AllerEn, TypeOK
<1>2. ASSUME NEW w \in Threads, FinTache(w) PROVE PriseUnique'
  <2>1. Prises' \subseteq soumises'
    BY <1>2, PrisesApresFin DEF PriseUnique, FinTache
  <2>2. QED
    BY <1>2, <2>1 DEF PriseUnique, FinTache, AllerEn, TypeOK
<1>3. ASSUME \A w \in Threads :
                 ~FinTache(w) /\ \A t \in Taches : ~Prendre(w, t)
      PROVE  PriseUnique'
  <2>1. Prises' = Prises /\ soumises \subseteq soumises'
    <3>1. soumises \subseteq soumises'
      BY DEF Next, PasThread, PasArreter, vars, poolVars, Run, AjouterTache,
             ArreterVider, ArreterInterrompre, ArreterPousser,
             ArreterMarquer, ArreterOui, ArreterNon, Prendre, PrendreArret,
             PrendreSurVide, PrendreNil, LireDoitSArreter, Lancer, FinTache,
             Sortir
    <3>2. QED
      BY <1>3, <3>1, PrisesInchangees
  <2>2. CASE Run
    BY <2>1, <2>2 DEF Run, PriseUnique
  <2>3. ASSUME NEW w \in Threads, PasThread(w) PROVE PriseUnique'
    BY <1>3, <2>1, <2>3
       DEF PasThread, PrendreArret, PrendreSurVide, PrendreNil,
           LireDoitSArreter, Lancer, Sortir, AllerEn, PriseUnique, TypeOK
  <2>4. CASE UNCHANGED <<pc, tache>>
    BY <2>1, <2>4 DEF PriseUnique
  <2>5. QED
    BY <2>2, <2>3, <2>4
       DEF Next, PasArreter, vars, poolVars, AjouterTache, ArreterVider,
           ArreterInterrompre, ArreterPousser, ArreterMarquer, ArreterOui,
           ArreterNon
<1>4. QED
  BY <1>1, <1>2, <1>3

-----------------------------------------------------------------------------
(* The invariant holds before run:.                                        *)
LEMMA InductifInit == Init => Inductif
<1> SUFFICES ASSUME Init PROVE Inductif
  OBVIOUS
<1>1. Vivants = {}
  BY DEF Init, Vivants
<1>2. TypeOK
  BY EmptySeq DEF Init, InitFile, TypeOK, TypeFile, PcThread, PcArret
<1>3. QED
  BY <1>1, <1>2, FS_EmptySet
     DEF Init, InitFile, Inductif, PasDeReveilPerdu, CompteurFidele,
         PriseReelle, ListeFidele, TousDemarres, OuiSansPersonne,
         FileDeTaches, PriseUnique, EnFile, Prises

(* The invariant the theorems below are parts of.                          *)
THEOREM InductifToujours == Spec => []Inductif
<1>1. Inductif /\ [Next]_vars => Inductif'
  BY TypeConserve, ReveilConserve, CompteurConserve, TachesConservees,
     DemarrageConserve, OuiConserve, FileConservee, PrisesConservees
     DEF Inductif
<1>2. QED
  BY InductifInit, <1>1, PTL DEF Spec

(* Type correctness of the pool (CR_TraitementsMultiThreads.m).            *)
THEOREM TypeCorrect == Spec => []TypeOK
<1>1. Inductif => TypeOK
  BY DEF Inductif
<1>2. QED
  BY <1>1, InductifToujours, PTL

(* No wake-up is lost in the file, whatever the number of threads and of   *)
(* tasks (CR_File.m:52-120, CR_TraitementsMultiThreads.m:59-69).           *)
THEOREM AucunReveilPerdu == Spec => []PasDeReveilPerdu
<1>1. Inductif => PasDeReveilPerdu
  BY DEF Inductif
<1>2. QED
  BY <1>1, InductifToujours, PTL

(* The condition arreter: waits on counts the threads still there          *)
(* (CR_TraitementsMultiThreads.m:110-118, CR_Consommateur.m:264-271).      *)
THEOREM CompteurToujoursFidele == Spec => []CompteurFidele
<1>1. Inductif => CompteurFidele
  BY DEF Inductif
<1>2. QED
  BY <1>1, InductifToujours, PTL

(* When arreter: answers YES every thread has left and no task is listed   *)
(* as running (CR_TraitementsMultiThreads.m:82-96).                        *)
THEOREM ArretToujoursComplet == Spec => []ArretComplet
<1>1. Inductif => ArretComplet
  <2> SUFFICES ASSUME Inductif, arret = "oui"
               PROVE  /\ \A w \in Threads : pc[w] = "fini"
                      /\ tachesEnCours = {}
    BY DEF ArretComplet
  <2>1. Vivants = {}
    BY DEF Inductif, OuiSansPersonne
  <2>2. \A w \in Threads : pc[w] \in {"eteint", "fini"}
    BY <2>1 DEF Inductif, TypeOK, Vivants
  <2>3. \A w \in Threads : pc[w] = "fini"
    BY <2>2 DEF Inductif, TousDemarres
  <2>4. tachesEnCours = {}
    BY <2>3 DEF Inductif, ListeFidele
  <2>5. QED
    BY <2>3, <2>4
<1>2. QED
  BY <1>1, InductifToujours, PTL

-----------------------------------------------------------------------------
(* The pool implements ExecuteurFIFO. A bar marks what stands for a        *)
(* variable of the abstract executor.                                      *)
AttenteB == IF arret = "repos" THEN laFile ELSE <<>>
TermineesB == soumises \ (EnFile \cup Prises)

(* What an abstract variable waits for is in the file, or nothing is.      *)
LEMMA AttenteEstEnFile ==
    ASSUME TypeOK, FileDeTaches
    PROVE  /\ Executeur!EnAttente = EnFile \ {Arret}
           /\ soumises \cap EnFile = Executeur!EnAttente
<1>1. Arret \notin soumises
  BY TachesAssumption DEF TypeOK
<1>2. CASE arret = "repos"
  BY <1>1, <1>2 DEF FileDeTaches, Executeur!EnAttente, EnFile
<1>3. CASE arret # "repos"
  <2>1. Executeur!EnAttente = {}
    BY <1>3 DEF Executeur!EnAttente
  <2>2. QED
    BY <1>1, <1>3, <2>1 DEF FileDeTaches
<1>4. QED
  BY <1>2, <1>3

(* A thread about to take a task is one more than the tasks taken.         *)
LEMMA ResteUnThread ==
    ASSUME TypeOK, NEW w \in Threads, pc[w] = "boucle"
    PROVE  Cardinality(Prises) < Cardinality(Threads)
<1> DEFINE P == {v \in Threads : pc[v] \in {"prise", "execution"}}
           f == [v \in P |-> tache[v]]
<1>1. /\ IsFiniteSet(Threads \ {w})
      /\ Cardinality(Threads \ {w}) = Cardinality(Threads) - 1
      /\ Cardinality(Threads) \in Nat
  BY ThreadsAssumption, FS_RemoveElement, FS_CardinalityType
<1>2. P \in SUBSET (Threads \ {w})
  OBVIOUS
<1>3. IsFiniteSet(P) /\ Cardinality(P) <= Cardinality(Threads \ {w})
  BY <1>1, <1>2, FS_Subset
<1>4. f \in Surjection(P, Prises)
  BY DEF Surjection, Prises
<1>5. IsFiniteSet(Prises) /\ Cardinality(Prises) <= Cardinality(P)
  BY <1>3, <1>4, FS_Surjection
<1>6. Cardinality(P) \in Nat /\ Cardinality(Prises) \in Nat
  BY <1>3, <1>5, FS_CardinalityType
<1>7. QED
  BY <1>1, <1>3, <1>5, <1>6

(* The executor counts as the pool does.                                   *)
LEMMA MemeCompte == Executeur!Cardinality(Prises) = Cardinality(Prises)
BY DEF Executeur!Cardinality, Cardinality

(* A step that changes neither the file of tasks nor those taken is none   *)
(* of the abstract executor.                                               *)
LEMMA PasInvisible ==
    ASSUME AttenteB' = AttenteB, Prises' = Prises, TermineesB' = TermineesB
    PROVE  UNCHANGED Executeur!absVars
BY DEF AttenteB, TermineesB, Executeur!absVars

(* Each step of the pool is one of the executor, or none.                  *)
LEMMA PasExecuteur ==
    Inductif /\ [Next]_vars => [Executeur!Next]_(Executeur!absVars)
<1> SUFFICES ASSUME Inductif, [Next]_vars
             PROVE  Executeur!Next \/ UNCHANGED Executeur!absVars
  OBVIOUS
<1>0. /\ TypeOK /\ TypeFile(Taches \cup {Arret}) /\ Arret \notin Taches
      /\ soumises \subseteq Taches /\ Prises \subseteq soumises
      /\ FileDeTaches /\ PriseUnique /\ TousDemarres
      /\ Executeur!EnAttente = EnFile \ {Arret}
      /\ soumises \cap EnFile = Executeur!EnAttente
  BY TachesAssumption, AttenteEstEnFile DEF Inductif, TypeOK, PriseUnique
<1>1. ASSUME NEW t \in Taches, AjouterTache(t) PROVE Executeur!Soumettre(t)
  <2>1. /\ arret = "repos" /\ arret' = "repos" /\ t \notin soumises
        /\ soumises' = soumises \cup {t} /\ Prises' = Prises
        /\ laFile' = Append(laFile, t)
    BY <1>1 DEF AjouterTache, Prises, InWithLock
  <2>2. EnFile' = EnFile \cup {t} /\ EnFile \subseteq soumises
    BY <1>0, <1>1, <2>1, AjoutEnFile DEF AjouterTache, FileDeTaches
  <2>3. TermineesB' = TermineesB
    BY <1>0, <2>1, <2>2 DEF TermineesB
  <2>4. t \notin Executeur!EnAttente \cup Prises \cup TermineesB
    BY <1>0, <2>1, <2>2 DEF TermineesB
  <2>5. QED
    BY <2>1, <2>3, <2>4 DEF Executeur!Soumettre, TermineesB
<1>2. CASE ArreterVider
  <2>1. /\ arret = "repos" /\ arret' = "vide" /\ EnFile' = {}
        /\ soumises' = soumises /\ Prises' = Prises
    BY <1>2 DEF ArreterVider, EnFile, Prises
  <2>2. EnFile \subseteq soumises \ Prises
    BY <2>1, <1>0 DEF FileDeTaches
  <2>3. TermineesB' = TermineesB \cup EnFile
    BY <2>1, <2>2 DEF TermineesB
  <2>4. CASE laFile = <<>>
    <3>1. EnFile = {}
      BY <2>4 DEF EnFile
    <3>2. AttenteB' = AttenteB /\ TermineesB' = TermineesB
      BY <2>1, <2>3, <2>4, <3>1 DEF AttenteB
    <3>3. QED
      BY <2>1, <3>2, PasInvisible
  <2>5. CASE laFile # <<>>
    <3>1. Executeur!EnAttente = EnFile
      BY <1>0, <2>2
    <3>2. Executeur!Abandonner
      BY <2>1, <2>3, <2>5, <3>1 DEF Executeur!Abandonner, TermineesB
    <3>3. QED
      BY <3>2 DEF Executeur!Next
  <2>6. QED
    BY <2>4, <2>5
<1>3. ASSUME NEW w \in Threads, ArreterPousser(w)
      PROVE  UNCHANGED Executeur!absVars
  <2>1. /\ arret = "drapeaux" /\ arret' = arret
        /\ soumises' = soumises /\ Prises' = Prises
    BY <1>3 DEF ArreterPousser, Prises
  <2>2. EnFile' = EnFile \cup {Arret}
    BY <1>0, <1>3, AjoutEnFile DEF ArreterPousser
  <2>3. AttenteB' = AttenteB /\ TermineesB' = TermineesB
    BY <1>0, <2>1, <2>2 DEF AttenteB, TermineesB
  <2>4. QED
    BY <2>1, <2>3, PasInvisible
<1>4. ASSUME NEW w \in Threads, PrendreArret(w)
      PROVE  UNCHANGED Executeur!absVars
  <2>1. /\ Arret \in EnFile /\ EnFile' \cup {Arret} = EnFile
        /\ arret' = arret /\ soumises' = soumises
    BY <1>0, <1>4, RetraitEnFile DEF PrendreArret
  <2>2. Prises' = Prises
    BY <1>0, <1>4 DEF PrendreArret, AllerEn, Prises, TypeOK
  <2>3. arret # "repos"
    BY <1>0, <2>1 DEF FileDeTaches
  <2>4. AttenteB' = AttenteB /\ TermineesB' = TermineesB
    BY <1>0, <2>1, <2>2, <2>3 DEF AttenteB, TermineesB
  <2>5. QED
    BY <2>2, <2>4, PasInvisible
<1>5. ASSUME NEW w \in Threads, NEW t \in Taches, Prendre(w, t)
      PROVE  Executeur!Demarrer
  <2>1. /\ t \in EnFile /\ EnFile' \cup {t} = EnFile
        /\ arret' = arret /\ soumises' = soumises
    BY <1>0, <1>5, RetraitEnFile DEF Prendre
  <2>2. arret = "repos"
    BY <1>0, <2>1 DEF FileDeTaches
  <2>3. Prises' = Prises \cup {t}
    BY <1>0, <1>5, PrisesApresPrendre
  <2>4. TermineesB' = TermineesB
    BY <2>1, <2>3 DEF TermineesB
  <2>5. laFile # <<>> /\ t = Head(laFile) /\ laFile' = Tail(laFile)
    BY <1>5 DEF Prendre, OutWithLock
  <2>6. Cardinality(Prises) < Cardinality(Threads)
    BY <1>0, <1>5, ResteUnThread DEF Prendre
  <2>7. AttenteB = laFile /\ AttenteB' = Tail(laFile)
    BY <2>1, <2>2, <2>5 DEF AttenteB
  <2>8. /\ AttenteB # <<>>
        /\ Cardinality(Prises) < Cardinality(Threads)
        /\ Prises' = Prises \cup {Head(AttenteB)}
        /\ AttenteB' = Tail(AttenteB)
        /\ TermineesB' = TermineesB
    BY <2>3, <2>4, <2>5, <2>6, <2>7
  <2>9. QED
    BY <2>8, MemeCompte DEF Executeur!Demarrer, AttenteB, TermineesB
<1>6. ASSUME NEW w \in Threads, FinTache(w)
      PROVE  \E t \in Taches : Executeur!Terminer(t)
  <2>1. /\ tache[w] \in Prises /\ Prises' = Prises \ {tache[w]}
        /\ tache[w] \in Taches
    BY <1>0, <1>6, PrisesApresFin
  <2>2. laFile' = laFile /\ arret' = arret /\ soumises' = soumises
    BY <1>6 DEF FinTache, fileVars
  <2>3. EnFile' = EnFile /\ tache[w] \notin EnFile
    BY <1>0, <2>1, <2>2 DEF EnFile, FileDeTaches
  <2>4. TermineesB' = TermineesB \cup {tache[w]}
    BY <1>0, <2>1, <2>2, <2>3 DEF TermineesB
  <2>5. Executeur!Terminer(tache[w])
    BY <2>1, <2>2, <2>4 DEF Executeur!Terminer, TermineesB
  <2>6. QED
    BY <2>1, <2>5
<1>7. ASSUME laFile' = laFile, soumises' = soumises,
             (arret' = "repos") = (arret = "repos"), Prises' = Prises
      PROVE  UNCHANGED Executeur!absVars
  <2>1. EnFile' = EnFile
    BY <1>7 DEF EnFile
  <2>2. AttenteB' = AttenteB /\ TermineesB' = TermineesB
    BY <1>7, <2>1 DEF AttenteB, TermineesB
  <2>3. QED
    BY <1>7, <2>2, PasInvisible
<1>8. CASE \/ \E t \in Taches : AjouterTache(t)
           \/ \E w \in Threads : FinTache(w) \/ \E t \in Taches : Prendre(w, t)
  BY <1>1, <1>5, <1>6, <1>8 DEF Executeur!Next
<1>9. QED
  BY <1>0, <1>2, <1>3, <1>4, <1>7, <1>8, FileInchangee, PrisesInchangees

(* The pool is a FIFO executor, however many threads and tasks: no         *)
(* interleaving of the takes with the stop takes a task twice, out of      *)
(* order, by two threads, or drops one that was taken                      *)
(* (CR_TraitementsMultiThreads.m:59-69,98-166, CR_Consommateur.m:165-271). *)
THEOREM PoolExecuteEnOrdre == Spec => RaffineExecuteur
<1>1. Init => Executeur!Init
  BY DEF Init, InitFile, Executeur!Init, Prises, EnFile
<1>2. Inductif /\ [Next]_vars => [Executeur!Next]_(Executeur!absVars)
  BY PasExecuteur
<1>3. Spec => Executeur!Spec
  BY <1>1, <1>2, InductifToujours, PTL DEF Spec, Executeur!Spec
<1>4. QED
  BY <1>3 DEF RaffineExecuteur
=============================================================================
