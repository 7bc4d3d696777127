---------------------- MODULE SauvegardeIncrementale_proofs ----------------------
(***************************************************************************)
(* The incremental backup, its link and its retention, for every calendar, *)
(* any number of backups, faults and uses of the storage window.           *)
(***************************************************************************)
EXTENDS SauvegardeIncrementale, WellFoundedInduction, TLAPS

-----------------------------------------------------------------------------
(* The calendar.                                                           *)

LEMMA Durees ==
    /\ MaxTemps \in Nat
    /\ \A u \in Unites : Duree[u] \in Nat /\ Duree[u] > 0
    /\ Duree["heure"] <= Duree["jour"]
    /\ Duree["jour"] <= Duree["semaine"]
    /\ Duree["semaine"] <= Duree["mois"]
    /\ DOMAIN Suivante = {"heure", "jour", "semaine"}
    /\ Suivante["heure"] = "jour"
    /\ Suivante["jour"] = "semaine"
    /\ Suivante["semaine"] = "mois"
<1>1. /\ DOMAIN Suivante = {"heure", "jour", "semaine"}
      /\ Suivante["heure"] = "jour"
      /\ Suivante["jour"] = "semaine"
      /\ Suivante["semaine"] = "mois"
  BY DEF Suivante
<1>2. \A u \in DOMAIN Suivante : Duree[u] <= Duree[Suivante[u]]
  BY IncrementaleAssumption
<1>3. MaxTemps \in Nat /\ \A u \in Unites : Duree[u] \in Nat /\ Duree[u] > 0
  BY IncrementaleAssumption
<1>4. QED
  BY <1>1, <1>2, <1>3

(* Two dates of one period are less than its length apart.                 *)
LEMMA MemePeriode ==
    ASSUME NEW u \in Unites, NEW d \in Dates, NEW e \in Dates,
           Periode[u][d] = Periode[u][e]
    PROVE  e < d + Duree[u]
BY IncrementaleAssumption

(* In an age class one number stands for one period.                       *)
LEMMA MemeNumero ==
    ASSUME NEW u \in {"heure", "jour", "semaine"},
           NEW d \in Dates, NEW e \in Dates, d <= e,
           e + Duree[u] < d + Duree[Suivante[u]],
           Numero[u][d] = Numero[u][e]
    PROVE  Periode[u][d] = Periode[u][e]
<1>1. u \in DOMAIN Suivante
  BY Durees
<1>2. QED
  BY <1>1, IncrementaleAssumption

(* A listing is in the order of the dates.                                 *)
LEMMA Ordre ==
    ASSUME NEW d \in Dates, NEW e \in Dates, Rang[d] < Rang[e]
    PROVE  d < e
<1>1. Rang[d] \in Nat /\ Rang[e] \in Nat
  BY IncrementaleAssumption
<1>2. ~(e < d) /\ d # e
  BY <1>1, ListageAssumption
<1>3. d \in Nat /\ e \in Nat
  BY Durees DEF Dates
<1>4. QED
  BY <1>2, <1>3

(* A set of dates has a last one.                                          *)
LEMMA Derniere ==
    ASSUME NEW S \in SUBSET Dates, S # {}
    PROVE  \E m \in S : \A e \in S : e <= m
<1> DEFINE T == {MaxTemps - d : d \in S}
           R == OpToRel(<, Nat)
<1>1. MaxTemps \in Nat /\ S \subseteq Nat /\ \A d \in S : d <= MaxTemps
  BY Durees DEF Dates
<1>2. T \subseteq Nat /\ T # {}
  BY <1>1
<1>3. \E x \in T : \A y \in T : <<y, x>> \notin R
  <2> HIDE DEF T
  <2>1. QED
    BY <1>2, NatLessThanWellFounded, WFMin
<1>4. PICK x \in T : \A y \in T : <<y, x>> \notin R
  BY <1>3
<1>5. \A y \in T : ~(y < x)
  BY <1>2, <1>4 DEF OpToRel
<1>6. PICK m \in S : x = MaxTemps - m
  OBVIOUS
<1>7. ASSUME NEW e \in S
      PROVE  e <= m
  <2>1. MaxTemps - e \in T
    OBVIOUS
  <2>2. ~(MaxTemps - e < MaxTemps - m)
    BY <1>5, <1>6, <2>1
  <2>3. QED
    BY <1>1, <2>2
<1>8. QED
  BY <1>7

-----------------------------------------------------------------------------
(* The retention.                                                          *)

LEMMA DansTranche ==
    ASSUME TypeOK, NEW u \in Unites, NEW d \in Tranche(u)
    PROVE  /\ d \in dossiers /\ d \in Dates /\ d \in Nat
           /\ maintenant \in Nat
           /\ d + Duree[u] <= maintenant
           /\ u \in {"heure", "jour", "semaine"} =>
                maintenant < d + Duree[Suivante[u]]
<1>1. d \in dossiers /\ maintenant >= d + Duree[u]
      /\ (u \in DOMAIN Suivante => maintenant < d + Duree[Suivante[u]])
  BY DEF Tranche
<1>2. d \in Dates /\ maintenant \in Dates /\ Dates \subseteq Nat
  BY <1>1, Durees DEF TypeOK, Dates
<1>3. Duree[u] \in Nat
  BY Durees
<1>4. QED
  BY <1>1, <1>2, <1>3, Durees

(* A directory is in one age class at most.                                *)
LEMMA UneTranche ==
    ASSUME TypeOK, NEW u \in Unites, NEW w \in Unites,
           NEW d, d \in Tranche(u), d \in Tranche(w)
    PROVE  u = w
<1>1. /\ d \in Nat /\ maintenant \in Nat
      /\ d + Duree[u] <= maintenant /\ d + Duree[w] <= maintenant
      /\ u \in {"heure", "jour", "semaine"} =>
           maintenant < d + Duree[Suivante[u]]
      /\ w \in {"heure", "jour", "semaine"} =>
           maintenant < d + Duree[Suivante[w]]
  BY DansTranche
<1>2. \A x \in Unites : Duree[x] \in Nat
  BY Durees
<1>3. u \in {"heure", "jour", "semaine", "mois"}
      /\ w \in {"heure", "jour", "semaine", "mois"}
  BY DEF Unites
<1>4. /\ Duree["heure"] \in Nat /\ Duree["jour"] \in Nat
      /\ Duree["semaine"] \in Nat /\ Duree["mois"] \in Nat
  BY <1>2 DEF Unites
<1>5. QED
  BY <1>1, <1>3, <1>4, Durees

(* Of a run of one number the last directory is kept, and it is later.     *)
LEMMA Survivant ==
    ASSUME TypeOK, NEW d \in ToDel
    PROVE  \E u \in Unites : \E m \in dossiers \ ToDel :
              /\ d \in Tranche(u) /\ m \in Tranche(u)
              /\ d <= m
              /\ Numero[u][d] = Numero[u][m]
<1>1. PICK u \in Unites : d \in SelectionASupprimer(Tranche(u), Numero[u])
  BY DEF ToDel
<1>2. d \in Tranche(u)
  BY <1>1 DEF SelectionASupprimer
<1> DEFINE S == {e \in Tranche(u) : Numero[u][d] = Numero[u][e]}
<1>3. S \in SUBSET Dates /\ d \in S
  BY <1>2, DansTranche
<1>4. PICK m \in S : \A e \in S : e <= m
  <2> HIDE DEF S
  <2>1. QED
    BY <1>3, Derniere
<1>5. d <= m /\ m \in Tranche(u) /\ Numero[u][d] = Numero[u][m]
  BY <1>3, <1>4
<1>6. ASSUME m \in ToDel
      PROVE  FALSE
  <2>1. PICK w \in Unites : m \in SelectionASupprimer(Tranche(w), Numero[w])
    BY <1>6 DEF ToDel
  <2>2. m \in Tranche(w)
    BY <2>1 DEF SelectionASupprimer
  <2>3. w = u
    BY <1>5, <2>2, UneTranche
  <2>4. PICK e \in Tranche(u) : Rang[m] < Rang[e] /\ Numero[u][m] = Numero[u][e]
    BY <2>1, <2>3 DEF SelectionASupprimer, Suit
  <2>5. m \in Dates /\ e \in Dates /\ m \in Nat /\ e \in Nat
    BY <1>5, <2>4, DansTranche
  <2>6. m < e
    BY <2>4, <2>5, Ordre
  <2>7. e \in S
    BY <1>5, <2>4
  <2>8. QED
    BY <1>4, <2>5, <2>6, <2>7
<1>7. m \in dossiers
  BY <1>5, DansTranche
<1>8. QED
  BY <1>2, <1>5, <1>6, <1>7

(* What is the newest is never thinned out.                                *)
LEMMA PlusRecenteGardee ==
    ASSUME TypeOK, NEW d \in Dates, \A e \in dossiers : e <= d
    PROVE  d \notin ToDel
<1>1. SUFFICES ASSUME d \in ToDel
               PROVE  FALSE
  OBVIOUS
<1>2. PICK u \in Unites : d \in SelectionASupprimer(Tranche(u), Numero[u])
  BY <1>1 DEF ToDel
<1>3. PICK e \in Tranche(u) : Rang[d] < Rang[e]
  BY <1>2 DEF SelectionASupprimer, Suit
<1>4. e \in dossiers /\ e \in Dates /\ e \in Nat
  BY <1>3, DansTranche
<1>5. d < e
  BY <1>3, <1>4, Ordre
<1>6. d \in Nat
  BY Durees DEF Dates
<1>7. QED
  BY <1>4, <1>5, <1>6

LEMMA ToDelType ==
    ASSUME TypeOK
    PROVE  ToDel \in SUBSET Dates
<1>1. \A u \in Unites : Tranche(u) \subseteq Dates
  BY DansTranche
<1>2. QED
  BY <1>1 DEF ToDel, SelectionASupprimer

-----------------------------------------------------------------------------
(* The invariant.                                                          *)

(* The task: its date is that of the newest directory, whose copy is whole *)
(* after rsync only.                                                       *)
ITache ==
    /\ \A d \in dossiers : d <= maintenant
    /\ pc # "repos" => /\ debut \in Dates
                       /\ debut <= maintenant
                       /\ \A d \in dossiers : d <= debut
    /\ pc = "rsync" => debut \notin complets
    /\ pc # "menage" => aSupprimer = {}

(* The link, as long as its directory was not taken away.                  *)
ILien ==
    ~perdu =>
        /\ lien # Aucune => lien \in dossiers
        /\ lien \notin aSupprimer
        /\ pc = "rsync" => lien # debut
        /\ pc \in {"rsync", "retirer", "creer"} => debut \in dossiers
        /\ pc # "repos" => incr
        /\ pc = "lister" => lien = debut

(* Without a fault a directory is whole, but the one rsync fills.          *)
IEntiers ==
    fautes = 0 => \A d \in dossiers : d \in complets \/ (pc = "rsync" /\ d = debut)

(* Without a fault the link follows.                                       *)
ISuit ==
    /\ LienSuit
    /\ fautes = 0 /\ ~perdu =>
         /\ pc \in {"retirer", "creer"} => debut \in complets
         /\ pc = "creer" => lien = Aucune

(* d stands for temoin: h is in its hour, j in the day of h, d in the week *)
(* of j; what is young stands for itself.                                  *)
Tient(d, h, j) ==
    /\ temoin <= h /\ h <= j /\ j <= d
    /\ Periode["heure"][temoin] = Periode["heure"][h]
    /\ Periode["jour"][h] = Periode["jour"][j]
    /\ Periode["semaine"][j] = Periode["semaine"][d]
    /\ maintenant < d + Duree["heure"] => d = temoin
    /\ maintenant < d + Duree["jour"] => d = h
    /\ maintenant < d + Duree["semaine"] => d = j

IHistoire ==
    temoin # Aucune /\ maintenant < temoin + Duree["mois"] =>
        \E d \in dossiers \ aSupprimer : \E h, j \in Dates :
            /\ Tient(d, h, j)
            /\ pc = "rsync" => d # debut
            /\ fautes = 0 => d \in complets

IInv ==
    /\ TypeOK
    /\ ITache
    /\ ILien
    /\ IEntiers
    /\ ISuit
    /\ IHistoire

LEMMA InitIInv == Init => IInv
<1> SUFFICES ASSUME Init
             PROVE  IInv
  OBVIOUS
<1>1. /\ MaxTemps \in Nat /\ MaxPurges \in Nat /\ MaxFautes \in Nat
      /\ Aucune \notin Dates
  BY IncrementaleAssumption
<1>2. 0 \in Dates /\ 0 \in 0 .. MaxPurges /\ 0 \in 0 .. MaxFautes
  BY <1>1 DEF Dates
<1>3. TypeOK
  BY <1>2 DEF Init, TypeOK, PcTache
<1>4. ITache /\ ILien /\ IEntiers /\ ISuit /\ IHistoire
  BY <1>1 DEF Init, ITache, ILien, IEntiers, ISuit, LienSuit, IHistoire
<1>5. QED
  BY <1>3, <1>4 DEF IInv

-----------------------------------------------------------------------------
(* Every step keeps it, part by part.                                      *)

(* The types.                                                              *)
LEMMA TypesGardes ==
    TypeOK /\ ITache /\ [Next]_vars => TypeOK'
<1> SUFFICES ASSUME TypeOK /\ ITache, [Next]_vars
             PROVE  TypeOK'
  OBVIOUS
<1>1. /\ MaxTemps \in Nat /\ MaxPurges \in Nat /\ MaxFautes \in Nat
      /\ Aucune \notin Dates
  BY IncrementaleAssumption
<1>2. Dates \subseteq Nat
  BY <1>1 DEF Dates
<1>3. Faute => fautes' \in 0 .. MaxFautes
  BY <1>1 DEF Faute, TypeOK
<1>4. OuvrirFenetre => purges' \in 0 .. MaxPurges
  BY <1>1 DEF OuvrirFenetre, TypeOK
<1>11. CASE Commencer
  BY <1>11, <1>1, <1>3, <1>4 DEF Commencer, Avancer, fenetre, TypeOK,
     PcTache, ITache
<1>12. CASE RsyncImpossible
  BY <1>12, <1>1, <1>3, <1>4 DEF RsyncImpossible, tacheVars, fenetre,
     TypeOK, PcTache, ITache
<1>13. CASE RsyncSansSource
  BY <1>13, <1>1, <1>3, <1>4 DEF RsyncSansSource, Avancer, fenetre, TypeOK,
     PcTache, ITache
<1>14. CASE StopTache
  BY <1>14, <1>1, <1>3, <1>4 DEF StopTache, disque, fenetre, TypeOK,
     PcTache, ITache
<1>15. CASE RsyncReussit
  BY <1>15, <1>1, <1>3, <1>4 DEF RsyncReussit, Avancer, fenetre, TypeOK,
     PcTache, ITache
<1>16. CASE RsyncEchoue
  BY <1>16, <1>1, <1>3, <1>4 DEF RsyncEchoue, Avancer, disque, fenetre,
     TypeOK, PcTache, ITache
<1>17. CASE LectureEchoue
  BY <1>17, <1>1, <1>3, <1>4 DEF LectureEchoue, Finir, disque, fenetre,
     TypeOK, PcTache, ITache
<1>18. CASE RsyncArrete
  BY <1>18, <1>1, <1>3, <1>4 DEF RsyncArrete, Finir, fenetre, TypeOK,
     PcTache, ITache
<1>19. CASE RetirerLien
  BY <1>19, <1>1, <1>3, <1>4 DEF RetirerLien, Avancer, Pendant, fenetre,
     TypeOK, PcTache, ITache
<1>20. CASE CreerLien
  BY <1>20, <1>1, <1>3, <1>4 DEF CreerLien, Avancer, fenetre, TypeOK,
     PcTache, ITache
<1>21. CASE CreerLienEchoue
  BY <1>21, <1>1, <1>3, <1>4 DEF CreerLienEchoue, Finir, disque, fenetre,
     TypeOK, PcTache, ITache
<1>22. CASE Lister
  <2>1. ToDel \in SUBSET Dates
    BY ToDelType
  <2>2. QED
    BY <1>22, <1>1, <2>1 DEF Lister, Avancer, disque, fenetre, TypeOK, PcTache
<1>23. ASSUME NEW d \in Dates, Menage(d)
       PROVE  TypeOK'
  BY <1>23, <1>1, <1>3, <1>4 DEF Menage, Supprimer, fenetre, TypeOK,
     PcTache, ITache
<1>24. CASE FinMenage
  BY <1>24, <1>1, <1>3, <1>4 DEF FinMenage, Finir, disque, fenetre, TypeOK,
     PcTache, ITache
<1>25. CASE Purger
  BY <1>25, <1>1, <1>3, <1>4 DEF Purger, disque, tacheVars, TypeOK, PcTache,
     ITache
<1>26. ASSUME NEW d \in Dates, PurgerUn(d)
       PROVE  TypeOK'
  BY <1>26, <1>1, <1>3, <1>4 DEF PurgerUn, Supprimer, tacheVars, TypeOK,
     PcTache, ITache
<1>27. CASE ToutSupprimer
  BY <1>27, <1>1, <1>3, <1>4 DEF ToutSupprimer, tacheVars, TypeOK, PcTache,
     ITache
<1>28. CASE ToutSupprimerEchoue
  BY <1>28, <1>1, <1>3, <1>4 DEF ToutSupprimerEchoue, tacheVars, TypeOK,
     PcTache, ITache
<1>29. CASE Temps
  <2>1. maintenant' \in Dates
    BY <1>29, <1>1 DEF Temps, TypeOK, Dates
  <2>2. QED
    BY <1>29, <2>1 DEF Temps, disque, tacheVars, fenetre, TypeOK, PcTache
<1>30. CASE Crash
  BY <1>30, <1>1, <1>3, <1>4 DEF Crash, Finir, disque, TypeOK, PcTache, ITache
<1>31. CASE UNCHANGED vars
  BY <1>31, <1>1, <1>3, <1>4 DEF vars, disque, tacheVars, fenetre, TypeOK,
     PcTache, ITache
<1>32. QED
  BY <1>11, <1>12, <1>13, <1>14, <1>15, <1>16, <1>17, <1>18, <1>19, <1>20,
     <1>21, <1>22, <1>23, <1>24, <1>25, <1>26, <1>27, <1>28, <1>29, <1>30,
     <1>31
     DEF Next, Tache, Fenetre

(* The task.                                                               *)
LEMMA TacheGardee ==
    TypeOK /\ ITache /\ [Next]_vars => ITache'
<1> SUFFICES ASSUME TypeOK /\ ITache, [Next]_vars
             PROVE  ITache'
  OBVIOUS
<1>1. /\ MaxTemps \in Nat /\ MaxPurges \in Nat /\ MaxFautes \in Nat
      /\ Aucune \notin Dates
  BY IncrementaleAssumption
<1>2. Dates \subseteq Nat
  BY <1>1 DEF Dates
<1>3. maintenant \in Nat
  BY <1>2 DEF TypeOK
<1>11. CASE Commencer
  BY <1>11, <1>1, <1>2, <1>3 DEF Commencer, Avancer, fenetre, TypeOK, ITache
<1>12. CASE RsyncImpossible
  BY <1>12, <1>1, <1>2, <1>3 DEF RsyncImpossible, Faute, tacheVars, fenetre,
     TypeOK, ITache
<1>13. CASE RsyncSansSource
  BY <1>13, <1>1, <1>2, <1>3 DEF RsyncSansSource, Avancer, Faute, fenetre,
     TypeOK, ITache
<1>14. CASE StopTache
  BY <1>14, <1>1, <1>2, <1>3 DEF StopTache, disque, fenetre, TypeOK, ITache
<1>15. CASE RsyncReussit
  BY <1>15, <1>1, <1>2, <1>3 DEF RsyncReussit, Avancer, fenetre, TypeOK,
     ITache
<1>16. CASE RsyncEchoue
  BY <1>16, <1>1, <1>2, <1>3 DEF RsyncEchoue, Avancer, Faute, disque,
     fenetre, TypeOK, ITache
<1>17. CASE LectureEchoue
  BY <1>17, <1>1, <1>2, <1>3 DEF LectureEchoue, Faute, Finir, disque,
     fenetre, TypeOK, ITache
<1>18. CASE RsyncArrete
  BY <1>18, <1>1, <1>2, <1>3 DEF RsyncArrete, Faute, Finir, fenetre, TypeOK,
     ITache
<1>19. CASE RetirerLien
  BY <1>19, <1>1, <1>2, <1>3 DEF RetirerLien, Avancer, Faute, Pendant,
     fenetre, TypeOK, ITache
<1>20. CASE CreerLien
  BY <1>20, <1>1, <1>2, <1>3 DEF CreerLien, Avancer, fenetre, TypeOK, ITache
<1>21. CASE CreerLienEchoue
  BY <1>21, <1>1, <1>2, <1>3 DEF CreerLienEchoue, Faute, Finir, disque,
     fenetre, TypeOK, ITache
<1>22. CASE Lister
  BY <1>22, <1>1, <1>2, <1>3 DEF Lister, Avancer, disque, fenetre, TypeOK,
     ITache
<1>23. ASSUME NEW d \in Dates, Menage(d)
       PROVE  ITache'
  BY <1>23, <1>1, <1>2, <1>3 DEF Menage, Supprimer, Faute, fenetre, TypeOK,
     ITache
<1>24. CASE FinMenage
  BY <1>24, <1>1, <1>2, <1>3 DEF FinMenage, Finir, disque, fenetre, TypeOK,
     ITache
<1>25. CASE Purger
  BY <1>25, <1>1, <1>2, <1>3 DEF Purger, OuvrirFenetre, disque, tacheVars,
     TypeOK, ITache
<1>26. ASSUME NEW d \in Dates, PurgerUn(d)
       PROVE  ITache'
  BY <1>26, <1>1, <1>2, <1>3 DEF PurgerUn, Supprimer, Faute, tacheVars,
     TypeOK, ITache
<1>27. CASE ToutSupprimer
  BY <1>27, <1>1, <1>2, <1>3 DEF ToutSupprimer, OuvrirFenetre, tacheVars,
     TypeOK, ITache
<1>28. CASE ToutSupprimerEchoue
  BY <1>28, <1>1, <1>2, <1>3 DEF ToutSupprimerEchoue, OuvrirFenetre, Faute,
     tacheVars, TypeOK, ITache
<1>29. CASE Temps
  BY <1>29, <1>1, <1>2, <1>3 DEF Temps, disque, tacheVars, fenetre, TypeOK,
     ITache
<1>30. CASE Crash
  BY <1>30, <1>1, <1>2, <1>3 DEF Crash, Faute, Finir, disque, TypeOK, ITache
<1>31. CASE UNCHANGED vars
  BY <1>31, <1>1, <1>2, <1>3 DEF vars, disque, tacheVars, fenetre, TypeOK,
     ITache
<1>32. QED
  BY <1>11, <1>12, <1>13, <1>14, <1>15, <1>16, <1>17, <1>18, <1>19, <1>20,
     <1>21, <1>22, <1>23, <1>24, <1>25, <1>26, <1>27, <1>28, <1>29, <1>30,
     <1>31
     DEF Next, Tache, Fenetre

(* The link.                                                               *)
LEMMA LienGarde ==
    TypeOK /\ ITache /\ ILien /\ [Next]_vars => ILien'
<1> SUFFICES ASSUME TypeOK /\ ITache /\ ILien, [Next]_vars
             PROVE  ILien'
  OBVIOUS
<1>1. Aucune \notin Dates
  BY IncrementaleAssumption
<1>11. CASE Commencer
  BY <1>11, <1>1 DEF Commencer, Avancer, fenetre, TypeOK, ITache, ILien
<1>12. CASE RsyncImpossible
  BY <1>12, <1>1 DEF RsyncImpossible, Faute, tacheVars, fenetre, TypeOK,
     ITache, ILien
<1>13. CASE RsyncSansSource
  BY <1>13, <1>1 DEF RsyncSansSource, Avancer, Faute, fenetre, TypeOK,
     ITache, ILien
<1>14. CASE StopTache
  BY <1>14, <1>1 DEF StopTache, disque, fenetre, TypeOK, ITache, ILien
<1>15. CASE RsyncReussit
  BY <1>15, <1>1 DEF RsyncReussit, Avancer, fenetre, TypeOK, ITache, ILien
<1>16. CASE RsyncEchoue
  BY <1>16, <1>1 DEF RsyncEchoue, Avancer, Faute, disque, fenetre, TypeOK,
     ITache, ILien
<1>17. CASE LectureEchoue
  BY <1>17, <1>1 DEF LectureEchoue, Faute, Finir, disque, fenetre, TypeOK,
     ITache, ILien
<1>18. CASE RsyncArrete
  BY <1>18, <1>1 DEF RsyncArrete, Faute, Finir, fenetre, TypeOK, ITache, ILien
<1>19. CASE RetirerLien
  BY <1>19, <1>1 DEF RetirerLien, Avancer, Faute, Pendant, fenetre, TypeOK,
     ITache, ILien
<1>20. CASE CreerLien
  BY <1>20, <1>1 DEF CreerLien, Avancer, fenetre, TypeOK, ITache, ILien
<1>21. CASE CreerLienEchoue
  BY <1>21, <1>1 DEF CreerLienEchoue, Faute, Finir, disque, fenetre, TypeOK,
     ITache, ILien
<1>22. CASE Lister
  <2>1. ~perdu => lien \notin ToDel
    BY <1>22, PlusRecenteGardee DEF Lister, Avancer, ITache, ILien
  <2>2. QED
    BY <1>22, <2>1 DEF Lister, Avancer, disque, fenetre, ILien
<1>23. ASSUME NEW d \in Dates, Menage(d)
       PROVE  ILien'
  BY <1>23, <1>1 DEF Menage, Supprimer, Faute, fenetre, TypeOK, ITache, ILien
<1>24. CASE FinMenage
  BY <1>24, <1>1 DEF FinMenage, Finir, disque, fenetre, TypeOK, ITache, ILien
<1>25. CASE Purger
  BY <1>25, <1>1 DEF Purger, OuvrirFenetre, disque, tacheVars, TypeOK,
     ITache, ILien
<1>26. ASSUME NEW d \in Dates, PurgerUn(d)
       PROVE  ILien'
  BY <1>26, <1>1 DEF PurgerUn, Supprimer, Faute, tacheVars, TypeOK, ITache,
     ILien
<1>27. CASE ToutSupprimer
  BY <1>27, <1>1 DEF ToutSupprimer, OuvrirFenetre, tacheVars, TypeOK,
     ITache, ILien
<1>28. CASE ToutSupprimerEchoue
  BY <1>28, <1>1 DEF ToutSupprimerEchoue, OuvrirFenetre, Faute, tacheVars,
     TypeOK, ITache, ILien
<1>29. CASE Temps
  BY <1>29, <1>1 DEF Temps, disque, tacheVars, fenetre, TypeOK, ITache, ILien
<1>30. CASE Crash
  BY <1>30, <1>1 DEF Crash, Faute, Finir, disque, TypeOK, ITache, ILien
<1>31. CASE UNCHANGED vars
  BY <1>31, <1>1 DEF vars, disque, tacheVars, fenetre, TypeOK, ITache, ILien
<1>32. QED
  BY <1>11, <1>12, <1>13, <1>14, <1>15, <1>16, <1>17, <1>18, <1>19, <1>20,
     <1>21, <1>22, <1>23, <1>24, <1>25, <1>26, <1>27, <1>28, <1>29, <1>30,
     <1>31
     DEF Next, Tache, Fenetre

(* What is whole.                                                          *)
LEMMA EntiersGardes ==
    TypeOK /\ ITache /\ ILien /\ IEntiers /\ [Next]_vars => IEntiers'
<1> SUFFICES ASSUME TypeOK /\ ITache /\ ILien /\ IEntiers, [Next]_vars
             PROVE  IEntiers'
  OBVIOUS
<1>1. Aucune \notin Dates
  BY IncrementaleAssumption
<1>2. fautes \in Nat
  BY IncrementaleAssumption DEF TypeOK
<1>11. CASE Commencer
  BY <1>11, <1>1, <1>2 DEF Commencer, Avancer, fenetre, TypeOK, ITache,
     ILien, IEntiers
<1>12. CASE RsyncImpossible
  BY <1>12, <1>1, <1>2 DEF RsyncImpossible, Faute, tacheVars, fenetre,
     TypeOK, ITache, ILien, IEntiers
<1>13. CASE RsyncSansSource
  BY <1>13, <1>1, <1>2 DEF RsyncSansSource, Avancer, Faute, fenetre, TypeOK,
     ITache, ILien, IEntiers
<1>14. CASE StopTache
  BY <1>14, <1>1, <1>2 DEF StopTache, disque, fenetre, TypeOK, ITache,
     ILien, IEntiers
<1>15. CASE RsyncReussit
  BY <1>15, <1>1, <1>2 DEF RsyncReussit, Avancer, fenetre, TypeOK, ITache,
     ILien, IEntiers
<1>16. CASE RsyncEchoue
  BY <1>16, <1>1, <1>2 DEF RsyncEchoue, Avancer, Faute, disque, fenetre,
     TypeOK, ITache, ILien, IEntiers
<1>17. CASE LectureEchoue
  BY <1>17, <1>1, <1>2 DEF LectureEchoue, Faute, Finir, disque, fenetre,
     TypeOK, ITache, ILien, IEntiers
<1>18. CASE RsyncArrete
  BY <1>18, <1>1, <1>2 DEF RsyncArrete, Faute, Finir, fenetre, TypeOK,
     ITache, ILien, IEntiers
<1>19. CASE RetirerLien
  BY <1>19, <1>1, <1>2 DEF RetirerLien, Avancer, Faute, Pendant, fenetre,
     TypeOK, ITache, ILien, IEntiers
<1>20. CASE CreerLien
  BY <1>20, <1>1, <1>2 DEF CreerLien, Avancer, fenetre, TypeOK, ITache,
     ILien, IEntiers
<1>21. CASE CreerLienEchoue
  BY <1>21, <1>1, <1>2 DEF CreerLienEchoue, Faute, Finir, disque, fenetre,
     TypeOK, ITache, ILien, IEntiers
<1>22. CASE Lister
  BY <1>22, <1>1, <1>2 DEF Lister, Avancer, disque, fenetre, TypeOK, ITache,
     ILien, IEntiers
<1>23. ASSUME NEW d \in Dates, Menage(d)
       PROVE  IEntiers'
  BY <1>23, <1>1, <1>2 DEF Menage, Supprimer, Faute, fenetre, TypeOK,
     ITache, ILien, IEntiers
<1>24. CASE FinMenage
  BY <1>24, <1>1, <1>2 DEF FinMenage, Finir, disque, fenetre, TypeOK,
     ITache, ILien, IEntiers
<1>25. CASE Purger
  BY <1>25, <1>1, <1>2 DEF Purger, OuvrirFenetre, disque, tacheVars, TypeOK,
     ITache, ILien, IEntiers
<1>26. ASSUME NEW d \in Dates, PurgerUn(d)
       PROVE  IEntiers'
  BY <1>26, <1>1, <1>2 DEF PurgerUn, Supprimer, Faute, tacheVars, TypeOK,
     ITache, ILien, IEntiers
<1>27. CASE ToutSupprimer
  BY <1>27, <1>1, <1>2 DEF ToutSupprimer, OuvrirFenetre, tacheVars, TypeOK,
     ITache, ILien, IEntiers
<1>28. CASE ToutSupprimerEchoue
  BY <1>28, <1>1, <1>2 DEF ToutSupprimerEchoue, OuvrirFenetre, Faute,
     tacheVars, TypeOK, ITache, ILien, IEntiers
<1>29. CASE Temps
  BY <1>29, <1>1, <1>2 DEF Temps, disque, tacheVars, fenetre, TypeOK,
     ITache, ILien, IEntiers
<1>30. CASE Crash
  BY <1>30, <1>1, <1>2 DEF Crash, Faute, Finir, disque, TypeOK, ITache,
     ILien, IEntiers
<1>31. CASE UNCHANGED vars
  BY <1>31, <1>1, <1>2 DEF vars, disque, tacheVars, fenetre, TypeOK, ITache,
     ILien, IEntiers
<1>32. QED
  BY <1>11, <1>12, <1>13, <1>14, <1>15, <1>16, <1>17, <1>18, <1>19, <1>20,
     <1>21, <1>22, <1>23, <1>24, <1>25, <1>26, <1>27, <1>28, <1>29, <1>30,
     <1>31
     DEF Next, Tache, Fenetre

(* The link that follows.                                                  *)
LEMMA SuiviGarde ==
    TypeOK /\ ITache /\ ILien /\ IEntiers /\ ISuit /\ [Next]_vars => ISuit'
<1> SUFFICES ASSUME TypeOK /\ ITache /\ ILien /\ IEntiers /\ ISuit, [Next]_vars
             PROVE  ISuit'
  OBVIOUS
<1>1. Aucune \notin Dates
  BY IncrementaleAssumption
<1>2. fautes \in Nat
  BY IncrementaleAssumption DEF TypeOK
<1>11. CASE Commencer
  BY <1>11, <1>1, <1>2 DEF Commencer, Avancer, fenetre, TypeOK, ITache,
     ILien, IEntiers, ISuit, LienSuit
<1>12. CASE RsyncImpossible
  BY <1>12, <1>1, <1>2 DEF RsyncImpossible, Faute, tacheVars, fenetre,
     TypeOK, ITache, ILien, IEntiers, ISuit, LienSuit
<1>13. CASE RsyncSansSource
  BY <1>13, <1>1, <1>2 DEF RsyncSansSource, Avancer, Faute, fenetre, TypeOK,
     ITache, ILien, IEntiers, ISuit, LienSuit
<1>14. CASE StopTache
  BY <1>14, <1>1, <1>2 DEF StopTache, disque, fenetre, TypeOK, ITache,
     ILien, IEntiers, ISuit, LienSuit
<1>15. CASE RsyncReussit
  BY <1>15, <1>1, <1>2 DEF RsyncReussit, Avancer, fenetre, TypeOK, ITache,
     ILien, IEntiers, ISuit, LienSuit
<1>16. CASE RsyncEchoue
  BY <1>16, <1>1, <1>2 DEF RsyncEchoue, Avancer, Faute, disque, fenetre,
     TypeOK, ITache, ILien, IEntiers, ISuit, LienSuit
<1>17. CASE LectureEchoue
  BY <1>17, <1>1, <1>2 DEF LectureEchoue, Faute, Finir, disque, fenetre,
     TypeOK, ITache, ILien, IEntiers, ISuit, LienSuit
<1>18. CASE RsyncArrete
  BY <1>18, <1>1, <1>2 DEF RsyncArrete, Faute, Finir, fenetre, TypeOK,
     ITache, ILien, IEntiers, ISuit, LienSuit
<1>19. CASE RetirerLien
  BY <1>19, <1>1, <1>2 DEF RetirerLien, Avancer, Faute, Pendant, fenetre,
     TypeOK, ITache, ILien, IEntiers, ISuit, LienSuit
<1>20. CASE CreerLien
  BY <1>20, <1>1, <1>2 DEF CreerLien, Avancer, fenetre, TypeOK, ITache,
     ILien, IEntiers, ISuit, LienSuit
<1>21. CASE CreerLienEchoue
  BY <1>21, <1>1, <1>2 DEF CreerLienEchoue, Faute, Finir, disque, fenetre,
     TypeOK, ITache, ILien, IEntiers, ISuit, LienSuit
<1>22. CASE Lister
  BY <1>22, <1>1, <1>2 DEF Lister, Avancer, disque, fenetre, TypeOK, ITache,
     ILien, IEntiers, ISuit, LienSuit
<1>23. ASSUME NEW d \in Dates, Menage(d)
       PROVE  ISuit'
  BY <1>23, <1>1, <1>2 DEF Menage, Supprimer, Faute, fenetre, TypeOK,
     ITache, ILien, IEntiers, ISuit, LienSuit
<1>24. CASE FinMenage
  BY <1>24, <1>1, <1>2 DEF FinMenage, Finir, disque, fenetre, TypeOK,
     ITache, ILien, IEntiers, ISuit, LienSuit
<1>25. CASE Purger
  BY <1>25, <1>1, <1>2 DEF Purger, OuvrirFenetre, disque, tacheVars, TypeOK,
     ITache, ILien, IEntiers, ISuit, LienSuit
<1>26. ASSUME NEW d \in Dates, PurgerUn(d)
       PROVE  ISuit'
  <2>1. /\ complets' = complets \ {d}
        /\ perdu' = (perdu \/ d = lien \/ d = debut)
        /\ fautes' = fautes \/ fautes' = fautes + 1
        /\ lien' = lien /\ pc' = pc /\ debut' = debut
    BY <1>26 DEF PurgerUn, Supprimer, Faute, tacheVars
  <2>2. SUFFICES ASSUME fautes' = 0, ~perdu'
                 PROVE  ISuit'
    BY DEF ISuit, LienSuit
  <2>3. fautes = 0 /\ ~perdu /\ d # lien /\ d # debut
    <3>1. fautes = 0
      BY <1>2, <2>1, <2>2
    <3>2. ~(perdu \/ d = lien \/ d = debut)
      BY <2>1, <2>2, Zenon
    <3>3. QED
      BY <3>1, <3>2
  <2>4. pc \in {"retirer", "creer"} \/ complets = {} \/ lien \in complets'
    BY <2>1, <2>3 DEF ISuit, LienSuit
  <2>5. QED
    BY <2>1, <2>3, <2>4 DEF ISuit, LienSuit
<1>27. CASE ToutSupprimer
  BY <1>27, <1>1, <1>2 DEF ToutSupprimer, OuvrirFenetre, tacheVars, TypeOK,
     ITache, ILien, IEntiers, ISuit, LienSuit
<1>28. CASE ToutSupprimerEchoue
  BY <1>28, <1>1, <1>2 DEF ToutSupprimerEchoue, OuvrirFenetre, Faute,
     tacheVars, TypeOK, ITache, ILien, IEntiers, ISuit, LienSuit
<1>29. CASE Temps
  BY <1>29, <1>1, <1>2 DEF Temps, disque, tacheVars, fenetre, TypeOK,
     ITache, ILien, IEntiers, ISuit, LienSuit
<1>30. CASE Crash
  BY <1>30, <1>1, <1>2 DEF Crash, Faute, Finir, disque, TypeOK, ITache,
     ILien, IEntiers, ISuit, LienSuit
<1>31. CASE UNCHANGED vars
  BY <1>31, <1>1, <1>2 DEF vars, disque, tacheVars, fenetre, TypeOK, ITache,
     ILien, IEntiers, ISuit, LienSuit
<1>32. QED
  BY <1>11, <1>12, <1>13, <1>14, <1>15, <1>16, <1>17, <1>18, <1>19, <1>20,
     <1>21, <1>22, <1>23, <1>24, <1>25, <1>26, <1>27, <1>28, <1>29, <1>30,
     <1>31
     DEF Next, Tache, Fenetre

(* What stood for temoin stands for it later, if it was left alone.        *)
LEMMA TientEncore ==
    ASSUME TypeOK, TypeOK', IHistoire,
           temoin' = temoin, maintenant <= maintenant',
           \A d \in dossiers \ aSupprimer :
               (pc = "rsync" => d # debut) =>
                   /\ d \in dossiers' \ aSupprimer'
                   /\ pc' = "rsync" => d # debut'
                   /\ fautes' = 0 => fautes = 0
                   /\ d \in complets => d \in complets'
    PROVE  IHistoire'
<1>1. SUFFICES ASSUME temoin' # Aucune, maintenant' < temoin' + Duree["mois"]
               PROVE  \E d \in dossiers' \ aSupprimer' : \E h, j \in Dates :
                        /\ Tient(d, h, j)'
                        /\ pc' = "rsync" => d # debut'
                        /\ fautes' = 0 => d \in complets'
  BY DEF IHistoire
<1>2. /\ Dates \subseteq Nat /\ maintenant \in Nat /\ maintenant' \in Nat
      /\ temoin \in Nat /\ temoin \in Dates /\ dossiers \subseteq Dates
  BY <1>1, Durees DEF TypeOK, Dates
<1>3. \A u \in Unites : Duree[u] \in Nat
  BY Durees
<1>4. maintenant < temoin + Duree["mois"]
  BY <1>1, <1>2, <1>3 DEF Unites
<1>5. PICK d \in dossiers \ aSupprimer : \E h, j \in Dates :
            /\ Tient(d, h, j)
            /\ pc = "rsync" => d # debut
            /\ fautes = 0 => d \in complets
  BY <1>1, <1>4 DEF IHistoire
<1>6. PICK h \in Dates, j \in Dates :
            /\ Tient(d, h, j)
            /\ pc = "rsync" => d # debut
            /\ fautes = 0 => d \in complets
  BY <1>5
<1>7. \A u \in Unites : maintenant' < d + Duree[u] => maintenant < d + Duree[u]
  BY <1>2, <1>3
<1>8. Tient(d, h, j)'
  BY <1>6, <1>7 DEF Tient, Unites
<1>9. QED
  BY <1>6, <1>8

(* The retention keeps something of the period temoin is in.               *)
LEMMA HistoireListee ==
    TypeOK /\ ITache /\ IEntiers /\ IHistoire /\ Lister => IHistoire'
<1> SUFFICES ASSUME TypeOK, ITache, IEntiers, IHistoire, Lister
             PROVE  IHistoire'
  OBVIOUS
<1>1. /\ pc = "lister" /\ pc' = "menage" /\ aSupprimer' = ToDel
      /\ aSupprimer = {} /\ dossiers' = dossiers /\ complets' = complets
      /\ maintenant' = maintenant /\ temoin' = temoin /\ fautes' = fautes
  BY DEF Lister, Avancer, disque, ITache
<1>2. SUFFICES ASSUME temoin # Aucune, maintenant < temoin + Duree["mois"]
               PROVE  \E d \in dossiers \ ToDel : \E h, j \in Dates :
                        /\ Tient(d, h, j)
                        /\ fautes = 0 => d \in complets
  <2>1. ASSUME NEW d, NEW h, NEW j
        PROVE  Tient(d, h, j)' <=> Tient(d, h, j)
    BY <1>1 DEF Tient
  <2>2. QED
    BY <1>1, <2>1 DEF IHistoire
<1>3. \A d \in dossiers : fautes = 0 => d \in complets
  BY <1>1 DEF IEntiers
<1>4. PICK d \in dossiers : \E h, j \in Dates : Tient(d, h, j)
  BY <1>1, <1>2 DEF IHistoire
<1>5. PICK h \in Dates, j \in Dates : Tient(d, h, j)
  BY <1>4
<1>6. CASE d \notin ToDel
  BY <1>3, <1>5, <1>6
<1>7. CASE d \in ToDel
  <2>1. PICK u \in Unites, m \in dossiers \ ToDel :
            /\ d \in Tranche(u) /\ m \in Tranche(u)
            /\ d <= m
            /\ Numero[u][d] = Numero[u][m]
    BY <1>7, Survivant
  <2>2. /\ d \in Dates /\ d \in Nat /\ m \in Dates /\ m \in Nat
        /\ maintenant \in Nat
        /\ m + Duree[u] <= maintenant /\ d + Duree[u] <= maintenant
        /\ u \in {"heure", "jour", "semaine"} =>
             maintenant < d + Duree[Suivante[u]]
    BY <2>1, DansTranche
  <2>3. temoin \in Dates /\ Dates \subseteq Nat
    BY <1>2, Durees DEF TypeOK, Dates
  <2>4. /\ temoin \in Nat /\ h \in Nat /\ j \in Nat
        /\ temoin <= h /\ h <= j /\ j <= d
    BY <1>5, <2>3 DEF Tient
  <2>5. /\ Duree["heure"] \in Nat /\ Duree["jour"] \in Nat
        /\ Duree["semaine"] \in Nat /\ Duree["mois"] \in Nat
        /\ Duree["heure"] <= Duree["jour"]
        /\ Duree["jour"] <= Duree["semaine"]
    BY Durees DEF Unites
  <2>6. u \in {"heure", "jour", "semaine"}
    <3>1. u # "mois"
      BY <1>2, <2>2, <2>4, <2>5
    <3>2. QED
      BY <3>1 DEF Unites
  <2>7. Periode[u][d] = Periode[u][m]
    <3>1. Duree[u] \in Nat /\ Duree[Suivante[u]] \in Nat
      BY <2>5, <2>6, Durees
    <3>2. m + Duree[u] < d + Duree[Suivante[u]]
      BY <2>2, <2>6, <3>1
    <3>3. QED
      BY <2>1, <2>2, <2>6, <3>2, MemeNumero
  <2>8. CASE u = "heure"
    <3>1. d = h /\ d = j
      BY <1>5, <2>2, <2>4, <2>5, <2>8, Durees DEF Tient
    <3>2. Tient(m, m, m)
      BY <1>5, <2>1, <2>2, <2>4, <2>5, <2>7, <2>8, <3>1 DEF Tient
    <3>3. QED
      BY <1>3, <2>1, <2>2, <3>2
  <2>9. CASE u = "jour"
    <3>1. d = j
      BY <1>5, <2>2, <2>4, <2>5, <2>9, Durees DEF Tient
    <3>2. ~(maintenant < m + Duree["heure"]) /\ ~(maintenant < m + Duree["jour"])
      BY <2>2, <2>5, <2>9
    <3>3. Tient(m, h, m)
      BY <1>5, <2>1, <2>2, <2>4, <2>7, <2>9, <3>1, <3>2 DEF Tient
    <3>4. QED
      BY <1>3, <2>1, <2>2, <3>3
  <2>10. CASE u = "semaine"
    <3>1. /\ ~(maintenant < m + Duree["heure"])
          /\ ~(maintenant < m + Duree["jour"])
          /\ ~(maintenant < m + Duree["semaine"])
      BY <2>2, <2>5, <2>10
    <3>2. Tient(m, h, j)
      BY <1>5, <2>1, <2>2, <2>4, <2>7, <2>10, <3>1 DEF Tient
    <3>3. QED
      BY <1>3, <2>1, <3>2
  <2>11. QED
    BY <2>6, <2>8, <2>9, <2>10
<1>8. QED
  BY <1>6, <1>7

(* A new temoin stands for itself.                                         *)
LEMMA HistoireChoisie ==
    TypeOK /\ TypeOK' /\ ITache /\ IHistoire /\ RsyncReussit => IHistoire'
<1> SUFFICES ASSUME TypeOK, TypeOK', ITache, IHistoire, RsyncReussit
             PROVE  IHistoire'
  OBVIOUS
<1>1. /\ pc = "rsync" /\ pc' = "retirer"
      /\ debut \in dossiers /\ complets' = complets \cup {debut}
      /\ dossiers' = dossiers /\ aSupprimer' = aSupprimer /\ aSupprimer = {}
      /\ maintenant' = maintenant /\ fautes' = fautes
      /\ temoin' = temoin \/ temoin' = debut
  BY DEF RsyncReussit, Avancer, ITache
<1>2. maintenant \in Nat /\ debut \in Dates /\ debut \in Nat
  BY <1>1, Durees DEF TypeOK, Dates
<1>3. CASE temoin' = temoin
  BY <1>1, <1>2, <1>3, TientEncore
<1>4. CASE temoin' = debut
  <2>1. Tient(debut, debut, debut)'
    <3>1. debut' = debut
      BY DEF RsyncReussit
    <3>2. QED
      BY <1>2, <1>4, <3>1 DEF Tient
  <2>2. ASSUME TRUE
        PROVE  \E d \in dossiers' \ aSupprimer' : \E h, j \in Dates :
                 /\ Tient(d, h, j)'
                 /\ pc' = "rsync" => d # debut'
                 /\ fautes' = 0 => d \in complets'
    <3>1. debut' = debut
      BY DEF RsyncReussit
    <3>2. QED
      BY <1>1, <1>2, <2>1, <3>1
  <2>3. QED
    BY <2>2 DEF IHistoire
<1>5. QED
  BY <1>1, <1>3, <1>4

(* The history.                                                            *)
LEMMA HistoireGardee ==
    TypeOK /\ TypeOK' /\ ITache /\ IEntiers /\ IHistoire /\ [Next]_vars => IHistoire'
<1> SUFFICES ASSUME TypeOK /\ TypeOK' /\ ITache /\ IEntiers /\ IHistoire, [Next]_vars
             PROVE  IHistoire'
  OBVIOUS
<1>1. /\ maintenant \in Nat /\ fautes \in Nat /\ Dates \subseteq Nat
  BY IncrementaleAssumption DEF TypeOK, Dates
<1>11. CASE Commencer
  <2>1. temoin' = temoin /\ maintenant <= maintenant'
    BY <1>11, <1>1 DEF Commencer, Avancer, fenetre
  <2>2. \A d \in dossiers \ aSupprimer :
            (pc = "rsync" => d # debut) =>
                /\ d \in dossiers' \ aSupprimer'
                /\ pc' = "rsync" => d # debut'
                /\ fautes' = 0 => fautes = 0
                /\ d \in complets => d \in complets'
    BY <1>11, <1>1 DEF Commencer, Avancer, fenetre, ITache
  <2>3. QED
    BY <2>1, <2>2, TientEncore
<1>12. CASE RsyncImpossible
  <2>1. temoin' = temoin /\ maintenant <= maintenant'
    BY <1>12, <1>1 DEF RsyncImpossible, Faute, tacheVars, fenetre
  <2>2. \A d \in dossiers \ aSupprimer :
            (pc = "rsync" => d # debut) =>
                /\ d \in dossiers' \ aSupprimer'
                /\ pc' = "rsync" => d # debut'
                /\ fautes' = 0 => fautes = 0
                /\ d \in complets => d \in complets'
    BY <1>12, <1>1 DEF RsyncImpossible, Faute, tacheVars, fenetre, ITache
  <2>3. QED
    BY <2>1, <2>2, TientEncore
<1>13. CASE RsyncSansSource
  <2>1. temoin' = temoin /\ maintenant <= maintenant'
    BY <1>13, <1>1 DEF RsyncSansSource, Avancer, Faute, fenetre
  <2>2. \A d \in dossiers \ aSupprimer :
            (pc = "rsync" => d # debut) =>
                /\ d \in dossiers' \ aSupprimer'
                /\ pc' = "rsync" => d # debut'
                /\ fautes' = 0 => fautes = 0
                /\ d \in complets => d \in complets'
    BY <1>13, <1>1 DEF RsyncSansSource, Avancer, Faute, fenetre, ITache
  <2>3. QED
    BY <2>1, <2>2, TientEncore
<1>14. CASE StopTache
  <2>1. temoin' = temoin /\ maintenant <= maintenant'
    BY <1>14, <1>1 DEF StopTache, disque, fenetre
  <2>2. \A d \in dossiers \ aSupprimer :
            (pc = "rsync" => d # debut) =>
                /\ d \in dossiers' \ aSupprimer'
                /\ pc' = "rsync" => d # debut'
                /\ fautes' = 0 => fautes = 0
                /\ d \in complets => d \in complets'
    BY <1>14, <1>1 DEF StopTache, disque, fenetre, ITache
  <2>3. QED
    BY <2>1, <2>2, TientEncore
<1>15. CASE RsyncReussit
  BY <1>15, HistoireChoisie
<1>16. CASE RsyncEchoue
  <2>1. temoin' = temoin /\ maintenant <= maintenant'
    BY <1>16, <1>1 DEF RsyncEchoue, Avancer, Faute, disque, fenetre
  <2>2. \A d \in dossiers \ aSupprimer :
            (pc = "rsync" => d # debut) =>
                /\ d \in dossiers' \ aSupprimer'
                /\ pc' = "rsync" => d # debut'
                /\ fautes' = 0 => fautes = 0
                /\ d \in complets => d \in complets'
    BY <1>16, <1>1 DEF RsyncEchoue, Avancer, Faute, disque, fenetre, ITache
  <2>3. QED
    BY <2>1, <2>2, TientEncore
<1>17. CASE LectureEchoue
  <2>1. temoin' = temoin /\ maintenant <= maintenant'
    BY <1>17, <1>1 DEF LectureEchoue, Faute, Finir, disque, fenetre
  <2>2. \A d \in dossiers \ aSupprimer :
            (pc = "rsync" => d # debut) =>
                /\ d \in dossiers' \ aSupprimer'
                /\ pc' = "rsync" => d # debut'
                /\ fautes' = 0 => fautes = 0
                /\ d \in complets => d \in complets'
    BY <1>17, <1>1 DEF LectureEchoue, Faute, Finir, disque, fenetre, ITache
  <2>3. QED
    BY <2>1, <2>2, TientEncore
<1>18. CASE RsyncArrete
  <2>1. temoin' = temoin /\ maintenant <= maintenant'
    BY <1>18, <1>1 DEF RsyncArrete, Faute, Finir, fenetre
  <2>2. \A d \in dossiers \ aSupprimer :
            (pc = "rsync" => d # debut) =>
                /\ d \in dossiers' \ aSupprimer'
                /\ pc' = "rsync" => d # debut'
                /\ fautes' = 0 => fautes = 0
                /\ d \in complets => d \in complets'
    BY <1>18, <1>1 DEF RsyncArrete, Faute, Finir, fenetre, ITache
  <2>3. QED
    BY <2>1, <2>2, TientEncore
<1>19. CASE RetirerLien
  <2>1. temoin' = temoin /\ maintenant <= maintenant'
    BY <1>19, <1>1 DEF RetirerLien, Avancer, Faute, Pendant, fenetre
  <2>2. \A d \in dossiers \ aSupprimer :
            (pc = "rsync" => d # debut) =>
                /\ d \in dossiers' \ aSupprimer'
                /\ pc' = "rsync" => d # debut'
                /\ fautes' = 0 => fautes = 0
                /\ d \in complets => d \in complets'
    BY <1>19, <1>1 DEF RetirerLien, Avancer, Faute, Pendant, fenetre, ITache
  <2>3. QED
    BY <2>1, <2>2, TientEncore
<1>20. CASE CreerLien
  <2>1. temoin' = temoin /\ maintenant <= maintenant'
    BY <1>20, <1>1 DEF CreerLien, Avancer, fenetre
  <2>2. \A d \in dossiers \ aSupprimer :
            (pc = "rsync" => d # debut) =>
                /\ d \in dossiers' \ aSupprimer'
                /\ pc' = "rsync" => d # debut'
                /\ fautes' = 0 => fautes = 0
                /\ d \in complets => d \in complets'
    BY <1>20, <1>1 DEF CreerLien, Avancer, fenetre, ITache
  <2>3. QED
    BY <2>1, <2>2, TientEncore
<1>21. CASE CreerLienEchoue
  <2>1. temoin' = temoin /\ maintenant <= maintenant'
    BY <1>21, <1>1 DEF CreerLienEchoue, Faute, Finir, disque, fenetre
  <2>2. \A d \in dossiers \ aSupprimer :
            (pc = "rsync" => d # debut) =>
                /\ d \in dossiers' \ aSupprimer'
                /\ pc' = "rsync" => d # debut'
                /\ fautes' = 0 => fautes = 0
                /\ d \in complets => d \in complets'
    BY <1>21, <1>1 DEF CreerLienEchoue, Faute, Finir, disque, fenetre, ITache
  <2>3. QED
    BY <2>1, <2>2, TientEncore
<1>22. CASE Lister
  BY <1>22, HistoireListee
<1>23. ASSUME NEW x \in Dates, Menage(x)
       PROVE  IHistoire'
  <2>1. temoin' = temoin /\ maintenant <= maintenant'
    BY <1>23, <1>1 DEF Menage, Supprimer, Faute, fenetre
  <2>2. \A d \in dossiers \ aSupprimer :
            (pc = "rsync" => d # debut) =>
                /\ d \in dossiers' \ aSupprimer'
                /\ pc' = "rsync" => d # debut'
                /\ fautes' = 0 => fautes = 0
                /\ d \in complets => d \in complets'
    BY <1>23, <1>1 DEF Menage, Supprimer, Faute, fenetre, ITache
  <2>3. QED
    BY <2>1, <2>2, TientEncore
<1>24. CASE FinMenage
  <2>1. temoin' = temoin /\ maintenant <= maintenant'
    BY <1>24, <1>1 DEF FinMenage, Finir, disque, fenetre
  <2>2. \A d \in dossiers \ aSupprimer :
            (pc = "rsync" => d # debut) =>
                /\ d \in dossiers' \ aSupprimer'
                /\ pc' = "rsync" => d # debut'
                /\ fautes' = 0 => fautes = 0
                /\ d \in complets => d \in complets'
    BY <1>24, <1>1 DEF FinMenage, Finir, disque, fenetre, ITache
  <2>3. QED
    BY <2>1, <2>2, TientEncore
<1>25. CASE Purger
  <2>1. temoin' = temoin /\ maintenant <= maintenant'
    BY <1>25, <1>1 DEF Purger, OuvrirFenetre, disque, tacheVars
  <2>2. \A d \in dossiers \ aSupprimer :
            (pc = "rsync" => d # debut) =>
                /\ d \in dossiers' \ aSupprimer'
                /\ pc' = "rsync" => d # debut'
                /\ fautes' = 0 => fautes = 0
                /\ d \in complets => d \in complets'
    BY <1>25, <1>1 DEF Purger, OuvrirFenetre, disque, tacheVars, ITache
  <2>3. QED
    BY <2>1, <2>2, TientEncore
<1>26. ASSUME NEW x \in Dates, PurgerUn(x)
       PROVE  IHistoire'
  BY <1>26 DEF PurgerUn, IHistoire
<1>27. CASE ToutSupprimer
  BY <1>27 DEF ToutSupprimer, IHistoire
<1>28. CASE ToutSupprimerEchoue
  BY <1>28 DEF ToutSupprimerEchoue, IHistoire
<1>29. CASE Temps
  <2>1. temoin' = temoin /\ maintenant <= maintenant'
    BY <1>29, <1>1 DEF Temps, disque, tacheVars, fenetre
  <2>2. \A d \in dossiers \ aSupprimer :
            (pc = "rsync" => d # debut) =>
                /\ d \in dossiers' \ aSupprimer'
                /\ pc' = "rsync" => d # debut'
                /\ fautes' = 0 => fautes = 0
                /\ d \in complets => d \in complets'
    BY <1>29, <1>1 DEF Temps, disque, tacheVars, fenetre, ITache
  <2>3. QED
    BY <2>1, <2>2, TientEncore
<1>30. CASE Crash
  <2>1. temoin' = temoin /\ maintenant <= maintenant'
    BY <1>30, <1>1 DEF Crash, Faute, Finir, disque
  <2>2. \A d \in dossiers \ aSupprimer :
            (pc = "rsync" => d # debut) =>
                /\ d \in dossiers' \ aSupprimer'
                /\ pc' = "rsync" => d # debut'
                /\ fautes' = 0 => fautes = 0
                /\ d \in complets => d \in complets'
    BY <1>30, <1>1 DEF Crash, Faute, Finir, disque, ITache
  <2>3. QED
    BY <2>1, <2>2, TientEncore
<1>31. CASE UNCHANGED vars
  <2>1. temoin' = temoin /\ maintenant <= maintenant'
    BY <1>31, <1>1 DEF vars, disque, tacheVars, fenetre
  <2>2. \A d \in dossiers \ aSupprimer :
            (pc = "rsync" => d # debut) =>
                /\ d \in dossiers' \ aSupprimer'
                /\ pc' = "rsync" => d # debut'
                /\ fautes' = 0 => fautes = 0
                /\ d \in complets => d \in complets'
    BY <1>31, <1>1 DEF vars, disque, tacheVars, fenetre, ITache
  <2>3. QED
    BY <2>1, <2>2, TientEncore
<1>32. QED
  BY <1>11, <1>12, <1>13, <1>14, <1>15, <1>16, <1>17, <1>18, <1>19, <1>20,
     <1>21, <1>22, <1>23, <1>24, <1>25, <1>26, <1>27, <1>28, <1>29, <1>30,
     <1>31
     DEF Next, Tache, Fenetre

LEMMA PasIInv == IInv /\ [Next]_vars => IInv'
<1>1. SUFFICES ASSUME IInv, [Next]_vars
               PROVE  IInv'
  OBVIOUS
<1>2. TypeOK /\ ITache /\ ILien /\ IEntiers /\ ISuit /\ IHistoire
  BY <1>1 DEF IInv
<1>3. TypeOK'
  BY <1>1, <1>2, TypesGardes
<1>4. ITache' /\ ILien' /\ IEntiers' /\ ISuit'
  BY <1>1, <1>2, TacheGardee, LienGarde, EntiersGardes, SuiviGarde
<1>5. IHistoire'
  BY <1>1, <1>2, <1>3, HistoireGardee
<1>6. QED
  BY <1>3, <1>4, <1>5 DEF IInv

LEMMA InvariantIncremental == Spec => []IInv
<1>1. Init => IInv
  BY InitIInv
<1>2. IInv /\ [Next]_vars => IInv'
  BY PasIInv
<1>3. QED
  BY <1>1, <1>2, PTL DEF Spec

(* What stands for temoin is as near as its age tells.                     *)
LEMMA TientAssezPres == TypeOK /\ ITache /\ IHistoire => Couverture
<1> SUFFICES ASSUME TypeOK, ITache, IHistoire,
                    temoin # Aucune, maintenant < temoin + Duree["mois"]
             PROVE  \E d \in dossiers :
                      /\ temoin <= d
                      /\ d <= temoin + Ecart(maintenant - temoin)
                      /\ fautes = 0 => d \in complets
  BY DEF Couverture
<1>1. PICK d \in dossiers : \E h, j \in Dates :
            /\ Tient(d, h, j)
            /\ fautes = 0 => d \in complets
  BY DEF IHistoire
<1>2. PICK h \in Dates, j \in Dates :
            /\ Tient(d, h, j)
            /\ fautes = 0 => d \in complets
  BY <1>1
<1>3. /\ temoin \in Dates /\ d \in Dates
      /\ temoin \in Nat /\ d \in Nat /\ h \in Nat /\ j \in Nat
      /\ maintenant \in Nat /\ d <= maintenant
  BY Durees DEF TypeOK, ITache, Dates
<1>4. temoin <= h /\ h <= j /\ j <= d
  BY <1>2 DEF Tient
<1>5. /\ h < temoin + Duree["heure"]
      /\ j < h + Duree["jour"]
      /\ d < j + Duree["semaine"]
  <2>1. "heure" \in Unites /\ "jour" \in Unites /\ "semaine" \in Unites
    BY DEF Unites
  <2>2. QED
    BY <1>2, <1>3, <2>1, MemePeriode DEF Tient
<1>6. /\ Duree["heure"] \in Nat /\ Duree["jour"] \in Nat
      /\ Duree["semaine"] \in Nat
      /\ Duree["heure"] <= Duree["jour"]
      /\ Duree["jour"] <= Duree["semaine"]
  BY Durees DEF Unites
<1> DEFINE age == maintenant - temoin
<1>7. age \in Nat /\ maintenant = temoin + age
  BY <1>3, <1>4
<1>8. /\ age < Duree["heure"] => d = temoin
      /\ age < Duree["jour"] => d = h
      /\ age < Duree["semaine"] => d = j
  <2>1. \A n \in Nat : age < n => maintenant < d + n
    BY <1>3, <1>4, <1>7
  <2>2. QED
    BY <1>2, <1>6, <2>1 DEF Tient
<1>9. d <= temoin + Ecart(age)
  <2> HIDE DEF age
  <2>1. CASE age < Duree["heure"]
    <3>1. Ecart(age) = 0
      BY <1>6, <1>7, <2>1 DEF Ecart
    <3>2. QED
      BY <1>3, <1>8, <2>1, <3>1
  <2>2. CASE age >= Duree["heure"] /\ age < Duree["jour"]
    <3>1. Ecart(age) = Duree["heure"]
      BY <1>6, <1>7, <2>2 DEF Ecart
    <3>2. QED
      BY <1>3, <1>5, <1>6, <1>8, <2>2, <3>1
  <2>3. CASE age >= Duree["jour"] /\ age < Duree["semaine"]
    <3>1. Ecart(age) = Duree["heure"] + Duree["jour"]
      BY <1>6, <1>7, <2>3 DEF Ecart
    <3>2. QED
      BY <1>3, <1>5, <1>6, <1>8, <2>3, <3>1
  <2>4. CASE age >= Duree["semaine"]
    <3>1. Ecart(age) = Duree["heure"] + Duree["jour"] + Duree["semaine"]
      BY <1>6, <1>7, <2>4 DEF Ecart
    <3>2. QED
      BY <1>3, <1>5, <1>6, <2>4, <3>1
  <2>5. QED
    BY <1>6, <1>7, <2>1, <2>2, <2>3, <2>4
<1>10. temoin <= d
  BY <1>3, <1>4
<1>11. d <= temoin + Ecart(maintenant - temoin)
  BY <1>9
<1>12. QED
  BY <1>2, <1>10, <1>11, Zenon

-----------------------------------------------------------------------------
(* Every variable keeps its type, for every calendar.                      *)
THEOREM TypesIncrementaux == Spec => []TypeOK
<1>1. IInv => TypeOK
  BY DEF IInv
<1>2. QED
  BY <1>1, InvariantIncremental, PTL

(* The retention leaves no hole in the history (PD_TacheSauvegarde.m:14-54 *)
(* and 132-286), for every calendar whose numbers tell the periods of an   *)
(* age class apart.                                                        *)
THEOREM HistoireCouverte == Spec => []Couverture
<1>1. IInv => Couverture
  BY TientAssezPres DEF IInv
<1>2. QED
  BY <1>1, InvariantIncremental, PTL

(* Without a fault current names the newest complete backup                *)
(* (PD_TacheSauvegarde.m:683-712).                                         *)
THEOREM LienSuitToujours == Spec => []LienSuit
<1>1. IInv => LienSuit
  BY DEF IInv, ISuit
<1>2. QED
  BY <1>1, InvariantIncremental, PTL

(* With any fault current names a directory that exists, unless the user   *)
(* or rsync took it away (PD_TacheSauvegarde.m:690-712).                   *)
THEOREM LienToujoursVivant == Spec => []LienVivant
<1>1. IInv => LienVivant
  BY DEF IInv, ILien, LienVivant, Pendant
<1>2. QED
  BY <1>1, InvariantIncremental, PTL
=============================================================================
