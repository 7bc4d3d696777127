------------------------- MODULE Restauration_proofs -------------------------
(***************************************************************************)
(* The restoration next to the scheduler and to the backups of its key,    *)
(* for any number of threads, of restorations, of openings of the window   *)
(* and of turns.                                                           *)
(***************************************************************************)
EXTENDS Restauration, FiniteSetTheorems, SequenceTheorems, TLAPS

Entree == {"debut", "test", "section", "notifie", "unite"}

(* Where a thread is past testEtPrendre:.                                  *)
Passees == Entree \cup {"travail", "sortie", "annonce", "fin"}

(* A wake-up on its way to the main thread that the dispatcher has not     *)
(* posted yet, and one it may still post.                                  *)
Appel == IF disp = "appelle" THEN 1 ELSE 0
Promesse == IF disp = "repos" THEN 0 ELSE 1

(* The tasks made are the entries taken from the planning and the          *)
(* restorations, numbered in the order they were made.                     *)
IComptes ==
    /\ nb + dus = tombes + Cardinality(Restaurations)
    /\ Cardinality(Restaurations) <= MaxRestaurations
    /\ \A t \in Taches :
         t > nb <=> tache[t].genre = "aucun"
    /\ \A t \in Taches : t > nb => tache[t].pc = "absente"

(* The file holds tasks nobody has taken, each once.                       *)
IFile ==
    /\ \A i \in 1 .. Len(file) : file[i] <= nb /\ tache[file[i]].pc = "file"
    /\ \A i, j \in 1 .. Len(file) : i < j => file[i] < file[j]

(* What a task is, by where it is.                                         *)
IGenre ==
    \A t \in Taches :
        /\ tache[t].pc \in Entree \cup {"sortie", "annonce", "fin"} =>
               tache[t].genre = "restauration"
        /\ tache[t].pc \in Entree \cup {"file", "attente"} =>
               tache[t].tour < Tours

(* The window waits for a task.                                            *)
ICourante ==
    fenetre \in {"lancee", "modale", "annule"} => courante # Aucune

(* Nobody works without the lock but who was asked to stop, and a          *)
(* restoration that was asked to does not copy.                            *)
IVerrou ==
    \A t \in Taches :
        /\ tache[t].pc \in Passees => ressource = t \/ tache[t].stop
        /\ tache[t].pc \in {"notifie", "unite"} => ressource = t

(* The timer and the wake-ups: an open window has no timer, and knows the  *)
(* wake-ups that are on their way.                                         *)
IReveils ==
    /\ reveils + Promesse <= tombes
    /\ tardifs <= reveils + Appel
    /\ fenetre = "fermee" =>
         /\ minuterie \in valides
         /\ ~vide => valides = {minuterie}
    /\ fenetre # "fermee" =>
         /\ minuterie = Aucune
         /\ tardifs = reveils + Appel
         /\ ~vide => valides = {}

IInv ==
    /\ TypeOK /\ IComptes /\ IFile /\ IGenre /\ ICourante /\ IVerrou
    /\ IReveils
-----------------------------------------------------------------------------
PcTache == Actives \cup {"absente", "file", "finie"}
Fiche == [genre : {"aucun", "sauvegarde", "restauration"}, pc : PcTache,
          stop : BOOLEAN, tour : 0 .. Tours]

(* What a step does to the tasks: it moves one, ...                        *)
LEMMA EffetAller ==
    ASSUME TypeOK, NEW t \in Taches, NEW p \in PcTache, Aller(t, p)
    PROVE  /\ tache' \in [Taches -> Fiche]
           /\ tache'[t].pc = p
           /\ \A u \in Taches : u # t => tache'[u] = tache[u]
           /\ \A u \in Taches : /\ tache'[u].genre = tache[u].genre
                                /\ tache'[u].stop = tache[u].stop
                                /\ tache'[u].tour = tache[u].tour
           /\ Restaurations' = Restaurations
<1>1. tache \in [Taches -> Fiche]
  BY DEF TypeOK, Fiche, PcTache
<1>2. tache' \in [Taches -> Fiche]
  BY <1>1 DEF Aller, Fiche
<1>3. /\ tache'[t].pc = p
      /\ \A u \in Taches : u # t => tache'[u] = tache[u]
      /\ \A u \in Taches : /\ tache'[u].genre = tache[u].genre
                           /\ tache'[u].stop = tache[u].stop
                           /\ tache'[u].tour = tache[u].tour
  BY <1>1 DEF Aller, Fiche
<1>4. QED
  BY <1>2, <1>3 DEF Restaurations

(* ... asks one to stop, ...                                               *)
LEMMA EffetStop ==
    ASSUME TypeOK, NEW t \in Taches,
           tache' = [tache EXCEPT ![t].stop = TRUE]
    PROVE  /\ tache' \in [Taches -> Fiche]
           /\ tache'[t].stop
           /\ \A u \in Taches : u # t => tache'[u] = tache[u]
           /\ \A u \in Taches : /\ tache'[u].genre = tache[u].genre
                                /\ tache'[u].pc = tache[u].pc
                                /\ tache'[u].tour = tache[u].tour
           /\ Restaurations' = Restaurations
<1>1. tache \in [Taches -> Fiche]
  BY DEF TypeOK, Fiche, PcTache
<1>2. tache' \in [Taches -> Fiche]
  BY <1>1 DEF Fiche
<1>3. /\ tache'[t].stop
      /\ \A u \in Taches : u # t => tache'[u] = tache[u]
      /\ \A u \in Taches : /\ tache'[u].genre = tache[u].genre
                           /\ tache'[u].pc = tache[u].pc
                           /\ tache'[u].tour = tache[u].tour
  BY <1>1 DEF Fiche
<1>4. QED
  BY <1>2, <1>3 DEF Restaurations

(* ... lets a restoration do a turn, ...                                   *)
LEMMA EffetUnite ==
    ASSUME TypeOK, IGenre, NEW t \in Taches, Unite(t)
    PROVE  /\ tache' \in [Taches -> Fiche]
           /\ tache'[t].genre = tache[t].genre
           /\ tache'[t].stop = tache[t].stop
           /\ \/ tache'[t].pc = "test" /\ tache'[t].tour < Tours
              \/ tache'[t].pc = "sortie"
           /\ \A u \in Taches : u # t => tache'[u] = tache[u]
           /\ Restaurations' = Restaurations
<1>1. tache \in [Taches -> Fiche]
  BY DEF TypeOK, Fiche, PcTache
<1>2. tache[t].tour \in 0 .. Tours /\ tache[t].tour < Tours
  BY <1>1 DEF Unite, IGenre, Entree, Fiche
<1>3. tache[t].tour + 1 \in 0 .. Tours
  BY <1>2, RestaurationAssumption
<1>4. /\ tache' \in [Taches -> Fiche]
      /\ tache'[t].genre = tache[t].genre
      /\ tache'[t].stop = tache[t].stop
      /\ tache'[t].tour = tache[t].tour + 1
      /\ tache'[t].pc = IF tache[t].tour + 1 < Tours THEN "test" ELSE "sortie"
      /\ \A u \in Taches : u # t => tache'[u] = tache[u]
  BY <1>1, <1>3 DEF Unite, Fiche, PcTache, Actives
<1>5. QED
  BY <1>4 DEF Restaurations

(* ... or makes a new one.                                                 *)
LEMMA EffetAjout ==
    ASSUME TypeOK, IComptes, nb + 1 \in Taches,
           NEW g \in {"sauvegarde", "restauration"}, AjouterTache(g)
    PROVE  /\ tache' \in [Taches -> Fiche]
           /\ tache[nb + 1].genre = "aucun" /\ tache[nb + 1].pc = "absente"
           /\ tache'[nb + 1].genre = g
           /\ tache'[nb + 1].pc = "file" /\ tache'[nb + 1].tour = 0
           /\ \A u \in Taches : u # nb + 1 => tache'[u] = tache[u]
           /\ nb' = nb + 1 /\ file' = Append(file, nb + 1)
           /\ g = "sauvegarde" => Restaurations' = Restaurations
           /\ g = "restauration" =>
                Restaurations' = Restaurations \cup {nb + 1}
           /\ nb + 1 \notin Restaurations
<1>1. tache \in [Taches -> Fiche]
  BY DEF TypeOK, Fiche, PcTache
<1>2. 0 \in 0 .. Tours /\ nb \in Nat
  BY RestaurationAssumption DEF TypeOK
<1>3. /\ tache' \in [Taches -> Fiche]
      /\ tache'[nb + 1].genre = g
      /\ tache'[nb + 1].pc = "file" /\ tache'[nb + 1].tour = 0
      /\ \A u \in Taches : u # nb + 1 => tache'[u] = tache[u]
  BY <1>1, <1>2 DEF AjouterTache, Fiche, PcTache
<1>4. tache[nb + 1].genre = "aucun" /\ tache[nb + 1].pc = "absente"
  BY <1>2 DEF IComptes
<1>5. QED
  BY <1>3, <1>4 DEF Restaurations, AjouterTache

(* There is always a number left.                                          *)
LEMMA Place ==
    ASSUME TypeOK, IComptes
    PROVE  /\ Cardinality(Restaurations) \in Nat
           /\ IsFiniteSet(Restaurations)
           /\ dus > 0 => nb + 1 \in Taches
           /\ Cardinality(Restaurations) < MaxRestaurations =>
                 nb + 1 \in Taches
<1>1. IsFiniteSet(Taches) /\ Restaurations \subseteq Taches
  BY FS_Interval, RestaurationAssumption DEF Taches, Restaurations
<1>2. IsFiniteSet(Restaurations) /\ Cardinality(Restaurations) \in Nat
  BY <1>1, FS_Subset, FS_CardinalityType
<1>3. QED
  BY <1>2, RestaurationAssumption DEF TypeOK, IComptes, Taches

(* ordonnancer makes one backup of a due entry, if there is one.           *)
LEMMA EffetOrdonnancer ==
    ASSUME TypeOK, IComptes, Ordonnancer
    PROVE  \/ UNCHANGED <<dus, pool>>
           \/ /\ dus > 0 /\ dus' = dus - 1
              /\ nb + 1 \in Taches
              /\ AjouterTache("sauvegarde")
              /\ UNCHANGED <<ressource, moniteur>>
BY Place DEF Ordonnancer, TypeOK

(* testEtPrendre: sends a backup to work and a restoration to its loop.    *)
LEMMA EffetPrise ==
    ASSUME TypeOK, IComptes, NEW t \in Taches, TestEtPrendre(t)
    PROVE  /\ \/ Aller(t, "travail")
              \/ Aller(t, "debut") /\ tache[t].genre = "restauration"
           /\ tache[t].pc = "attente"
           /\ ressource' = t \/ (tache[t].stop /\ ressource' = ressource)
           /\ ressource' # t => ressource' = ressource
           /\ ressource \notin {Aucune, t} => ressource' = ressource
<1>1. tache[t].pc = "attente"
  BY DEF TestEtPrendre
<1>2. tache[t].genre \in {"sauvegarde", "restauration"}
  BY <1>1 DEF TypeOK, IComptes
<1>3. /\ ressource' = t \/ (tache[t].stop /\ ressource' = ressource)
      /\ ressource' # t => ressource' = ressource
      /\ ressource \notin {Aucune, t} => ressource' = ressource
  <2>1. \/ ressource = Aucune /\ ressource' = t
        \/ ressource # Aucune /\ tache[t].stop /\ ressource' = ressource
    BY DEF TestEtPrendre
  <2>2. QED
    BY <2>1
<1>4. CASE tache[t].genre = "sauvegarde"
  BY <1>1, <1>3, <1>4 DEF TestEtPrendre
<1>5. CASE tache[t].genre = "restauration"
  BY <1>1, <1>3, <1>5 DEF TestEtPrendre
<1>6. QED
  BY <1>2, <1>4, <1>5

-----------------------------------------------------------------------------
LEMMA Initial == Init => IInv
<1> SUFFICES ASSUME Init  PROVE IInv
  OBVIOUS
<1>1. /\ 0 \in 0 .. MaxDus /\ 0 \in 0 .. MaxOuvertures /\ 0 \in 0 .. Tours
      /\ 0 \in 0 .. MaxDus + MaxRestaurations /\ 1 \in Minuteries
      /\ MaxDus \in Nat
  BY RestaurationAssumption DEF Minuteries
<1>2. TypeOK
  <2>1. tache \in [Taches -> [genre : {"aucun", "sauvegarde", "restauration"},
                             pc : Actives \cup {"absente", "file", "finie"},
                             stop : BOOLEAN, tour : 0 .. Tours]]
    BY <1>1 DEF Init
  <2>2. /\ file \in Seq(Taches) /\ abandon = FALSE
        /\ vide = FALSE /\ manquee = FALSE
    BY DEF Init
  <2>3. QED
    BY <1>1, <2>1, <2>2 DEF Init, TypeOK, Aucune
<1>3. Restaurations = {}
  BY DEF Init, Restaurations
<1>4. IComptes
  BY <1>3, FS_EmptySet, RestaurationAssumption DEF Init, IComptes, Taches
<1>5. IFile /\ IGenre /\ ICourante /\ IVerrou
  BY DEF Init, IFile, IGenre, ICourante, IVerrou, Entree, Passees
<1>6. IReveils
  BY DEF Init, IReveils, Appel, Promesse
<1>7. QED
  BY <1>2, <1>4, <1>5, <1>6 DEF IInv


(* The window.                                                             *)
LEMMA CouranteGardee ==
    TypeOK /\ ICourante /\ [Next]_vars => ICourante'
<1> SUFFICES ASSUME TypeOK, ICourante, [Next]_vars
             PROVE  ICourante'
  OBVIOUS
<1>11. CASE Planifier
  BY <1>11 DEF Planifier, ecran, pool, TypeOK, ICourante, Aucune
<1>12. CASE TesterReveil
  BY <1>12 DEF TesterReveil, ecran, pool, TypeOK, ICourante, Aucune
<1>13. CASE AppelerReveil
  BY <1>13 DEF AppelerReveil, ecran, pool, TypeOK, ICourante, Aucune
<1>14. CASE Sonner
  BY <1>14 DEF Sonner, ecran, pool, Ordonnancer, TypeOK, ICourante, Aucune
<1>15. CASE Reveil
  BY <1>15 DEF Reveil, ecran, pool, Ordonnancer, TypeOK, ICourante, Aucune
<1>16. CASE Abonner
  BY <1>16 DEF Abonner, ordonnanceur, pool, TypeOK, ICourante, Aucune
<1>17. CASE Annuler
  BY <1>17 DEF Annuler, ordonnanceur, TypeOK, ICourante, Aucune
<1>18. CASE FinModale
  BY <1>18 DEF FinModale, ordonnanceur, pool, TypeOK, ICourante, Aucune
<1>19. CASE Ouvrir
  BY <1>19 DEF Ouvrir, pool, TypeOK, ICourante, Aucune
<1>20. CASE OuvrirVide
  BY <1>20 DEF OuvrirVide, pool, Demarrer, TypeOK, ICourante, Aucune
<1>21. CASE Fermer
  BY <1>21 DEF Fermer, pool, Demarrer, TypeOK, ICourante, Aucune
<1>22. CASE Lancer
  BY <1>22 DEF Lancer, ordonnanceur, TypeOK, ICourante, Aucune
<1>23. CASE CliquerAnnuler
  BY <1>23 DEF CliquerAnnuler, ordonnanceur, pool, TypeOK, ICourante, Aucune
<1>24. ASSUME NEW t \in Taches, StopTache(t)
       PROVE  ICourante'
  BY <1>24 DEF StopTache, ordonnanceur, ecran, TypeOK, ICourante, Aucune
<1>25. ASSUME NEW t \in Taches, Prendre(t)
       PROVE  ICourante'
  BY <1>25 DEF Prendre, ordonnanceur, ecran, TypeOK, ICourante, Aucune
<1>26. ASSUME NEW t \in Taches, TestEtPrendre(t)
       PROVE  ICourante'
  BY <1>26 DEF TestEtPrendre, ordonnanceur, ecran, TypeOK, ICourante, Aucune
<1>27. ASSUME NEW t \in Taches, FinSauvegarde(t)
       PROVE  ICourante'
  BY <1>27 DEF FinSauvegarde, Rendre, ordonnanceur, ecran, TypeOK,
     ICourante, Aucune
<1>28. ASSUME NEW t \in Taches, Notifier(t, "debut", "test")
       PROVE  ICourante'
  BY <1>28 DEF Notifier, ordonnanceur, ecran, TypeOK, ICourante, Aucune
<1>29. ASSUME NEW t \in Taches, Entrer(t)
       PROVE  ICourante'
  BY <1>29 DEF Entrer, ordonnanceur, ecran, TypeOK, ICourante, Aucune
<1>30. ASSUME NEW t \in Taches, SortirMoniteur(t)
       PROVE  ICourante'
  BY <1>30 DEF SortirMoniteur, ordonnanceur, ecran, TypeOK, ICourante, Aucune
<1>31. ASSUME NEW t \in Taches, Notifier(t, "notifie", "unite")
       PROVE  ICourante'
  BY <1>31 DEF Notifier, ordonnanceur, ecran, TypeOK, ICourante, Aucune
<1>32. ASSUME NEW t \in Taches, Notifier(t, "sortie", "annonce")
       PROVE  ICourante'
  BY <1>32 DEF Notifier, ordonnanceur, ecran, TypeOK, ICourante, Aucune
<1>33. ASSUME NEW t \in Taches, Unite(t)
       PROVE  ICourante'
  BY <1>33 DEF Unite, ordonnanceur, ecran, TypeOK, ICourante, Aucune
<1>34. ASSUME NEW t \in Taches, NotifierFin(t)
       PROVE  ICourante'
  BY <1>34 DEF NotifierFin, ordonnanceur, TypeOK, ICourante, Aucune
<1>35. ASSUME NEW t \in Taches, FinRestauration(t)
       PROVE  ICourante'
  BY <1>35 DEF FinRestauration, Rendre, ordonnanceur, ecran, TypeOK,
     ICourante, Aucune
<1>36. CASE UNCHANGED vars
  BY <1>36 DEF vars, ordonnanceur, ecran, pool, TypeOK, ICourante, Aucune
<1>37. QED
  BY <1>11, <1>12, <1>13, <1>14, <1>15, <1>16, <1>17, <1>18, <1>19, <1>20,
     <1>21, <1>22, <1>23, <1>24, <1>25, <1>26, <1>27, <1>28, <1>29, <1>30,
     <1>31, <1>32, <1>33, <1>34, <1>35, <1>36
     DEF Next, FilPrincipal, FilDePool, Utilisateur, Restaurer

(* The timer and the wake-ups.                                             *)
LEMMA ReveilsGardes ==
    TypeOK /\ IReveils /\ [Next]_vars => IReveils'
<1> SUFFICES ASSUME TypeOK, IReveils, [Next]_vars
             PROVE  IReveils'
  OBVIOUS
<1>11. CASE Planifier
  BY <1>11, RestaurationAssumption DEF Planifier, ecran, pool, IReveils,
     Appel, Promesse, TypeOK, Minuteries, Aucune
<1>12. CASE TesterReveil
  BY <1>12, RestaurationAssumption DEF TesterReveil, ecran, pool, IReveils,
     Appel, Promesse, TypeOK, Minuteries, Aucune
<1>13. CASE AppelerReveil
  BY <1>13, RestaurationAssumption DEF AppelerReveil, ecran, pool,
     IReveils, Appel, Promesse, TypeOK, Minuteries, Aucune
<1>14. CASE Sonner
  BY <1>14, RestaurationAssumption DEF Sonner, ecran, pool, Ordonnancer,
     IReveils, Appel, Promesse, TypeOK, Minuteries, Aucune
<1>15. CASE Reveil
  BY <1>15, RestaurationAssumption DEF Reveil, ecran, pool, Ordonnancer,
     IReveils, Appel, Promesse, TypeOK, Minuteries, Aucune
<1>16. CASE Abonner
  BY <1>16, RestaurationAssumption DEF Abonner, ordonnanceur, pool,
     IReveils, Appel, Promesse, TypeOK, Minuteries, Aucune
<1>17. CASE Annuler
  BY <1>17, RestaurationAssumption DEF Annuler, ordonnanceur, IReveils,
     Appel, Promesse, TypeOK, Minuteries, Aucune
<1>18. CASE FinModale
  BY <1>18, RestaurationAssumption DEF FinModale, ordonnanceur, pool,
     IReveils, Appel, Promesse, TypeOK, Minuteries, Aucune
<1>19. CASE Ouvrir
  BY <1>19, RestaurationAssumption DEF Ouvrir, pool, IReveils, Appel,
     Promesse, TypeOK, Minuteries, Aucune
<1>20. CASE OuvrirVide
  BY <1>20, RestaurationAssumption DEF OuvrirVide, pool, Demarrer,
     IReveils, Appel, Promesse, TypeOK, Minuteries, Aucune
<1>21. CASE Fermer
  BY <1>21, RestaurationAssumption DEF Fermer, pool, Demarrer, IReveils,
     Appel, Promesse, TypeOK, Minuteries, Aucune
<1>22. CASE Lancer
  BY <1>22, RestaurationAssumption DEF Lancer, ordonnanceur, IReveils,
     Appel, Promesse, TypeOK, Minuteries, Aucune
<1>23. CASE CliquerAnnuler
  BY <1>23, RestaurationAssumption DEF CliquerAnnuler, ordonnanceur, pool,
     IReveils, Appel, Promesse, TypeOK, Minuteries, Aucune
<1>24. ASSUME NEW t \in Taches, StopTache(t)
       PROVE  IReveils'
  BY <1>24, RestaurationAssumption DEF StopTache, ordonnanceur, ecran,
     IReveils, Appel, Promesse, TypeOK, Minuteries, Aucune
<1>25. ASSUME NEW t \in Taches, Prendre(t)
       PROVE  IReveils'
  BY <1>25, RestaurationAssumption DEF Prendre, ordonnanceur, ecran,
     IReveils, Appel, Promesse, TypeOK, Minuteries, Aucune
<1>26. ASSUME NEW t \in Taches, TestEtPrendre(t)
       PROVE  IReveils'
  BY <1>26, RestaurationAssumption DEF TestEtPrendre, ordonnanceur, ecran,
     IReveils, Appel, Promesse, TypeOK, Minuteries, Aucune
<1>27. ASSUME NEW t \in Taches, FinSauvegarde(t)
       PROVE  IReveils'
  BY <1>27, RestaurationAssumption DEF FinSauvegarde, Rendre, ordonnanceur,
     ecran, IReveils, Appel, Promesse, TypeOK, Minuteries, Aucune
<1>28. ASSUME NEW t \in Taches, Notifier(t, "debut", "test")
       PROVE  IReveils'
  BY <1>28, RestaurationAssumption DEF Notifier, ordonnanceur, ecran,
     IReveils, Appel, Promesse, TypeOK, Minuteries, Aucune
<1>29. ASSUME NEW t \in Taches, Entrer(t)
       PROVE  IReveils'
  BY <1>29, RestaurationAssumption DEF Entrer, ordonnanceur, ecran,
     IReveils, Appel, Promesse, TypeOK, Minuteries, Aucune
<1>30. ASSUME NEW t \in Taches, SortirMoniteur(t)
       PROVE  IReveils'
  BY <1>30, RestaurationAssumption DEF SortirMoniteur, ordonnanceur, ecran,
     IReveils, Appel, Promesse, TypeOK, Minuteries, Aucune
<1>31. ASSUME NEW t \in Taches, Notifier(t, "notifie", "unite")
       PROVE  IReveils'
  BY <1>31, RestaurationAssumption DEF Notifier, ordonnanceur, ecran,
     IReveils, Appel, Promesse, TypeOK, Minuteries, Aucune
<1>32. ASSUME NEW t \in Taches, Notifier(t, "sortie", "annonce")
       PROVE  IReveils'
  BY <1>32, RestaurationAssumption DEF Notifier, ordonnanceur, ecran,
     IReveils, Appel, Promesse, TypeOK, Minuteries, Aucune
<1>33. ASSUME NEW t \in Taches, Unite(t)
       PROVE  IReveils'
  BY <1>33, RestaurationAssumption DEF Unite, ordonnanceur, ecran,
     IReveils, Appel, Promesse, TypeOK, Minuteries, Aucune
<1>34. ASSUME NEW t \in Taches, NotifierFin(t)
       PROVE  IReveils'
  BY <1>34, RestaurationAssumption DEF NotifierFin, ordonnanceur, IReveils,
     Appel, Promesse, TypeOK, Minuteries, Aucune
<1>35. ASSUME NEW t \in Taches, FinRestauration(t)
       PROVE  IReveils'
  BY <1>35, RestaurationAssumption DEF FinRestauration, Rendre,
     ordonnanceur, ecran, IReveils, Appel, Promesse, TypeOK, Minuteries,
     Aucune
<1>36. CASE UNCHANGED vars
  BY <1>36, RestaurationAssumption DEF vars, ordonnanceur, ecran, pool,
     IReveils, Appel, Promesse, TypeOK, Minuteries, Aucune
<1>37. QED
  BY <1>11, <1>12, <1>13, <1>14, <1>15, <1>16, <1>17, <1>18, <1>19, <1>20,
     <1>21, <1>22, <1>23, <1>24, <1>25, <1>26, <1>27, <1>28, <1>29, <1>30,
     <1>31, <1>32, <1>33, <1>34, <1>35, <1>36
     DEF Next, FilPrincipal, FilDePool, Utilisateur, Restaurer

(* A task that has passed testEtPrendre: and goes on without touching the  *)
(* lock, or that gives it back.                                            *)
LEMMA VerrouAvance ==
    ASSUME TypeOK, IVerrou, NEW t \in Taches, NEW p \in PcTache, Aller(t, p),
           ressource' = ressource, tache[t].pc \in Passees,
           p \in {"notifie", "unite"} => ressource = t
    PROVE  IVerrou'
<1>1. /\ tache'[t].pc = p /\ tache'[t].stop = tache[t].stop
      /\ \A u \in Taches : u # t => tache'[u] = tache[u]
  BY EffetAller
<1>2. QED
  BY <1>1 DEF IVerrou

LEMMA VerrouRendu ==
    ASSUME TypeOK, IVerrou, NEW t \in Taches, Rendre(t)
    PROVE  IVerrou'
<1>1. /\ tache'[t].pc = "finie"
      /\ \A u \in Taches : u # t => tache'[u] = tache[u]
  BY EffetAller DEF Rendre, PcTache, Actives
<1>2. "finie" \notin Passees \cup {"notifie", "unite"}
  BY DEF Passees, Entree
<1>3. QED
  BY <1>1, <1>2 DEF IVerrou, Rendre

(* The lock of the key.                                                    *)
LEMMA VerrouGarde ==
    TypeOK /\ IComptes /\ IGenre /\ ICourante /\ IVerrou /\
    [Next]_vars => IVerrou'
<1> SUFFICES ASSUME TypeOK, IComptes, IGenre, ICourante, IVerrou,
                    [Next]_vars
             PROVE  IVerrou'
  OBVIOUS
<1>11. CASE Planifier
  BY <1>11 DEF Planifier, ecran, pool, TypeOK, PcTache, Actives, Aucune,
     ICourante, IVerrou, Passees, Entree, Restaurations
<1>12. CASE TesterReveil
  BY <1>12 DEF TesterReveil, ecran, pool, TypeOK, PcTache, Actives, Aucune,
     ICourante, IVerrou, Passees, Entree, Restaurations
<1>13. CASE AppelerReveil
  BY <1>13 DEF AppelerReveil, ecran, pool, TypeOK, PcTache, Actives,
     Aucune, ICourante, IVerrou, Passees, Entree, Restaurations
<1>14. CASE Sonner
  <2>1. CASE UNCHANGED <<dus, pool>>
    BY <1>14, <2>1 DEF Sonner, pool, IVerrou, Passees, Entree
  <2>2. ASSUME nb + 1 \in Taches, AjouterTache("sauvegarde"),
               UNCHANGED <<ressource, moniteur>>
        PROVE  IVerrou'
    <3>1. /\ tache'[nb + 1].pc = "file" /\ tache'[nb + 1].tour = 0
          /\ tache'[nb + 1].genre = "sauvegarde"
          /\ \A u \in Taches : u # nb + 1 => tache'[u] = tache[u]
      BY <2>2, EffetAjout
    <3>2. QED
      BY <1>14, <2>2, <3>1 DEF Sonner, ecran, IVerrou, Passees, Entree
  <2>3. QED
    BY <1>14, <2>1, <2>2, EffetOrdonnancer DEF Sonner
<1>15. CASE Reveil
  <2>1. CASE UNCHANGED <<dus, pool>>
    BY <1>15, <2>1 DEF Reveil, pool, IVerrou, Passees, Entree
  <2>2. ASSUME nb + 1 \in Taches, AjouterTache("sauvegarde"),
               UNCHANGED <<ressource, moniteur>>
        PROVE  IVerrou'
    <3>1. /\ tache'[nb + 1].pc = "file" /\ tache'[nb + 1].tour = 0
          /\ tache'[nb + 1].genre = "sauvegarde"
          /\ \A u \in Taches : u # nb + 1 => tache'[u] = tache[u]
      BY <2>2, EffetAjout
    <3>2. QED
      BY <1>15, <2>2, <3>1 DEF Reveil, ecran, IVerrou, Passees, Entree
  <2>3. QED
    BY <1>15, <2>1, <2>2, EffetOrdonnancer DEF Reveil
<1>16. CASE Abonner
  BY <1>16 DEF Abonner, ordonnanceur, pool, TypeOK, PcTache, Actives,
     Aucune, ICourante, IVerrou, Passees, Entree, Restaurations
<1>17. CASE Annuler
  BY <1>17, EffetStop DEF Annuler, ordonnanceur, TypeOK, PcTache, Actives,
     Aucune, ICourante, IVerrou, Passees, Entree, Restaurations
<1>18. CASE FinModale
  BY <1>18 DEF FinModale, ordonnanceur, pool, TypeOK, PcTache, Actives,
     Aucune, ICourante, IVerrou, Passees, Entree, Restaurations
<1>19. CASE Ouvrir
  BY <1>19 DEF Ouvrir, pool, TypeOK, PcTache, Actives, Aucune, ICourante,
     IVerrou, Passees, Entree, Restaurations
<1>20. CASE OuvrirVide
  BY <1>20 DEF OuvrirVide, pool, Demarrer, TypeOK, PcTache, Actives,
     Aucune, ICourante, IVerrou, Passees, Entree, Restaurations
<1>21. CASE Fermer
  BY <1>21 DEF Fermer, pool, Demarrer, TypeOK, PcTache, Actives, Aucune,
     ICourante, IVerrou, Passees, Entree, Restaurations
<1>22. CASE Lancer
  <2>1. nb + 1 \in Taches /\ AjouterTache("restauration")
    BY <1>22, Place DEF Lancer
  <2>2. /\ tache'[nb + 1].pc = "file" /\ tache'[nb + 1].tour = 0
        /\ tache'[nb + 1].genre = "restauration"
        /\ \A u \in Taches : u # nb + 1 => tache'[u] = tache[u]
    BY <2>1, EffetAjout
  <2>3. QED
    BY <1>22, <2>2 DEF Lancer, ordonnanceur, IVerrou, Passees, Entree
<1>23. CASE CliquerAnnuler
  BY <1>23 DEF CliquerAnnuler, ordonnanceur, pool, TypeOK, PcTache,
     Actives, Aucune, ICourante, IVerrou, Passees, Entree, Restaurations
<1>24. ASSUME NEW t \in Taches, StopTache(t)
       PROVE  IVerrou'
  BY <1>24, EffetStop DEF StopTache, ordonnanceur, ecran, TypeOK, PcTache,
     Actives, Aucune, ICourante, IVerrou, Passees, Entree, Restaurations
<1>25. ASSUME NEW t \in Taches, Prendre(t)
       PROVE  IVerrou'
  <2>1. Aller(t, "attente") /\ ressource' = ressource
    BY <1>25 DEF Prendre
  <2>2. QED
    BY <1>25, <2>1, EffetAller DEF PcTache, IVerrou, Passees, Entree, Actives
<1>26. ASSUME NEW t \in Taches, TestEtPrendre(t)
       PROVE  IVerrou'
  <2>1. /\ Aller(t, "travail") \/ Aller(t, "debut")
        /\ ressource' = t \/ (tache[t].stop /\ ressource' = ressource)
        /\ ressource \notin {Aucune, t} => ressource' = ressource
    BY <1>26, EffetPrise
  <2>2. /\ tache'[t].pc \in {"travail", "debut"}
        /\ \A u \in Taches : u # t => tache'[u] = tache[u]
        /\ tache'[t].stop = tache[t].stop
    BY <2>1, EffetAller DEF PcTache, Actives
  <2>3. Aucune \notin Taches
    BY DEF Aucune, Taches
  <2>4. QED
    BY <2>1, <2>2, <2>3 DEF IVerrou, Passees, Entree
<1>27. ASSUME NEW t \in Taches, FinSauvegarde(t)
       PROVE  IVerrou'
  BY <1>27, VerrouRendu DEF FinSauvegarde
<1>28. ASSUME NEW t \in Taches, Notifier(t, "debut", "test")
       PROVE  IVerrou'
  <2>1. /\ tache[t].pc = "debut" /\ Aller(t, "test") /\ ressource' = ressource
        /\ "debut" \in Passees /\ "test" \in PcTache
    BY <1>28 DEF Notifier, Passees, Entree, PcTache, Actives
  <2>2. QED
    BY <2>1, VerrouAvance
<1>29. ASSUME NEW t \in Taches, Entrer(t)
       PROVE  IVerrou'
  <2>1. /\ tache[t].pc = "test" /\ Aller(t, "section") /\ ressource' = ressource
        /\ "test" \in Passees /\ "section" \in PcTache
    BY <1>29 DEF Entrer, Passees, Entree, PcTache, Actives
  <2>2. QED
    BY <2>1, VerrouAvance
<1>30. ASSUME NEW t \in Taches, SortirMoniteur(t)
       PROVE  IVerrou'
  <2>1. /\ tache[t].pc = "section" /\ ressource' = ressource
        /\ Aller(t, IF tache[t].stop THEN "sortie" ELSE "notifie")
        /\ "section" \in Passees /\ {"sortie", "notifie"} \subseteq PcTache
    BY <1>30 DEF SortirMoniteur, Passees, Entree, PcTache, Actives
  <2>2. ~tache[t].stop => ressource = t
    BY <2>1 DEF IVerrou
  <2>3. CASE tache[t].stop
    BY <2>1, <2>3, VerrouAvance
  <2>4. CASE ~tache[t].stop
    BY <2>1, <2>2, <2>4, VerrouAvance
  <2>5. QED
    BY <2>3, <2>4
<1>31. ASSUME NEW t \in Taches, Notifier(t, "notifie", "unite")
       PROVE  IVerrou'
  <2>1. /\ tache[t].pc = "notifie" /\ Aller(t, "unite") /\ ressource' = ressource
        /\ "notifie" \in Passees /\ "unite" \in PcTache
    BY <1>31 DEF Notifier, Passees, Entree, PcTache, Actives
  <2>2. QED
    BY <2>1, VerrouAvance DEF IVerrou
<1>32. ASSUME NEW t \in Taches, Notifier(t, "sortie", "annonce")
       PROVE  IVerrou'
  <2>1. /\ tache[t].pc = "sortie" /\ Aller(t, "annonce") /\ ressource' = ressource
        /\ "sortie" \in Passees /\ "annonce" \in PcTache
    BY <1>32 DEF Notifier, Passees, Entree, PcTache, Actives
  <2>2. QED
    BY <2>1, VerrouAvance
<1>33. ASSUME NEW t \in Taches, Unite(t)
       PROVE  IVerrou'
  BY <1>33, EffetUnite DEF Unite, ordonnanceur, ecran, TypeOK, PcTache,
     Actives, Aucune, ICourante, IVerrou, Passees, Entree, Restaurations
<1>34. ASSUME NEW t \in Taches, NotifierFin(t)
       PROVE  IVerrou'
  <2>1. /\ tache[t].pc = "annonce" /\ Aller(t, "fin") /\ ressource' = ressource
        /\ "annonce" \in Passees /\ "fin" \in PcTache
    BY <1>34 DEF NotifierFin, Passees, Entree, PcTache, Actives
  <2>2. QED
    BY <2>1, VerrouAvance
<1>35. ASSUME NEW t \in Taches, FinRestauration(t)
       PROVE  IVerrou'
  BY <1>35, VerrouRendu DEF FinRestauration
<1>36. CASE UNCHANGED vars
  BY <1>36 DEF vars, ordonnanceur, ecran, pool, TypeOK, PcTache, Actives,
     Aucune, ICourante, IVerrou, Passees, Entree, Restaurations
<1>37. QED
  BY <1>11, <1>12, <1>13, <1>14, <1>15, <1>16, <1>17, <1>18, <1>19, <1>20,
     <1>21, <1>22, <1>23, <1>24, <1>25, <1>26, <1>27, <1>28, <1>29, <1>30,
     <1>31, <1>32, <1>33, <1>34, <1>35, <1>36
     DEF Next, FilPrincipal, FilDePool, Utilisateur, Restaurer

(* A task that goes on keeps its kind and its turns.                       *)
LEMMA GenreAvance ==
    ASSUME TypeOK, IGenre, NEW t \in Taches, NEW p \in PcTache, Aller(t, p),
           p \notin {"file", "attente"},
           p \in Entree => tache[t].pc \in Entree,
           p \in {"sortie", "annonce", "fin"} =>
               tache[t].pc \in Entree \cup {"sortie", "annonce", "fin"}
    PROVE  IGenre'
<1>1. /\ tache'[t].pc = p
      /\ tache'[t].genre = tache[t].genre /\ tache'[t].tour = tache[t].tour
      /\ \A u \in Taches : u # t => tache'[u] = tache[u]
  BY EffetAller
<1>2. QED
  BY <1>1 DEF IGenre

(* The kinds.                                                              *)
LEMMA GenreGarde ==
    TypeOK /\ IComptes /\ IFile /\ IGenre /\ ICourante /\
    [Next]_vars => IGenre'
<1> SUFFICES ASSUME TypeOK, IComptes, IFile, IGenre, ICourante,
                    [Next]_vars
             PROVE  IGenre'
  OBVIOUS
<1>11. CASE Planifier
  BY <1>11 DEF Planifier, ecran, pool, TypeOK, PcTache, Actives, Aucune,
     ICourante, IGenre, Entree, Restaurations
<1>12. CASE TesterReveil
  BY <1>12 DEF TesterReveil, ecran, pool, TypeOK, PcTache, Actives, Aucune,
     ICourante, IGenre, Entree, Restaurations
<1>13. CASE AppelerReveil
  BY <1>13 DEF AppelerReveil, ecran, pool, TypeOK, PcTache, Actives,
     Aucune, ICourante, IGenre, Entree, Restaurations
<1>14. CASE Sonner
  <2>1. CASE UNCHANGED <<dus, pool>>
    BY <1>14, <2>1, RestaurationAssumption DEF Sonner, pool, IGenre, Entree
  <2>2. ASSUME nb + 1 \in Taches, AjouterTache("sauvegarde"),
               UNCHANGED <<ressource, moniteur>>
        PROVE  IGenre'
    <3>1. /\ tache'[nb + 1].pc = "file" /\ tache'[nb + 1].tour = 0
          /\ tache'[nb + 1].genre = "sauvegarde"
          /\ \A u \in Taches : u # nb + 1 => tache'[u] = tache[u]
      BY <2>2, EffetAjout
    <3>2. QED
      BY <1>14, <2>2, <3>1, RestaurationAssumption
         DEF Sonner, ecran, IGenre, Entree
  <2>3. QED
    BY <1>14, <2>1, <2>2, EffetOrdonnancer DEF Sonner
<1>15. CASE Reveil
  <2>1. CASE UNCHANGED <<dus, pool>>
    BY <1>15, <2>1, RestaurationAssumption DEF Reveil, pool, IGenre, Entree
  <2>2. ASSUME nb + 1 \in Taches, AjouterTache("sauvegarde"),
               UNCHANGED <<ressource, moniteur>>
        PROVE  IGenre'
    <3>1. /\ tache'[nb + 1].pc = "file" /\ tache'[nb + 1].tour = 0
          /\ tache'[nb + 1].genre = "sauvegarde"
          /\ \A u \in Taches : u # nb + 1 => tache'[u] = tache[u]
      BY <2>2, EffetAjout
    <3>2. QED
      BY <1>15, <2>2, <3>1, RestaurationAssumption
         DEF Reveil, ecran, IGenre, Entree
  <2>3. QED
    BY <1>15, <2>1, <2>2, EffetOrdonnancer DEF Reveil
<1>16. CASE Abonner
  BY <1>16 DEF Abonner, ordonnanceur, pool, TypeOK, PcTache, Actives,
     Aucune, ICourante, IGenre, Entree, Restaurations
<1>17. CASE Annuler
  BY <1>17, EffetStop DEF Annuler, ordonnanceur, TypeOK, PcTache, Actives,
     Aucune, ICourante, IGenre, Entree, Restaurations
<1>18. CASE FinModale
  BY <1>18 DEF FinModale, ordonnanceur, pool, TypeOK, PcTache, Actives,
     Aucune, ICourante, IGenre, Entree, Restaurations
<1>19. CASE Ouvrir
  BY <1>19 DEF Ouvrir, pool, TypeOK, PcTache, Actives, Aucune, ICourante,
     IGenre, Entree, Restaurations
<1>20. CASE OuvrirVide
  BY <1>20 DEF OuvrirVide, pool, Demarrer, TypeOK, PcTache, Actives,
     Aucune, ICourante, IGenre, Entree, Restaurations
<1>21. CASE Fermer
  BY <1>21 DEF Fermer, pool, Demarrer, TypeOK, PcTache, Actives, Aucune,
     ICourante, IGenre, Entree, Restaurations
<1>22. CASE Lancer
  <2>1. nb + 1 \in Taches /\ AjouterTache("restauration")
    BY <1>22, Place DEF Lancer
  <2>2. /\ tache'[nb + 1].pc = "file" /\ tache'[nb + 1].tour = 0
        /\ tache'[nb + 1].genre = "restauration"
        /\ \A u \in Taches : u # nb + 1 => tache'[u] = tache[u]
    BY <2>1, EffetAjout
  <2>3. QED
    BY <1>22, <2>2, RestaurationAssumption
       DEF Lancer, ordonnanceur, IGenre, Entree
<1>23. CASE CliquerAnnuler
  BY <1>23 DEF CliquerAnnuler, ordonnanceur, pool, TypeOK, PcTache,
     Actives, Aucune, ICourante, IGenre, Entree, Restaurations
<1>24. ASSUME NEW t \in Taches, StopTache(t)
       PROVE  IGenre'
  BY <1>24, EffetStop DEF StopTache, ordonnanceur, ecran, TypeOK, PcTache,
     Actives, Aucune, ICourante, IGenre, Entree, Restaurations
<1>25. ASSUME NEW t \in Taches, Prendre(t)
       PROVE  IGenre'
  <2>1. Aller(t, "attente") /\ tache[t].pc = "file"
    <3>1. file # << >> /\ file \in Seq(Taches)
      BY <1>25 DEF Prendre, TypeOK
    <3>2. 1 \in 1 .. Len(file) /\ t = file[1]
      BY <1>25, <3>1 DEF Prendre
    <3>3. QED
      BY <1>25, <3>2 DEF Prendre, IFile
  <2>2. QED
    BY <2>1, EffetAller DEF PcTache, Actives, IGenre, Entree
<1>26. ASSUME NEW t \in Taches, TestEtPrendre(t)
       PROVE  IGenre'
  <2>1. /\ tache[t].pc = "attente"
        /\ \/ Aller(t, "travail")
           \/ Aller(t, "debut") /\ tache[t].genre = "restauration"
    BY <1>26, EffetPrise
  <2>2. CASE Aller(t, "travail")
    BY <2>1, <2>2, EffetAller DEF PcTache, Actives, IGenre, Entree
  <2>3. CASE Aller(t, "debut") /\ tache[t].genre = "restauration"
    BY <2>1, <2>3, EffetAller DEF PcTache, Actives, IGenre, Entree
  <2>4. QED
    BY <2>1, <2>2, <2>3
<1>27. ASSUME NEW t \in Taches, FinSauvegarde(t)
       PROVE  IGenre'
  <2>1. /\ tache[t].pc = "travail" /\ Aller(t, "finie") /\ "finie" \in PcTache
    BY <1>27 DEF FinSauvegarde, Rendre, PcTache, Actives
  <2>2. QED
    BY <2>1, GenreAvance DEF Entree
<1>28. ASSUME NEW t \in Taches, Notifier(t, "debut", "test")
       PROVE  IGenre'
  <2>1. /\ tache[t].pc = "debut" /\ Aller(t, "test") /\ "test" \in PcTache
    BY <1>28 DEF Notifier, PcTache, Actives
  <2>2. QED
    BY <2>1, GenreAvance DEF Entree
<1>29. ASSUME NEW t \in Taches, Entrer(t)
       PROVE  IGenre'
  <2>1. /\ tache[t].pc = "test" /\ Aller(t, "section") /\ "section" \in PcTache
    BY <1>29 DEF Entrer, PcTache, Actives
  <2>2. QED
    BY <2>1, GenreAvance DEF Entree
<1>30. ASSUME NEW t \in Taches, SortirMoniteur(t)
       PROVE  IGenre'
  <2>1. /\ tache[t].pc = "section" /\ {"sortie", "notifie"} \subseteq PcTache
        /\ Aller(t, IF tache[t].stop THEN "sortie" ELSE "notifie")
    BY <1>30 DEF SortirMoniteur, PcTache, Actives
  <2>2. CASE tache[t].stop
    BY <2>1, <2>2, GenreAvance DEF Entree
  <2>3. CASE ~tache[t].stop
    BY <2>1, <2>3, GenreAvance DEF Entree
  <2>4. QED
    BY <2>2, <2>3
<1>31. ASSUME NEW t \in Taches, Notifier(t, "notifie", "unite")
       PROVE  IGenre'
  <2>1. /\ tache[t].pc = "notifie" /\ Aller(t, "unite") /\ "unite" \in PcTache
    BY <1>31 DEF Notifier, PcTache, Actives
  <2>2. QED
    BY <2>1, GenreAvance DEF Entree
<1>32. ASSUME NEW t \in Taches, Notifier(t, "sortie", "annonce")
       PROVE  IGenre'
  <2>1. /\ tache[t].pc = "sortie" /\ Aller(t, "annonce") /\ "annonce" \in PcTache
    BY <1>32 DEF Notifier, PcTache, Actives
  <2>2. QED
    BY <2>1, GenreAvance DEF Entree
<1>33. ASSUME NEW t \in Taches, Unite(t)
       PROVE  IGenre'
  <2>1. tache[t].pc = "unite"
    BY <1>33 DEF Unite
  <2>2. QED
    BY <1>33, <2>1, EffetUnite DEF IGenre, Entree
<1>34. ASSUME NEW t \in Taches, NotifierFin(t)
       PROVE  IGenre'
  <2>1. /\ tache[t].pc = "annonce" /\ Aller(t, "fin") /\ "fin" \in PcTache
    BY <1>34 DEF NotifierFin, PcTache, Actives
  <2>2. QED
    BY <2>1, GenreAvance DEF Entree
<1>35. ASSUME NEW t \in Taches, FinRestauration(t)
       PROVE  IGenre'
  <2>1. /\ tache[t].pc = "fin" /\ Aller(t, "finie") /\ "finie" \in PcTache
    BY <1>35 DEF FinRestauration, Rendre, PcTache, Actives
  <2>2. QED
    BY <2>1, GenreAvance DEF Entree
<1>36. CASE UNCHANGED vars
  BY <1>36 DEF vars, ordonnanceur, ecran, pool, TypeOK, PcTache, Actives,
     Aucune, ICourante, IGenre, Entree, Restaurations
<1>37. QED
  BY <1>11, <1>12, <1>13, <1>14, <1>15, <1>16, <1>17, <1>18, <1>19, <1>20,
     <1>21, <1>22, <1>23, <1>24, <1>25, <1>26, <1>27, <1>28, <1>29, <1>30,
     <1>31, <1>32, <1>33, <1>34, <1>35, <1>36
     DEF Next, FilPrincipal, FilDePool, Utilisateur, Restaurer

(* The file while a task moves that is not in it, or that joins it.        *)
LEMMA FileAilleurs ==
    ASSUME TypeOK, IFile, file' = file, nb' = nb,
           \A u \in Taches : tache[u].pc = "file" => tache'[u].pc = "file"
    PROVE  IFile'
<1>1. \A i \in 1 .. Len(file) : file[i] \in Taches
  BY DEF TypeOK
<1>2. QED
  BY <1>1 DEF IFile

LEMMA FileRallongee ==
    ASSUME TypeOK, IComptes, IFile, nb + 1 \in Taches,
           NEW g \in {"sauvegarde", "restauration"}, AjouterTache(g)
    PROVE  IFile'
<1>1. /\ tache'[nb + 1].pc = "file"
      /\ \A u \in Taches : u # nb + 1 => tache'[u] = tache[u]
      /\ nb' = nb + 1 /\ file' = Append(file, nb + 1)
  BY EffetAjout
<1>2. /\ file \in Seq(Taches) /\ nb \in Nat /\ Len(file) \in Nat
      /\ \A i \in 1 .. Len(file) : file[i] \in Taches /\ file[i] \in Nat
  <2>1. file \in Seq(Taches) /\ nb \in Nat
    BY DEF TypeOK
  <2>2. Taches \subseteq Nat
    BY DEF Taches
  <2>3. \A i \in 1 .. Len(file) : file[i] \in Taches
    BY <2>1, ElementOfSeq
  <2>4. Len(file) \in Nat
    BY <2>1, LenProperties
  <2>5. QED
    BY <2>1, <2>2, <2>3, <2>4
<1>3. /\ Len(file') = Len(file) + 1
      /\ file'[Len(file) + 1] = nb + 1
      /\ \A i \in 1 .. Len(file) : file'[i] = file[i]
  BY <1>1, <1>2
<1>4. \A i \in 1 .. Len(file) : file[i] <= nb /\ file[i] # nb + 1
  BY <1>2 DEF IFile
<1>5. \A i \in 1 .. Len(file') :
          file'[i] <= nb' /\ tache'[file'[i]].pc = "file"
  BY <1>1, <1>2, <1>3, <1>4 DEF IFile
<1>6. \A i, j \in 1 .. Len(file') : i < j => file'[i] < file'[j]
  BY <1>2, <1>3, <1>4 DEF IFile
<1>7. QED
  BY <1>5, <1>6 DEF IFile

(* The file.                                                               *)
LEMMA FileGardee ==
    TypeOK /\ IComptes /\ IFile /\ IGenre /\ ICourante /\
    [Next]_vars => IFile'
<1> SUFFICES ASSUME TypeOK, IComptes, IFile, IGenre, ICourante,
                    [Next]_vars
             PROVE  IFile'
  OBVIOUS
<1>11. CASE Planifier
  <2>1. UNCHANGED <<file, nb, tache>>
    BY <1>11 DEF Planifier, pool
  <2>2. QED
    BY <2>1, FileAilleurs
<1>12. CASE TesterReveil
  <2>1. UNCHANGED <<file, nb, tache>>
    BY <1>12 DEF TesterReveil, pool
  <2>2. QED
    BY <2>1, FileAilleurs
<1>13. CASE AppelerReveil
  <2>1. UNCHANGED <<file, nb, tache>>
    BY <1>13 DEF AppelerReveil, pool
  <2>2. QED
    BY <2>1, FileAilleurs
<1>14. CASE Sonner
  <2>1. CASE UNCHANGED <<dus, pool>>
    BY <2>1, FileAilleurs DEF pool
  <2>2. QED
    BY <1>14, <2>1, EffetOrdonnancer, FileRallongee DEF Sonner
<1>15. CASE Reveil
  <2>1. CASE UNCHANGED <<dus, pool>>
    BY <2>1, FileAilleurs DEF pool
  <2>2. QED
    BY <1>15, <2>1, EffetOrdonnancer, FileRallongee DEF Reveil
<1>16. CASE Abonner
  <2>1. UNCHANGED <<file, nb, tache>>
    BY <1>16 DEF Abonner, pool
  <2>2. QED
    BY <2>1, FileAilleurs
<1>17. CASE Annuler
  <2>1. file' = file /\ nb' = nb
    BY <1>17 DEF Annuler
  <2>2. \A u \in Taches : tache'[u].pc = tache[u].pc
    BY <1>17, EffetStop DEF Annuler, TypeOK, ICourante, Restaurations
  <2>3. QED
    BY <2>1, <2>2, FileAilleurs
<1>18. CASE FinModale
  <2>1. UNCHANGED <<file, nb, tache>>
    BY <1>18 DEF FinModale, pool
  <2>2. QED
    BY <2>1, FileAilleurs
<1>19. CASE Ouvrir
  <2>1. UNCHANGED <<file, nb, tache>>
    BY <1>19 DEF Ouvrir, pool
  <2>2. QED
    BY <2>1, FileAilleurs
<1>20. CASE OuvrirVide
  <2>1. UNCHANGED <<file, nb, tache>>
    BY <1>20 DEF OuvrirVide, pool
  <2>2. QED
    BY <2>1, FileAilleurs
<1>21. CASE Fermer
  <2>1. UNCHANGED <<file, nb, tache>>
    BY <1>21 DEF Fermer, pool
  <2>2. QED
    BY <2>1, FileAilleurs
<1>22. CASE Lancer
  <2>1. nb + 1 \in Taches /\ AjouterTache("restauration")
    BY <1>22, Place DEF Lancer
  <2>2. QED
    BY <2>1, FileRallongee
<1>23. CASE CliquerAnnuler
  <2>1. UNCHANGED <<file, nb, tache>>
    BY <1>23 DEF CliquerAnnuler, pool
  <2>2. QED
    BY <2>1, FileAilleurs
<1>24. ASSUME NEW t \in Taches, StopTache(t)
       PROVE  IFile'
  <2>1. file' = file /\ nb' = nb
    BY <1>24 DEF StopTache
  <2>2. \A u \in Taches : tache'[u].pc = tache[u].pc
    BY <1>24, EffetStop DEF StopTache, TypeOK, ICourante, Restaurations
  <2>3. QED
    BY <2>1, <2>2, FileAilleurs
<1>25. ASSUME NEW t \in Taches, Prendre(t)
       PROVE  IFile'
  <2>1. file # << >> /\ file \in Seq(Taches) /\ t = file[1]
    BY <1>25 DEF Prendre, TypeOK
  <2>2. /\ Len(file') = Len(file) - 1
        /\ \A i \in 1 .. Len(file') : file'[i] = file[i + 1]
        /\ Len(file) \in Nat /\ Len(file) > 0
    BY <1>25, <2>1 DEF Prendre
  <2>3. \A i \in 1 .. Len(file) : file[i] \in Taches /\ file[i] \in Nat
    <3>1. Taches \subseteq Nat
      BY DEF Taches
    <3>2. \A i \in 1 .. Len(file) : file[i] \in Taches
      BY <2>1, ElementOfSeq
    <3>3. QED
      BY <3>1, <3>2
  <2>4. /\ nb' = nb
        /\ \A u \in Taches : u # t => tache'[u] = tache[u]
    BY <1>25, EffetAller DEF Prendre, PcTache, Actives
  <2>5. \A i \in 1 .. Len(file') : file'[i] # t
    BY <2>1, <2>2, <2>3 DEF IFile
  <2>6. \A i \in 1 .. Len(file') :
            file'[i] <= nb' /\ tache'[file'[i]].pc = "file"
    <3> SUFFICES ASSUME NEW i \in 1 .. Len(file')
                 PROVE  file'[i] <= nb' /\ tache'[file'[i]].pc = "file"
      OBVIOUS
    <3>1. i + 1 \in 1 .. Len(file) /\ file'[i] = file[i + 1]
      BY <2>2
    <3>2. file[i + 1] \in Taches /\ file[i + 1] # t
      BY <2>3, <2>5, <3>1
    <3>3. QED
      BY <2>4, <3>1, <3>2 DEF IFile
  <2>7. ASSUME NEW i \in 1 .. Len(file'), NEW j \in 1 .. Len(file'), i < j
        PROVE  file'[i] < file'[j]
    <3>1. /\ i + 1 \in 1 .. Len(file) /\ j + 1 \in 1 .. Len(file)
          /\ i + 1 < j + 1
          /\ file'[i] = file[i + 1] /\ file'[j] = file[j + 1]
      BY <2>2, <2>7
    <3>2. QED
      BY <3>1 DEF IFile
  <2>8. QED
    BY <2>6, <2>7 DEF IFile
<1>26. ASSUME NEW t \in Taches, TestEtPrendre(t)
       PROVE  IFile'
  <2>1. /\ file' = file /\ nb' = nb
        /\ \A u \in Taches : tache[u].pc = "file" => tache'[u].pc = "file"
    BY <1>26, EffetPrise, EffetAller DEF TestEtPrendre, PcTache, Actives
  <2>2. QED
    BY <2>1, FileAilleurs
<1>27. ASSUME NEW t \in Taches, FinSauvegarde(t)
       PROVE  IFile'
  <2>1. /\ file' = file /\ nb' = nb
        /\ \A u \in Taches : tache[u].pc = "file" => tache'[u].pc = "file"
    BY <1>27, EffetAller DEF FinSauvegarde, Rendre, PcTache, Actives
  <2>2. QED
    BY <2>1, FileAilleurs
<1>28. ASSUME NEW t \in Taches, Notifier(t, "debut", "test")
       PROVE  IFile'
  <2>1. /\ file' = file /\ nb' = nb
        /\ \A u \in Taches : tache[u].pc = "file" => tache'[u].pc = "file"
    BY <1>28, EffetAller DEF Notifier, Rendre, PcTache, Actives
  <2>2. QED
    BY <2>1, FileAilleurs
<1>29. ASSUME NEW t \in Taches, Entrer(t)
       PROVE  IFile'
  <2>1. /\ file' = file /\ nb' = nb
        /\ \A u \in Taches : tache[u].pc = "file" => tache'[u].pc = "file"
    BY <1>29, EffetAller DEF Entrer, Rendre, PcTache, Actives
  <2>2. QED
    BY <2>1, FileAilleurs
<1>30. ASSUME NEW t \in Taches, SortirMoniteur(t)
       PROVE  IFile'
  <2>1. /\ file' = file /\ nb' = nb
        /\ \A u \in Taches : tache[u].pc = "file" => tache'[u].pc = "file"
    BY <1>30, EffetAller DEF SortirMoniteur, Rendre, PcTache, Actives
  <2>2. QED
    BY <2>1, FileAilleurs
<1>31. ASSUME NEW t \in Taches, Notifier(t, "notifie", "unite")
       PROVE  IFile'
  <2>1. /\ file' = file /\ nb' = nb
        /\ \A u \in Taches : tache[u].pc = "file" => tache'[u].pc = "file"
    BY <1>31, EffetAller DEF Notifier, Rendre, PcTache, Actives
  <2>2. QED
    BY <2>1, FileAilleurs
<1>32. ASSUME NEW t \in Taches, Notifier(t, "sortie", "annonce")
       PROVE  IFile'
  <2>1. /\ file' = file /\ nb' = nb
        /\ \A u \in Taches : tache[u].pc = "file" => tache'[u].pc = "file"
    BY <1>32, EffetAller DEF Notifier, Rendre, PcTache, Actives
  <2>2. QED
    BY <2>1, FileAilleurs
<1>33. ASSUME NEW t \in Taches, Unite(t)
       PROVE  IFile'
  <2>1. file' = file /\ nb' = nb /\ tache[t].pc = "unite"
    BY <1>33 DEF Unite
  <2>2. QED
    BY <1>33, <2>1, FileAilleurs, EffetUnite
<1>34. ASSUME NEW t \in Taches, NotifierFin(t)
       PROVE  IFile'
  <2>1. /\ file' = file /\ nb' = nb
        /\ \A u \in Taches : tache[u].pc = "file" => tache'[u].pc = "file"
    BY <1>34, EffetAller DEF NotifierFin, Rendre, PcTache, Actives
  <2>2. QED
    BY <2>1, FileAilleurs
<1>35. ASSUME NEW t \in Taches, FinRestauration(t)
       PROVE  IFile'
  <2>1. /\ file' = file /\ nb' = nb
        /\ \A u \in Taches : tache[u].pc = "file" => tache'[u].pc = "file"
    BY <1>35, EffetAller DEF FinRestauration, Rendre, PcTache, Actives
  <2>2. QED
    BY <2>1, FileAilleurs
<1>36. CASE UNCHANGED vars
  BY <1>36 DEF vars, ordonnanceur, ecran, pool, IFile
<1>37. QED
  BY <1>11, <1>12, <1>13, <1>14, <1>15, <1>16, <1>17, <1>18, <1>19, <1>20,
     <1>21, <1>22, <1>23, <1>24, <1>25, <1>26, <1>27, <1>28, <1>29, <1>30,
     <1>31, <1>32, <1>33, <1>34, <1>35, <1>36
     DEF Next, FilPrincipal, FilDePool, Utilisateur, Restaurer

LEMMA ComptesAilleurs ==
    ASSUME TypeOK, IComptes, nb' = nb, dus' - tombes' = dus - tombes,
           dus' \in Nat, tombes' \in Nat,
           \A u \in Taches : /\ tache'[u].genre = tache[u].genre
                             /\ u > nb => tache'[u].pc = tache[u].pc
    PROVE  IComptes'
<1>1. Restaurations' = Restaurations
  BY DEF Restaurations
<1>2. dus \in Nat /\ tombes \in Nat /\ nb \in Nat
  BY DEF TypeOK
<1>3. Cardinality(Restaurations) \in Nat
  BY Place
<1>4. nb' + dus' = tombes' + Cardinality(Restaurations')
  <2>1. nb + dus = tombes + Cardinality(Restaurations)
    BY DEF IComptes
  <2>2. nb' + dus' = tombes' + Cardinality(Restaurations)
    BY <1>2, <1>3, <2>1
  <2>3. QED
    BY <1>1, <2>2
<1>5. QED
  BY <1>1, <1>4 DEF IComptes

LEMMA ComptesAjout ==
    ASSUME TypeOK, IComptes, nb + 1 \in Taches,
           NEW g \in {"sauvegarde", "restauration"}, AjouterTache(g),
           tombes' = tombes,
           \/ g = "sauvegarde" /\ dus > 0 /\ dus' = dus - 1
           \/ /\ g = "restauration" /\ dus' = dus
              /\ Cardinality(Restaurations) < MaxRestaurations
    PROVE  IComptes'
<1>1. /\ tache'[nb + 1].genre = g
      /\ tache'[nb + 1].pc = "file"
      /\ \A u \in Taches : u # nb + 1 => tache'[u] = tache[u]
      /\ nb' = nb + 1
      /\ g = "sauvegarde" => Restaurations' = Restaurations
      /\ g = "restauration" => Restaurations' = Restaurations \cup {nb + 1}
      /\ nb + 1 \notin Restaurations
  BY EffetAjout
<1>2. /\ IsFiniteSet(Restaurations) /\ Cardinality(Restaurations) \in Nat
      /\ dus \in Nat /\ tombes \in Nat /\ nb \in Nat
      /\ MaxRestaurations \in Nat
  BY Place, RestaurationAssumption DEF TypeOK
<1>3. Cardinality(Restaurations \cup {nb + 1}) = Cardinality(Restaurations) + 1
  BY <1>1, <1>2, FS_AddElement
<1>4. /\ nb' + dus' = tombes' + Cardinality(Restaurations')
      /\ Cardinality(Restaurations') <= MaxRestaurations
  <2>1. CASE g = "sauvegarde"
    BY <1>1, <1>2, <2>1 DEF IComptes
  <2>2. CASE g = "restauration"
    <3>1. /\ nb + dus = tombes + Cardinality(Restaurations)
          /\ Cardinality(Restaurations) < MaxRestaurations
          /\ nb' = nb + 1 /\ dus' = dus /\ tombes' = tombes
      BY <1>1, <2>2 DEF IComptes
    <3>2. Cardinality(Restaurations') = Cardinality(Restaurations) + 1
      BY <1>1, <1>3, <2>2
    <3>3. QED
      BY <1>2, <3>1, <3>2
  <2>3. QED
    BY <2>1, <2>2
<1>5. \A t \in Taches : /\ t > nb' <=> tache'[t].genre = "aucun"
                        /\ t > nb' => tache'[t].pc = "absente"
  <2> SUFFICES ASSUME NEW t \in Taches
               PROVE  /\ t > nb' <=> tache'[t].genre = "aucun"
                      /\ t > nb' => tache'[t].pc = "absente"
    OBVIOUS
  <2>1. t \in Nat
    BY DEF Taches
  <2>2. CASE t = nb + 1
    BY <1>1, <1>2, <2>2
  <2>3. CASE t # nb + 1
    BY <1>1, <1>2, <2>1, <2>3 DEF IComptes
  <2>4. QED
    BY <2>2, <2>3
<1>6. QED
  BY <1>4, <1>5 DEF IComptes

(* A task that is somewhere was made.                                      *)
LEMMA Faite ==
    ASSUME TypeOK, IComptes, NEW t \in Taches, tache[t].pc # "absente"
    PROVE  ~(t > nb)
BY DEF IComptes

(* The task a thread takes waits in the file.                              *)
LEMMA TeteEnFile ==
    ASSUME TypeOK, IFile, file # << >>
    PROVE  tache[Head(file)].pc = "file"
<1>1. file \in Seq(Taches)
  BY DEF TypeOK
<1>2. 1 \in 1 .. Len(file) /\ Head(file) = file[1]
  BY <1>1
<1>3. QED
  BY <1>2 DEF IFile

(* The numbers.                                                            *)
LEMMA ComptesGardes ==
    TypeOK /\ IComptes /\ IFile /\ IGenre /\ ICourante /\
    [Next]_vars => IComptes'
<1> SUFFICES ASSUME TypeOK, IComptes, IFile, IGenre, ICourante,
                    [Next]_vars
             PROVE  IComptes'
  OBVIOUS
<1>11. CASE Planifier
  <2>1. /\ dus' = dus + 1 /\ tombes' = tombes + 1
        /\ dus \in Nat /\ tombes \in Nat
        /\ UNCHANGED <<nb, tache>>
    BY <1>11 DEF Planifier, pool, TypeOK
  <2>2. QED
    BY <2>1, ComptesAilleurs
<1>12. CASE TesterReveil
  <2>1. /\ dus' = dus /\ tombes' = tombes /\ dus \in Nat /\ tombes \in Nat
        /\ UNCHANGED <<nb, tache>>
    BY <1>12 DEF TesterReveil, ordonnanceur, pool, TypeOK
  <2>2. QED
    BY <2>1, ComptesAilleurs
<1>13. CASE AppelerReveil
  <2>1. /\ dus' = dus /\ tombes' = tombes /\ dus \in Nat /\ tombes \in Nat
        /\ UNCHANGED <<nb, tache>>
    BY <1>13 DEF AppelerReveil, ordonnanceur, pool, TypeOK
  <2>2. QED
    BY <2>1, ComptesAilleurs
<1>14. CASE Sonner
  <2>1. CASE UNCHANGED <<dus, pool>>
    <3>1. /\ dus' = dus /\ tombes' = tombes /\ dus \in Nat /\ tombes \in Nat
          /\ UNCHANGED <<nb, tache>>
      BY <1>14, <2>1 DEF Sonner, pool, TypeOK
    <3>2. QED
      BY <3>1, ComptesAilleurs
  <2>2. tombes' = tombes
    BY <1>14 DEF Sonner
  <2>3. QED
    BY <1>14, <2>1, <2>2, EffetOrdonnancer, ComptesAjout DEF Sonner
<1>15. CASE Reveil
  <2>1. CASE UNCHANGED <<dus, pool>>
    <3>1. /\ dus' = dus /\ tombes' = tombes /\ dus \in Nat /\ tombes \in Nat
          /\ UNCHANGED <<nb, tache>>
      BY <1>15, <2>1 DEF Reveil, pool, TypeOK
    <3>2. QED
      BY <3>1, ComptesAilleurs
  <2>2. tombes' = tombes
    BY <1>15 DEF Reveil
  <2>3. QED
    BY <1>15, <2>1, <2>2, EffetOrdonnancer, ComptesAjout DEF Reveil
<1>16. CASE Abonner
  <2>1. /\ dus' = dus /\ tombes' = tombes /\ dus \in Nat /\ tombes \in Nat
        /\ UNCHANGED <<nb, tache>>
    BY <1>16 DEF Abonner, ordonnanceur, pool, TypeOK
  <2>2. QED
    BY <2>1, ComptesAilleurs
<1>17. CASE Annuler
  <2>1. /\ dus' = dus /\ tombes' = tombes /\ dus \in Nat /\ tombes \in Nat
        /\ nb' = nb
    BY <1>17 DEF Annuler, ordonnanceur, TypeOK
  <2>2. \A u \in Taches : /\ tache'[u].genre = tache[u].genre
                          /\ tache'[u].pc = tache[u].pc
    BY <1>17, EffetStop DEF Annuler, TypeOK, ICourante, Restaurations
  <2>3. QED
    BY <2>1, <2>2, ComptesAilleurs
<1>18. CASE FinModale
  <2>1. /\ dus' = dus /\ tombes' = tombes /\ dus \in Nat /\ tombes \in Nat
        /\ UNCHANGED <<nb, tache>>
    BY <1>18 DEF FinModale, ordonnanceur, pool, TypeOK
  <2>2. QED
    BY <2>1, ComptesAilleurs
<1>19. CASE Ouvrir
  <2>1. /\ dus' = dus /\ tombes' = tombes /\ dus \in Nat /\ tombes \in Nat
        /\ UNCHANGED <<nb, tache>>
    BY <1>19 DEF Ouvrir, ordonnanceur, pool, TypeOK
  <2>2. QED
    BY <2>1, ComptesAilleurs
<1>20. CASE OuvrirVide
  <2>1. /\ dus' = dus /\ tombes' = tombes /\ dus \in Nat /\ tombes \in Nat
        /\ UNCHANGED <<nb, tache>>
    BY <1>20 DEF OuvrirVide, ordonnanceur, pool, TypeOK
  <2>2. QED
    BY <2>1, ComptesAilleurs
<1>21. CASE Fermer
  <2>1. /\ dus' = dus /\ tombes' = tombes /\ dus \in Nat /\ tombes \in Nat
        /\ UNCHANGED <<nb, tache>>
    BY <1>21 DEF Fermer, ordonnanceur, pool, TypeOK
  <2>2. QED
    BY <2>1, ComptesAilleurs
<1>22. CASE Lancer
  <2>1. /\ nb + 1 \in Taches /\ AjouterTache("restauration")
        /\ Cardinality(Restaurations) < MaxRestaurations
        /\ dus' = dus /\ tombes' = tombes
    BY <1>22, Place DEF Lancer, ordonnanceur
  <2>2. QED
    BY <2>1, ComptesAjout
<1>23. CASE CliquerAnnuler
  <2>1. /\ dus' = dus /\ tombes' = tombes /\ dus \in Nat /\ tombes \in Nat
        /\ UNCHANGED <<nb, tache>>
    BY <1>23 DEF CliquerAnnuler, ordonnanceur, pool, TypeOK
  <2>2. QED
    BY <2>1, ComptesAilleurs
<1>24. ASSUME NEW t \in Taches, StopTache(t)
       PROVE  IComptes'
  <2>1. /\ dus' = dus /\ tombes' = tombes /\ dus \in Nat /\ tombes \in Nat
        /\ nb' = nb
    BY <1>24 DEF StopTache, ordonnanceur, TypeOK
  <2>2. \A u \in Taches : /\ tache'[u].genre = tache[u].genre
                          /\ tache'[u].pc = tache[u].pc
    BY <1>24, EffetStop DEF StopTache, TypeOK, ICourante, Restaurations
  <2>3. QED
    BY <2>1, <2>2, ComptesAilleurs
<1>25. ASSUME NEW t \in Taches, Prendre(t)
       PROVE  IComptes'
  <2>1. /\ dus' = dus /\ tombes' = tombes /\ dus \in Nat /\ tombes \in Nat
        /\ nb' = nb
    BY <1>25 DEF Prendre, ordonnanceur, TypeOK
  <2>2. tache[t].pc # "absente"
    BY <1>25, TeteEnFile DEF Prendre
  <2>3. \A u \in Taches : /\ tache'[u].genre = tache[u].genre
                          /\ u > nb => tache'[u].pc = tache[u].pc
    BY <1>25, <2>2, Faite, EffetAller DEF Prendre, PcTache, Actives
  <2>4. QED
    BY <2>1, <2>3, ComptesAilleurs
<1>26. ASSUME NEW t \in Taches, TestEtPrendre(t)
       PROVE  IComptes'
  <2>1. /\ dus' = dus /\ tombes' = tombes /\ dus \in Nat /\ tombes \in Nat
        /\ nb' = nb /\ tache[t].pc # "absente"
    BY <1>26 DEF TestEtPrendre, ordonnanceur, TypeOK
  <2>2. \A u \in Taches : /\ tache'[u].genre = tache[u].genre
                          /\ u > nb => tache'[u].pc = tache[u].pc
    BY <1>26, <2>1, Faite, EffetPrise, EffetAller DEF PcTache, Actives
  <2>3. QED
    BY <2>1, <2>2, ComptesAilleurs
<1>27. ASSUME NEW t \in Taches, FinSauvegarde(t)
       PROVE  IComptes'
  <2>1. /\ dus' = dus /\ tombes' = tombes /\ dus \in Nat /\ tombes \in Nat
        /\ nb' = nb /\ tache[t].pc # "absente"
    BY <1>27 DEF FinSauvegarde, Rendre, ordonnanceur, TypeOK
  <2>2. \A u \in Taches : /\ tache'[u].genre = tache[u].genre
                          /\ u > nb => tache'[u].pc = tache[u].pc
    BY <1>27, <2>1, Faite, EffetAller
       DEF FinSauvegarde, Rendre, PcTache, Actives
  <2>3. QED
    BY <2>1, <2>2, ComptesAilleurs
<1>28. ASSUME NEW t \in Taches, Notifier(t, "debut", "test")
       PROVE  IComptes'
  <2>1. /\ dus' = dus /\ tombes' = tombes /\ dus \in Nat /\ tombes \in Nat
        /\ nb' = nb /\ tache[t].pc # "absente"
    BY <1>28 DEF Notifier, Rendre, ordonnanceur, TypeOK
  <2>2. \A u \in Taches : /\ tache'[u].genre = tache[u].genre
                          /\ u > nb => tache'[u].pc = tache[u].pc
    BY <1>28, <2>1, Faite, EffetAller DEF Notifier, Rendre, PcTache, Actives
  <2>3. QED
    BY <2>1, <2>2, ComptesAilleurs
<1>29. ASSUME NEW t \in Taches, Entrer(t)
       PROVE  IComptes'
  <2>1. /\ dus' = dus /\ tombes' = tombes /\ dus \in Nat /\ tombes \in Nat
        /\ nb' = nb /\ tache[t].pc # "absente"
    BY <1>29 DEF Entrer, Rendre, ordonnanceur, TypeOK
  <2>2. \A u \in Taches : /\ tache'[u].genre = tache[u].genre
                          /\ u > nb => tache'[u].pc = tache[u].pc
    BY <1>29, <2>1, Faite, EffetAller DEF Entrer, Rendre, PcTache, Actives
  <2>3. QED
    BY <2>1, <2>2, ComptesAilleurs
<1>30. ASSUME NEW t \in Taches, SortirMoniteur(t)
       PROVE  IComptes'
  <2>1. /\ dus' = dus /\ tombes' = tombes /\ dus \in Nat /\ tombes \in Nat
        /\ nb' = nb /\ tache[t].pc # "absente"
    BY <1>30 DEF SortirMoniteur, Rendre, ordonnanceur, TypeOK
  <2>2. \A u \in Taches : /\ tache'[u].genre = tache[u].genre
                          /\ u > nb => tache'[u].pc = tache[u].pc
    BY <1>30, <2>1, Faite, EffetAller
       DEF SortirMoniteur, Rendre, PcTache, Actives
  <2>3. QED
    BY <2>1, <2>2, ComptesAilleurs
<1>31. ASSUME NEW t \in Taches, Notifier(t, "notifie", "unite")
       PROVE  IComptes'
  <2>1. /\ dus' = dus /\ tombes' = tombes /\ dus \in Nat /\ tombes \in Nat
        /\ nb' = nb /\ tache[t].pc # "absente"
    BY <1>31 DEF Notifier, Rendre, ordonnanceur, TypeOK
  <2>2. \A u \in Taches : /\ tache'[u].genre = tache[u].genre
                          /\ u > nb => tache'[u].pc = tache[u].pc
    BY <1>31, <2>1, Faite, EffetAller DEF Notifier, Rendre, PcTache, Actives
  <2>3. QED
    BY <2>1, <2>2, ComptesAilleurs
<1>32. ASSUME NEW t \in Taches, Notifier(t, "sortie", "annonce")
       PROVE  IComptes'
  <2>1. /\ dus' = dus /\ tombes' = tombes /\ dus \in Nat /\ tombes \in Nat
        /\ nb' = nb /\ tache[t].pc # "absente"
    BY <1>32 DEF Notifier, Rendre, ordonnanceur, TypeOK
  <2>2. \A u \in Taches : /\ tache'[u].genre = tache[u].genre
                          /\ u > nb => tache'[u].pc = tache[u].pc
    BY <1>32, <2>1, Faite, EffetAller DEF Notifier, Rendre, PcTache, Actives
  <2>3. QED
    BY <2>1, <2>2, ComptesAilleurs
<1>33. ASSUME NEW t \in Taches, Unite(t)
       PROVE  IComptes'
  <2>1. /\ dus' = dus /\ tombes' = tombes /\ dus \in Nat /\ tombes \in Nat
        /\ nb' = nb /\ tache[t].pc = "unite"
    BY <1>33 DEF Unite, ordonnanceur, TypeOK
  <2>2. \A u \in Taches : /\ tache'[u].genre = tache[u].genre
                          /\ u > nb => tache'[u].pc = tache[u].pc
    BY <1>33, <2>1, Faite, EffetUnite
  <2>3. QED
    BY <2>1, <2>2, ComptesAilleurs
<1>34. ASSUME NEW t \in Taches, NotifierFin(t)
       PROVE  IComptes'
  <2>1. /\ dus' = dus /\ tombes' = tombes /\ dus \in Nat /\ tombes \in Nat
        /\ nb' = nb /\ tache[t].pc # "absente"
    BY <1>34 DEF NotifierFin, Rendre, ordonnanceur, TypeOK
  <2>2. \A u \in Taches : /\ tache'[u].genre = tache[u].genre
                          /\ u > nb => tache'[u].pc = tache[u].pc
    BY <1>34, <2>1, Faite, EffetAller DEF NotifierFin, Rendre, PcTache, Actives
  <2>3. QED
    BY <2>1, <2>2, ComptesAilleurs
<1>35. ASSUME NEW t \in Taches, FinRestauration(t)
       PROVE  IComptes'
  <2>1. /\ dus' = dus /\ tombes' = tombes /\ dus \in Nat /\ tombes \in Nat
        /\ nb' = nb /\ tache[t].pc # "absente"
    BY <1>35 DEF FinRestauration, Rendre, ordonnanceur, TypeOK
  <2>2. \A u \in Taches : /\ tache'[u].genre = tache[u].genre
                          /\ u > nb => tache'[u].pc = tache[u].pc
    BY <1>35, <2>1, Faite, EffetAller
       DEF FinRestauration, Rendre, PcTache, Actives
  <2>3. QED
    BY <2>1, <2>2, ComptesAilleurs
<1>36. CASE UNCHANGED vars
  BY <1>36 DEF vars, ordonnanceur, ecran, pool, IComptes, Restaurations
<1>37. QED
  BY <1>11, <1>12, <1>13, <1>14, <1>15, <1>16, <1>17, <1>18, <1>19, <1>20,
     <1>21, <1>22, <1>23, <1>24, <1>25, <1>26, <1>27, <1>28, <1>29, <1>30,
     <1>31, <1>32, <1>33, <1>34, <1>35, <1>36
     DEF Next, FilPrincipal, FilDePool, Utilisateur, Restaurer

(* The types, variable by variable.                                        *)
TypeOrdonnanceur ==
    /\ minuterie \in Minuteries \cup {Aucune}
    /\ valides \subseteq Minuteries
    /\ reveils \in 0 .. MaxDus /\ tardifs \in 0 .. MaxDus
    /\ dus \in 0 .. MaxDus /\ tombes \in 0 .. MaxDus
    /\ disp \in {"repos", "planifie", "appelle"}

TypeEcran ==
    /\ fenetre \in {"fermee", "ouverte", "lancee", "modale", "annule"}
    /\ ouvertures \in 0 .. MaxOuvertures
    /\ abandon \in BOOLEAN /\ vide \in BOOLEAN /\ manquee \in BOOLEAN

TypePool ==
    /\ file \in Seq(Taches)
    /\ tache \in [Taches -> Fiche]
    /\ nb \in 0 .. MaxDus + MaxRestaurations

TypeLiens ==
    /\ courante \in Restaurations \cup {Aucune}
    /\ ressource \in EnCours \cup {Aucune}
    /\ moniteur \in Restaurations \cup {Aucune}

LEMMA TypeEnParts ==
    TypeOK <=> TypeOrdonnanceur /\ TypeEcran /\ TypePool /\ TypeLiens
BY DEF TypeOK, TypeOrdonnanceur, TypeEcran, TypePool, TypeLiens, Fiche, PcTache

(* No more entries are due than came due.                                  *)
LEMMA DusTombes ==
    ASSUME TypeOK, IComptes
    PROVE  dus <= tombes
<1>1. nb \in Nat /\ dus \in Nat /\ tombes \in Nat
  BY DEF TypeOK
<1>2. Restaurations \subseteq 1 .. nb
  <2> SUFFICES ASSUME NEW t \in Restaurations  PROVE t \in 1 .. nb
    OBVIOUS
  <2>1. t \in Taches /\ tache[t].genre # "aucun"
    BY DEF Restaurations
  <2>2. t \in Nat /\ t >= 1
    BY <2>1 DEF Taches
  <2>3. ~(t > nb)
    BY <2>1 DEF IComptes
  <2>4. QED
    BY <1>1, <2>2, <2>3
<1>3. IsFiniteSet(1 .. nb) /\ Cardinality(1 .. nb) = nb
  BY <1>1, FS_Interval
<1>4. Cardinality(Restaurations) <= nb /\ Cardinality(Restaurations) \in Nat
  BY <1>2, <1>3, Place, FS_Subset
<1>5. nb + dus = tombes + Cardinality(Restaurations)
  BY DEF IComptes
<1>6. QED
  BY <1>1, <1>4, <1>5

(* The scheduler.                                                          *)
LEMMA TypeOrdonnanceurGarde ==
    TypeOK /\ IComptes /\ IReveils /\ [Next]_vars => TypeOrdonnanceur'
<1> SUFFICES ASSUME TypeOK, IComptes, IReveils, [Next]_vars
             PROVE  TypeOrdonnanceur'
  OBVIOUS
<1>1. TypeOrdonnanceur /\ MaxDus \in Nat /\ MaxOuvertures \in Nat
  BY TypeEnParts, RestaurationAssumption
<1>11. CASE Planifier
  <2>1. dus' \in 0 .. MaxDus
    BY <1>11, <1>1, DusTombes DEF Planifier, TypeOrdonnanceur
  <2>2. QED
    BY <1>11, <1>1, <2>1 DEF Planifier, TypeOrdonnanceur
<1>12. CASE TesterReveil
  BY <1>12, <1>1 DEF TesterReveil, ecran, pool, TypeOrdonnanceur, IReveils,
     Appel, Promesse, Minuteries, Aucune
<1>13. CASE AppelerReveil
  BY <1>13, <1>1 DEF AppelerReveil, ecran, pool, TypeOrdonnanceur,
     IReveils, Appel, Promesse, Minuteries, Aucune
<1>14. CASE Sonner
  <2>1. dus' \in 0 .. MaxDus
    BY <1>14, <1>1, EffetOrdonnancer DEF Sonner, TypeOrdonnanceur, pool
  <2>2. QED
    BY <1>14, <1>1, <2>1 DEF Sonner, TypeOrdonnanceur
<1>15. CASE Reveil
  <2>1. dus' \in 0 .. MaxDus
    BY <1>15, <1>1, EffetOrdonnancer DEF Reveil, TypeOrdonnanceur, pool
  <2>2. QED
    BY <1>15, <1>1, <2>1 DEF Reveil, TypeOrdonnanceur
<1>16. CASE Abonner
  BY <1>16, <1>1 DEF Abonner, ordonnanceur, pool, TypeOrdonnanceur,
     IReveils, Appel, Promesse, Minuteries, Aucune
<1>17. CASE Annuler
  BY <1>17, <1>1 DEF Annuler, ordonnanceur, TypeOrdonnanceur, IReveils,
     Appel, Promesse, Minuteries, Aucune
<1>18. CASE FinModale
  BY <1>18, <1>1 DEF FinModale, ordonnanceur, pool, TypeOrdonnanceur,
     IReveils, Appel, Promesse, Minuteries, Aucune
<1>19. CASE Ouvrir
  BY <1>19, <1>1 DEF Ouvrir, pool, TypeOrdonnanceur, IReveils, Appel,
     Promesse, Minuteries, Aucune
<1>20. CASE OuvrirVide
  BY <1>20, <1>1 DEF OuvrirVide, pool, Demarrer, TypeOrdonnanceur,
     IReveils, Appel, Promesse, Minuteries, Aucune
<1>21. CASE Fermer
  BY <1>21, <1>1 DEF Fermer, pool, Demarrer, TypeOrdonnanceur, IReveils,
     Appel, Promesse, Minuteries, Aucune
<1>22. CASE Lancer
  BY <1>22, <1>1 DEF Lancer, ordonnanceur, TypeOrdonnanceur, IReveils,
     Appel, Promesse, Minuteries, Aucune
<1>23. CASE CliquerAnnuler
  BY <1>23, <1>1 DEF CliquerAnnuler, ordonnanceur, pool, TypeOrdonnanceur,
     IReveils, Appel, Promesse, Minuteries, Aucune
<1>24. ASSUME NEW t \in Taches, StopTache(t)
       PROVE  TypeOrdonnanceur'
  BY <1>24, <1>1 DEF StopTache, ordonnanceur, ecran, TypeOrdonnanceur,
     IReveils, Appel, Promesse, Minuteries, Aucune
<1>25. ASSUME NEW t \in Taches, Prendre(t)
       PROVE  TypeOrdonnanceur'
  BY <1>25, <1>1 DEF Prendre, ordonnanceur, ecran, TypeOrdonnanceur,
     IReveils, Appel, Promesse, Minuteries, Aucune
<1>26. ASSUME NEW t \in Taches, TestEtPrendre(t)
       PROVE  TypeOrdonnanceur'
  BY <1>26, <1>1 DEF TestEtPrendre, ordonnanceur, ecran, TypeOrdonnanceur,
     IReveils, Appel, Promesse, Minuteries, Aucune
<1>27. ASSUME NEW t \in Taches, FinSauvegarde(t)
       PROVE  TypeOrdonnanceur'
  BY <1>27, <1>1 DEF FinSauvegarde, Rendre, ordonnanceur, ecran,
     TypeOrdonnanceur, IReveils, Appel, Promesse, Minuteries, Aucune
<1>28. ASSUME NEW t \in Taches, Notifier(t, "debut", "test")
       PROVE  TypeOrdonnanceur'
  BY <1>28, <1>1 DEF Notifier, ordonnanceur, ecran, TypeOrdonnanceur,
     IReveils, Appel, Promesse, Minuteries, Aucune
<1>29. ASSUME NEW t \in Taches, Entrer(t)
       PROVE  TypeOrdonnanceur'
  BY <1>29, <1>1 DEF Entrer, ordonnanceur, ecran, TypeOrdonnanceur,
     IReveils, Appel, Promesse, Minuteries, Aucune
<1>30. ASSUME NEW t \in Taches, SortirMoniteur(t)
       PROVE  TypeOrdonnanceur'
  BY <1>30, <1>1 DEF SortirMoniteur, ordonnanceur, ecran, TypeOrdonnanceur,
     IReveils, Appel, Promesse, Minuteries, Aucune
<1>31. ASSUME NEW t \in Taches, Notifier(t, "notifie", "unite")
       PROVE  TypeOrdonnanceur'
  BY <1>31, <1>1 DEF Notifier, ordonnanceur, ecran, TypeOrdonnanceur,
     IReveils, Appel, Promesse, Minuteries, Aucune
<1>32. ASSUME NEW t \in Taches, Notifier(t, "sortie", "annonce")
       PROVE  TypeOrdonnanceur'
  BY <1>32, <1>1 DEF Notifier, ordonnanceur, ecran, TypeOrdonnanceur,
     IReveils, Appel, Promesse, Minuteries, Aucune
<1>33. ASSUME NEW t \in Taches, Unite(t)
       PROVE  TypeOrdonnanceur'
  BY <1>33, <1>1 DEF Unite, ordonnanceur, ecran, TypeOrdonnanceur,
     IReveils, Appel, Promesse, Minuteries, Aucune
<1>34. ASSUME NEW t \in Taches, NotifierFin(t)
       PROVE  TypeOrdonnanceur'
  BY <1>34, <1>1 DEF NotifierFin, ordonnanceur, TypeOrdonnanceur, IReveils,
     Appel, Promesse, Minuteries, Aucune
<1>35. ASSUME NEW t \in Taches, FinRestauration(t)
       PROVE  TypeOrdonnanceur'
  BY <1>35, <1>1 DEF FinRestauration, Rendre, ordonnanceur, ecran,
     TypeOrdonnanceur, IReveils, Appel, Promesse, Minuteries, Aucune
<1>36. CASE UNCHANGED vars
  BY <1>36, <1>1 DEF vars, ordonnanceur, ecran, pool, TypeOrdonnanceur,
     IReveils, Appel, Promesse, Minuteries, Aucune
<1>37. QED
  BY <1>11, <1>12, <1>13, <1>14, <1>15, <1>16, <1>17, <1>18, <1>19, <1>20,
     <1>21, <1>22, <1>23, <1>24, <1>25, <1>26, <1>27, <1>28, <1>29, <1>30,
     <1>31, <1>32, <1>33, <1>34, <1>35, <1>36
     DEF Next, FilPrincipal, FilDePool, Utilisateur, Restaurer

(* The window.                                                             *)
LEMMA TypeEcranGarde ==
    TypeOK /\ [Next]_vars => TypeEcran'
<1> SUFFICES ASSUME TypeOK, [Next]_vars
             PROVE  TypeEcran'
  OBVIOUS
<1>1. TypeEcran /\ MaxOuvertures \in Nat
  BY TypeEnParts, RestaurationAssumption
<1>11. CASE Planifier
  BY <1>11, <1>1 DEF Planifier, ecran, pool, TypeEcran
<1>12. CASE TesterReveil
  BY <1>12, <1>1 DEF TesterReveil, ecran, pool, TypeEcran
<1>13. CASE AppelerReveil
  BY <1>13, <1>1 DEF AppelerReveil, ecran, pool, TypeEcran
<1>14. CASE Sonner
  BY <1>14, <1>1 DEF Sonner, ecran, pool, Ordonnancer, TypeEcran
<1>15. CASE Reveil
  BY <1>15, <1>1 DEF Reveil, ecran, pool, Ordonnancer, TypeEcran
<1>16. CASE Abonner
  BY <1>16, <1>1 DEF Abonner, ordonnanceur, pool, TypeEcran
<1>17. CASE Annuler
  BY <1>17, <1>1 DEF Annuler, ordonnanceur, TypeEcran
<1>18. CASE FinModale
  BY <1>18, <1>1 DEF FinModale, ordonnanceur, pool, TypeEcran
<1>19. CASE Ouvrir
  BY <1>19, <1>1 DEF Ouvrir, pool, TypeEcran
<1>20. CASE OuvrirVide
  BY <1>20, <1>1 DEF OuvrirVide, pool, Demarrer, TypeEcran
<1>21. CASE Fermer
  BY <1>21, <1>1 DEF Fermer, pool, Demarrer, TypeEcran
<1>22. CASE Lancer
  BY <1>22, <1>1 DEF Lancer, ordonnanceur, TypeEcran
<1>23. CASE CliquerAnnuler
  BY <1>23, <1>1 DEF CliquerAnnuler, ordonnanceur, pool, TypeEcran
<1>24. ASSUME NEW t \in Taches, StopTache(t)
       PROVE  TypeEcran'
  BY <1>24, <1>1 DEF StopTache, ordonnanceur, ecran, TypeEcran
<1>25. ASSUME NEW t \in Taches, Prendre(t)
       PROVE  TypeEcran'
  BY <1>25, <1>1 DEF Prendre, ordonnanceur, ecran, TypeEcran
<1>26. ASSUME NEW t \in Taches, TestEtPrendre(t)
       PROVE  TypeEcran'
  BY <1>26, <1>1 DEF TestEtPrendre, ordonnanceur, ecran, TypeEcran
<1>27. ASSUME NEW t \in Taches, FinSauvegarde(t)
       PROVE  TypeEcran'
  BY <1>27, <1>1 DEF FinSauvegarde, Rendre, ordonnanceur, ecran, TypeEcran
<1>28. ASSUME NEW t \in Taches, Notifier(t, "debut", "test")
       PROVE  TypeEcran'
  BY <1>28, <1>1 DEF Notifier, ordonnanceur, ecran, TypeEcran
<1>29. ASSUME NEW t \in Taches, Entrer(t)
       PROVE  TypeEcran'
  BY <1>29, <1>1 DEF Entrer, ordonnanceur, ecran, TypeEcran
<1>30. ASSUME NEW t \in Taches, SortirMoniteur(t)
       PROVE  TypeEcran'
  BY <1>30, <1>1 DEF SortirMoniteur, ordonnanceur, ecran, TypeEcran
<1>31. ASSUME NEW t \in Taches, Notifier(t, "notifie", "unite")
       PROVE  TypeEcran'
  BY <1>31, <1>1 DEF Notifier, ordonnanceur, ecran, TypeEcran
<1>32. ASSUME NEW t \in Taches, Notifier(t, "sortie", "annonce")
       PROVE  TypeEcran'
  BY <1>32, <1>1 DEF Notifier, ordonnanceur, ecran, TypeEcran
<1>33. ASSUME NEW t \in Taches, Unite(t)
       PROVE  TypeEcran'
  BY <1>33, <1>1 DEF Unite, ordonnanceur, ecran, TypeEcran
<1>34. ASSUME NEW t \in Taches, NotifierFin(t)
       PROVE  TypeEcran'
  BY <1>34, <1>1 DEF NotifierFin, ordonnanceur, TypeEcran
<1>35. ASSUME NEW t \in Taches, FinRestauration(t)
       PROVE  TypeEcran'
  BY <1>35, <1>1 DEF FinRestauration, Rendre, ordonnanceur, ecran, TypeEcran
<1>36. CASE UNCHANGED vars
  BY <1>36, <1>1 DEF vars, ordonnanceur, ecran, pool, TypeEcran
<1>37. QED
  BY <1>11, <1>12, <1>13, <1>14, <1>15, <1>16, <1>17, <1>18, <1>19, <1>20,
     <1>21, <1>22, <1>23, <1>24, <1>25, <1>26, <1>27, <1>28, <1>29, <1>30,
     <1>31, <1>32, <1>33, <1>34, <1>35, <1>36
     DEF Next, FilPrincipal, FilDePool, Utilisateur, Restaurer

(* The tasks and their file.                                               *)
LEMMA TypePoolGarde ==
    TypeOK /\ IComptes /\ IGenre /\ ICourante /\ [Next]_vars => TypePool'
<1> SUFFICES ASSUME TypeOK, IComptes, IGenre, ICourante,
                    [Next]_vars
             PROVE  TypePool'
  OBVIOUS
<1>1. TypePool /\ MaxDus \in Nat /\ MaxRestaurations \in Nat
  BY TypeEnParts, RestaurationAssumption
<1>11. CASE Planifier
  BY <1>11, <1>1 DEF Planifier, pool, TypePool
<1>12. CASE TesterReveil
  BY <1>12, <1>1 DEF TesterReveil, pool, TypePool
<1>13. CASE AppelerReveil
  BY <1>13, <1>1 DEF AppelerReveil, pool, TypePool
<1>14. CASE Sonner
  <2>1. CASE UNCHANGED <<dus, pool>>
    BY <1>1, <2>1 DEF pool, TypePool
  <2>2. CASE nb + 1 \in Taches /\ AjouterTache("sauvegarde")
    <3>1. /\ tache' \in [Taches -> Fiche] /\ nb' = nb + 1
          /\ file' = Append(file, nb + 1)
      BY EffetAjout, <2>2
    <3>2. file' \in Seq(Taches)
      BY <1>1, <3>1, <2>2, AppendProperties DEF TypePool
    <3>3. nb' \in 0 .. MaxDus + MaxRestaurations
      BY <1>1, <3>1, <2>2 DEF TypePool, Taches
    <3>4. QED
      BY <3>1, <3>2, <3>3 DEF TypePool
  <2>3. QED
    BY <1>14, <2>1, <2>2, EffetOrdonnancer DEF Sonner
<1>15. CASE Reveil
  <2>1. CASE UNCHANGED <<dus, pool>>
    BY <1>1, <2>1 DEF pool, TypePool
  <2>2. CASE nb + 1 \in Taches /\ AjouterTache("sauvegarde")
    <3>1. /\ tache' \in [Taches -> Fiche] /\ nb' = nb + 1
          /\ file' = Append(file, nb + 1)
      BY EffetAjout, <2>2
    <3>2. file' \in Seq(Taches)
      BY <1>1, <3>1, <2>2, AppendProperties DEF TypePool
    <3>3. nb' \in 0 .. MaxDus + MaxRestaurations
      BY <1>1, <3>1, <2>2 DEF TypePool, Taches
    <3>4. QED
      BY <3>1, <3>2, <3>3 DEF TypePool
  <2>3. QED
    BY <1>15, <2>1, <2>2, EffetOrdonnancer DEF Reveil
<1>16. CASE Abonner
  BY <1>16, <1>1 DEF Abonner, pool, TypePool
<1>17. CASE Annuler
  <2>1. tache' \in [Taches -> Fiche]
    BY <1>17, EffetStop DEF Annuler, TypeOK, ICourante, Restaurations
  <2>2. QED
    BY <1>17, <1>1, <2>1 DEF Annuler, TypePool
<1>18. CASE FinModale
  BY <1>18, <1>1 DEF FinModale, pool, TypePool
<1>19. CASE Ouvrir
  BY <1>19, <1>1 DEF Ouvrir, pool, TypePool
<1>20. CASE OuvrirVide
  BY <1>20, <1>1 DEF OuvrirVide, pool, TypePool
<1>21. CASE Fermer
  BY <1>21, <1>1 DEF Fermer, pool, TypePool
<1>22. CASE Lancer
  <2>1. nb + 1 \in Taches /\ AjouterTache("restauration")
    BY <1>22, Place DEF Lancer
  <2>2. QED
    <3>1. /\ tache' \in [Taches -> Fiche] /\ nb' = nb + 1
          /\ file' = Append(file, nb + 1)
      BY EffetAjout, <2>1
    <3>2. file' \in Seq(Taches)
      BY <1>1, <3>1, <2>1, AppendProperties DEF TypePool
    <3>3. nb' \in 0 .. MaxDus + MaxRestaurations
      BY <1>1, <3>1, <2>1 DEF TypePool, Taches
    <3>4. QED
      BY <3>1, <3>2, <3>3 DEF TypePool
<1>23. CASE CliquerAnnuler
  BY <1>23, <1>1 DEF CliquerAnnuler, pool, TypePool
<1>24. ASSUME NEW t \in Taches, StopTache(t)
       PROVE  TypePool'
  <2>1. tache' \in [Taches -> Fiche]
    BY <1>24, EffetStop DEF StopTache, TypeOK, ICourante, Restaurations
  <2>2. QED
    BY <1>24, <1>1, <2>1 DEF StopTache, TypePool
<1>25. ASSUME NEW t \in Taches, Prendre(t)
       PROVE  TypePool'
  <2>1. tache' \in [Taches -> Fiche]
    BY <1>25, EffetAller DEF Prendre, PcTache, Actives
  <2>2. file' \in Seq(Taches)
    BY <1>25, <1>1, HeadTailProperties DEF Prendre, TypePool
  <2>3. QED
    BY <1>25, <1>1, <2>1, <2>2 DEF Prendre, TypePool
<1>26. ASSUME NEW t \in Taches, TestEtPrendre(t)
       PROVE  TypePool'
  <2>1. tache' \in [Taches -> Fiche]
    BY <1>26, EffetPrise, EffetAller DEF PcTache, Actives
  <2>2. QED
    BY <1>26, <1>1, <2>1 DEF TestEtPrendre, TypePool
<1>27. ASSUME NEW t \in Taches, FinSauvegarde(t)
       PROVE  TypePool'
  <2>1. tache' \in [Taches -> Fiche]
    BY <1>27, EffetAller DEF FinSauvegarde, Rendre, PcTache, Actives
  <2>2. QED
    BY <1>27, <1>1, <2>1 DEF FinSauvegarde, Rendre, TypePool
<1>28. ASSUME NEW t \in Taches, Notifier(t, "debut", "test")
       PROVE  TypePool'
  <2>1. tache' \in [Taches -> Fiche]
    BY <1>28, EffetAller DEF Notifier, Rendre, PcTache, Actives
  <2>2. QED
    BY <1>28, <1>1, <2>1 DEF Notifier, Rendre, TypePool
<1>29. ASSUME NEW t \in Taches, Entrer(t)
       PROVE  TypePool'
  <2>1. tache' \in [Taches -> Fiche]
    BY <1>29, EffetAller DEF Entrer, Rendre, PcTache, Actives
  <2>2. QED
    BY <1>29, <1>1, <2>1 DEF Entrer, Rendre, TypePool
<1>30. ASSUME NEW t \in Taches, SortirMoniteur(t)
       PROVE  TypePool'
  <2>1. tache' \in [Taches -> Fiche]
    BY <1>30, EffetAller DEF SortirMoniteur, Rendre, PcTache, Actives
  <2>2. QED
    BY <1>30, <1>1, <2>1 DEF SortirMoniteur, Rendre, TypePool
<1>31. ASSUME NEW t \in Taches, Notifier(t, "notifie", "unite")
       PROVE  TypePool'
  <2>1. tache' \in [Taches -> Fiche]
    BY <1>31, EffetAller DEF Notifier, Rendre, PcTache, Actives
  <2>2. QED
    BY <1>31, <1>1, <2>1 DEF Notifier, Rendre, TypePool
<1>32. ASSUME NEW t \in Taches, Notifier(t, "sortie", "annonce")
       PROVE  TypePool'
  <2>1. tache' \in [Taches -> Fiche]
    BY <1>32, EffetAller DEF Notifier, Rendre, PcTache, Actives
  <2>2. QED
    BY <1>32, <1>1, <2>1 DEF Notifier, Rendre, TypePool
<1>33. ASSUME NEW t \in Taches, Unite(t)
       PROVE  TypePool'
  BY <1>33, <1>1, EffetUnite DEF Unite, TypePool
<1>34. ASSUME NEW t \in Taches, NotifierFin(t)
       PROVE  TypePool'
  <2>1. tache' \in [Taches -> Fiche]
    BY <1>34, EffetAller DEF NotifierFin, Rendre, PcTache, Actives
  <2>2. QED
    BY <1>34, <1>1, <2>1 DEF NotifierFin, Rendre, TypePool
<1>35. ASSUME NEW t \in Taches, FinRestauration(t)
       PROVE  TypePool'
  <2>1. tache' \in [Taches -> Fiche]
    BY <1>35, EffetAller DEF FinRestauration, Rendre, PcTache, Actives
  <2>2. QED
    BY <1>35, <1>1, <2>1 DEF FinRestauration, Rendre, TypePool
<1>36. CASE UNCHANGED vars
  BY <1>36, <1>1 DEF vars, ordonnanceur, ecran, pool, TypePool
<1>37. QED
  BY <1>11, <1>12, <1>13, <1>14, <1>15, <1>16, <1>17, <1>18, <1>19, <1>20,
     <1>21, <1>22, <1>23, <1>24, <1>25, <1>26, <1>27, <1>28, <1>29, <1>30,
     <1>31, <1>32, <1>33, <1>34, <1>35, <1>36
     DEF Next, FilPrincipal, FilDePool, Utilisateur, Restaurer

(* Who waits for whom.                                                     *)
LEMMA TypeLiensGarde ==
    TypeOK /\ IComptes /\ IGenre /\ ICourante /\ [Next]_vars => TypeLiens'
<1> SUFFICES ASSUME TypeOK, IComptes, IGenre, ICourante,
                    [Next]_vars
             PROVE  TypeLiens'
  OBVIOUS
<1>1. TypeLiens
  BY TypeEnParts
<1>11. CASE Planifier
  <2>1. Restaurations' = Restaurations /\ EnCours' = EnCours
    BY <1>11 DEF Planifier, pool, Restaurations, EnCours
  <2>2. QED
    BY <1>11, <1>1, <2>1 DEF Planifier, ecran, pool, TypeLiens
<1>12. CASE TesterReveil
  <2>1. Restaurations' = Restaurations /\ EnCours' = EnCours
    BY <1>12 DEF TesterReveil, pool, Restaurations, EnCours
  <2>2. QED
    BY <1>12, <1>1, <2>1 DEF TesterReveil, ecran, pool, TypeLiens
<1>13. CASE AppelerReveil
  <2>1. Restaurations' = Restaurations /\ EnCours' = EnCours
    BY <1>13 DEF AppelerReveil, pool, Restaurations, EnCours
  <2>2. QED
    BY <1>13, <1>1, <2>1 DEF AppelerReveil, ecran, pool, TypeLiens
<1>14. CASE Sonner
  <2>1. Restaurations' = Restaurations /\ EnCours \subseteq EnCours'
    <3>1. CASE UNCHANGED <<dus, pool>>
      BY <3>1 DEF pool, Restaurations, EnCours
    <3>2. CASE nb + 1 \in Taches /\ AjouterTache("sauvegarde")
      <4>1. /\ tache[nb + 1].pc = "absente"
            /\ \A u \in Taches : u # nb + 1 => tache'[u] = tache[u]
            /\ Restaurations' = Restaurations
        BY <3>2, EffetAjout
      <4>2. QED
        BY <4>1 DEF EnCours, Actives
    <3>3. QED
      BY <1>14, <3>1, <3>2, EffetOrdonnancer DEF Sonner
  <2>2. UNCHANGED <<courante, ressource, moniteur>>
    BY <1>14, EffetOrdonnancer DEF Sonner, ecran, pool
  <2>3. QED
    BY <1>1, <2>1, <2>2 DEF TypeLiens
<1>15. CASE Reveil
  <2>1. Restaurations' = Restaurations /\ EnCours \subseteq EnCours'
    <3>1. CASE UNCHANGED <<dus, pool>>
      BY <3>1 DEF pool, Restaurations, EnCours
    <3>2. CASE nb + 1 \in Taches /\ AjouterTache("sauvegarde")
      <4>1. /\ tache[nb + 1].pc = "absente"
            /\ \A u \in Taches : u # nb + 1 => tache'[u] = tache[u]
            /\ Restaurations' = Restaurations
        BY <3>2, EffetAjout
      <4>2. QED
        BY <4>1 DEF EnCours, Actives
    <3>3. QED
      BY <1>15, <3>1, <3>2, EffetOrdonnancer DEF Reveil
  <2>2. UNCHANGED <<courante, ressource, moniteur>>
    BY <1>15, EffetOrdonnancer DEF Reveil, ecran, pool
  <2>3. QED
    BY <1>1, <2>1, <2>2 DEF TypeLiens
<1>16. CASE Abonner
  <2>1. Restaurations' = Restaurations /\ EnCours' = EnCours
    BY <1>16 DEF Abonner, pool, Restaurations, EnCours
  <2>2. QED
    BY <1>16, <1>1, <2>1 DEF Abonner, ecran, pool, TypeLiens
<1>17. CASE Annuler
  <2>1. /\ Restaurations' = Restaurations
        /\ \A u \in Taches : tache'[u].pc = tache[u].pc
    BY <1>17, EffetStop DEF Annuler, TypeOK, ICourante, Restaurations
  <2>2. EnCours' = EnCours
    BY <2>1 DEF EnCours
  <2>3. UNCHANGED <<courante, ressource, moniteur>>
    BY <1>17 DEF Annuler, ecran
  <2>4. QED
    BY <1>1, <2>1, <2>2, <2>3 DEF TypeLiens
<1>18. CASE FinModale
  <2>1. Restaurations' = Restaurations /\ EnCours' = EnCours
    BY <1>18 DEF FinModale, pool, Restaurations, EnCours
  <2>2. QED
    BY <1>18, <1>1, <2>1 DEF FinModale, ecran, pool, TypeLiens
<1>19. CASE Ouvrir
  <2>1. Restaurations' = Restaurations /\ EnCours' = EnCours
    BY <1>19 DEF Ouvrir, pool, Restaurations, EnCours
  <2>2. QED
    BY <1>19, <1>1, <2>1 DEF Ouvrir, ecran, pool, TypeLiens
<1>20. CASE OuvrirVide
  <2>1. Restaurations' = Restaurations /\ EnCours' = EnCours
    BY <1>20 DEF OuvrirVide, pool, Restaurations, EnCours
  <2>2. QED
    BY <1>20, <1>1, <2>1 DEF OuvrirVide, ecran, pool, TypeLiens
<1>21. CASE Fermer
  <2>1. Restaurations' = Restaurations /\ EnCours' = EnCours
    BY <1>21 DEF Fermer, pool, Restaurations, EnCours
  <2>2. QED
    BY <1>21, <1>1, <2>1 DEF Fermer, ecran, pool, TypeLiens
<1>22. CASE Lancer
  <2>1. nb + 1 \in Taches /\ AjouterTache("restauration")
    BY <1>22, Place DEF Lancer
  <2>2. /\ tache[nb + 1].pc = "absente"
        /\ \A u \in Taches : u # nb + 1 => tache'[u] = tache[u]
        /\ Restaurations' = Restaurations \cup {nb + 1}
    BY <2>1, EffetAjout
  <2>3. EnCours \subseteq EnCours'
    BY <2>2 DEF EnCours, Actives
  <2>4. courante' = nb + 1 /\ UNCHANGED <<ressource, moniteur>>
    BY <1>22 DEF Lancer
  <2>5. QED
    BY <1>1, <2>2, <2>3, <2>4 DEF TypeLiens
<1>23. CASE CliquerAnnuler
  <2>1. Restaurations' = Restaurations /\ EnCours' = EnCours
    BY <1>23 DEF CliquerAnnuler, pool, Restaurations, EnCours
  <2>2. QED
    BY <1>23, <1>1, <2>1 DEF CliquerAnnuler, ecran, pool, TypeLiens
<1>24. ASSUME NEW t \in Taches, StopTache(t)
       PROVE  TypeLiens'
  <2>1. /\ Restaurations' = Restaurations
        /\ \A u \in Taches : tache'[u].pc = tache[u].pc
    BY <1>24, EffetStop DEF StopTache, TypeOK, ICourante, Restaurations
  <2>2. EnCours' = EnCours
    BY <2>1 DEF EnCours
  <2>3. UNCHANGED <<courante, ressource, moniteur>>
    BY <1>24 DEF StopTache, ecran
  <2>4. QED
    BY <1>1, <2>1, <2>2, <2>3 DEF TypeLiens
<1>25. ASSUME NEW t \in Taches, Prendre(t)
       PROVE  TypeLiens'
  <2>1. Restaurations' = Restaurations /\ EnCours \subseteq EnCours'
    BY <1>25, EffetAller DEF Prendre, PcTache, EnCours, Actives
  <2>2. UNCHANGED <<courante, ressource>>
    BY <1>25 DEF Prendre, ecran
  <2>3. moniteur' = moniteur
    BY <1>25 DEF Prendre
  <2>4. QED
    BY <1>1, <2>1, <2>2, <2>3 DEF TypeLiens
<1>26. ASSUME NEW t \in Taches, TestEtPrendre(t)
       PROVE  TypeLiens'
  <2>1. /\ Restaurations' = Restaurations
        /\ EnCours \subseteq EnCours' /\ t \in EnCours'
    BY <1>26, EffetPrise, EffetAller DEF PcTache, EnCours, Actives
  <2>2. UNCHANGED <<courante, moniteur>>
    BY <1>26 DEF TestEtPrendre, ecran
  <2>3. ressource' \in {t, ressource}
    BY <1>26 DEF TestEtPrendre
  <2>4. QED
    BY <1>1, <2>1, <2>2, <2>3 DEF TypeLiens
<1>27. ASSUME NEW t \in Taches, FinSauvegarde(t)
       PROVE  TypeLiens'
  <2>1. /\ Restaurations' = Restaurations
        /\ EnCours \ {t} \subseteq EnCours'
    BY <1>27, EffetAller DEF FinSauvegarde, Rendre, PcTache, EnCours, Actives
  <2>2. UNCHANGED <<courante, moniteur>>
    BY <1>27 DEF FinSauvegarde, Rendre, ecran
  <2>3. ressource' = IF ressource = t THEN Aucune ELSE ressource
    BY <1>27 DEF FinSauvegarde, Rendre
  <2>4. QED
    BY <1>1, <2>1, <2>2, <2>3 DEF TypeLiens
<1>28. ASSUME NEW t \in Taches, Notifier(t, "debut", "test")
       PROVE  TypeLiens'
  <2>1. Restaurations' = Restaurations /\ EnCours \subseteq EnCours'
    BY <1>28, EffetAller DEF Notifier, PcTache, EnCours, Actives
  <2>2. UNCHANGED <<courante, ressource>>
    BY <1>28 DEF Notifier, ecran
  <2>3. moniteur' = moniteur
    BY <1>28 DEF Notifier
  <2>4. QED
    BY <1>1, <2>1, <2>2, <2>3 DEF TypeLiens
<1>29. ASSUME NEW t \in Taches, Entrer(t)
       PROVE  TypeLiens'
  <2>1. Restaurations' = Restaurations /\ EnCours \subseteq EnCours'
    BY <1>29, EffetAller DEF Entrer, PcTache, EnCours, Actives
  <2>2. UNCHANGED <<courante, ressource>>
    BY <1>29 DEF Entrer, ecran
  <2>3. moniteur' = t /\ t \in Restaurations
    BY <1>29 DEF Entrer, IGenre, Entree, Restaurations
  <2>4. QED
    BY <1>1, <2>1, <2>2, <2>3 DEF TypeLiens
<1>30. ASSUME NEW t \in Taches, SortirMoniteur(t)
       PROVE  TypeLiens'
  <2>1. Restaurations' = Restaurations /\ EnCours \subseteq EnCours'
    BY <1>30, EffetAller DEF SortirMoniteur, PcTache, EnCours, Actives
  <2>2. UNCHANGED <<courante, ressource>>
    BY <1>30 DEF SortirMoniteur, ecran
  <2>3. moniteur' = Aucune
    BY <1>30 DEF SortirMoniteur
  <2>4. QED
    BY <1>1, <2>1, <2>2, <2>3 DEF TypeLiens
<1>31. ASSUME NEW t \in Taches, Notifier(t, "notifie", "unite")
       PROVE  TypeLiens'
  <2>1. Restaurations' = Restaurations /\ EnCours \subseteq EnCours'
    BY <1>31, EffetAller DEF Notifier, PcTache, EnCours, Actives
  <2>2. UNCHANGED <<courante, ressource>>
    BY <1>31 DEF Notifier, ecran
  <2>3. moniteur' = moniteur
    BY <1>31 DEF Notifier
  <2>4. QED
    BY <1>1, <2>1, <2>2, <2>3 DEF TypeLiens
<1>32. ASSUME NEW t \in Taches, Notifier(t, "sortie", "annonce")
       PROVE  TypeLiens'
  <2>1. Restaurations' = Restaurations /\ EnCours \subseteq EnCours'
    BY <1>32, EffetAller DEF Notifier, PcTache, EnCours, Actives
  <2>2. UNCHANGED <<courante, ressource>>
    BY <1>32 DEF Notifier, ecran
  <2>3. moniteur' = moniteur
    BY <1>32 DEF Notifier
  <2>4. QED
    BY <1>1, <2>1, <2>2, <2>3 DEF TypeLiens
<1>33. ASSUME NEW t \in Taches, Unite(t)
       PROVE  TypeLiens'
  <2>1. Restaurations' = Restaurations /\ EnCours \subseteq EnCours'
    BY <1>33, EffetUnite DEF EnCours, Actives
  <2>2. UNCHANGED <<courante, ressource, moniteur>>
    BY <1>33 DEF Unite, ecran
  <2>3. QED
    BY <1>1, <2>1, <2>2 DEF TypeLiens
<1>34. ASSUME NEW t \in Taches, NotifierFin(t)
       PROVE  TypeLiens'
  <2>1. Restaurations' = Restaurations /\ EnCours \subseteq EnCours'
    BY <1>34, EffetAller DEF NotifierFin, PcTache, EnCours, Actives
  <2>2. UNCHANGED <<courante, ressource>>
    BY <1>34 DEF NotifierFin, ecran
  <2>3. moniteur' = moniteur
    BY <1>34 DEF NotifierFin
  <2>4. QED
    BY <1>1, <2>1, <2>2, <2>3 DEF TypeLiens
<1>35. ASSUME NEW t \in Taches, FinRestauration(t)
       PROVE  TypeLiens'
  <2>1. /\ Restaurations' = Restaurations
        /\ EnCours \ {t} \subseteq EnCours'
    BY <1>35, EffetAller DEF FinRestauration, Rendre, PcTache, EnCours, Actives
  <2>2. UNCHANGED <<courante, moniteur>>
    BY <1>35 DEF FinRestauration, Rendre, ecran
  <2>3. ressource' = IF ressource = t THEN Aucune ELSE ressource
    BY <1>35 DEF FinRestauration, Rendre
  <2>4. QED
    BY <1>1, <2>1, <2>2, <2>3 DEF TypeLiens
<1>36. CASE UNCHANGED vars
  BY <1>36, <1>1 DEF vars, ordonnanceur, ecran, pool, TypeLiens,
     Restaurations, EnCours
<1>37. QED
  BY <1>11, <1>12, <1>13, <1>14, <1>15, <1>16, <1>17, <1>18, <1>19, <1>20,
     <1>21, <1>22, <1>23, <1>24, <1>25, <1>26, <1>27, <1>28, <1>29, <1>30,
     <1>31, <1>32, <1>33, <1>34, <1>35, <1>36
     DEF Next, FilPrincipal, FilDePool, Utilisateur, Restaurer

-----------------------------------------------------------------------------
LEMMA PasIInv == IInv /\ [Next]_vars => IInv'
<1> SUFFICES ASSUME IInv, [Next]_vars  PROVE IInv'
  OBVIOUS
<1>1. TypeOK'
  <2>1. /\ TypeOrdonnanceur' /\ TypeEcran' /\ TypePool' /\ TypeLiens'
    BY TypeOrdonnanceurGarde, TypeEcranGarde, TypePoolGarde, TypeLiensGarde
       DEF IInv
  <2>2. QED
    BY <2>1 DEF TypeOK, TypeOrdonnanceur, TypeEcran, TypePool, TypeLiens,
                Fiche, PcTache
<1>2. IComptes' /\ IFile' /\ IGenre' /\ ICourante' /\ IVerrou' /\ IReveils'
  BY ComptesGardes, FileGardee, GenreGarde, CouranteGardee, VerrouGarde,
     ReveilsGardes DEF IInv
<1>3. QED
  BY <1>1, <1>2 DEF IInv

LEMMA Invariant == Spec => []IInv
BY Initial, PasIInv, PTL DEF Spec

-----------------------------------------------------------------------------
(* Every variable keeps its type; the numbers of the tasks, the wake-ups   *)
(* and the turns keep their bounds (PD_TacheRestauration.m:47-123).        *)
THEOREM TypesRestauration == Spec => []TypeOK
<1>1. IInv => TypeOK
  BY DEF IInv
<1>2. QED
  BY <1>1, Invariant, PTL

(* When no window is open the scheduler holds a timer that fires           *)
(* (CI_Restauration.m:414-423, 596-607).                                   *)
THEOREM OrdonnanceurToujoursRepris == Spec => []OrdonnanceurReprend
<1>1. IInv => OrdonnanceurReprend
  BY DEF IInv, IReveils, OrdonnanceurReprend
<1>2. QED
  BY <1>1, Invariant, PTL

(* A restoration copies with the lock of the key, and a backup that runs   *)
(* next to it was stopped while it waited (PD_TacheRestauration.m:47-123,  *)
(* PD_TacheSauvegarde.m:772-780).                                          *)
THEOREM RestaurationToujoursSeule == Spec => []RestaurationSeule
<1>1. IInv => RestaurationSeule
  <2> SUFFICES ASSUME IInv, NEW r \in Taches, NEW s \in Taches,
                      tache[r].pc = "unite"
               PROVE  /\ ressource = r
                      /\ tache[s].pc = "travail" => tache[s].stop
    BY DEF RestaurationSeule
  <2>1. ressource = r
    BY DEF IInv, IVerrou
  <2>2. ASSUME tache[s].pc = "travail"
        PROVE  tache[s].stop
    <3>1. s # r
      BY <2>2
    <3>2. ressource = s \/ tache[s].stop
      BY <2>2 DEF IInv, IVerrou, Passees
    <3>3. QED
      BY <2>1, <3>1, <3>2
  <2>3. QED
    BY <2>1, <2>2
<1>2. QED
  BY <1>1, Invariant, PTL

(* While the window is open only a wake-up sent before it opened launches  *)
(* a planned backup, or a timer a window without backups left behind       *)
(* (CI_Restauration.m:404-415, PD_Ordonnanceur.m:108-139).                 *)
THEOREM AucunLancementToujours == Spec => AucunLancement
<1>1. IInv /\ [Next]_vars =>
        [dus' < dus /\ fenetre # "fermee" => vide \/ tardifs > 0]_vars
  <2> SUFFICES ASSUME IInv, [Next]_vars, dus' < dus, fenetre # "fermee", ~vide
               PROVE  tardifs > 0
    OBVIOUS
  <2>1. /\ dus \in Nat /\ reveils \in Nat
        /\ disp \in {"repos", "planifie", "appelle"}
        /\ tardifs = reveils + Appel /\ valides = {}
    BY DEF IInv, TypeOK, IReveils
  <2>2. CASE Reveil
    BY <2>1, <2>2 DEF Reveil, Appel
  <2>3. CASE Sonner
    BY <2>1, <2>3 DEF Sonner
  <2>4. CASE Planifier
    BY <2>1, <2>4 DEF Planifier
  <2>5. ASSUME NEW t \in Taches, FilDePool(t) \/ StopTache(t)
        PROVE  dus' = dus
    BY <2>5 DEF FilDePool, StopTache, Restaurer, Prendre, TestEtPrendre,
       FinSauvegarde, FinRestauration, Rendre, Notifier, Entrer,
       SortirMoniteur, Unite, NotifierFin, ordonnanceur
  <2>6. CASE \/ TesterReveil \/ AppelerReveil \/ Abonner \/ Annuler
             \/ FinModale \/ Ouvrir \/ OuvrirVide \/ Fermer \/ Lancer
             \/ CliquerAnnuler \/ UNCHANGED vars
    <3>1. dus' = dus
      BY <2>6 DEF TesterReveil, AppelerReveil, Abonner, Annuler, FinModale,
         Ouvrir, OuvrirVide, Fermer, Lancer, CliquerAnnuler, vars,
         ordonnanceur
    <3>2. QED
      BY <2>1, <3>1
  <2>7. QED
    BY <2>1, <2>2, <2>3, <2>4, <2>5, <2>6
       DEF Next, FilPrincipal, Utilisateur
<1>2. QED
  BY <1>1, Invariant, PTL DEF Spec, AucunLancement
=============================================================================
