------------------------ MODULE SauvegardeIncrementale ------------------------
(***************************************************************************)
(* The incremental backup of a key (PD_TacheSauvegarde                     *)
(* sauvegardeIncrementale:): rsync fills a directory named after the date, *)
(* whose unchanged files are hard links into the one current names; then   *)
(* current is removed and made again, and menageApresIncrementale: thins   *)
(* out the old directories. The storage window deletes directories next to *)
(* it, at any moment.                                                      *)
(*                                                                         *)
(* One task of the key at a time: a second one, asked to stop while it     *)
(* waited, only makes and removes a dated directory of its own.            *)
(*                                                                         *)
(* fautes counts what goes wrong: an operation that fails, rsync included, *)
(* and the end of the program. A stop is not a fault.                      *)
(***************************************************************************)
EXTENDS Naturals, FiniteSets

CONSTANTS
    MaxTemps,   \* bound: where the clock stops
    MaxFautes,  \* bound: faults
    MaxPurges,  \* bound: uses of the storage window
    Duree,      \* of an hour, a day, a week and a month of the retention
    Periode,    \* the hour, day, week and month of a date
    Numero,     \* the number the calendar gives to each
    Rang,       \* the place of a date's name in a listing of the directory
    Aucune      \* no date

Dates == 0 .. MaxTemps
Unites == {"heure", "jour", "semaine", "mois"}
Suivante == [heure |-> "jour", jour |-> "semaine", semaine |-> "mois"]

(* A period lasts its Duree at most, and its dates follow each other. Two  *)
(* dates an age class can hold together have one number only if they are   *)
(* of one period: hours of a day, days of a week, weeks of a month. Months *)
(* come back every year: nothing is said of them.                          *)
ASSUME IncrementaleAssumption ==
    /\ MaxTemps \in Nat /\ MaxFautes \in Nat /\ MaxPurges \in Nat
    /\ Aucune \notin Dates
    /\ Duree \in [Unites -> Nat \ {0}]
    /\ \A u \in DOMAIN Suivante : Duree[u] <= Duree[Suivante[u]]
    /\ Periode \in [Unites -> [Dates -> Nat]]
    /\ Numero \in [Unites -> [Dates -> Nat]]
    /\ Rang \in [Dates -> Nat]
    /\ \A u \in Unites, d, e \in Dates :
         Periode[u][d] = Periode[u][e] =>
             /\ Numero[u][d] = Numero[u][e]
             /\ e < d + Duree[u]
    /\ \A u \in DOMAIN Suivante, d, e \in Dates :
         (/\ d <= e
          /\ e + Duree[u] < d + Duree[Suivante[u]]
          /\ Numero[u][d] = Numero[u][e]) => Periode[u][d] = Periode[u][e]

(* The file system lists names in their order, as HFS+ does.               *)
ASSUME ListageAssumption ==
    \A d, e \in Dates : d < e => Rang[d] < Rang[e]

VARIABLES
    maintenant,  \* the clock
    incr,        \* the directory of the incremental backups exists
    dossiers,    \* the dates whose directory exists
    complets,    \* those that hold a whole copy of the key
    lien,        \* the date current names, there or not; Aucune: no current
    pc,          \* where the task is in sauvegardeIncrementale:
    debut,       \* its date, the name of its directory; Aucune at rest
    interrompu,  \* interrompreTache
    aSupprimer,  \* what is left of toDel in menageApresIncrementale:
    aPurger,     \* what the storage window has still to delete
    purges,      \* how often the window was used
    fautes,
    perdu,       \* the directory current names, or is about to name, was
                 \*   deleted by the user or not made by rsync
    temoin       \* one complete backup, followed until the user deletes

disque == <<incr, dossiers, complets, lien>>
fenetre == <<aPurger, purges>>
tacheVars == <<pc, debut, interrompu, aSupprimer>>
vars == <<maintenant, disque, tacheVars, fenetre, fautes, perdu, temoin>>

Init ==
    /\ maintenant = 0
    /\ incr = FALSE
    /\ dossiers = {}
    /\ complets = {}
    /\ lien = Aucune
    /\ pc = "repos"
    /\ debut = Aucune
    /\ interrompu = FALSE
    /\ aSupprimer = {}
    /\ aPurger = {}
    /\ purges = 0
    /\ fautes = 0
    /\ perdu = FALSE
    /\ temoin = Aucune

Faute == fautes < MaxFautes /\ fautes' = fautes + 1

Avancer(de, vers) == pc = de /\ pc' = vers

(* fileExistsAtPath: follows a link: current is there when what it names   *)
(* is.                                                                     *)
Pendant == lien # Aucune /\ lien \notin dossiers

-----------------------------------------------------------------------------
(* The retention.                                                          *)

(* e is what a listing of L gives right after d.                           *)
Suit(L, d, e) ==
    /\ Rang[d] < Rang[e]
    /\ \A x \in L : ~(Rang[d] < Rang[x] /\ Rang[x] < Rang[e])

(* Wrong variant: what is kept is the first of each run, not the last.     *)
SelectionGardeLePremier(L, num) ==
    {d \in L : \E e \in L : Suit(L, e, d) /\ num[d] = num[e]}

(* An element is deleted when the next one has the same number.            *)
SelectionASupprimer(L, num) ==
    {d \in L : \E e \in L : Suit(L, d, e) /\ num[d] = num[e]}

(* Wrong variant: the backups of the last hour are thinned out too.        *)
TrancheSansMinimum(u) ==
    {d \in dossiers :
        u \in DOMAIN Suivante => maintenant < d + Duree[Suivante[u]]}

(* The directories of an age class: an hour to a day, a day to a week, a   *)
(* week to a month, more.                                                  *)
Tranche(u) ==
    {d \in dossiers :
        /\ maintenant >= d + Duree[u]
        /\ u \in DOMAIN Suivante => maintenant < d + Duree[Suivante[u]]}

ToDel == UNION {SelectionASupprimer(Tranche(u), Numero[u]) : u \in Unites}

-----------------------------------------------------------------------------
(* The backup. Two backups do not begin within one second.                 *)

Finir ==
    /\ pc' = "repos"
    /\ debut' = Aucune
    /\ interrompu' = FALSE

(* rsync makes its directory and begins to fill it.                        *)
Commencer ==
    /\ Avancer("repos", "rsync")
    /\ maintenant \notin dossiers
    /\ debut' = maintenant
    /\ incr' = TRUE
    /\ dossiers' = dossiers \cup {maintenant}
    /\ UNCHANGED <<maintenant, complets, lien, interrompu, aSupprimer, fenetre,
                   fautes, perdu, temoin>>

(* The directory of the backups cannot be created, or rsync launched.      *)
RsyncImpossible ==
    /\ pc = "repos"
    /\ Faute
    /\ incr' \in {incr, TRUE}
    /\ UNCHANGED <<maintenant, dossiers, complets, lien, tacheVars, fenetre,
                   perdu, temoin>>

(* The volume has gone: rsync finds nothing to copy and makes no           *)
(* directory. Its exit status is not read.                                 *)
RsyncSansSource ==
    /\ Avancer("repos", "retirer")
    /\ Faute
    /\ maintenant \notin dossiers
    /\ debut' = maintenant
    /\ incr' = TRUE
    /\ perdu' = TRUE
    /\ UNCHANGED <<maintenant, dossiers, complets, lien, interrompu,
                   aSupprimer, fenetre, temoin>>

StopTache ==
    /\ pc = "rsync"
    /\ interrompu' = TRUE
    /\ UNCHANGED <<maintenant, disque, pc, debut, aSupprimer, fenetre, fautes,
                   perdu, temoin>>

(* Wrong variant: the directory is taken to be there.                      *)
RsyncReussitSansTest ==
    /\ Avancer("rsync", "retirer")
    /\ ~interrompu
    /\ complets' = complets \cup {debut}
    /\ temoin' \in {temoin, IF temoin = Aucune THEN debut ELSE temoin}
    /\ UNCHANGED <<maintenant, incr, dossiers, lien, debut, interrompu,
                   aSupprimer, fenetre, fautes, perdu>>

RsyncReussit ==
    /\ Avancer("rsync", "retirer")
    /\ ~interrompu
    /\ debut \in dossiers
    /\ complets' = complets \cup {debut}
    /\ temoin' \in {temoin, IF temoin = Aucune THEN debut ELSE temoin}
    /\ UNCHANGED <<maintenant, incr, dossiers, lien, debut, interrompu,
                   aSupprimer, fenetre, fautes, perdu>>

(* rsync fails, or its directory was deleted under it: not seen.           *)
RsyncEchoue ==
    /\ Avancer("rsync", "retirer")
    /\ ~interrompu
    /\ IF debut \in dossiers THEN Faute ELSE UNCHANGED fautes
    /\ UNCHANGED <<maintenant, disque, debut, interrompu, aSupprimer, fenetre,
                   perdu, temoin>>

(* The pipe cannot be read: an error, and the directory stays.             *)
LectureEchoue ==
    /\ pc = "rsync"
    /\ ~interrompu
    /\ Faute
    /\ Finir
    /\ UNCHANGED <<maintenant, disque, aSupprimer, fenetre, perdu, temoin>>

(* Wrong variant: a stopped backup is linked like another.                 *)
RsyncArreteContinue ==
    /\ Avancer("rsync", "retirer")
    /\ interrompu
    /\ UNCHANGED <<maintenant, disque, debut, interrompu, aSupprimer, fenetre,
                   fautes, perdu, temoin>>

(* The analyser finds the task asked to stop: its directory is removed.    *)
RsyncArrete ==
    /\ pc = "rsync"
    /\ interrompu
    /\ \/ dossiers' = dossiers \ {debut} /\ UNCHANGED fautes
       \/ debut \in dossiers /\ Faute /\ UNCHANGED dossiers
    /\ Finir
    /\ UNCHANGED <<maintenant, incr, complets, lien, aSupprimer, fenetre, perdu,
                   temoin>>

-----------------------------------------------------------------------------
(* The link, then the retention.                                           *)

(* A link to a directory that has gone is taken for absent and stays.      *)
RetirerLien ==
    /\ Avancer("retirer", "creer")
    /\ \/ lien' = (IF Pendant THEN lien ELSE Aucune) /\ UNCHANGED fautes
       \/ lien \in dossiers /\ Faute /\ UNCHANGED lien
    /\ UNCHANGED <<maintenant, incr, dossiers, complets, debut, interrompu,
                   aSupprimer, fenetre, perdu, temoin>>

CreerLien ==
    /\ Avancer("creer", "lister")
    /\ lien = Aucune
    /\ incr
    /\ lien' = debut
    /\ UNCHANGED <<maintenant, incr, dossiers, complets, debut, interrompu,
                   aSupprimer, fenetre, fautes, perdu, temoin>>

(* For sure on a link that is there or a directory that is not.            *)
CreerLienEchoue ==
    /\ pc = "creer"
    /\ IF lien # Aucune \/ ~incr THEN UNCHANGED fautes ELSE Faute
    /\ Finir
    /\ UNCHANGED <<maintenant, disque, aSupprimer, fenetre, perdu, temoin>>

Lister ==
    /\ Avancer("lister", "menage")
    /\ aSupprimer' = ToDel
    /\ UNCHANGED <<maintenant, disque, debut, interrompu, fenetre, fautes,
                   perdu, temoin>>

(* The removal of one directory, by the task or the storage window; one    *)
(* that fails may have removed a part. Errors are ignored.                 *)
Supprimer(d) ==
    /\ complets' = complets \ {d}
    /\ \/ dossiers' = dossiers \ {d} /\ UNCHANGED fautes
       \/ d \in dossiers /\ Faute /\ UNCHANGED dossiers
    /\ UNCHANGED <<maintenant, incr, lien>>

(* The order among what is to be deleted is left open.                     *)
Menage(d) ==
    /\ pc = "menage"
    /\ d \in aSupprimer
    /\ Supprimer(d)
    /\ aSupprimer' = aSupprimer \ {d}
    /\ UNCHANGED <<pc, debut, interrompu, fenetre, perdu, temoin>>

FinMenage ==
    /\ pc = "menage"
    /\ aSupprimer = {}
    /\ Finir
    /\ UNCHANGED <<maintenant, disque, aSupprimer, fenetre, fautes, perdu,
                   temoin>>

Tache ==
    \/ Commencer
    \/ RsyncImpossible
    \/ RsyncSansSource
    \/ RsyncReussit
    \/ RsyncEchoue
    \/ LectureEchoue
    \/ RsyncArrete
    \/ RetirerLien
    \/ CreerLien
    \/ CreerLienEchoue
    \/ Lister
    \/ \E d \in Dates : Menage(d)
    \/ FinMenage

-----------------------------------------------------------------------------
(* The storage window (CI_StorageManagement process:).                     *)

OuvrirFenetre ==
    /\ aPurger = {}
    /\ purges < MaxPurges
    /\ purges' = purges + 1

(* It goes through the listing as long as the dates are before the one the *)
(* user has chosen.                                                        *)
Purger ==
    /\ OuvrirFenetre
    /\ \E limite \in Dates :
         aPurger' = {d \in dossiers :
            \A x \in dossiers : Rang[x] <= Rang[d] => x < limite}
    /\ UNCHANGED <<maintenant, disque, tacheVars, fautes, perdu, temoin>>

PurgerUn(d) ==
    /\ d \in aPurger
    /\ \A x \in aPurger : Rang[d] <= Rang[x]
    /\ Supprimer(d)
    /\ aPurger' = aPurger \ {d}
    /\ perdu' = (perdu \/ d = lien \/ d = debut)
    /\ temoin' = Aucune
    /\ UNCHANGED <<tacheVars, purges>>

(* The whole directory.                                                    *)
ToutSupprimer ==
    /\ OuvrirFenetre
    /\ incr
    /\ incr' = FALSE
    /\ dossiers' = {}
    /\ complets' = {}
    /\ lien' = Aucune
    /\ perdu' = (pc # "repos")
    /\ temoin' = Aucune
    /\ UNCHANGED <<maintenant, tacheVars, aPurger, fautes>>

(* A removal that fails has removed the first ones, and part of the next.  *)
ToutSupprimerEchoue ==
    /\ OuvrirFenetre
    /\ Faute
    /\ \E d \in dossiers :
         /\ dossiers' = {x \in dossiers : Rang[d] <= Rang[x]}
         /\ complets' = (complets \cap dossiers') \ {d}
    /\ perdu' = TRUE
    /\ temoin' = Aucune
    /\ UNCHANGED <<maintenant, incr, lien, tacheVars, aPurger>>

Fenetre ==
    \/ Purger
    \/ \E d \in Dates : PurgerUn(d)
    \/ ToutSupprimer
    \/ ToutSupprimerEchoue

-----------------------------------------------------------------------------
Temps ==
    /\ maintenant < MaxTemps
    /\ maintenant' = maintenant + 1
    /\ UNCHANGED <<disque, tacheVars, fenetre, fautes, perdu, temoin>>

(* The program ends, the directories stay.                                 *)
Crash ==
    /\ pc # "repos" \/ aPurger # {}
    /\ Faute
    /\ Finir
    /\ aSupprimer' = {}
    /\ aPurger' = {}
    /\ UNCHANGED <<maintenant, disque, purges, perdu, temoin>>

Next ==
    \/ Tache
    \/ StopTache
    \/ Fenetre
    \/ Temps
    \/ Crash

Spec == Init /\ [][Next]_vars

-----------------------------------------------------------------------------
PcTache == {"repos", "rsync", "retirer", "creer", "lister", "menage"}

TypeOK ==
    /\ maintenant \in Dates
    /\ incr \in BOOLEAN
    /\ dossiers \in SUBSET Dates
    /\ complets \in SUBSET dossiers
    /\ lien \in Dates \cup {Aucune}
    /\ pc \in PcTache
    /\ debut \in Dates \cup {Aucune}
    /\ interrompu \in BOOLEAN
    /\ aSupprimer \in SUBSET Dates
    /\ aPurger \in SUBSET Dates
    /\ purges \in 0 .. MaxPurges
    /\ fautes \in 0 .. MaxFautes
    /\ perdu \in BOOLEAN
    /\ temoin \in Dates \cup {Aucune}

(* How far from a backup of this age its nearest remaining one may be.     *)
Ecart(age) ==
    CASE age < Duree["heure"] -> 0
      [] age >= Duree["heure"] /\ age < Duree["jour"] -> Duree["heure"]
      [] age >= Duree["jour"] /\ age < Duree["semaine"] ->
            Duree["heure"] + Duree["jour"]
      [] OTHER -> Duree["heure"] + Duree["jour"] + Duree["semaine"]

(* The retention thins the history out and leaves no hole: for one month,  *)
(* whatever backups follow, stops, faults and the end of the program       *)
(* included, every complete backup is on the disk, or one made after it by *)
(* less than the hour, day and week its age stands for; a complete one if  *)
(* nothing went wrong (PD_TacheSauvegarde.m:14-54 and 132-286).            *)
Couverture ==
    temoin # Aucune /\ maintenant < temoin + Duree["mois"] =>
        \E d \in dossiers :
            /\ temoin <= d
            /\ d <= temoin + Ecart(maintenant - temoin)
            /\ fautes = 0 => d \in complets

(* As long as nothing goes wrong current names the newest complete backup, *)
(* outside of the steps that move it: neither a stop nor the retention,    *)
(* nor the storage window on other directories, takes it away              *)
(* (PD_TacheSauvegarde.m:683-712).                                         *)
LienSuit ==
    fautes = 0 /\ ~perdu /\ pc \notin {"retirer", "creer"} =>
        IF complets = {} THEN lien = Aucune
        ELSE lien \in complets /\ \A d \in complets : d <= lien

(* Whatever fails, and wherever the program ends, current names a          *)
(* directory that exists, as long as the user has not deleted it and rsync *)
(* made one (PD_TacheSauvegarde.m:690-712).                                *)
LienVivant == ~perdu => ~Pendant

(* PD_TacheSauvegarde.m:693, "suppression du lien sur current s'il         *)
(* existe": after this step, unless the removal fails, there is no link.   *)
LienSupprimeSIlExiste ==
    [][pc = "retirer" /\ pc' = "creer" /\ fautes' = fautes =>
         lien' = Aucune]_vars
=============================================================================
