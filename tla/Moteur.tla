-------------------------------- MODULE Moteur --------------------------------
(***************************************************************************)
(* PD_Moteur at work: from the volume that appears to the backup of its    *)
(* key and to the next one. Four kinds of threads meet here:               *)
(*   - the dispatcher (PD_TacheDispatcheur), one task per mount or unmount;*)
(*   - the backup threads (PD_TacheSauvegarde), Travailleurs;              *)
(*   - the main thread: the scheduler's passes and the user's buttons;     *)
(*   - the system, that mounts and unmounts volumes.                       *)
(* They share the planning (PD_Planificateur), the file of the backups     *)
(* (CR_File), the list of the running tasks, the dictionary of the mounted *)
(* keys (PD_Enregistreur) and one lock per key (CR_RessourceSpeciale).     *)
(*                                                                         *)
(* One action is one critical section, or one statement when no lock is    *)
(* held. The stop of the engine is CR_TraitementsMultiThreads' subject.    *)
(***************************************************************************)
EXTENDS CR_File, PD_Planificateur

CONSTANTS
    Points,          \* mount points
    Ids,             \* idCle of the keys, all known of the database
    IdDuPoint,       \* the tag found on the volume mounted there
    BackupType,      \* D_BACKUPTYPE of each key: 1 none, 2 full, 3 incr, 4 sync
    ActionInsersion, \* D_ACTIONINSERSION: 1 nothing, 2 at once, 3 if old enough
    Planning,        \* D_PLANNING: 1 manual, 2 periodic
    Intervalle,      \* both D_..._NB * D_..._UNITE intervals
    Travailleurs,    \* the threads of PD_TraitementDesTaches
    Aucune,          \* no key
    Personne,        \* no thread
    MaxTemps,        \* bound: the clock stops there
    MaxBranchements, \* bound: mounts after the start
    MaxDemandes      \* bound: user requests

ASSUME MoteurAssumption ==
    /\ IsFiniteSet(Points)
    /\ IdDuPoint \in [Points -> Ids]
    /\ BackupType \in [Ids -> 1 .. 4]
    /\ ActionInsersion \in [Ids -> 1 .. 3]
    /\ Planning \in [Ids -> 1 .. 2]
    /\ Intervalle \in Nat
    /\ Personne \notin Travailleurs
    /\ MaxTemps \in Nat /\ MaxBranchements \in Nat /\ MaxDemandes \in Nat

VARIABLES
    montes,      \* the mount points in use
    fileDispatch,\* the file of the dispatcher: [montage, point]
    dispatcheur, \* the dispatcher: [pc, cle]
    montees,     \* listeDesClesMontees: idCle -> PD_Cle
    nbCles,      \* PD_Cle objects created so far
    trav,        \* the backup threads: [pc, cle, aReplanifier, interrompre,
                 \*   fin]; fin is the date the backup has left in D_DERNSAUV
    tachesEnCours,     \* tachesEnCoursDExecution, as the threads that run them
    ressource,         \* the owner of the lock of each idCle
    sauvegardeEnCours, \* the PD_Cle with sauvegardeEnCours set
    principal,   \* the main thread: [pc, cle]
    nbBranchements, nbDemandes

dispVars == <<fileDispatch, dispatcheur, montees, nbCles>>
travVars == <<trav, tachesEnCours, ressource, sauvegardeEnCours>>
systVars == <<montes, nbBranchements>>
mainVars == <<principal, nbDemandes>>
vars == <<fileVars, planVars, dispVars, travVars, systVars, mainVars>>

(* A PD_Cle object: two objects of one key differ by num.                  *)
Cle(p, n) == [id |-> IdDuPoint[p], point |-> p, num |-> n]
Cles == [id : Ids, point : Points, num : Nat]

Tache(c, aReplanifier) == [cle |-> c, aReplanifier |-> aReplanifier]
Taches == [cle : Cles, aReplanifier : BOOLEAN]

TravailleurLibre ==
    [pc |-> "libre", cle |-> Aucune, aReplanifier |-> FALSE,
     interrompre |-> FALSE, fin |-> 0]
Inactif == [pc |-> "repos", cle |-> Aucune]

Init ==
    /\ InitFile
    /\ InitPlan
    /\ montes \in SUBSET Points
    /\ fileDispatch = <<>>
    /\ dispatcheur = Inactif
    /\ montees = [id \in Ids |-> Aucune]
    /\ nbCles = 0
    /\ trav = [w \in Travailleurs |-> TravailleurLibre]
    /\ tachesEnCours = <<>>
    /\ ressource = [id \in Ids |-> Personne]
    /\ sauvegardeEnCours = {}
    /\ principal = [pc |-> "demarrage", cle |-> Aucune]
    /\ nbBranchements = 0
    /\ nbDemandes = 0

-----------------------------------------------------------------------------
(* Volumes. A notification and detectionInitiale each give the dispatcher  *)
(* a task: a volume mounted while the program starts is seen twice. The    *)
(* main thread is in demarrer until detectionInitiale.                     *)

Evenement(montage, p) == [montage |-> montage, point |-> p]

Brancher(p) ==
    /\ p \notin montes
    /\ nbBranchements < MaxBranchements
    /\ nbBranchements' = nbBranchements + 1
    /\ montes' = montes \cup {p}
    /\ fileDispatch' = Append(fileDispatch, Evenement(TRUE, p))
    /\ UNCHANGED <<fileVars, planVars, travVars, mainVars, dispatcheur,
                   montees, nbCles>>

Debrancher(p) ==
    /\ p \in montes
    /\ montes' = montes \ {p}
    /\ fileDispatch' = Append(fileDispatch, Evenement(FALSE, p))
    /\ UNCHANGED <<fileVars, planVars, travVars, mainVars, nbBranchements,
                   dispatcheur, montees, nbCles>>

DetectionInitiale ==
    /\ principal.pc = "demarrage"
    /\ principal' = Inactif
    /\ \E chemins \in SetToSeqs(montes) :
         fileDispatch' = fileDispatch \o
             [i \in DOMAIN chemins |-> Evenement(TRUE, chemins[i])]
    /\ UNCHANGED <<fileVars, planVars, travVars, systVars, nbDemandes,
                   dispatcheur, montees, nbCles>>

-----------------------------------------------------------------------------
(* The sections that several threads run.                                  *)

(* The main thread is in its run loop: it takes clicks, timers and what    *)
(* the other threads ask it to do.                                         *)
MainLibre == principal.pc = "repos"

(* The monitor of listeDesClesMontees: the buttons keep it from their first*)
(* to their last step, everybody else for one statement.                   *)
MoniteurLibre == principal.pc \in {"demarrage", "repos", "ordonnancer"}

(* arreterTachesPourCle: the first running task of this object.            *)
ArreterTachesPourCle(c) ==
    LET concernees == {i \in DOMAIN tachesEnCours :
                         trav[tachesEnCours[i]].cle = c}
    IN  IF concernees = {} THEN trav' = trav
        ELSE \E i \in concernees :
               /\ \A j \in concernees : i <= j
               /\ trav' = [trav EXCEPT ![tachesEnCours[i]].interrompre = TRUE]

(* arreterTachesPourCle walks the list without its lock. While a backup    *)
(* thread adds or removes its task, the walk may skip an element or raise. *)
ListeEnMutation ==
    \E w \in Travailleurs : trav[w].pc \in {"prise", "retirer"}

(* supprimerCleDeLaFileDeSauvegardes: the last waiting task of this object.*)
RetirerDeLaFile(c) ==
    LET concernees == {i \in DOMAIN laFile : laFile[i].cle = c}
    IN  IF concernees = {} THEN UNCHANGED fileVars
        ELSE \E i \in concernees :
               /\ \A j \in concernees : j <= i
               /\ SupprimerElemALaPosition(i)

(* D_DERNSAUV is the date of some earlier backup.                          *)
DernSauv == 0 .. maintenant

(* The dates planifier: may compute; none is the nil date.                 *)
DatesAuMontage(id) ==
    CASE ActionInsersion[id] = 2 -> {maintenant}
      [] ActionInsersion[id] = 3 ->
           {IF d + Intervalle < maintenant THEN maintenant
            ELSE d + Intervalle : d \in DernSauv}
      [] ActionInsersion[id] = 1 /\ Planning[id] = 2 ->
           {d + Intervalle : d \in DernSauv}
      [] OTHER -> {}

-----------------------------------------------------------------------------
(* The dispatcher.                                                         *)

(* cleMonteeParPointDeMontage                                              *)
MonteesEn(p) == {id \in Ids : montees[id] # Aucune /\ montees[id].point = p}

Repartir == fileDispatch' = Tail(fileDispatch)

(* A volume that has already gone is not eligible.                         *)
DispIgnorer ==
    /\ dispatcheur.pc = "repos"
    /\ fileDispatch # <<>>
    /\ LET e == Head(fileDispatch)
       IN  IF e.montage THEN e.point \notin montes
           ELSE MoniteurLibre /\ MonteesEn(e.point) = {}
    /\ Repartir
    /\ UNCHANGED <<fileVars, planVars, travVars, systVars, mainVars,
                   dispatcheur, montees, nbCles>>

(* A new PD_Cle replaces the one its idCle had.                            *)
DispEnregistrer(p) ==
    /\ dispatcheur.pc = "repos"
    /\ fileDispatch # <<>>
    /\ Head(fileDispatch) = Evenement(TRUE, p)
    /\ p \in montes
    /\ MoniteurLibre
    /\ nbCles' = nbCles + 1
    /\ LET c == Cle(p, nbCles')
       IN  /\ montees' = [montees EXCEPT ![c.id] = c]
           /\ dispatcheur' = IF BackupType[c.id] = 1 THEN Inactif
                             ELSE [pc |-> "planifier", cle |-> c]
    /\ Repartir
    /\ UNCHANGED <<fileVars, planVars, travVars, systVars, mainVars>>

DispPlanifier ==
    /\ dispatcheur.pc = "planifier"
    /\ \E d \in DatesAuMontage(dispatcheur.cle.id) :
          Planifier(Entree(d, dispatcheur.cle, TRUE))
    /\ dispatcheur' = Inactif
    /\ UNCHANGED <<fileVars, travVars, systVars, mainVars, fileDispatch,
                   montees, nbCles>>

(* The date is nil: the message waits for the main thread.                 *)
DispJournaliser ==
    /\ dispatcheur.pc = "planifier"
    /\ DatesAuMontage(dispatcheur.cle.id) = {}
    /\ PlanifierSansDate
    /\ dispatcheur' = [dispatcheur EXCEPT !.pc = "journal"]
    /\ UNCHANGED <<fileVars, travVars, systVars, mainVars, fileDispatch,
                   montees, nbCles>>

DispJournalise ==
    /\ dispatcheur.pc = "journal"
    /\ MainLibre
    /\ MessagePris
    /\ dispatcheur' = Inactif
    /\ UNCHANGED <<fileVars, travVars, systVars, mainVars, fileDispatch,
                   montees, nbCles>>

(* Wrong variant: no test of the key that is found.                        *)
DispDemonterSansTest(id) ==
    /\ dispatcheur.pc = "repos"
    /\ fileDispatch # <<>>
    /\ ~Head(fileDispatch).montage
    /\ MoniteurLibre
    /\ dispatcheur' = [pc |-> "arreter", cle |-> montees[id]]
    /\ Repartir
    /\ UNCHANGED <<fileVars, planVars, travVars, systVars, mainVars,
                   montees, nbCles>>

DispDemonter(id) ==
    /\ dispatcheur.pc = "repos"
    /\ fileDispatch # <<>>
    /\ ~Head(fileDispatch).montage
    /\ MoniteurLibre
    /\ id \in MonteesEn(Head(fileDispatch).point)
    /\ dispatcheur' = [pc |-> "arreter", cle |-> montees[id]]
    /\ Repartir
    /\ UNCHANGED <<fileVars, planVars, travVars, systVars, mainVars,
                   montees, nbCles>>

DispAvancer(de, vers) ==
    /\ dispatcheur.pc = de
    /\ dispatcheur' = [dispatcheur EXCEPT !.pc = vers]
    /\ UNCHANGED <<systVars, mainVars, fileDispatch, montees, nbCles>>

DispArreter ==
    /\ DispAvancer("arreter", "retirer")
    /\ ArreterTachesPourCle(dispatcheur.cle)
    /\ UNCHANGED <<fileVars, planVars, tachesEnCours, ressource,
                   sauvegardeEnCours>>

DispArreterSaute ==
    /\ ListeEnMutation
    /\ DispAvancer("arreter", "retirer")
    /\ UNCHANGED <<fileVars, planVars, travVars>>

(* Wrong variant: nobody catches the exception, the thread ends.           *)
DispArreterMortelle ==
    /\ dispatcheur.pc = "arreter"
    /\ ListeEnMutation
    /\ dispatcheur' = [dispatcheur EXCEPT !.pc = "mort"]
    /\ UNCHANGED <<fileVars, planVars, travVars, systVars, mainVars,
                   fileDispatch, montees, nbCles>>

(* The exception is caught by +consommateur:, the rest is not done.        *)
DispArreterException ==
    /\ dispatcheur.pc = "arreter"
    /\ ListeEnMutation
    /\ dispatcheur' = Inactif
    /\ UNCHANGED <<fileVars, planVars, travVars, systVars, mainVars,
                   fileDispatch, montees, nbCles>>

DispRetirer ==
    /\ DispAvancer("retirer", "deplanifier")
    /\ RetirerDeLaFile(dispatcheur.cle)
    /\ UNCHANGED <<planVars, travVars>>

DispDeplanifier ==
    /\ DispAvancer("deplanifier", "desenregistrer")
    /\ DeplanifierCle(dispatcheur.cle.id)
    /\ UNCHANGED <<fileVars, travVars>>

DispDesenregistrer ==
    /\ dispatcheur.pc = "desenregistrer"
    /\ MoniteurLibre
    /\ montees' = [montees EXCEPT ![dispatcheur.cle.id] = Aucune]
    /\ dispatcheur' = Inactif
    /\ UNCHANGED <<fileVars, planVars, travVars, systVars, mainVars,
                   fileDispatch, nbCles>>

-----------------------------------------------------------------------------
(* The main thread: the scheduler.                                         *)

MainEntre(pc, c) ==
    /\ MainLibre
    /\ principal' = [pc |-> pc, cle |-> c]

MainAvance(de, vers) ==
    /\ principal.pc = de
    /\ principal' = IF vers = "repos" THEN Inactif
                    ELSE [principal EXCEPT !.pc = vers]
    /\ UNCHANGED nbDemandes

(* The timer fires, or a thread has called reveiller.                      *)
OrdAppel ==
    /\ MainEntre("ordonnancer", Aucune)
    /\ UNCHANGED <<fileVars, planVars, dispVars, travVars, systVars,
                   nbDemandes>>

OrdDebut ==
    /\ principal.pc = "ordonnancer"
    /\ OrdonnancerDebut
    /\ UNCHANGED <<fileVars, dispVars, travVars, systVars, mainVars>>

OrdLancer ==
    /\ \E n \in DOMAIN planif :
         /\ OrdonnancerLancer(planif[n])
         /\ n = passe
         /\ InWithLock(Tache(planif[n].cle, planif[n].aReplanifier))
    /\ UNCHANGED <<dispVars, travVars, systVars, mainVars>>

OrdSauter ==
    /\ OrdonnancerSauter
    /\ UNCHANGED <<fileVars, dispVars, travVars, systVars, mainVars>>

OrdFin ==
    /\ OrdonnancerFin
    /\ MainAvance("ordonnancer", "repos")
    /\ UNCHANGED <<fileVars, dispVars, travVars, systVars>>

-----------------------------------------------------------------------------
(* The main thread: the user.                                              *)

Demander ==
    /\ nbDemandes < MaxDemandes
    /\ nbDemandes' = nbDemandes + 1

(* bouton_SauvegarderMaintenant and bouton_Sauvegarder: a one-shot entry,  *)
(* planned under the monitor.                                              *)
Sauvegarder(id) ==
    /\ Demander
    /\ montees[id] # Aucune
    /\ MainEntre("planifier", montees[id])
    /\ UNCHANGED <<fileVars, planVars, dispVars, travVars, systVars>>

SauvegarderALaDate(date) ==
    /\ MainAvance("planifier", "repos")
    /\ Planifier(Entree(date, principal.cle, FALSE))
    /\ UNCHANGED <<fileVars, dispVars, travVars, systVars>>

(* The stop button of a running task.                                      *)
StopTache(w) ==
    /\ MainLibre
    /\ Demander
    /\ trav[w].pc \notin {"libre", "prise"}
    /\ trav' = [trav EXCEPT ![w].interrompre = TRUE]
    /\ UNCHANGED <<fileVars, planVars, dispVars, systVars, tachesEnCours,
                   ressource, sauvegardeEnCours, principal>>

(* bouton_Suppr on a mounted key, all under the monitor.                   *)
SupprDesenregistrer(id) ==
    /\ Demander
    /\ montees[id] # Aucune
    /\ MainEntre("retirer", montees[id])
    /\ montees' = [montees EXCEPT ![id] = Aucune]
    /\ UNCHANGED <<fileVars, planVars, travVars, systVars, fileDispatch,
                   dispatcheur, nbCles>>

SupprRetirer ==
    /\ MainAvance("retirer", "arreter")
    /\ RetirerDeLaFile(principal.cle)
    /\ UNCHANGED <<planVars, dispVars, travVars, systVars>>

SupprArreter ==
    /\ MainAvance("arreter", "deplanifier")
    /\ ArreterTachesPourCle(principal.cle)
    /\ UNCHANGED <<fileVars, planVars, dispVars, systVars, tachesEnCours,
                   ressource, sauvegardeEnCours>>

SupprArreterSaute ==
    /\ ListeEnMutation
    /\ MainAvance("arreter", "deplanifier")
    /\ UNCHANGED <<fileVars, planVars, dispVars, travVars, systVars>>

(* The exception leaves the method, and the monitor with it.               *)
SupprArreterException ==
    /\ ListeEnMutation
    /\ MainAvance("arreter", "repos")
    /\ UNCHANGED <<fileVars, planVars, dispVars, travVars, systVars>>

SupprDeplanifier ==
    /\ MainAvance("deplanifier", "repos")
    /\ DeplanifierCle(principal.cle.id)
    /\ UNCHANGED <<fileVars, dispVars, travVars, systVars>>

-----------------------------------------------------------------------------
(* A backup thread: +consommateur:, then executerTache:.                   *)

TravAvancer(w, de, vers) ==
    /\ trav[w].pc = de
    /\ trav' = [trav EXCEPT ![w].pc = vers]

Prendre(w) ==
    /\ trav[w].pc = "libre"
    /\ \E n \in DOMAIN laFile :
         /\ OutWithLock(laFile[n])
         /\ n = 1
         /\ trav' = [trav EXCEPT ![w] =
                       [pc |-> "prise", cle |-> laFile[n].cle,
                        aReplanifier |-> laFile[n].aReplanifier,
                        interrompre |-> FALSE, fin |-> 0]]
    /\ UNCHANGED <<planVars, dispVars, systVars, mainVars, tachesEnCours,
                   ressource, sauvegardeEnCours>>

Lancer(w) ==
    /\ TravAvancer(w, "prise", "attente")
    /\ tachesEnCours' = Append(tachesEnCours, w)
    /\ sauvegardeEnCours' = sauvegardeEnCours \cup {trav[w].cle}
    /\ UNCHANGED <<fileVars, planVars, dispVars, systVars, mainVars,
                   ressource>>

(* Wrong variant: the answer of testEtPrendre is not read.                 *)
PrendreRessourceSansTest(w) ==
    /\ TravAvancer(w, "attente", "sauvegarde")
    /\ ressource' = [ressource EXCEPT ![trav[w].cle.id] = w]
    /\ UNCHANGED <<fileVars, planVars, dispVars, systVars, mainVars,
                   tachesEnCours, sauvegardeEnCours>>

(* testEtPrendre answers YES.                                              *)
PrendreRessource(w) ==
    /\ TravAvancer(w, "attente", "sauvegarde")
    /\ ressource[trav[w].cle.id] = Personne
    /\ ressource' = [ressource EXCEPT ![trav[w].cle.id] = w]
    /\ UNCHANGED <<fileVars, planVars, dispVars, systVars, mainVars,
                   tachesEnCours, sauvegardeEnCours>>

(* testEtPrendre answers NO and the task is asked to stop: the loop is     *)
(* left and the backup begins.                                             *)
RenoncerRessource(w) ==
    /\ TravAvancer(w, "attente", "sauvegarde")
    /\ ressource[trav[w].cle.id] # Personne
    /\ trav[w].interrompre
    /\ UNCHANGED <<fileVars, planVars, dispVars, systVars, mainVars,
                   tachesEnCours, ressource, sauvegardeEnCours>>

(* Wrong variant: a backup that was stopped leaves the flag.               *)
FinSauvegardeSansDrapeau(w) ==
    /\ trav[w].pc = "sauvegarde"
    /\ trav' = [trav EXCEPT ![w].fin = maintenant, ![w].pc =
         IF trav[w].aReplanifier /\ Planning[trav[w].cle.id] = 2
         THEN "verifier" ELSE "rendre"]
    /\ sauvegardeEnCours' = IF trav[w].interrompre THEN sauvegardeEnCours
                            ELSE sauvegardeEnCours \ {trav[w].cle}
    /\ UNCHANGED <<fileVars, planVars, dispVars, systVars, mainVars,
                   tachesEnCours, ressource>>

(* Complete, failed or interrupted, the backup is dated.                   *)
FinSauvegarde(w) ==
    /\ trav[w].pc = "sauvegarde"
    /\ trav' = [trav EXCEPT ![w].fin = maintenant, ![w].pc =
         IF trav[w].aReplanifier /\ Planning[trav[w].cle.id] = 2
         THEN "verifier" ELSE "rendre"]
    /\ sauvegardeEnCours' = sauvegardeEnCours \ {trav[w].cle}
    /\ UNCHANGED <<fileVars, planVars, dispVars, systVars, mainVars,
                   tachesEnCours, ressource>>

(* Wrong variant: a backup that was stopped is not planned again.          *)
VerifierSaufInterrompue(w) ==
    /\ MoniteurLibre
    /\ TravAvancer(w, "verifier",
         IF montees[trav[w].cle.id] # Aucune /\ ~trav[w].interrompre
         THEN "deplanifier" ELSE "rendre")
    /\ UNCHANGED <<fileVars, planVars, dispVars, systVars, mainVars,
                   tachesEnCours, ressource, sauvegardeEnCours>>

(* CleEstEnregistree looks for the idCle, not for the object.              *)
Verifier(w) ==
    /\ MoniteurLibre
    /\ TravAvancer(w, "verifier",
         IF montees[trav[w].cle.id] # Aucune THEN "deplanifier" ELSE "rendre")
    /\ UNCHANGED <<fileVars, planVars, dispVars, systVars, mainVars,
                   tachesEnCours, ressource, sauvegardeEnCours>>

(* replanifier: two critical sections. Since this thread has set it,       *)
(* another backup of the key may have set D_DERNSAUV again.                *)
Deplanifier(w) ==
    /\ TravAvancer(w, "deplanifier", "planifier")
    /\ DeplanifierCle(trav[w].cle.id)
    /\ UNCHANGED <<fileVars, dispVars, systVars, mainVars, tachesEnCours,
                   ressource, sauvegardeEnCours>>

Replanifier(w) ==
    /\ TravAvancer(w, "planifier", "rendre")
    /\ \E d \in trav[w].fin .. maintenant :
          Planifier(Entree(d + Intervalle, trav[w].cle, TRUE))
    /\ UNCHANGED <<fileVars, dispVars, systVars, mainVars, tachesEnCours,
                   ressource, sauvegardeEnCours>>

(* Wrong variant: a lock anybody may give back.                            *)
RendreSansProprietaire(w) ==
    /\ TravAvancer(w, "rendre", "retirer")
    /\ ressource' = [ressource EXCEPT ![trav[w].cle.id] = Personne]
    /\ UNCHANGED <<fileVars, planVars, dispVars, systVars, mainVars,
                   tachesEnCours, sauvegardeEnCours>>

(* Wrong variant: a task that was stopped leaves before rendre:.           *)
RendreSaufInterrompue(w) ==
    /\ TravAvancer(w, "rendre", "retirer")
    /\ ressource' = [id \in Ids |->
                       IF /\ id = trav[w].cle.id /\ ressource[id] = w
                          /\ ~trav[w].interrompre
                       THEN Personne ELSE ressource[id]]
    /\ UNCHANGED <<fileVars, planVars, dispVars, systVars, mainVars,
                   tachesEnCours, sauvegardeEnCours>>

(* rendre: an unlock by a thread that does not own the lock changes        *)
(* nothing.                                                                *)
Rendre(w) ==
    /\ TravAvancer(w, "rendre", "retirer")
    /\ ressource' = [id \in Ids |-> IF id = trav[w].cle.id /\ ressource[id] = w
                                    THEN Personne ELSE ressource[id]]
    /\ UNCHANGED <<fileVars, planVars, dispVars, systVars, mainVars,
                   tachesEnCours, sauvegardeEnCours>>

Retirer(w) ==
    /\ trav[w].pc = "retirer"
    /\ \E i \in DOMAIN tachesEnCours :
         /\ tachesEnCours[i] = w
         /\ tachesEnCours' = RemoveAt(tachesEnCours, i)
    /\ trav' = [trav EXCEPT ![w] = TravailleurLibre]
    /\ UNCHANGED <<fileVars, planVars, dispVars, systVars, mainVars,
                   ressource, sauvegardeEnCours>>

-----------------------------------------------------------------------------
Temps ==
    /\ Horloge(MaxTemps)
    /\ UNCHANGED <<fileVars, dispVars, travVars, systVars, mainVars>>

Systeme ==
    \/ \E p \in Points : Brancher(p) \/ Debrancher(p)
    \/ Temps

Dispatcheur ==
    \/ DispIgnorer
    \/ \E p \in Points : DispEnregistrer(p)
    \/ DispPlanifier
    \/ DispJournaliser
    \/ DispJournalise
    \/ \E id \in Ids : DispDemonter(id)
    \/ DispArreter
    \/ DispArreterSaute
    \/ DispArreterException
    \/ DispRetirer
    \/ DispDeplanifier
    \/ DispDesenregistrer

Principal ==
    \/ DetectionInitiale
    \/ OrdAppel
    \/ OrdDebut
    \/ OrdLancer
    \/ OrdSauter
    \/ OrdFin
    \/ \E d \in 0 .. MaxTemps : SauvegarderALaDate(d)
    \/ SupprRetirer
    \/ SupprArreter
    \/ SupprArreterSaute
    \/ SupprArreterException
    \/ SupprDeplanifier

Utilisateur ==
    \/ \E id \in Ids : Sauvegarder(id) \/ SupprDesenregistrer(id)
    \/ \E w \in Travailleurs : StopTache(w)

Travailleur(w) ==
    \/ Prendre(w)
    \/ Lancer(w)
    \/ PrendreRessource(w)
    \/ RenoncerRessource(w)
    \/ FinSauvegarde(w)
    \/ Verifier(w)
    \/ Deplanifier(w)
    \/ Replanifier(w)
    \/ Rendre(w)
    \/ Retirer(w)

Next ==
    \/ Systeme
    \/ Dispatcheur
    \/ Principal
    \/ Utilisateur
    \/ \E w \in Travailleurs : Travailleur(w)

(* The system schedules the threads, backups end, the timer fires, what the*)
(* main thread has begun it carries through. The scheduler sleeps between  *)
(* two passes, so whoever waits for the lock of the planning gets it:      *)
(* strong fairness. Time, volumes and the user owe nothing.                *)
Fairness ==
    /\ SF_vars(Dispatcheur)
    /\ SF_vars(Principal)
    /\ \A w \in Travailleurs : SF_vars(Travailleur(w))

Spec == Init /\ [][Next]_vars
FairSpec == Spec /\ Fairness

-----------------------------------------------------------------------------
PcTrav == {"libre", "prise", "attente", "sauvegarde", "verifier",
           "deplanifier", "planifier", "rendre", "retirer"}
PcDisp == {"repos", "planifier", "journal", "arreter", "retirer",
           "deplanifier", "desenregistrer"}
PcMain == {"demarrage", "repos", "ordonnancer", "planifier", "retirer",
           "arreter", "deplanifier"}

TypeDispatcheur ==
    /\ fileDispatch \in Seq([montage : BOOLEAN, point : Points])
    /\ dispatcheur \in [pc : PcDisp, cle : Cles \cup {Aucune}]
    /\ dispatcheur.pc # "repos" => dispatcheur.cle \in Cles
    /\ montees \in [Ids -> Cles \cup {Aucune}]
    /\ nbCles \in Nat

TypeTravailleurs ==
    /\ trav \in [Travailleurs ->
                   [pc : PcTrav, cle : Cles \cup {Aucune},
                    aReplanifier : BOOLEAN, interrompre : BOOLEAN,
                    fin : Nat]]
    /\ \A w \in Travailleurs : trav[w].pc # "libre" => trav[w].cle \in Cles
    /\ tachesEnCours \in Seq(Travailleurs)
    /\ ressource \in [Ids -> Travailleurs \cup {Personne}]
    /\ sauvegardeEnCours \subseteq Cles

TypePrincipal ==
    /\ principal \in [pc : PcMain, cle : Cles \cup {Aucune}]
    /\ ~MoniteurLibre => principal.cle \in Cles
    /\ nbDemandes \in Nat

TypeSysteme == montes \subseteq Points /\ nbBranchements \in Nat

TypeOK ==
    /\ TypeFile(Taches)
    /\ TypePlan(Cles)
    /\ TypeSysteme
    /\ TypeDispatcheur
    /\ TypeTravailleurs
    /\ TypePrincipal

(* The threads between the taking of the key's lock and its return.        *)
EnSection(w) ==
    trav[w].pc \in {"sauvegarde", "verifier", "deplanifier", "planifier",
                    "rendre"}

(* Two threads work on one key at a time only if one of them has been      *)
(* asked to stop (PD_TacheSauvegarde.m:772-780 and 835).                   *)
ExclusionHorsInterruption ==
    \A v, w \in Travailleurs :
        (v # w /\ EnSection(v) /\ EnSection(w) /\ trav[v].cle.id = trav[w].cle.id)
            => trav[v].interrompre \/ trav[w].interrompre

(* The lock of a key is held only by a thread at work on that key, and a   *)
(* thread at work that was not asked to stop holds it: no lock is lost and *)
(* none is given back by the wrong thread (CR_RessourceSpeciale.m).        *)
RessourceFidele ==
    /\ \A id \in Ids : ressource[id] # Personne =>
          LET w == ressource[id] IN EnSection(w) /\ trav[w].cle.id = id
    /\ \A w \in Travailleurs :
          EnSection(w) /\ ~trav[w].interrompre =>
              ressource[trav[w].cle.id] = w

(* Where the next periodic backup of a key may be.                         *)
Periodique(id) == BackupType[id] # 1 /\ Planning[id] = 2
EnPlan(id) ==
    \E n \in DOMAIN planif : planif[n].cle.id = id /\ planif[n].aReplanifier
EnFile(id) ==
    \E n \in DOMAIN laFile : laFile[n].cle.id = id /\ laFile[n].aReplanifier
EnCours(id) ==
    \E w \in Travailleurs :
        /\ trav[w].pc \notin {"libre", "rendre", "retirer"}
        /\ trav[w].cle.id = id
        /\ trav[w].aReplanifier
ChezDispatcheur(id) ==
    /\ dispatcheur.pc \in {"planifier", "deplanifier", "desenregistrer"}
    /\ dispatcheur.cle.id = id

(* A registered key with a periodic planning is never forgotten: its next  *)
(* backup is planned, or waits in the file, or runs and will plan the next *)
(* one, or the dispatcher is about to plan it or to forget the key.        *)
(* Dispatcher, scheduler, user and backup threads each remove entries of   *)
(* the planning and of the file, by idCle or by object                     *)
(* (PD_Planificateur.m:160-241, PD_TraitementDesTaches.m:29-58,            *)
(* PD_TacheSauvegarde.m:821-833).                                          *)
CleJamaisOubliee ==
    \A id \in Ids : Periodique(id) /\ montees[id] # Aucune =>
        EnPlan(id) \/ EnFile(id) \/ EnCours(id) \/ ChezDispatcheur(id)

(* The flag the window shows is not left behind by a backup that is over   *)
(* (PD_TacheSauvegarde.m:753 and 814).                                     *)
DrapeauJamaisOublie ==
    \A c \in sauvegardeEnCours :
        \E w \in Travailleurs : trav[w].cle = c
                              /\ trav[w].pc \in {"attente", "sauvegarde"}

(* Nobody keeps the lock of a key for ever: whatever the owner waits for on*)
(* its way (the monitor, the lock of the planning) it gives the lock back  *)
(* (PD_TacheSauvegarde.m:772-835).                                         *)
RessourceRendue ==
    \A id \in Ids : ressource[id] # Personne ~> ressource[id] = Personne

(* A task that waits for the lock of its key gets it, or gives up, one day:*)
(* the loop only tries, it is not in a queue (PD_TacheSauvegarde.m:772).   *)
AttenteFinie ==
    \A w \in Travailleurs :
        trav[w].pc = "attente" ~> trav[w].pc # "attente"

(* The dispatcher always comes back to its file: neither the monitor nor   *)
(* the lock of the planning is kept against it for ever.                   *)
DispatcheurRevient == dispatcheur.pc # "repos" ~> dispatcheur.pc = "repos"

(* The message of English.lproj/Localizable.strings:57, "It is not time to *)
(* do the backup", gets to the journal once PD_Planificateur.m:91 sends it.*)
MessageJournalise == journal ~> ~journal
=============================================================================
