---------------------- MODULE CR_TraitementsMultiThreads ----------------------
(***************************************************************************)
(* CR_TraitementsMultiThreads and its CR_Consommateur threads: a pool that *)
(* takes CR_Tache objects from one CR_File and runs them, and its stop.    *)
(* PD_TraitementDesTaches (the backups) is such a pool; the dispatcher is  *)
(* the same with one thread (CR_TraitementMonoThread).                     *)
(*                                                                         *)
(* Three parties: the threads, the lists they share under two locks, and   *)
(* the main thread, the only one that submits tasks to these pools and     *)
(* that calls run: and arreter:.                                           *)
(***************************************************************************)
EXTENDS CR_File, FiniteSets

CONSTANTS
    Threads,   \* the CR_Consommateur threads run: starts
    Taches,    \* the task objects, each submitted at most once
    Arret,     \* a Consommateur_demandeDArret object
    Aucune     \* no task

ASSUME ThreadsAssumption == IsFiniteSet(Threads) /\ Threads # {}
ASSUME TachesAssumption == Arret \notin Taches /\ Aucune \notin Taches

VARIABLES
    pc,                  \* where each thread is in +consommateur:
    tache,               \* the task it has taken
    tachesEnCours,       \* tachesEnCoursDExecution, under its lock
    interrompre,         \* the tasks with interrompreTache set
    doitSArreter,        \* the flag of each CR_Consommateur
    synchro,             \* the condition of synchroFinDeTache
    traitementsEnCours,
    arret,               \* where the main thread is in arreter:
    prevenus,            \* the threads whose stop object is in the file
    soumises             \* the tasks submitted so far

poolVars == <<pc, tache, tachesEnCours, interrompre, doitSArreter, synchro,
              traitementsEnCours, arret, prevenus, soumises>>
vars == <<fileVars, poolVars>>

PcThread == {"eteint", "boucle", "nil", "prise", "execution", "sortie",
             "fini", "exception"}
PcArret == {"repos", "vide", "drapeaux", "attente", "oui", "non"}

(* Threads that have not yet lowered synchroFinDeTache.                    *)
Vivants == {w \in Threads : pc[w] \in PcThread \ {"eteint", "fini"}}

Init ==
    /\ InitFile
    /\ pc = [w \in Threads |-> "eteint"]
    /\ tache = [w \in Threads |-> Aucune]
    /\ tachesEnCours = {}
    /\ interrompre = {}
    /\ doitSArreter = [w \in Threads |-> FALSE]
    /\ synchro = 0
    /\ traitementsEnCours = FALSE
    /\ arret = "repos"
    /\ prevenus = {}
    /\ soumises = {}

-----------------------------------------------------------------------------
(* Wrong variant: the counter starts one too low.                          *)
RunDecale ==
    /\ arret = "repos"
    /\ ~traitementsEnCours
    /\ synchro' = Cardinality(Threads) - 1
    /\ pc' = [w \in Threads |-> "boucle"]
    /\ traitementsEnCours' = TRUE
    /\ UNCHANGED <<fileVars, tache, tachesEnCours, interrompre, doitSArreter,
                   arret, prevenus, soumises>>

(* The main thread. PD_Moteur calls run: once.                             *)

Run ==
    /\ arret = "repos"
    /\ ~traitementsEnCours
    /\ synchro' = Cardinality(Threads)
    /\ pc' = [w \in Threads |-> "boucle"]
    /\ traitementsEnCours' = TRUE
    /\ UNCHANGED <<fileVars, tache, tachesEnCours, interrompre, doitSArreter,
                   arret, prevenus, soumises>>

(* Submissions come from the scheduler, the volume notifications and the   *)
(* restore window, all on the main thread: none during arreter:.           *)
AjouterTache(t) ==
    /\ arret = "repos"
    /\ t \notin soumises
    /\ InWithLock(t)
    /\ soumises' = soumises \cup {t}
    /\ UNCHANGED <<pc, tache, tachesEnCours, interrompre, doitSArreter,
                   synchro, traitementsEnCours, arret, prevenus>>

(* arreter: empties the array under the lock and gives the lock back with  *)
(* a plain unlock, which keeps the condition.                              *)
ArreterVider ==
    /\ arret = "repos"
    /\ traitementsEnCours
    /\ ~verrouTenu
    /\ laFile' = <<>>
    /\ arret' = "vide"
    /\ UNCHANGED <<condition, verrouTenu, pc, tache, tachesEnCours,
                   interrompre, doitSArreter, synchro, traitementsEnCours,
                   prevenus, soumises>>

ArreterInterrompre ==
    /\ arret = "vide"
    /\ interrompre' = interrompre \cup tachesEnCours
    /\ arret' = "drapeaux"
    /\ UNCHANGED <<fileVars, pc, tache, tachesEnCours, doitSArreter, synchro,
                   traitementsEnCours, prevenus, soumises>>

(* [CR_Consommateur arreter], one thread after the other: first the stop   *)
(* object, then the flag.                                                  *)
ArreterPousser(w) ==
    /\ arret = "drapeaux"
    /\ w \notin prevenus
    /\ \A v \in prevenus : doitSArreter[v]
    /\ InWithLock(Arret)
    /\ prevenus' = prevenus \cup {w}
    /\ UNCHANGED <<pc, tache, tachesEnCours, interrompre, doitSArreter,
                   synchro, traitementsEnCours, arret, soumises>>

ArreterMarquer(w) ==
    /\ arret = "drapeaux"
    /\ w \in prevenus
    /\ ~doitSArreter[w]
    /\ doitSArreter' = [doitSArreter EXCEPT ![w] = TRUE]
    /\ arret' = IF prevenus = Threads THEN "attente" ELSE "drapeaux"
    /\ UNCHANGED <<fileVars, pc, tache, tachesEnCours, interrompre, synchro,
                   traitementsEnCours, prevenus, soumises>>

(* Wrong variant: YES without waiting for the counter.                     *)
ArreterOuiSansAttendre ==
    /\ arret = "attente"
    /\ arret' = "oui"
    /\ traitementsEnCours' = FALSE
    /\ UNCHANGED <<fileVars, pc, tache, tachesEnCours, interrompre,
                   doitSArreter, synchro, prevenus, soumises>>

ArreterOui ==
    /\ arret = "attente"
    /\ synchro = 0
    /\ arret' = "oui"
    /\ traitementsEnCours' = FALSE
    /\ UNCHANGED <<fileVars, pc, tache, tachesEnCours, interrompre,
                   doitSArreter, synchro, prevenus, soumises>>

(* The date of lockWhenCondition:0 beforeDate: comes first.                *)
ArreterNon ==
    /\ arret = "attente"
    /\ synchro # 0
    /\ arret' = "non"
    /\ UNCHANGED <<fileVars, pc, tache, tachesEnCours, interrompre,
                   doitSArreter, synchro, traitementsEnCours, prevenus,
                   soumises>>

-----------------------------------------------------------------------------
(* One thread, in the loop of +consommateur:.                              *)

AllerEn(w, etat) == pc' = [pc EXCEPT ![w] = etat]

Prendre(w, t) ==
    /\ pc[w] = "boucle"
    /\ OutWithLock(t)
    /\ AllerEn(w, "prise")
    /\ tache' = [tache EXCEPT ![w] = t]
    /\ UNCHANGED <<tachesEnCours, interrompre, doitSArreter, synchro,
                   traitementsEnCours, arret, prevenus, soumises>>

(* The element answers to arreter: the thread leaves its loop.             *)
PrendreArret(w) ==
    /\ pc[w] = "boucle"
    /\ OutWithLock(Arret)
    /\ AllerEn(w, "sortie")
    /\ UNCHANGED <<tache, tachesEnCours, interrompre, doitSArreter, synchro,
                   traitementsEnCours, arret, prevenus, soumises>>

(* The call stands outside the @try: an exception there ends the thread.   *)
PrendreSurVide(w) ==
    /\ pc[w] = "boucle"
    /\ OutWithLockSurVide
    /\ AllerEn(w, "exception")
    /\ UNCHANGED <<tache, tachesEnCours, interrompre, doitSArreter, synchro,
                   traitementsEnCours, arret, prevenus, soumises>>

PrendreNil(w) ==
    /\ pc[w] = "boucle"
    /\ OutWithLockTimeOut
    /\ AllerEn(w, "nil")
    /\ UNCHANGED <<tache, tachesEnCours, interrompre, doitSArreter, synchro,
                   traitementsEnCours, arret, prevenus, soumises>>

LireDoitSArreter(w) ==
    /\ pc[w] = "nil"
    /\ AllerEn(w, IF doitSArreter[w] THEN "sortie" ELSE "boucle")
    /\ UNCHANGED <<fileVars, tache, tachesEnCours, interrompre, doitSArreter,
                   synchro, traitementsEnCours, arret, prevenus, soumises>>

Lancer(w) ==
    /\ pc[w] = "prise"
    /\ tachesEnCours' = tachesEnCours \cup {tache[w]}
    /\ AllerEn(w, "execution")
    /\ UNCHANGED <<fileVars, tache, interrompre, doitSArreter, synchro,
                   traitementsEnCours, arret, prevenus, soumises>>

(* executerTache: returns, or raises and is caught: the task leaves the    *)
(* list either way.                                                        *)
FinTache(w) ==
    /\ pc[w] = "execution"
    /\ tachesEnCours' = tachesEnCours \ {tache[w]}
    /\ tache' = [tache EXCEPT ![w] = Aucune]
    /\ AllerEn(w, "boucle")
    /\ UNCHANGED <<fileVars, interrompre, doitSArreter, synchro,
                   traitementsEnCours, arret, prevenus, soumises>>

(* Wrong variant: a thread leaves without a word.                          *)
SortirSansCompter(w) ==
    /\ pc[w] = "sortie"
    /\ AllerEn(w, "fini")
    /\ UNCHANGED <<fileVars, tache, tachesEnCours, interrompre, doitSArreter,
                   synchro, traitementsEnCours, arret, prevenus, soumises>>

Sortir(w) ==
    /\ pc[w] = "sortie"
    /\ synchro' = synchro - 1
    /\ AllerEn(w, "fini")
    /\ UNCHANGED <<fileVars, tache, tachesEnCours, interrompre, doitSArreter,
                   traitementsEnCours, arret, prevenus, soumises>>

-----------------------------------------------------------------------------
PasThread(w) ==
    \/ \E t \in Taches : Prendre(w, t)
    \/ PrendreArret(w)
    \/ PrendreSurVide(w)
    \/ PrendreNil(w)
    \/ LireDoitSArreter(w)
    \/ Lancer(w)
    \/ FinTache(w)
    \/ Sortir(w)

PasArreter ==
    \/ ArreterInterrompre
    \/ \E w \in Threads : ArreterPousser(w) \/ ArreterMarquer(w)
    \/ ArreterOui
    \/ ArreterNon

Next ==
    \/ Run
    \/ \E t \in Taches : AjouterTache(t)
    \/ ArreterVider
    \/ PasArreter
    \/ \E w \in Threads : PasThread(w)

(* The system schedules every thread; a task ends; once the stop has begun *)
(* the main thread carries it through. Nobody has to submit or to stop.    *)
Fairness ==
    /\ WF_vars(Run)
    /\ WF_vars(PasArreter)
    /\ \A w \in Threads : WF_vars(PasThread(w))

Spec == Init /\ [][Next]_vars
FairSpec == Spec /\ Fairness

-----------------------------------------------------------------------------
TypeOK ==
    /\ TypeFile(Taches \cup {Arret})
    /\ pc \in [Threads -> PcThread]
    /\ tache \in [Threads -> Taches \cup {Aucune}]
    /\ tachesEnCours \subseteq Taches
    /\ interrompre \subseteq Taches
    /\ doitSArreter \in [Threads -> BOOLEAN]
    /\ synchro \in Nat
    /\ traitementsEnCours \in BOOLEAN
    /\ arret \in PcArret
    /\ prevenus \subseteq Threads
    /\ soumises \subseteq Taches

(* The condition of synchroFinDeTache, which arreter: waits to reach 0, is *)
(* the number of threads that have not left (CR_Consommateur.m:264-271): a *)
(* thread killed by an exception stays counted for ever.                   *)
CompteurFidele == synchro = Cardinality(Vivants)

(* arreter: answers YES only when nothing runs any more: every thread has  *)
(* left and no task is listed as running. Its last comment relies on it to *)
(* purge nothing (CR_TraitementsMultiThreads.m:82-96).                     *)
ArretComplet ==
    arret = "oui" =>
        /\ \A w \in Threads : pc[w] = "fini"
        /\ tachesEnCours = {}

(* The pool is a FIFO executor: each task taken once, in order, by one     *)
(* thread; the stop drops exactly the tasks nobody has taken. What the     *)
(* file holds waits until arreter: has emptied it: what comes next into it *)
(* are stop objects, and what it held is over.                             *)
Prises == {tache[w] : w \in {v \in Threads : pc[v] \in {"prise", "execution"}}}
EnFile == {laFile[i] : i \in DOMAIN laFile}
Executeur == INSTANCE ExecuteurFIFO WITH
    NbThread <- Cardinality(Threads),
    attente <- IF arret = "repos" THEN laFile ELSE <<>>,
    encours <- Prises,
    terminees <- soumises \ (EnFile \cup Prises)
RaffineExecuteur == Executeur!Spec

(* Every submitted task is over one day: run, or dropped by the stop. Under*)
(* FairSpec: no task sleeps in the file while the threads wait on it.      *)
ToutSeTermine ==
    \A t \in Taches : (t \in soumises) ~> (t \notin EnFile \cup Prises)
=============================================================================
