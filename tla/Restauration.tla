------------------------------ MODULE Restauration ------------------------------
(***************************************************************************)
(* The restoration of a key: its window (CI_Restauration) stops the        *)
(* scheduler's timer while it is open; a task (PD_TacheRestauration) goes  *)
(* through the file and the threads of the backups and takes the lock of   *)
(* the key, while a sheet (CI_ProgressionRestauration) keeps the main      *)
(* thread in a modal loop until the end of the task is notified.           *)
(*                                                                         *)
(* One key, whose backups are launched next to it. What is copied is not   *)
(* modelled: the code restores nothing yet, it counts.                     *)
(***************************************************************************)
EXTENDS Naturals, Sequences, FiniteSets

CONSTANTS
    Fils,             \* the threads of the backups
    MaxDus,           \* bound: entries of the planning that come due, 2 at most
    MaxRestaurations, \* bound: restorations
    MaxOuvertures,    \* bound: openings of the window
    Tours             \* turns of the loop of a restoration, 11 in the code

ASSUME RestaurationAssumption ==
    /\ IsFiniteSet(Fils) /\ Fils # {}
    /\ MaxDus \in 0 .. 2
    /\ MaxRestaurations \in Nat /\ MaxOuvertures \in Nat
    /\ Tours \in Nat \ {0}

Taches == 1 .. MaxDus + MaxRestaurations
Minuteries == 1 .. MaxOuvertures + 1
Aucune == 0

VARIABLES
    minuterie,  \* timer of the scheduler; Aucune: nil
    valides,    \* the timers the run loop still fires
    reveils,    \* the _reveiller: the main thread has yet to run
    dus,        \* the due entries of the planning
    tombes,     \* how many ever came due
    disp,       \* the dispatcher in reveiller
    fenetre,    \* the window, and the main thread in it
    courante,   \* tache: the restoration the window waits for
    abandon,    \* abortModal was called
    file,       \* the file of the tasks
    tache,      \* of each task: what it is, where it is, if it is to stop,
                \*   the turns it has made
    ressource,  \* the task whose thread holds the lock of the key
    moniteur,   \* the restoration that is inside @synchronized(self)
    nb,         \* tasks ever made
    ouvertures, \* windows ever opened
    vide,       \* one of them had nothing to restore
    tardifs,    \* the wake-ups on their way when the window opened
    manquee     \* an end was notified before the sheet listened

ordonnanceur == <<minuterie, valides, reveils, dus, tombes, disp, tardifs>>
ecran == <<fenetre, courante, abandon, ouvertures, vide, manquee>>
pool == <<file, tache, ressource, moniteur, nb>>
vars == <<ordonnanceur, ecran, pool>>

Actives == {"attente", "travail", "debut", "test", "section", "notifie",
            "unite", "sortie", "annonce", "fin"}
EnCours == {t \in Taches : tache[t].pc \in Actives}

Init ==
    /\ minuterie = 1
    /\ valides = {1}
    /\ reveils = 0
    /\ dus = 0
    /\ tombes = 0
    /\ disp = "repos"
    /\ fenetre = "fermee"
    /\ courante = Aucune
    /\ abandon = FALSE
    /\ file = << >>
    /\ tache = [t \in Taches |-> [genre |-> "aucun", pc |-> "absente",
                                  stop |-> FALSE, tour |-> 0]]
    /\ ressource = Aucune
    /\ moniteur = Aucune
    /\ nb = 0
    /\ ouvertures = 0
    /\ vide = FALSE
    /\ tardifs = 0
    /\ manquee = FALSE

AjouterTache(genre) ==
    /\ nb' = nb + 1
    /\ file' = Append(file, nb + 1)
    /\ tache' = [tache EXCEPT ![nb + 1] =
                    [genre |-> genre, pc |-> "file", stop |-> FALSE, tour |-> 0]]

Aller(t, pc) == tache' = [tache EXCEPT ![t].pc = pc]

-----------------------------------------------------------------------------
(* The scheduler.                                                          *)

(* A thread plans a backup for now, then calls reveiller.                  *)
Planifier ==
    /\ disp = "repos"
    /\ tombes < MaxDus
    /\ tombes' = tombes + 1
    /\ dus' = dus + 1
    /\ disp' = "planifie"
    /\ UNCHANGED <<minuterie, valides, reveils, tardifs, ecran, pool>>

(* Wrong variant: reveiller does not look at the timer.                    *)
TesterReveilToujours ==
    /\ disp = "planifie"
    /\ disp' = "appelle"
    /\ UNCHANGED <<minuterie, valides, reveils, dus, tombes, tardifs, ecran,
                   pool>>

TesterReveil ==
    /\ disp = "planifie"
    /\ disp' = IF minuterie = Aucune THEN "repos" ELSE "appelle"
    /\ UNCHANGED <<minuterie, valides, reveils, dus, tombes, tardifs, ecran,
                   pool>>

AppelerReveil ==
    /\ disp = "appelle"
    /\ reveils' = reveils + 1
    /\ disp' = "repos"
    /\ UNCHANGED <<minuterie, valides, dus, tombes, tardifs, ecran, pool>>

(* ordonnancer: takes every other due entry, so one of two; it waits for   *)
(* the lock of the planning, that the thread which plans keeps.            *)
Ordonnancer ==
    /\ disp = "repos"
    /\ IF dus = 0
       THEN UNCHANGED <<dus, pool>>
       ELSE /\ dus' = dus - 1
            /\ AjouterTache("sauvegarde")
            /\ UNCHANGED <<ressource, moniteur>>

(* A timer fires, which a modal loop leaves alone.                         *)
Sonner ==
    /\ fenetre \in {"fermee", "ouverte"}
    /\ valides # {}
    /\ dus > 0
    /\ Ordonnancer
    /\ UNCHANGED <<minuterie, valides, reveils, tombes, disp, tardifs, ecran>>

(* _reveiller: does not ask if the scheduler was stopped since.            *)
Reveil ==
    /\ fenetre \in {"fermee", "ouverte", "modale"}
    /\ reveils > 0
    /\ reveils' = reveils - 1
    /\ tardifs' = IF tardifs = 0 THEN 0 ELSE tardifs - 1
    /\ Ordonnancer
    /\ UNCHANGED <<minuterie, valides, tombes, disp, ecran>>

(* demarrer: the timer there was is forgotten, not stopped.                *)
Demarrer ==
    \E m \in Minuteries \ (valides \cup {minuterie}) :
        /\ minuterie' = m
        /\ valides' = valides \cup {m}

-----------------------------------------------------------------------------
(* The window.                                                             *)

(* afficher:, then arreter of the scheduler.                               *)
Ouvrir ==
    /\ fenetre = "fermee"
    /\ ouvertures < MaxOuvertures
    /\ ouvertures' = ouvertures + 1
    /\ fenetre' = "ouverte"
    /\ valides' = valides \ {minuterie}
    /\ minuterie' = Aucune
    /\ tardifs' = reveils + (IF disp = "appelle" THEN 1 ELSE 0)
    /\ UNCHANGED <<reveils, dus, tombes, disp, courante, abandon, vide,
                   manquee, pool>>

(* The key has no backup: afficher: closes the window before it has        *)
(* stopped the scheduler, and windowWillClose: starts it.                  *)
OuvrirVide ==
    /\ fenetre = "fermee"
    /\ ouvertures < MaxOuvertures
    /\ ouvertures' = ouvertures + 1
    /\ vide' = TRUE
    /\ Demarrer
    /\ UNCHANGED <<reveils, dus, tombes, disp, tardifs, fenetre, courante,
                   abandon, manquee, pool>>

(* Wrong variant: the scheduler is left as it is.                          *)
FermerSansDemarrer ==
    /\ fenetre = "ouverte"
    /\ fenetre' = "fermee"
    /\ UNCHANGED <<ordonnanceur, courante, abandon, ouvertures, vide, manquee,
                   pool>>

(* windowWillClose:.                                                       *)
Fermer ==
    /\ fenetre = "ouverte"
    /\ fenetre' = "fermee"
    /\ Demarrer
    /\ UNCHANGED <<reveils, dus, tombes, disp, tardifs, courante, abandon,
                   ouvertures, vide, manquee, pool>>

Restaurations == {t \in Taches : tache[t].genre = "restauration"}

(* actionProcess: queues the task.                                         *)
Lancer ==
    /\ fenetre = "ouverte"
    /\ Cardinality(Restaurations) < MaxRestaurations
    /\ fenetre' = "lancee"
    /\ courante' = nb + 1
    /\ AjouterTache("restauration")
    /\ UNCHANGED <<ordonnanceur, abandon, ouvertures, vide, manquee, ressource,
                   moniteur>>

(* modal: listens to the notifications and runs the modal loop.            *)
Abonner ==
    /\ fenetre = "lancee"
    /\ fenetre' = "modale"
    /\ UNCHANGED <<ordonnanceur, courante, abandon, ouvertures, vide, manquee,
                   pool>>

(* bouton_annuler, which waits for the monitor of the task; a second click *)
(* changes nothing.                                                        *)
CliquerAnnuler ==
    /\ fenetre = "modale"
    /\ ~tache[courante].stop
    /\ fenetre' = "annule"
    /\ UNCHANGED <<ordonnanceur, courante, abandon, ouvertures, vide, manquee,
                   pool>>

Annuler ==
    /\ fenetre = "annule"
    /\ moniteur # courante
    /\ fenetre' = "modale"
    /\ tache' = [tache EXCEPT ![courante].stop = TRUE]
    /\ UNCHANGED <<ordonnanceur, courante, abandon, ouvertures, vide, manquee,
                   file, ressource, moniteur, nb>>

FinModale ==
    /\ fenetre = "modale"
    /\ abandon
    /\ abandon' = FALSE
    /\ fenetre' = "ouverte"
    /\ courante' = Aucune
    /\ UNCHANGED <<ordonnanceur, ouvertures, vide, manquee, pool>>

-----------------------------------------------------------------------------
(* The tasks.                                                              *)

Prendre(t) ==
    /\ file # << >>
    /\ t = Head(file)
    /\ Cardinality(EnCours) < Cardinality(Fils)
    /\ file' = Tail(file)
    /\ Aller(t, "attente")
    /\ UNCHANGED <<ordonnanceur, ecran, ressource, moniteur, nb>>

(* testEtPrendre: of the lock of the key, or the task is to stop.          *)
TestEtPrendre(t) ==
    /\ tache[t].pc = "attente"
    /\ \/ ressource = Aucune /\ ressource' = t
       \/ ressource # Aucune /\ tache[t].stop /\ UNCHANGED ressource
    /\ Aller(t, IF tache[t].genre = "sauvegarde" THEN "travail" ELSE "debut")
    /\ UNCHANGED <<ordonnanceur, ecran, file, moniteur, nb>>

(* Wrong variant: the lock is left.                                        *)
RendreRien(t) ==
    /\ Aller(t, "finie")
    /\ UNCHANGED <<ordonnanceur, ecran, file, ressource, moniteur, nb>>

(* rendre:, without effect on the lock of another thread.                  *)
Rendre(t) ==
    /\ ressource' = IF ressource = t THEN Aucune ELSE ressource
    /\ Aller(t, "finie")
    /\ UNCHANGED <<ordonnanceur, ecran, file, moniteur, nb>>

FinSauvegarde(t) ==
    /\ tache[t].pc = "travail"
    /\ Rendre(t)

(* The stop button of the list of the tasks.                               *)
StopTache(t) ==
    /\ tache[t].pc \in Actives
    /\ ~tache[t].stop
    /\ fenetre \in {"fermee", "ouverte"}
    /\ tache' = [tache EXCEPT ![t].stop = TRUE]
    /\ UNCHANGED <<ordonnanceur, ecran, file, ressource, moniteur, nb>>

(* changementTache: waits for the main thread, once the sheet listens.     *)
Notifier(t, de, vers) ==
    /\ tache[t].pc = de
    /\ fenetre # "annule"
    /\ Aller(t, vers)
    /\ UNCHANGED <<ordonnanceur, ecran, file, ressource, moniteur, nb>>

(* One turn of the loop: the test, inside the monitor.                     *)
Entrer(t) ==
    /\ tache[t].pc = "test"
    /\ moniteur' = t
    /\ Aller(t, "section")
    /\ UNCHANGED <<ordonnanceur, ecran, file, ressource, nb>>

(* Wrong variants: the monitor is kept over the notification; the stop is  *)
(* not looked at.                                                          *)
SortirSansLacher(t) ==
    /\ tache[t].pc = "section"
    /\ moniteur' = IF tache[t].stop THEN Aucune ELSE t
    /\ Aller(t, IF tache[t].stop THEN "sortie" ELSE "notifie")
    /\ UNCHANGED <<ordonnanceur, ecran, file, ressource, nb>>

SortirSansTest(t) ==
    /\ tache[t].pc = "section"
    /\ moniteur' = Aucune
    /\ Aller(t, "notifie")
    /\ UNCHANGED <<ordonnanceur, ecran, file, ressource, nb>>

SortirMoniteur(t) ==
    /\ tache[t].pc = "section"
    /\ moniteur' = Aucune
    /\ Aller(t, IF tache[t].stop THEN "sortie" ELSE "notifie")
    /\ UNCHANGED <<ordonnanceur, ecran, file, ressource, nb>>

(* The work of one turn.                                                   *)
Unite(t) ==
    /\ tache[t].pc = "unite"
    /\ tache' = [tache EXCEPT
                   ![t].tour = @ + 1,
                   ![t].pc = IF tache[t].tour + 1 < Tours THEN "test"
                             ELSE "sortie"]
    /\ UNCHANGED <<ordonnanceur, ecran, file, ressource, moniteur, nb>>

(* The end is notified on this thread: tacheTerminee: if the sheet listens,*)
(* which waits for nobody.                                                 *)
NotifierFin(t) ==
    /\ tache[t].pc = "annonce"
    /\ abandon' = (abandon \/ fenetre \in {"modale", "annule"})
    /\ manquee' = (manquee \/ fenetre = "lancee")
    /\ Aller(t, "fin")
    /\ UNCHANGED <<ordonnanceur, fenetre, courante, ouvertures, vide, file,
                   ressource, moniteur, nb>>

FinRestauration(t) ==
    /\ tache[t].pc = "fin"
    /\ Rendre(t)

Restaurer(t) ==
    \/ Notifier(t, "debut", "test")
    \/ Entrer(t)
    \/ SortirMoniteur(t)
    \/ Notifier(t, "notifie", "unite")
    \/ Unite(t)
    \/ Notifier(t, "sortie", "annonce")
    \/ NotifierFin(t)
    \/ FinRestauration(t)

FilPrincipal == Sonner \/ Reveil \/ Abonner \/ Annuler \/ FinModale

FilDePool(t) ==
    Prendre(t) \/ TestEtPrendre(t) \/ FinSauvegarde(t) \/ Restaurer(t)

Utilisateur ==
    \/ Ouvrir
    \/ OuvrirVide
    \/ Fermer
    \/ Lancer
    \/ CliquerAnnuler
    \/ \E t \in Taches : StopTache(t)

Next ==
    \/ Planifier
    \/ TesterReveil
    \/ AppelerReveil
    \/ FilPrincipal
    \/ Utilisateur
    \/ \E t \in Taches : FilDePool(t)

(* Threads go on, an rsync ends, the run loop fires its timers and runs    *)
(* what other threads asked for; the user owes nothing.                    *)
Fairness ==
    /\ WF_vars(TesterReveil)
    /\ WF_vars(AppelerReveil)
    /\ WF_vars(Sonner)
    /\ WF_vars(Reveil)
    /\ WF_vars(Abonner)
    /\ WF_vars(Annuler)
    /\ WF_vars(FinModale)
    /\ \A t \in Taches : WF_vars(FilDePool(t))

Spec == Init /\ [][Next]_vars /\ Fairness

-----------------------------------------------------------------------------
TypeOK ==
    /\ minuterie \in Minuteries \cup {Aucune}
    /\ valides \subseteq Minuteries
    /\ reveils \in 0 .. MaxDus /\ tardifs \in 0 .. MaxDus
    /\ dus \in 0 .. MaxDus /\ tombes \in 0 .. MaxDus
    /\ disp \in {"repos", "planifie", "appelle"}
    /\ fenetre \in {"fermee", "ouverte", "lancee", "modale", "annule"}
    /\ courante \in Restaurations \cup {Aucune}
    /\ file \in Seq(Taches)
    /\ tache \in [Taches -> [genre : {"aucun", "sauvegarde", "restauration"},
                             pc : Actives \cup {"absente", "file", "finie"},
                             stop : BOOLEAN, tour : 0 .. Tours]]
    /\ ressource \in EnCours \cup {Aucune}
    /\ moniteur \in Restaurations \cup {Aucune}
    /\ nb \in 0 .. MaxDus + MaxRestaurations
    /\ ouvertures \in 0 .. MaxOuvertures
    /\ \A b \in {abandon, vide, manquee} : b \in BOOLEAN

(* When no window is open the scheduler holds a timer that fires, whatever *)
(* was opened and closed (CI_Restauration.m:414-423, 596-607).             *)
OrdonnanceurReprend == fenetre = "fermee" => minuterie \in valides

(* While the window is open no planned backup is launched, but by a        *)
(* wake-up sent before it opened, or after a window that had nothing to    *)
(* restore (CI_Restauration.m:404-415, PD_Ordonnanceur.m:108-139).         *)
AucunLancement ==
    [][dus' < dus /\ fenetre # "fermee" => vide \/ tardifs > 0]_vars

(* A restoration copies with the lock of the key only, and next to it a    *)
(* backup of the key runs only if it was stopped while it waited           *)
(* (PD_TacheRestauration.m:47-123, PD_TacheSauvegarde.m:772-780).          *)
RestaurationSeule ==
    \A r, s \in Taches :
        tache[r].pc = "unite" =>
            /\ ressource = r
            /\ tache[s].pc = "travail" => tache[s].stop

(* The sheet comes down when the restoration ends, cancelled or not, if it *)
(* listened in time (CI_ProgressionRestauration.m:73-127).                 *)
ModaleFinit == fenetre = "modale" /\ ~manquee ~> fenetre = "ouverte"

(* A backup that is due starts, if the user closes the window for good.    *)
PlanServi == <>[](fenetre = "fermee") => (dus > 0 ~> dus = 0)
=============================================================================
