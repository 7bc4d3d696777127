---------------------------- MODULE SauvegardeFull ----------------------------
(***************************************************************************)
(* The full backup of a key (PD_TacheSauvegarde sauvegardeFull:): rsync    *)
(* fills .inprogress, then old is removed, last becomes old, .inprogress   *)
(* becomes last. Every operation on the disk is an action and may fail;    *)
(* the program may end between any two.                                    *)
(*                                                                         *)
(* Two tasks of one key exclude each other by the lock of the key, unless  *)
(* one of them was asked to stop while it waited (Moteur's                 *)
(* ExclusionHorsInterruption): that one runs next to the owner.            *)
(*                                                                         *)
(* fautes counts what goes wrong since the last backup that left a         *)
(* complete last directory: an operation that fails, the end of the        *)
(* program, or a task that begins beside another. A stop is not a fault.   *)
(***************************************************************************)
EXTENDS Naturals

CONSTANTS
    Taches,     \* the tasks that save this key, one after the other or not
    Personne,   \* no task
    MaxRsync,   \* bound: runs of rsync
    MaxFautes   \* bound: faults since the last good backup

ASSUME SauvegardeAssumption ==
    /\ Personne \notin Taches
    /\ MaxRsync \in Nat /\ MaxFautes \in Nat

VARIABLES
    rep,         \* the directories: [existe, image, restes]; image is the run
                 \*   of rsync whose copy of the key it holds whole, 0 if none;
                 \*   restes: it may hold files of an earlier run too
    pc, retour,  \* where each task is in sauvegardeFull:, and its retour
    interrompu,  \* interrompreTache of each task
    numero,      \* the run of rsync each task has launched
    ecrit,       \* the directory that run writes to is still .inprogress
    ressource,   \* the owner of the lock of the key
    nbRsync, fautes,
    sauvegardee  \* some backup has left a complete last directory

tacheVars == <<pc, retour, interrompu, numero, ecrit, ressource>>
vars == <<rep, tacheVars, nbRsync, fautes, sauvegardee>>

Noms == {"inprogress", "last", "old"}
Repertoires == [existe : BOOLEAN, image : Nat, restes : BOOLEAN]
Absent == [existe |-> FALSE, image |-> 0, restes |-> FALSE]

(* A directory an operation has left half written or half removed.         *)
Partiel(restes) == [existe |-> TRUE, image |-> 0, restes |-> restes]

Complet(nom) == rep[nom].existe /\ rep[nom].image > 0

Init ==
    /\ rep = [nom \in Noms |-> Absent]
    /\ pc = [t \in Taches |-> "repos"]
    /\ retour = [t \in Taches |-> "ok"]
    /\ interrompu = [t \in Taches |-> FALSE]
    /\ numero = [t \in Taches |-> 0]
    /\ ecrit = [t \in Taches |-> FALSE]
    /\ ressource = Personne
    /\ nbRsync = 0
    /\ fautes = 0
    /\ sauvegardee = FALSE

Faute == fautes < MaxFautes /\ fautes' = fautes + 1

Avancer(t, de, vers) ==
    /\ pc[t] = de
    /\ pc' = [pc EXCEPT ![t] = vers]

Seul(t) == \A u \in Taches : u # t => pc[u] = "repos"

-----------------------------------------------------------------------------
(* executerTache: gets the lock of the key, or has been asked to stop and  *)
(* goes on without it.                                                     *)
Commencer(t) ==
    /\ Avancer(t, "repos", "destination")
    /\ ressource = Personne
    /\ ressource' = t
    /\ IF Seul(t) THEN UNCHANGED fautes ELSE Faute
    /\ interrompu' = [interrompu EXCEPT ![t] = FALSE]
    /\ retour' = [retour EXCEPT ![t] = "ok"]
    /\ UNCHANGED <<rep, numero, ecrit, nbRsync, sauvegardee>>

CommencerSansVerrou(t) ==
    /\ Avancer(t, "repos", "destination")
    /\ ressource # Personne
    /\ Faute
    /\ interrompu' = [interrompu EXCEPT ![t] = TRUE]
    /\ retour' = [retour EXCEPT ![t] = "ok"]
    /\ UNCHANGED <<rep, numero, ecrit, ressource, nbRsync, sauvegardee>>

(* A stop that comes after the last output of rsync is not seen, and       *)
(* changes nothing.                                                        *)
StopTache(t) ==
    /\ pc[t] \in {"destination", "rsync"}
    /\ interrompu' = [interrompu EXCEPT ![t] = TRUE]
    /\ UNCHANGED <<rep, pc, retour, numero, ecrit, ressource, nbRsync, fautes,
                   sauvegardee>>

-----------------------------------------------------------------------------
(* tacheAvecComnande: rsync, read through a pipe.                          *)

(* The directory of the backups cannot be created: nothing is done.        *)
DestinationImpossible(t) ==
    /\ Avancer(t, "destination", "fin")
    /\ retour' = [retour EXCEPT ![t] = "erreur"]
    /\ UNCHANGED <<rep, interrompu, numero, ecrit, ressource, nbRsync, fautes,
                   sauvegardee>>

(* launch raises: an error, and the rotation goes on.                      *)
RsyncImpossible(t) ==
    /\ Avancer(t, "destination", "old")
    /\ Faute
    /\ retour' = [retour EXCEPT ![t] = "erreur"]
    /\ UNCHANGED <<rep, interrompu, numero, ecrit, ressource, nbRsync,
                   sauvegardee>>

(* rsync creates .inprogress, or completes the one it finds.               *)
RsyncDebut(t) ==
    /\ Avancer(t, "destination", "rsync")
    /\ nbRsync < MaxRsync
    /\ nbRsync' = nbRsync + 1
    /\ numero' = [numero EXCEPT ![t] = nbRsync']
    /\ ecrit' = [ecrit EXCEPT ![t] = TRUE]
    /\ rep' = [rep EXCEPT !["inprogress"] =
                 Partiel(rep["inprogress"].existe)]
    /\ UNCHANGED <<retour, interrompu, ressource, fautes, sauvegardee>>

RsyncReussit(t) ==
    /\ Avancer(t, "rsync", "old")
    /\ ~interrompu[t]
    /\ ecrit[t]
    /\ rep' = [rep EXCEPT !["inprogress"].image = numero[t]]
    /\ UNCHANGED <<retour, interrompu, numero, ecrit, ressource, nbRsync,
                   fautes, sauvegardee>>

(* rsync loses the directory it writes to: it fails, but its exit status   *)
(* is not read.                                                            *)
RsyncSansDestination(t) ==
    /\ Avancer(t, "rsync", "old")
    /\ ~interrompu[t]
    /\ ~ecrit[t]
    /\ UNCHANGED <<rep, retour, interrompu, numero, ecrit, ressource, nbRsync,
                   fautes, sauvegardee>>

(* Wrong variant: the exit status of rsync is passed on as it is.          *)
RsyncEchoueCodeBrut(t) ==
    /\ Avancer(t, "rsync", "old")
    /\ ~interrompu[t]
    /\ Faute
    /\ retour' = [retour EXCEPT ![t] = "code rsync"]
    /\ UNCHANGED <<rep, interrompu, numero, ecrit, ressource, nbRsync,
                   sauvegardee>>

(* rsync fails for another reason (not seen either), or the pipe cannot be *)
(* read.                                                                   *)
RsyncEchoue(t) ==
    /\ Avancer(t, "rsync", "old")
    /\ ~interrompu[t]
    /\ Faute
    /\ \E r \in {"ok", "erreur"} : retour' = [retour EXCEPT ![t] = r]
    /\ UNCHANGED <<rep, interrompu, numero, ecrit, ressource, nbRsync,
                   sauvegardee>>

(* Wrong variant: the answer of a stop is not told apart.                  *)
RsyncArreteContinue(t) ==
    /\ Avancer(t, "rsync", "old")
    /\ interrompu[t]
    /\ retour' = [retour EXCEPT ![t] = "arret"]
    /\ UNCHANGED <<rep, interrompu, numero, ecrit, ressource, nbRsync, fautes,
                   sauvegardee>>

(* The analyser of the output finds the task asked to stop.                *)
RsyncArrete(t) ==
    /\ Avancer(t, "rsync", "nettoyer")
    /\ interrompu[t]
    /\ retour' = [retour EXCEPT ![t] = "arret"]
    /\ UNCHANGED <<rep, interrompu, numero, ecrit, ressource, nbRsync, fautes,
                   sauvegardee>>

-----------------------------------------------------------------------------
(* The rotation. A removal that fails may have removed a part.             *)

SupprimerOld(t) ==
    /\ Avancer(t, "old", "full")
    /\ rep' = [rep EXCEPT !["old"] = Absent]
    /\ UNCHANGED <<retour, interrompu, numero, ecrit, ressource, nbRsync,
                   fautes, sauvegardee>>

SupprimerOldEchoue(t) ==
    /\ Avancer(t, "old", "full")
    /\ rep["old"].existe
    /\ Faute
    /\ rep' = [rep EXCEPT !["old"] = Partiel(@.restes)]
    /\ retour' = [retour EXCEPT ![t] = "erreur"]
    /\ UNCHANGED <<interrompu, numero, ecrit, ressource, nbRsync, sauvegardee>>

(* Wrong variant: last is removed instead of kept as old.                  *)
SupprimerFull(t) ==
    /\ Avancer(t, "full", "renommer")
    /\ ~rep["old"].existe
    /\ rep' = [rep EXCEPT !["last"] = Absent]
    /\ UNCHANGED <<retour, interrompu, numero, ecrit, ressource, nbRsync,
                   fautes, sauvegardee>>

(* Nothing to rename is no error.                                          *)
RenommerFull(t) ==
    /\ Avancer(t, "full", "renommer")
    /\ IF rep["last"].existe
       THEN /\ ~rep["old"].existe
            /\ rep' = [rep EXCEPT !["old"] = rep["last"], !["last"] = Absent]
       ELSE UNCHANGED rep
    /\ UNCHANGED <<retour, interrompu, numero, ecrit, ressource, nbRsync,
                   fautes, sauvegardee>>

(* A rename fails for sure on a directory that exists.                     *)
RenommerFullEchoue(t) ==
    /\ Avancer(t, "full", "nettoyer")
    /\ rep["last"].existe
    /\ IF rep["old"].existe THEN UNCHANGED fautes ELSE Faute
    /\ retour' = [retour EXCEPT ![t] = "erreur"]
    /\ UNCHANGED <<rep, interrompu, numero, ecrit, ressource, nbRsync,
                   sauvegardee>>

(* .inprogress moves away from under whoever still writes to it.           *)
RenommerInprogress(t) ==
    /\ Avancer(t, "renommer", "nettoyer")
    /\ IF rep["inprogress"].existe
       THEN /\ ~rep["last"].existe
            /\ rep' = [rep EXCEPT !["last"] = rep["inprogress"],
                                  !["inprogress"] = Absent]
            /\ ecrit' = [u \in Taches |-> FALSE]
       ELSE UNCHANGED <<rep, ecrit>>
    /\ IF Complet("inprogress")
       THEN /\ sauvegardee' = TRUE
            /\ fautes' = IF Seul(t) THEN 0 ELSE fautes
       ELSE UNCHANGED <<sauvegardee, fautes>>
    /\ UNCHANGED <<retour, interrompu, numero, ressource, nbRsync>>

RenommerInprogressEchoue(t) ==
    /\ Avancer(t, "renommer", "nettoyer")
    /\ rep["inprogress"].existe
    /\ IF rep["last"].existe THEN UNCHANGED fautes ELSE Faute
    /\ retour' = [retour EXCEPT ![t] = "erreur"]
    /\ UNCHANGED <<rep, interrompu, numero, ecrit, ressource, nbRsync,
                   sauvegardee>>

(* Wrong variant: what was not renamed stays.                              *)
NettoyerRien(t) ==
    /\ Avancer(t, "nettoyer", "fin")
    /\ UNCHANGED <<rep, ecrit, retour, interrompu, numero, ressource, nbRsync,
                   fautes, sauvegardee>>

Nettoyer(t) ==
    /\ Avancer(t, "nettoyer", "fin")
    /\ rep' = [rep EXCEPT !["inprogress"] = Absent]
    /\ ecrit' = [u \in Taches |-> FALSE]
    /\ UNCHANGED <<retour, interrompu, numero, ressource, nbRsync, fautes,
                   sauvegardee>>

NettoyerEchoue(t) ==
    /\ Avancer(t, "nettoyer", "fin")
    /\ rep["inprogress"].existe
    /\ Faute
    /\ rep' = [rep EXCEPT !["inprogress"] = Partiel(@.restes)]
    /\ retour' = [retour EXCEPT ![t] = "erreur"]
    /\ UNCHANGED <<interrompu, numero, ecrit, ressource, nbRsync, sauvegardee>>

(* rendre:, by the owner or for nothing.                                   *)
Fin(t) ==
    /\ Avancer(t, "fin", "repos")
    /\ ressource' = IF ressource = t THEN Personne ELSE ressource
    /\ UNCHANGED <<rep, retour, interrompu, numero, ecrit, nbRsync, fautes,
                   sauvegardee>>

(* The program ends, the directories stay.                                 *)
Crash ==
    /\ \E t \in Taches : pc[t] # "repos"
    /\ Faute
    /\ pc' = [t \in Taches |-> "repos"]
    /\ ecrit' = [t \in Taches |-> FALSE]
    /\ ressource' = Personne
    /\ UNCHANGED <<rep, retour, interrompu, numero, nbRsync, sauvegardee>>

-----------------------------------------------------------------------------
PasRsync(t) ==
    \/ DestinationImpossible(t)
    \/ RsyncImpossible(t)
    \/ RsyncDebut(t)
    \/ RsyncReussit(t)
    \/ RsyncSansDestination(t)
    \/ RsyncEchoue(t)
    \/ RsyncArrete(t)

PasRotation(t) ==
    \/ SupprimerOld(t)
    \/ SupprimerOldEchoue(t)
    \/ RenommerFull(t)
    \/ RenommerFullEchoue(t)
    \/ RenommerInprogress(t)
    \/ RenommerInprogressEchoue(t)
    \/ Nettoyer(t)
    \/ NettoyerEchoue(t)

Next ==
    \/ \E t \in Taches :
         \/ Commencer(t)
         \/ CommencerSansVerrou(t)
         \/ StopTache(t)
         \/ PasRsync(t)
         \/ PasRotation(t)
         \/ Fin(t)
    \/ Crash

Spec == Init /\ [][Next]_vars

-----------------------------------------------------------------------------
PcTache == {"repos", "destination", "rsync", "old", "full", "renommer",
            "nettoyer", "fin"}

TypeOK ==
    /\ rep \in [Noms -> Repertoires]
    /\ pc \in [Taches -> PcTache]
    /\ retour \in [Taches -> {"ok", "erreur", "arret"}]
    /\ interrompu \in [Taches -> BOOLEAN]
    /\ numero \in [Taches -> Nat]
    /\ ecrit \in [Taches -> BOOLEAN]
    /\ ressource \in Taches \cup {Personne}
    /\ nbRsync \in Nat
    /\ fautes \in Nat
    /\ sauvegardee \in BOOLEAN

(* Once the key has been saved, one fault, whatever it is and wherever it  *)
(* comes, and any number of stops leave a complete copy on the disk        *)
(* (PD_TacheSauvegarde.m:593-624).                                         *)
CopieGardee ==
    sauvegardee /\ fautes <= 1 => \E nom \in Noms : Complet(nom)

(* The newest copy last and old hold between them.                         *)
Meilleure ==
    LET images == {rep[nom].image : nom \in {"last", "old"}}
    IN  CHOOSE i \in images : \A j \in images : j <= i

(* As long as nothing goes wrong no step of a backup, complete or stopped, *)
(* takes the newest copy away (PD_TacheSauvegarde.m:606-619).              *)
JamaisEnArriere ==
    [][fautes = 0 /\ fautes' = 0 => Meilleure' >= Meilleure]_vars

(* rsync runs without --delete: it completes the directory it finds. As    *)
(* long as nothing goes wrong no backup, stopped or not, leaves a          *)
(* directory the next one would mix its files with                         *)
(* (PD_TacheSauvegarde.m:586 and 621-624).                                 *)
ImageExacte == fautes = 0 => ~rep["inprogress"].restes
=============================================================================
