--------------------------- MODULE PD_Planificateur ---------------------------
(***************************************************************************)
(* PD_Planificateur keeps listeDesClesPlanifiees, the planned backups in   *)
(* the order of their dates, under verrouSurListeDesClesPlanifiees;        *)
(* PD_Ordonnanceur walks the list on the main thread and launches what is  *)
(* due. The list is touched by the dispatcher, by every backup thread and  *)
(* by the main thread.                                                     *)
(*                                                                         *)
(* planifier and deplanifierCle keep the lock from end to end: one action  *)
(* each. ordonnancer: keeps it too, but reads the clock and posts to the   *)
(* file of the backups at each turn: one action per turn, and passe # 0    *)
(* is the lock held by it. planifier with no date keeps it while it waits  *)
(* for the main thread to take its message for the journal: journal.       *)
(***************************************************************************)
EXTENDS Naturals, SequencesExt, FiniteSets

VARIABLES
    planif,      \* listeDesClesPlanifiees: [date, cle, aReplanifier]
    maintenant,  \* [NSDate date]
    passe,       \* index of the turn ordonnancer: is at, 0 outside of it
    journal      \* planifier waits in loguerMessage:, with the lock

planVars == <<planif, maintenant, passe, journal>>

VerrouPlanLibre == passe = 0 /\ ~journal

InitPlan ==
    /\ planif = <<>>
    /\ maintenant = 0
    /\ passe = 0
    /\ journal = FALSE

Entree(date, cle, aReplanifier) ==
    [date |-> date, cle |-> cle, aReplanifier |-> aReplanifier]

-----------------------------------------------------------------------------
(* Wrong variant: the comparison the other way round.                      *)
RangInverse(liste, e) ==
    LET plusTot == {i \in DOMAIN liste : e.date > liste[i].date}
    IN  IF plusTot = {} THEN Len(liste) + 1
        ELSE CHOOSE i \in plusTot : \A j \in plusTot : i <= j

(* Before the first entry with a strictly later date, else at the end.     *)
Rang(liste, e) ==
    LET plusTard == {i \in DOMAIN liste : e.date < liste[i].date}
    IN  IF plusTard = {} THEN Len(liste) + 1
        ELSE CHOOSE i \in plusTard : \A j \in plusTard : i <= j

(* Wrong variant: the test the other way round.                            *)
SansCleInverse(liste, id) ==
    LET gardees == {i \in DOMAIN liste : liste[i].cle.id = id}
    IN  [k \in 1 .. Cardinality(gardees) |->
            liste[CHOOSE i \in gardees :
                    Cardinality({j \in gardees : j <= i}) = k]]

(* Every entry of the key, recognised by its idCle and not by its object,  *)
(* is removed: the others stay, in order.                                  *)
SansCle(liste, id) ==
    LET gardees == {i \in DOMAIN liste : liste[i].cle.id # id}
    IN  [k \in 1 .. Cardinality(gardees) |->
            liste[CHOOSE i \in gardees :
                    Cardinality({j \in gardees : j <= i}) = k]]

-----------------------------------------------------------------------------
(* Wrong variant: every entry at the end.                                  *)
PlanifierALaFin(e) ==
    /\ VerrouPlanLibre
    /\ planif' = Append(planif, e)
    /\ UNCHANGED <<maintenant, passe, journal>>

(* planifier:aLaDate:aReplanifier: with a date.                            *)
Planifier(e) ==
    /\ VerrouPlanLibre
    /\ planif' = InsertAt(planif, Rang(planif, e), e)
    /\ UNCHANGED <<maintenant, passe, journal>>

(* ... and without a date: nothing is planned, a message is given to the   *)
(* main thread under the lock.                                             *)
PlanifierSansDate ==
    /\ VerrouPlanLibre
    /\ journal' = TRUE
    /\ UNCHANGED <<planif, maintenant, passe>>

MessagePris ==
    /\ journal
    /\ journal' = FALSE
    /\ UNCHANGED <<planif, maintenant, passe>>

DeplanifierCle(id) ==
    /\ VerrouPlanLibre
    /\ planif' = SansCle(planif, id)
    /\ UNCHANGED <<maintenant, passe, journal>>

(* ordonnancer: gets the lock.                                             *)
OrdonnancerDebut ==
    /\ VerrouPlanLibre
    /\ passe' = 1
    /\ UNCHANGED <<planif, maintenant, journal>>

Due(n) == planif[n].date < maintenant

(* A due entry is posted and removed; the loop index grows all the same,   *)
(* over the entry that has just slipped into its place.                    *)
OrdonnancerLancer(e) ==
    /\ passe \in DOMAIN planif
    /\ Due(passe)
    /\ e = planif[passe]
    /\ planif' = RemoveAt(planif, passe)
    /\ passe' = passe + 1
    /\ UNCHANGED <<maintenant, journal>>

OrdonnancerSauter ==
    /\ passe \in DOMAIN planif
    /\ ~Due(passe)
    /\ passe' = passe + 1
    /\ UNCHANGED <<planif, maintenant, journal>>

(* Wrong variant: the lock is not given back.                              *)
OrdonnancerFinSansRendre ==
    /\ passe > Len(planif)
    /\ UNCHANGED planVars

OrdonnancerFin ==
    /\ passe > Len(planif)
    /\ passe' = 0
    /\ UNCHANGED <<planif, maintenant, journal>>

Horloge(MaxTemps) ==
    /\ maintenant < MaxTemps
    /\ maintenant' = maintenant + 1
    /\ UNCHANGED <<planif, passe, journal>>

TypePlan(Cles) ==
    /\ planif \in Seq([date : Nat, cle : Cles, aReplanifier : BOOLEAN])
    /\ maintenant \in Nat
    /\ passe \in Nat
    /\ journal \in BOOLEAN

(* The planning stays in the order of its dates: the window shows the first*)
(* entry of a key as its next backup (PD_Planificateur.m:68-73,            *)
(* CI_ListeCles.m:583-590).                                                *)
PlanTriee ==
    \A i, j \in DOMAIN planif : i < j => planif[i].date <= planif[j].date
=============================================================================
