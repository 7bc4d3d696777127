------------------------------- MODULE CR_File -------------------------------
(***************************************************************************)
(* CR_File: the FIFO between the threads of the program, an NSMutableArray *)
(* guarded by an NSConditionLock whose condition tells the consumers if    *)
(* there is something to take.                                             *)
(*                                                                         *)
(* Every method of the class, and every method of its users that takes     *)
(* [file verrou], keeps the lock from its first to its last statement and  *)
(* waits for nothing in between: each is one action here.                  *)
(*                                                                         *)
(* The condition is state of its own: it is whatever the last unlock left, *)
(* not a function of the array.                                            *)
(***************************************************************************)
EXTENDS Naturals, SequencesExt

EST_VIDE == 0
NON_VIDE == 1

VARIABLES
    laFile,      \* the array
    condition,   \* the condition of the NSConditionLock verrou
    verrouTenu   \* TRUE when a thread left by an exception and kept verrou

fileVars == <<laFile, condition, verrouTenu>>

(* Wrong variant: off by one.                                              *)
EtatVerrouDecale(file) == IF Len(file) > 1 THEN NON_VIDE ELSE EST_VIDE

(* The condition outWithLock... computes from the length of the array.     *)
EtatVerrou(file) == IF Len(file) > 0 THEN NON_VIDE ELSE EST_VIDE

InitFile ==
    /\ laFile = <<>>
    /\ condition = EST_VIDE
    /\ verrouTenu = FALSE

(* Wrong variant: a plain unlock, the condition stays.                     *)
InWithLockSansCondition(element) ==
    /\ ~verrouTenu
    /\ laFile' = Append(laFile, element)
    /\ UNCHANGED <<condition, verrouTenu>>

InWithLock(element) ==
    /\ ~verrouTenu
    /\ laFile' = Append(laFile, element)
    /\ condition' = NON_VIDE
    /\ UNCHANGED verrouTenu

(* Wrong variant: the element is read and not removed.                     *)
OutWithLockSansRetirer(element) ==
    /\ ~verrouTenu
    /\ condition = NON_VIDE
    /\ laFile # <<>>
    /\ element = Head(laFile)
    /\ UNCHANGED fileVars

(* outWithLockAndTimeOut when lockWhenCondition:NON_VIDE answers YES and   *)
(* there is an element.                                                    *)
OutWithLock(element) ==
    /\ ~verrouTenu
    /\ condition = NON_VIDE
    /\ laFile # <<>>
    /\ element = Head(laFile)
    /\ laFile' = Tail(laFile)
    /\ condition' = EtatVerrou(Tail(laFile))
    /\ UNCHANGED verrouTenu

(* outWithLockAndTimeOut when lockWhenCondition:NON_VIDE answers YES and   *)
(* the array is empty: objectAtIndex:0 raises, and the lock stays taken.   *)
OutWithLockSurVide ==
    /\ ~verrouTenu
    /\ condition = NON_VIDE
    /\ laFile = <<>>
    /\ verrouTenu' = TRUE
    /\ UNCHANGED <<laFile, condition>>

(* outWithLockAndTimeOut when the date comes first: the answer is nil.     *)
OutWithLockTimeOut ==
    /\ condition = EST_VIDE \/ verrouTenu
    /\ UNCHANGED fileVars

(* Wrong variant: the condition of an empty file, whatever is left.        *)
SupprimerElemPuisVide(i) ==
    /\ ~verrouTenu
    /\ laFile' = RemoveAt(laFile, i)
    /\ condition' = EST_VIDE
    /\ UNCHANGED verrouTenu

(* A caller that holds the lock removes elements with                      *)
(* supprimerElemALaPosition: and gives the lock back with a condition of   *)
(* its choice (the callers of this class do it with EtatVerrou).           *)
SupprimerElemALaPosition(i) ==
    /\ ~verrouTenu
    /\ laFile' = RemoveAt(laFile, i)
    /\ condition' = EtatVerrou(RemoveAt(laFile, i))
    /\ UNCHANGED verrouTenu

TypeFile(Elements) ==
    /\ laFile \in Seq(Elements)
    /\ condition \in {EST_VIDE, NON_VIDE}
    /\ verrouTenu \in BOOLEAN

(* No wake-up is lost: whatever the interleaving of those who add, take,   *)
(* remove and stop, an element in the file leaves a condition that lets a  *)
(* consumer in (CR_File.m:60 and 78-85, PD_TraitementDesTaches.m:52-55).   *)
PasDeReveilPerdu == laFile # <<>> => condition = NON_VIDE
=============================================================================
