------------------------ MODULE SauvegardeFull_proofs ------------------------
(***************************************************************************)
(* The full backup, for any set of tasks and any number of runs of rsync   *)
(* and of faults: the types, the copy one fault leaves, the directory      *)
(* rsync never mixes, and the newest copy that is never taken away.        *)
(***************************************************************************)
EXTENDS SauvegardeFull, TLAPS

Actif(t) == pc[t] # "repos"

Rotation == {"old", "full", "renommer"}

(* A task that was asked to stop and moves no directory any more.          *)
Fantome(t) == interrompu[t] /\ pc[t] \notin Rotation

(* A task that was not asked to stop owns the lock.                        *)
IVerrou == \A t \in Taches : Actif(t) => ressource = t \/ interrompu[t]

(* Until something goes wrong a task is alone and a stop ends it before    *)
(* the rotation.                                                           *)
ISeul ==
    fautes = 0 =>
        /\ \A t, u \in Taches : t # u => ~Actif(t) \/ ~Actif(u)
        /\ \A t \in Taches : pc[t] \in Rotation => ~interrompu[t]

(* With one fault at most one of two tasks touches last and old.           *)
IFantome ==
    fautes <= 1 =>
        \A t, u \in Taches :
            t # u /\ Actif(t) /\ Actif(u) => Fantome(t) \/ Fantome(u)

(* Whoever still writes writes to a directory that exists, and what does   *)
(* not exist holds nothing.                                                *)
IEcrit ==
    /\ \A t \in Taches : ecrit[t] => rep["inprogress"].existe
    /\ \A nom \in Noms : ~rep[nom].existe => rep[nom].image = 0

(* .inprogress never holds an older copy than last and old.                *)
IImages ==
    /\ \A nom \in Noms :
         /\ rep[nom].image <= nbRsync
         /\ rep["inprogress"].image > 0 =>
                rep[nom].image <= rep["inprogress"].image
    /\ \A t \in Taches : pc[t] = "rsync" =>
         /\ 0 < numero[t] /\ numero[t] <= nbRsync
         /\ ~interrompu[t] => \A nom \in Noms : rep[nom].image <= numero[t]

(* .inprogress, until something goes wrong.                                *)
IPropre ==
    fautes = 0 =>
        /\ ~rep["inprogress"].restes
        /\ rep["inprogress"].existe =>
               \E t \in Taches : pc[t] \notin {"repos", "destination", "fin"}
        /\ \A t \in Taches :
             /\ pc[t] = "rsync" => ecrit[t]
             /\ pc[t] \in Rotation => Complet("inprogress")

(* last and old, until something goes wrong.                               *)
IZero ==
    fautes = 0 =>
        /\ \A t \in Taches :
             /\ pc[t] = "full" => ~rep["old"].existe
             /\ pc[t] = "renommer" => ~rep["last"].existe
             /\ pc[t] = "renommer" /\ sauvegardee => Complet("old")
        /\ (\A t \in Taches : pc[t] # "renommer") =>
             /\ rep["old"].image <= rep["last"].image
             /\ sauvegardee => Complet("last")

(* A copy no step of t takes away without a fault.                         *)
Abri(t) ==
    \/ Complet("last")
    \/ /\ Complet("inprogress")
       /\ \A u \in Taches : u # t => ~Actif(u)

(* After the one fault, where the copy is at each step of the rotation.    *)
IUn ==
    fautes = 1 /\ sauvegardee =>
        /\ \A t \in Taches :
             /\ pc[t] \in {"old", "full"} => Abri(t)
             /\ pc[t] = "full" /\ rep["old"].existe => Complet("last")
             /\ pc[t] = "renommer" => ~rep["last"].existe
             /\ pc[t] = "renommer" => Complet("old") \/ Abri(t)
             /\ pc[t] = "rsync" /\ ~interrompu[t] /\ ~ecrit[t] =>
                    Complet("last")
             /\ pc[t] \in {"destination", "rsync"} /\ ~interrompu[t] =>
                    \/ Complet("last")
                    \/ \A u \in Taches : u # t => ~Actif(u)
        /\ (\A t \in Taches : pc[t] \notin Rotation) =>
             Complet("last") \/ Complet("old")

IInv ==
    /\ TypeOK /\ IVerrou /\ ISeul /\ IFantome /\ IEcrit /\ IImages
    /\ IPropre /\ IZero /\ IUn
-----------------------------------------------------------------------------
LEMMA Initial == Init => IInv
<1> SUFFICES ASSUME Init  PROVE IInv
  OBVIOUS
<1>1. /\ rep \in [Noms -> Repertoires]
      /\ \A nom \in Noms :
            ~rep[nom].existe /\ rep[nom].image = 0 /\ ~rep[nom].restes
  BY DEF Init, Repertoires, Absent
<1>2. TypeOK
  BY <1>1, SauvegardeAssumption DEF Init, TypeOK, PcTache
<1>3. IVerrou /\ ISeul /\ IFantome
  BY DEF Init, IVerrou, ISeul, IFantome, Actif, Rotation
<1>4. IEcrit /\ IPropre
  BY <1>1 DEF Init, IEcrit, IPropre, Rotation, Noms
<1>5. IImages
  BY <1>1 DEF Init, IImages, Noms
<1>6. IZero /\ IUn
  BY <1>1 DEF Init, IZero, IUn, Noms
<1>7. QED
  BY <1>2, <1>3, <1>4, <1>5, <1>6 DEF IInv


(* Types.                                                                  *)
LEMMA TypesGardes ==
    TypeOK /\ [Next]_vars => TypeOK'
<1> SUFFICES ASSUME TypeOK, [Next]_vars
             PROVE  TypeOK'
  OBVIOUS
<1>11. ASSUME NEW t \in Taches, Commencer(t)
       PROVE  TypeOK'
  BY <1>11, SauvegardeAssumption DEF Commencer, Avancer, Seul, Faute,
     TypeOK, PcTache, Noms, Repertoires, Absent, Partiel
<1>12. ASSUME NEW t \in Taches, CommencerSansVerrou(t)
       PROVE  TypeOK'
  BY <1>12, SauvegardeAssumption DEF CommencerSansVerrou, Avancer, Faute,
     TypeOK, PcTache, Noms, Repertoires, Absent, Partiel
<1>13. ASSUME NEW t \in Taches, StopTache(t)
       PROVE  TypeOK'
  BY <1>13, SauvegardeAssumption DEF StopTache, TypeOK, PcTache, Noms,
     Repertoires, Absent, Partiel
<1>14. ASSUME NEW t \in Taches, DestinationImpossible(t)
       PROVE  TypeOK'
  BY <1>14, SauvegardeAssumption DEF DestinationImpossible, Avancer,
     TypeOK, PcTache, Noms, Repertoires, Absent, Partiel
<1>15. ASSUME NEW t \in Taches, RsyncImpossible(t)
       PROVE  TypeOK'
  BY <1>15, SauvegardeAssumption DEF RsyncImpossible, Avancer, Faute,
     TypeOK, PcTache, Noms, Repertoires, Absent, Partiel
<1>16. ASSUME NEW t \in Taches, RsyncDebut(t)
       PROVE  TypeOK'
  BY <1>16, SauvegardeAssumption DEF RsyncDebut, Avancer, TypeOK, PcTache,
     Noms, Repertoires, Absent, Partiel
<1>17. ASSUME NEW t \in Taches, RsyncReussit(t)
       PROVE  TypeOK'
  BY <1>17, SauvegardeAssumption DEF RsyncReussit, Avancer, TypeOK,
     PcTache, Noms, Repertoires, Absent, Partiel
<1>18. ASSUME NEW t \in Taches, RsyncSansDestination(t)
       PROVE  TypeOK'
  BY <1>18, SauvegardeAssumption DEF RsyncSansDestination, Avancer, TypeOK,
     PcTache, Noms, Repertoires, Absent, Partiel
<1>19. ASSUME NEW t \in Taches, RsyncEchoue(t)
       PROVE  TypeOK'
  BY <1>19, SauvegardeAssumption DEF RsyncEchoue, Avancer, Faute, TypeOK,
     PcTache, Noms, Repertoires, Absent, Partiel
<1>20. ASSUME NEW t \in Taches, RsyncArrete(t)
       PROVE  TypeOK'
  BY <1>20, SauvegardeAssumption DEF RsyncArrete, Avancer, TypeOK, PcTache,
     Noms, Repertoires, Absent, Partiel
<1>21. ASSUME NEW t \in Taches, SupprimerOld(t)
       PROVE  TypeOK'
  BY <1>21, SauvegardeAssumption DEF SupprimerOld, Avancer, TypeOK,
     PcTache, Noms, Repertoires, Absent, Partiel
<1>22. ASSUME NEW t \in Taches, SupprimerOldEchoue(t)
       PROVE  TypeOK'
  BY <1>22, SauvegardeAssumption DEF SupprimerOldEchoue, Avancer, Faute,
     TypeOK, PcTache, Noms, Repertoires, Absent, Partiel
<1>23. ASSUME NEW t \in Taches, RenommerFull(t)
       PROVE  TypeOK'
  <2>1. rep' \in [Noms -> Repertoires]
    <3>1. rep \in [Noms -> Repertoires] /\ Absent \in Repertoires
      BY DEF TypeOK, Repertoires, Absent
    <3>2. rep["last"] \in Repertoires
      BY <3>1 DEF Noms
    <3>3. \/ rep' = rep
          \/ rep' = [rep EXCEPT !["old"] = rep["last"], !["last"] = Absent]
      BY <1>23 DEF RenommerFull
    <3>4. QED
      BY <3>1, <3>2, <3>3
  <2>2. QED
    BY <1>23, <2>1 DEF RenommerFull, Avancer, TypeOK, PcTache
<1>24. ASSUME NEW t \in Taches, RenommerFullEchoue(t)
       PROVE  TypeOK'
  BY <1>24, SauvegardeAssumption DEF RenommerFullEchoue, Avancer, Faute,
     TypeOK, PcTache, Noms, Repertoires, Absent, Partiel
<1>25. ASSUME NEW t \in Taches, RenommerInprogress(t)
       PROVE  TypeOK'
  <2>1. rep' \in [Noms -> Repertoires]
    <3>1. rep \in [Noms -> Repertoires] /\ Absent \in Repertoires
      BY DEF TypeOK, Repertoires, Absent
    <3>2. rep["inprogress"] \in Repertoires
      BY <3>1 DEF Noms
    <3>3. \/ rep' = rep
          \/ rep' = [rep EXCEPT !["last"] = rep["inprogress"],
                                !["inprogress"] = Absent]
      BY <1>25 DEF RenommerInprogress
    <3>4. QED
      BY <3>1, <3>2, <3>3
  <2>2. ecrit' \in [Taches -> BOOLEAN]
    <3>1. ecrit' = ecrit \/ ecrit' = [u \in Taches |-> FALSE]
      BY <1>25 DEF RenommerInprogress
    <3>2. QED
      BY <3>1 DEF TypeOK
  <2>3. fautes' \in Nat /\ sauvegardee' \in BOOLEAN
    <3>1. /\ fautes' = fautes \/ fautes' = 0
          /\ sauvegardee' = sauvegardee \/ sauvegardee' = TRUE
      BY <1>25 DEF RenommerInprogress
    <3>2. fautes' \in Nat
      BY <3>1 DEF TypeOK
    <3>3. sauvegardee' \in BOOLEAN
      BY <3>1 DEF TypeOK
    <3>4. QED
      BY <3>2, <3>3
  <2>4. QED
    BY <1>25, <2>1, <2>2, <2>3
       DEF RenommerInprogress, Avancer, TypeOK, PcTache
<1>26. ASSUME NEW t \in Taches, RenommerInprogressEchoue(t)
       PROVE  TypeOK'
  BY <1>26, SauvegardeAssumption DEF RenommerInprogressEchoue, Avancer,
     Faute, TypeOK, PcTache, Noms, Repertoires, Absent, Partiel
<1>27. ASSUME NEW t \in Taches, Nettoyer(t)
       PROVE  TypeOK'
  BY <1>27, SauvegardeAssumption DEF Nettoyer, Avancer, TypeOK, PcTache,
     Noms, Repertoires, Absent, Partiel
<1>28. ASSUME NEW t \in Taches, NettoyerEchoue(t)
       PROVE  TypeOK'
  BY <1>28, SauvegardeAssumption DEF NettoyerEchoue, Avancer, Faute,
     TypeOK, PcTache, Noms, Repertoires, Absent, Partiel
<1>29. ASSUME NEW t \in Taches, Fin(t)
       PROVE  TypeOK'
  BY <1>29, SauvegardeAssumption DEF Fin, Avancer, TypeOK, PcTache, Noms,
     Repertoires, Absent, Partiel
<1>30. CASE Crash
  BY <1>30, SauvegardeAssumption DEF Crash, Faute, TypeOK, PcTache, Noms,
     Repertoires, Absent, Partiel
<1>31. CASE UNCHANGED vars
  BY <1>31 DEF vars, tacheVars, TypeOK, PcTache, Noms, Repertoires, Absent,
     Partiel
<1>32. QED
  BY <1>11, <1>12, <1>13, <1>14, <1>15, <1>16, <1>17, <1>18, <1>19, <1>20,
     <1>21, <1>22, <1>23, <1>24, <1>25, <1>26, <1>27, <1>28, <1>29, <1>30,
     <1>31
     DEF Next, PasRsync, PasRotation

(* The lock.                                                               *)
LEMMA VerrouGarde ==
    TypeOK /\ IVerrou /\ [Next]_vars => IVerrou'
<1> SUFFICES ASSUME TypeOK, IVerrou, [Next]_vars
             PROVE  IVerrou'
  OBVIOUS
<1>11. ASSUME NEW t \in Taches, Commencer(t)
       PROVE  IVerrou'
  BY <1>11, SauvegardeAssumption DEF Commencer, Avancer, Seul, Faute,
     TypeOK, IVerrou, Actif
<1>12. ASSUME NEW t \in Taches, CommencerSansVerrou(t)
       PROVE  IVerrou'
  BY <1>12, SauvegardeAssumption DEF CommencerSansVerrou, Avancer, Faute,
     TypeOK, IVerrou, Actif
<1>13. ASSUME NEW t \in Taches, StopTache(t)
       PROVE  IVerrou'
  BY <1>13, SauvegardeAssumption DEF StopTache, TypeOK, IVerrou, Actif
<1>14. ASSUME NEW t \in Taches, DestinationImpossible(t)
       PROVE  IVerrou'
  BY <1>14, SauvegardeAssumption DEF DestinationImpossible, Avancer,
     TypeOK, IVerrou, Actif
<1>15. ASSUME NEW t \in Taches, RsyncImpossible(t)
       PROVE  IVerrou'
  BY <1>15, SauvegardeAssumption DEF RsyncImpossible, Avancer, Faute,
     TypeOK, IVerrou, Actif
<1>16. ASSUME NEW t \in Taches, RsyncDebut(t)
       PROVE  IVerrou'
  BY <1>16, SauvegardeAssumption DEF RsyncDebut, Avancer, TypeOK, IVerrou,
     Actif
<1>17. ASSUME NEW t \in Taches, RsyncReussit(t)
       PROVE  IVerrou'
  BY <1>17, SauvegardeAssumption DEF RsyncReussit, Avancer, TypeOK,
     IVerrou, Actif
<1>18. ASSUME NEW t \in Taches, RsyncSansDestination(t)
       PROVE  IVerrou'
  BY <1>18, SauvegardeAssumption DEF RsyncSansDestination, Avancer, TypeOK,
     IVerrou, Actif
<1>19. ASSUME NEW t \in Taches, RsyncEchoue(t)
       PROVE  IVerrou'
  BY <1>19, SauvegardeAssumption DEF RsyncEchoue, Avancer, Faute, TypeOK,
     IVerrou, Actif
<1>20. ASSUME NEW t \in Taches, RsyncArrete(t)
       PROVE  IVerrou'
  BY <1>20, SauvegardeAssumption DEF RsyncArrete, Avancer, TypeOK, IVerrou,
     Actif
<1>21. ASSUME NEW t \in Taches, SupprimerOld(t)
       PROVE  IVerrou'
  BY <1>21, SauvegardeAssumption DEF SupprimerOld, Avancer, TypeOK,
     IVerrou, Actif
<1>22. ASSUME NEW t \in Taches, SupprimerOldEchoue(t)
       PROVE  IVerrou'
  BY <1>22, SauvegardeAssumption DEF SupprimerOldEchoue, Avancer, Faute,
     TypeOK, IVerrou, Actif
<1>23. ASSUME NEW t \in Taches, RenommerFull(t)
       PROVE  IVerrou'
  BY <1>23, SauvegardeAssumption DEF RenommerFull, Avancer, TypeOK,
     IVerrou, Actif
<1>24. ASSUME NEW t \in Taches, RenommerFullEchoue(t)
       PROVE  IVerrou'
  BY <1>24, SauvegardeAssumption DEF RenommerFullEchoue, Avancer, Faute,
     TypeOK, IVerrou, Actif
<1>25. ASSUME NEW t \in Taches, RenommerInprogress(t)
       PROVE  IVerrou'
  BY <1>25, SauvegardeAssumption DEF RenommerInprogress, Avancer, Seul,
     Complet, TypeOK, IVerrou, Actif
<1>26. ASSUME NEW t \in Taches, RenommerInprogressEchoue(t)
       PROVE  IVerrou'
  BY <1>26, SauvegardeAssumption DEF RenommerInprogressEchoue, Avancer,
     Faute, TypeOK, IVerrou, Actif
<1>27. ASSUME NEW t \in Taches, Nettoyer(t)
       PROVE  IVerrou'
  BY <1>27, SauvegardeAssumption DEF Nettoyer, Avancer, TypeOK, IVerrou, Actif
<1>28. ASSUME NEW t \in Taches, NettoyerEchoue(t)
       PROVE  IVerrou'
  BY <1>28, SauvegardeAssumption DEF NettoyerEchoue, Avancer, Faute,
     TypeOK, IVerrou, Actif
<1>29. ASSUME NEW t \in Taches, Fin(t)
       PROVE  IVerrou'
  BY <1>29, SauvegardeAssumption DEF Fin, Avancer, TypeOK, IVerrou, Actif
<1>30. CASE Crash
  BY <1>30, SauvegardeAssumption DEF Crash, Faute, TypeOK, IVerrou, Actif
<1>31. CASE UNCHANGED vars
  BY <1>31 DEF vars, tacheVars, TypeOK, IVerrou, Actif
<1>32. QED
  BY <1>11, <1>12, <1>13, <1>14, <1>15, <1>16, <1>17, <1>18, <1>19, <1>20,
     <1>21, <1>22, <1>23, <1>24, <1>25, <1>26, <1>27, <1>28, <1>29, <1>30,
     <1>31
     DEF Next, PasRsync, PasRotation

(* What the steps that change a directory do to each field.                *)
LEMMA EffetDebut ==
    ASSUME TypeOK, NEW t \in Taches, RsyncDebut(t)
    PROVE  /\ rep'["last"] = rep["last"] /\ rep'["old"] = rep["old"]
           /\ rep'["inprogress"].existe
           /\ rep'["inprogress"].image = 0
           /\ rep'["inprogress"].restes = rep["inprogress"].existe
BY DEF RsyncDebut, TypeOK, Noms, Repertoires, Partiel

LEMMA EffetReussit ==
    ASSUME TypeOK, NEW t \in Taches, RsyncReussit(t)
    PROVE  /\ rep'["last"] = rep["last"] /\ rep'["old"] = rep["old"]
           /\ rep'["inprogress"].existe = rep["inprogress"].existe
           /\ rep'["inprogress"].image = numero[t]
           /\ rep'["inprogress"].restes = rep["inprogress"].restes
BY DEF RsyncReussit, TypeOK, Noms, Repertoires

LEMMA EffetOld ==
    ASSUME TypeOK, NEW t \in Taches,
           SupprimerOld(t) \/ SupprimerOldEchoue(t)
    PROVE  /\ rep'["last"] = rep["last"]
           /\ rep'["inprogress"] = rep["inprogress"]
           /\ rep'["old"].image = 0
           /\ SupprimerOld(t) => ~rep'["old"].existe
BY DEF SupprimerOld, SupprimerOldEchoue, TypeOK, Noms, Repertoires, Partiel,
       Absent

LEMMA EffetFull ==
    ASSUME TypeOK, NEW t \in Taches, RenommerFull(t)
    PROVE  /\ rep'["inprogress"] = rep["inprogress"]
           /\ rep["last"].existe =>
                 /\ ~rep["old"].existe
                 /\ rep'["old"] = rep["last"]
                 /\ ~rep'["last"].existe /\ rep'["last"].image = 0
           /\ ~rep["last"].existe => rep' = rep
BY DEF RenommerFull, TypeOK, Noms, Repertoires, Absent

LEMMA EffetInprogress ==
    ASSUME TypeOK, NEW t \in Taches, RenommerInprogress(t)
    PROVE  /\ rep'["old"] = rep["old"]
           /\ rep["inprogress"].existe =>
                 /\ ~rep["last"].existe
                 /\ rep'["last"] = rep["inprogress"]
                 /\ ~rep'["inprogress"].existe
                 /\ rep'["inprogress"].image = 0
                 /\ ~rep'["inprogress"].restes
                 /\ \A u \in Taches : ~ecrit'[u]
           /\ ~rep["inprogress"].existe => rep' = rep /\ ecrit' = ecrit
BY DEF RenommerInprogress, TypeOK, Noms, Repertoires, Absent

LEMMA EffetNettoyer ==
    ASSUME TypeOK, NEW t \in Taches, Nettoyer(t) \/ NettoyerEchoue(t)
    PROVE  /\ rep'["last"] = rep["last"] /\ rep'["old"] = rep["old"]
           /\ rep'["inprogress"].image = 0
           /\ Nettoyer(t) => /\ ~rep'["inprogress"].existe
                             /\ ~rep'["inprogress"].restes
                             /\ \A u \in Taches : ~ecrit'[u]
           /\ NettoyerEchoue(t) => rep'["inprogress"].existe /\ ecrit' = ecrit
BY DEF Nettoyer, NettoyerEchoue, TypeOK, Noms, Repertoires, Partiel, Absent

(* A fault is counted.                                                     *)
LEMMA FauteCompte ==
    ASSUME TypeOK, Faute
    PROVE  /\ fautes' # 0
           /\ fautes' <= 1 => fautes = 0
           /\ fautes' = 1 => fautes = 0
BY DEF Faute, TypeOK


(* Alone.                                                                  *)
LEMMA SeulGarde ==
    TypeOK /\ IVerrou /\ ISeul /\ [Next]_vars => ISeul'
<1> SUFFICES ASSUME TypeOK, IVerrou, ISeul, [Next]_vars
             PROVE  ISeul'
  OBVIOUS
<1>1. Faute => /\ fautes' # 0
               /\ fautes' <= 1 => fautes = 0
               /\ fautes' = 1 => fautes = 0
  BY FauteCompte
<1>11. ASSUME NEW t \in Taches, Commencer(t)
       PROVE  ISeul'
  BY <1>11, <1>1, SauvegardeAssumption DEF Commencer, Avancer, Seul,
     TypeOK, ISeul, IVerrou, Actif, Rotation
<1>12. ASSUME NEW t \in Taches, CommencerSansVerrou(t)
       PROVE  ISeul'
  BY <1>12, <1>1, SauvegardeAssumption DEF CommencerSansVerrou, Avancer,
     TypeOK, ISeul, IVerrou, Actif, Rotation
<1>13. ASSUME NEW t \in Taches, StopTache(t)
       PROVE  ISeul'
  BY <1>13, <1>1, SauvegardeAssumption DEF StopTache, TypeOK, ISeul,
     IVerrou, Actif, Rotation
<1>14. ASSUME NEW t \in Taches, DestinationImpossible(t)
       PROVE  ISeul'
  BY <1>14, <1>1, SauvegardeAssumption DEF DestinationImpossible, Avancer,
     TypeOK, ISeul, IVerrou, Actif, Rotation
<1>15. ASSUME NEW t \in Taches, RsyncImpossible(t)
       PROVE  ISeul'
  BY <1>15, <1>1, SauvegardeAssumption DEF RsyncImpossible, Avancer,
     TypeOK, ISeul, IVerrou, Actif, Rotation
<1>16. ASSUME NEW t \in Taches, RsyncDebut(t)
       PROVE  ISeul'
  BY <1>16, <1>1, SauvegardeAssumption DEF RsyncDebut, Avancer, TypeOK,
     ISeul, IVerrou, Actif, Rotation
<1>17. ASSUME NEW t \in Taches, RsyncReussit(t)
       PROVE  ISeul'
  BY <1>17, <1>1, SauvegardeAssumption DEF RsyncReussit, Avancer, TypeOK,
     ISeul, IVerrou, Actif, Rotation
<1>18. ASSUME NEW t \in Taches, RsyncSansDestination(t)
       PROVE  ISeul'
  BY <1>18, <1>1, SauvegardeAssumption DEF RsyncSansDestination, Avancer,
     TypeOK, ISeul, IVerrou, Actif, Rotation
<1>19. ASSUME NEW t \in Taches, RsyncEchoue(t)
       PROVE  ISeul'
  BY <1>19, <1>1, SauvegardeAssumption DEF RsyncEchoue, Avancer, TypeOK,
     ISeul, IVerrou, Actif, Rotation
<1>20. ASSUME NEW t \in Taches, RsyncArrete(t)
       PROVE  ISeul'
  BY <1>20, <1>1, SauvegardeAssumption DEF RsyncArrete, Avancer, TypeOK,
     ISeul, IVerrou, Actif, Rotation
<1>21. ASSUME NEW t \in Taches, SupprimerOld(t)
       PROVE  ISeul'
  BY <1>21, <1>1, SauvegardeAssumption DEF SupprimerOld, Avancer, TypeOK,
     ISeul, IVerrou, Actif, Rotation
<1>22. ASSUME NEW t \in Taches, SupprimerOldEchoue(t)
       PROVE  ISeul'
  BY <1>22, <1>1, SauvegardeAssumption DEF SupprimerOldEchoue, Avancer,
     TypeOK, ISeul, IVerrou, Actif, Rotation
<1>23. ASSUME NEW t \in Taches, RenommerFull(t)
       PROVE  ISeul'
  BY <1>23, <1>1, SauvegardeAssumption DEF RenommerFull, Avancer, TypeOK,
     ISeul, IVerrou, Actif, Rotation
<1>24. ASSUME NEW t \in Taches, RenommerFullEchoue(t)
       PROVE  ISeul'
  BY <1>24, <1>1, SauvegardeAssumption DEF RenommerFullEchoue, Avancer,
     TypeOK, ISeul, IVerrou, Actif, Rotation
<1>25. ASSUME NEW t \in Taches, RenommerInprogress(t)
       PROVE  ISeul'
  BY <1>25, <1>1, SauvegardeAssumption DEF RenommerInprogress, Avancer,
     Seul, Complet, TypeOK, ISeul, IVerrou, Actif, Rotation
<1>26. ASSUME NEW t \in Taches, RenommerInprogressEchoue(t)
       PROVE  ISeul'
  BY <1>26, <1>1, SauvegardeAssumption DEF RenommerInprogressEchoue,
     Avancer, TypeOK, ISeul, IVerrou, Actif, Rotation
<1>27. ASSUME NEW t \in Taches, Nettoyer(t)
       PROVE  ISeul'
  BY <1>27, <1>1, SauvegardeAssumption DEF Nettoyer, Avancer, TypeOK,
     ISeul, IVerrou, Actif, Rotation
<1>28. ASSUME NEW t \in Taches, NettoyerEchoue(t)
       PROVE  ISeul'
  BY <1>28, <1>1, SauvegardeAssumption DEF NettoyerEchoue, Avancer, TypeOK,
     ISeul, IVerrou, Actif, Rotation
<1>29. ASSUME NEW t \in Taches, Fin(t)
       PROVE  ISeul'
  BY <1>29, <1>1, SauvegardeAssumption DEF Fin, Avancer, TypeOK, ISeul,
     IVerrou, Actif, Rotation
<1>30. CASE Crash
  BY <1>30, <1>1, SauvegardeAssumption DEF Crash, TypeOK, ISeul, IVerrou,
     Actif, Rotation
<1>31. CASE UNCHANGED vars
  BY <1>31 DEF vars, tacheVars, TypeOK, ISeul, IVerrou, Actif, Rotation
<1>32. QED
  BY <1>11, <1>12, <1>13, <1>14, <1>15, <1>16, <1>17, <1>18, <1>19, <1>20,
     <1>21, <1>22, <1>23, <1>24, <1>25, <1>26, <1>27, <1>28, <1>29, <1>30,
     <1>31
     DEF Next, PasRsync, PasRotation

(* Two tasks.                                                              *)
LEMMA FantomeGarde ==
    TypeOK /\ IVerrou /\ ISeul /\ IFantome /\ [Next]_vars => IFantome'
<1> SUFFICES ASSUME TypeOK, IVerrou, ISeul, IFantome, [Next]_vars
             PROVE  IFantome'
  OBVIOUS
<1>1. Faute => /\ fautes' # 0
               /\ fautes' <= 1 => fautes = 0
               /\ fautes' = 1 => fautes = 0
  BY FauteCompte
<1>11. ASSUME NEW t \in Taches, Commencer(t)
       PROVE  IFantome'
  BY <1>11, <1>1, SauvegardeAssumption DEF Commencer, Avancer, Seul,
     TypeOK, ISeul, IVerrou, IFantome, Fantome, Actif, Rotation
<1>12. ASSUME NEW t \in Taches, CommencerSansVerrou(t)
       PROVE  IFantome'
  BY <1>12, <1>1, SauvegardeAssumption DEF CommencerSansVerrou, Avancer,
     TypeOK, ISeul, IVerrou, IFantome, Fantome, Actif, Rotation
<1>13. ASSUME NEW t \in Taches, StopTache(t)
       PROVE  IFantome'
  BY <1>13, <1>1, SauvegardeAssumption DEF StopTache, TypeOK, ISeul,
     IVerrou, IFantome, Fantome, Actif, Rotation
<1>14. ASSUME NEW t \in Taches, DestinationImpossible(t)
       PROVE  IFantome'
  BY <1>14, <1>1, SauvegardeAssumption DEF DestinationImpossible, Avancer,
     TypeOK, ISeul, IVerrou, IFantome, Fantome, Actif, Rotation
<1>15. ASSUME NEW t \in Taches, RsyncImpossible(t)
       PROVE  IFantome'
  BY <1>15, <1>1, SauvegardeAssumption DEF RsyncImpossible, Avancer,
     TypeOK, ISeul, IVerrou, IFantome, Fantome, Actif, Rotation
<1>16. ASSUME NEW t \in Taches, RsyncDebut(t)
       PROVE  IFantome'
  BY <1>16, <1>1, SauvegardeAssumption DEF RsyncDebut, Avancer, TypeOK,
     ISeul, IVerrou, IFantome, Fantome, Actif, Rotation
<1>17. ASSUME NEW t \in Taches, RsyncReussit(t)
       PROVE  IFantome'
  BY <1>17, <1>1, SauvegardeAssumption DEF RsyncReussit, Avancer, TypeOK,
     ISeul, IVerrou, IFantome, Fantome, Actif, Rotation
<1>18. ASSUME NEW t \in Taches, RsyncSansDestination(t)
       PROVE  IFantome'
  BY <1>18, <1>1, SauvegardeAssumption DEF RsyncSansDestination, Avancer,
     TypeOK, ISeul, IVerrou, IFantome, Fantome, Actif, Rotation
<1>19. ASSUME NEW t \in Taches, RsyncEchoue(t)
       PROVE  IFantome'
  BY <1>19, <1>1, SauvegardeAssumption DEF RsyncEchoue, Avancer, TypeOK,
     ISeul, IVerrou, IFantome, Fantome, Actif, Rotation
<1>20. ASSUME NEW t \in Taches, RsyncArrete(t)
       PROVE  IFantome'
  BY <1>20, <1>1, SauvegardeAssumption DEF RsyncArrete, Avancer, TypeOK,
     ISeul, IVerrou, IFantome, Fantome, Actif, Rotation
<1>21. ASSUME NEW t \in Taches, SupprimerOld(t)
       PROVE  IFantome'
  BY <1>21, <1>1, SauvegardeAssumption DEF SupprimerOld, Avancer, TypeOK,
     ISeul, IVerrou, IFantome, Fantome, Actif, Rotation
<1>22. ASSUME NEW t \in Taches, SupprimerOldEchoue(t)
       PROVE  IFantome'
  BY <1>22, <1>1, SauvegardeAssumption DEF SupprimerOldEchoue, Avancer,
     TypeOK, ISeul, IVerrou, IFantome, Fantome, Actif, Rotation
<1>23. ASSUME NEW t \in Taches, RenommerFull(t)
       PROVE  IFantome'
  BY <1>23, <1>1, SauvegardeAssumption DEF RenommerFull, Avancer, TypeOK,
     ISeul, IVerrou, IFantome, Fantome, Actif, Rotation
<1>24. ASSUME NEW t \in Taches, RenommerFullEchoue(t)
       PROVE  IFantome'
  BY <1>24, <1>1, SauvegardeAssumption DEF RenommerFullEchoue, Avancer,
     TypeOK, ISeul, IVerrou, IFantome, Fantome, Actif, Rotation
<1>25. ASSUME NEW t \in Taches, RenommerInprogress(t)
       PROVE  IFantome'
  BY <1>25, <1>1, SauvegardeAssumption DEF RenommerInprogress, Avancer,
     Seul, Complet, TypeOK, ISeul, IVerrou, IFantome, Fantome, Actif, Rotation
<1>26. ASSUME NEW t \in Taches, RenommerInprogressEchoue(t)
       PROVE  IFantome'
  BY <1>26, <1>1, SauvegardeAssumption DEF RenommerInprogressEchoue,
     Avancer, TypeOK, ISeul, IVerrou, IFantome, Fantome, Actif, Rotation
<1>27. ASSUME NEW t \in Taches, Nettoyer(t)
       PROVE  IFantome'
  BY <1>27, <1>1, SauvegardeAssumption DEF Nettoyer, Avancer, TypeOK,
     ISeul, IVerrou, IFantome, Fantome, Actif, Rotation
<1>28. ASSUME NEW t \in Taches, NettoyerEchoue(t)
       PROVE  IFantome'
  BY <1>28, <1>1, SauvegardeAssumption DEF NettoyerEchoue, Avancer, TypeOK,
     ISeul, IVerrou, IFantome, Fantome, Actif, Rotation
<1>29. ASSUME NEW t \in Taches, Fin(t)
       PROVE  IFantome'
  BY <1>29, <1>1, SauvegardeAssumption DEF Fin, Avancer, TypeOK, ISeul,
     IVerrou, IFantome, Fantome, Actif, Rotation
<1>30. CASE Crash
  BY <1>30, <1>1, SauvegardeAssumption DEF Crash, TypeOK, ISeul, IVerrou,
     IFantome, Fantome, Actif, Rotation
<1>31. CASE UNCHANGED vars
  BY <1>31 DEF vars, tacheVars, TypeOK, ISeul, IVerrou, IFantome, Fantome,
     Actif, Rotation
<1>32. QED
  BY <1>11, <1>12, <1>13, <1>14, <1>15, <1>16, <1>17, <1>18, <1>19, <1>20,
     <1>21, <1>22, <1>23, <1>24, <1>25, <1>26, <1>27, <1>28, <1>29, <1>30,
     <1>31
     DEF Next, PasRsync, PasRotation

(* Who writes.                                                             *)
LEMMA EcritGarde ==
    TypeOK /\ IEcrit /\ [Next]_vars => IEcrit'
<1> SUFFICES ASSUME TypeOK, IEcrit, [Next]_vars
             PROVE  IEcrit'
  OBVIOUS
<1>11. ASSUME NEW t \in Taches, Commencer(t)
       PROVE  IEcrit'
  BY <1>11 DEF Commencer, Avancer, Seul, TypeOK, IEcrit
<1>12. ASSUME NEW t \in Taches, CommencerSansVerrou(t)
       PROVE  IEcrit'
  BY <1>12 DEF CommencerSansVerrou, Avancer, TypeOK, IEcrit
<1>13. ASSUME NEW t \in Taches, StopTache(t)
       PROVE  IEcrit'
  BY <1>13 DEF StopTache, TypeOK, IEcrit
<1>14. ASSUME NEW t \in Taches, DestinationImpossible(t)
       PROVE  IEcrit'
  BY <1>14 DEF DestinationImpossible, Avancer, TypeOK, IEcrit
<1>15. ASSUME NEW t \in Taches, RsyncImpossible(t)
       PROVE  IEcrit'
  BY <1>15 DEF RsyncImpossible, Avancer, TypeOK, IEcrit
<1>16. ASSUME NEW t \in Taches, RsyncDebut(t)
       PROVE  IEcrit'
  BY <1>16, EffetDebut DEF RsyncDebut, Avancer, TypeOK, IEcrit, Noms
<1>17. ASSUME NEW t \in Taches, RsyncReussit(t)
       PROVE  IEcrit'
  BY <1>17, EffetReussit DEF RsyncReussit, Avancer, TypeOK, IEcrit, Noms
<1>18. ASSUME NEW t \in Taches, RsyncSansDestination(t)
       PROVE  IEcrit'
  BY <1>18 DEF RsyncSansDestination, Avancer, TypeOK, IEcrit
<1>19. ASSUME NEW t \in Taches, RsyncEchoue(t)
       PROVE  IEcrit'
  BY <1>19 DEF RsyncEchoue, Avancer, TypeOK, IEcrit
<1>20. ASSUME NEW t \in Taches, RsyncArrete(t)
       PROVE  IEcrit'
  BY <1>20 DEF RsyncArrete, Avancer, TypeOK, IEcrit
<1>21. ASSUME NEW t \in Taches, SupprimerOld(t)
       PROVE  IEcrit'
  BY <1>21, EffetOld DEF SupprimerOld, Avancer, TypeOK, IEcrit, Noms
<1>22. ASSUME NEW t \in Taches, SupprimerOldEchoue(t)
       PROVE  IEcrit'
  BY <1>22, EffetOld DEF SupprimerOldEchoue, Avancer, TypeOK, IEcrit, Noms
<1>23. ASSUME NEW t \in Taches, RenommerFull(t)
       PROVE  IEcrit'
  BY <1>23, EffetFull DEF RenommerFull, Avancer, TypeOK, IEcrit, Noms
<1>24. ASSUME NEW t \in Taches, RenommerFullEchoue(t)
       PROVE  IEcrit'
  BY <1>24 DEF RenommerFullEchoue, Avancer, TypeOK, IEcrit
<1>25. ASSUME NEW t \in Taches, RenommerInprogress(t)
       PROVE  IEcrit'
  BY <1>25, EffetInprogress
     DEF RenommerInprogress, Avancer, TypeOK, IEcrit, Noms
<1>26. ASSUME NEW t \in Taches, RenommerInprogressEchoue(t)
       PROVE  IEcrit'
  BY <1>26 DEF RenommerInprogressEchoue, Avancer, TypeOK, IEcrit
<1>27. ASSUME NEW t \in Taches, Nettoyer(t)
       PROVE  IEcrit'
  BY <1>27, EffetNettoyer DEF Nettoyer, Avancer, TypeOK, IEcrit, Noms
<1>28. ASSUME NEW t \in Taches, NettoyerEchoue(t)
       PROVE  IEcrit'
  BY <1>28, EffetNettoyer DEF NettoyerEchoue, Avancer, TypeOK, IEcrit, Noms
<1>29. ASSUME NEW t \in Taches, Fin(t)
       PROVE  IEcrit'
  BY <1>29 DEF Fin, Avancer, TypeOK, IEcrit
<1>30. CASE Crash
  BY <1>30 DEF Crash, TypeOK, IEcrit
<1>31. CASE UNCHANGED vars
  BY <1>31 DEF vars, tacheVars, TypeOK, IEcrit
<1>32. QED
  BY <1>11, <1>12, <1>13, <1>14, <1>15, <1>16, <1>17, <1>18, <1>19, <1>20,
     <1>21, <1>22, <1>23, <1>24, <1>25, <1>26, <1>27, <1>28, <1>29, <1>30,
     <1>31
     DEF Next, PasRsync, PasRotation

(* A step that only moves or removes copies.                               *)
LEMMA ImagesDeplacees ==
    ASSUME TypeOK, TypeOK', IImages,
           nbRsync' = nbRsync, numero' = numero, interrompu' = interrompu,
           \A u \in Taches : pc'[u] = "rsync" => pc[u] = "rsync",
           \A nom \in Noms : \/ rep'[nom].image = 0
                            \/ \E n \in Noms : rep'[nom].image = rep[n].image,
           \/ rep'["inprogress"].image = 0
           \/ rep'["inprogress"].image = rep["inprogress"].image
    PROVE  IImages'
<1>1. /\ \A nom \in Noms : rep[nom].image \in Nat /\ rep'[nom].image \in Nat
      /\ numero \in [Taches -> Nat] /\ nbRsync \in Nat
      /\ "inprogress" \in Noms
  BY DEF TypeOK, Repertoires, Noms
<1>2. \A nom \in Noms : rep'[nom].image <= nbRsync
  BY <1>1 DEF IImages
<1>3. rep'["inprogress"].image > 0 =>
          \A nom \in Noms : rep'[nom].image <= rep'["inprogress"].image
  BY <1>1 DEF IImages
<1>4. \A t \in Taches : pc[t] = "rsync" /\ ~interrompu[t] =>
          \A nom \in Noms : rep'[nom].image <= numero[t]
  BY <1>1 DEF IImages
<1>5. QED
  BY <1>2, <1>3, <1>4 DEF IImages

(* The age of the copies.                                                 *)
LEMMA ImagesGardees ==
    TypeOK /\ TypeOK' /\ IVerrou /\ IImages /\ [Next]_vars => IImages'
<1> SUFFICES ASSUME TypeOK, TypeOK', IVerrou, IImages, [Next]_vars
             PROVE  IImages'
  OBVIOUS
<1>1. /\ \A nom \in Noms : rep[nom].image \in Nat
      /\ numero \in [Taches -> Nat] /\ nbRsync \in Nat
  BY DEF TypeOK, Repertoires
<1>11. ASSUME NEW t \in Taches, Commencer(t)
       PROVE  IImages'
  BY <1>11, <1>1 DEF Commencer, Avancer, Seul, TypeOK, IImages, IVerrou,
     Actif, Noms
<1>12. ASSUME NEW t \in Taches, CommencerSansVerrou(t)
       PROVE  IImages'
  BY <1>12, <1>1 DEF CommencerSansVerrou, Avancer, TypeOK, IImages,
     IVerrou, Actif, Noms
<1>13. ASSUME NEW t \in Taches, StopTache(t)
       PROVE  IImages'
  BY <1>13, <1>1 DEF StopTache, TypeOK, IImages, IVerrou, Actif, Noms
<1>14. ASSUME NEW t \in Taches, DestinationImpossible(t)
       PROVE  IImages'
  BY <1>14, <1>1 DEF DestinationImpossible, Avancer, TypeOK, IImages,
     IVerrou, Actif, Noms
<1>15. ASSUME NEW t \in Taches, RsyncImpossible(t)
       PROVE  IImages'
  BY <1>15, <1>1 DEF RsyncImpossible, Avancer, TypeOK, IImages, IVerrou,
     Actif, Noms
<1>16. ASSUME NEW t \in Taches, RsyncDebut(t)
       PROVE  IImages'
  <2>1. /\ \A nom \in Noms : rep'[nom].image <= nbRsync
        /\ rep'["inprogress"].image = 0
        /\ \A u \in Taches : \A nom \in Noms :
             rep[nom].image <= numero[u] => rep'[nom].image <= numero[u]
    BY <1>16, <1>1, EffetDebut DEF IImages, Noms
  <2>2. /\ nbRsync' = nbRsync + 1
        /\ numero'[t] = nbRsync'
        /\ \A u \in Taches : u # t => numero'[u] = numero[u] /\ pc'[u] = pc[u]
        /\ interrompu' = interrompu
    BY <1>16 DEF RsyncDebut, Avancer, TypeOK
  <2>3. \A nom \in Noms : rep'[nom].image \in Nat
    BY DEF TypeOK, Repertoires
  <2>4. \A nom \in Noms :
          /\ rep'[nom].image <= nbRsync'
          /\ rep'["inprogress"].image > 0 =>
                 rep'[nom].image <= rep'["inprogress"].image
    BY <1>1, <2>1, <2>2, <2>3
  <2>5. ASSUME NEW u \in Taches, pc'[u] = "rsync"
        PROVE  /\ 0 < numero'[u] /\ numero'[u] <= nbRsync'
               /\ ~interrompu'[u] =>
                      \A nom \in Noms : rep'[nom].image <= numero'[u]
    <3>1. CASE u = t
      BY <1>1, <2>2, <2>4, <3>1
    <3>2. CASE u # t
      BY <1>1, <2>1, <2>2, <2>5, <3>2 DEF IImages
    <3>3. QED
      BY <3>1, <3>2
  <2>6. QED
    BY <2>4, <2>5 DEF IImages
<1>17. ASSUME NEW t \in Taches, RsyncReussit(t)
       PROVE  IImages'
  BY <1>17, <1>1, EffetReussit DEF RsyncReussit, Avancer, TypeOK, IImages,
     IVerrou, Actif, Noms
<1>18. ASSUME NEW t \in Taches, RsyncSansDestination(t)
       PROVE  IImages'
  BY <1>18, <1>1 DEF RsyncSansDestination, Avancer, TypeOK, IImages,
     IVerrou, Actif, Noms
<1>19. ASSUME NEW t \in Taches, RsyncEchoue(t)
       PROVE  IImages'
  BY <1>19, <1>1 DEF RsyncEchoue, Avancer, TypeOK, IImages, IVerrou, Actif,
     Noms
<1>20. ASSUME NEW t \in Taches, RsyncArrete(t)
       PROVE  IImages'
  BY <1>20, <1>1 DEF RsyncArrete, Avancer, TypeOK, IImages, IVerrou, Actif,
     Noms
<1>21. ASSUME NEW t \in Taches, SupprimerOld(t)
       PROVE  IImages'
  <2>1. /\ \A nom \in Noms :
               \/ rep'[nom].image = 0
               \/ \E n \in Noms : rep'[nom].image = rep[n].image
        /\ \/ rep'["inprogress"].image = 0
           \/ rep'["inprogress"].image = rep["inprogress"].image
    BY <1>21, EffetOld DEF Noms
  <2>2. /\ nbRsync' = nbRsync /\ numero' = numero /\ interrompu' = interrompu
        /\ \A u \in Taches : pc'[u] = "rsync" => pc[u] = "rsync"
    BY <1>21 DEF SupprimerOld, Avancer, TypeOK
  <2>3. QED
    BY <2>1, <2>2, ImagesDeplacees
<1>22. ASSUME NEW t \in Taches, SupprimerOldEchoue(t)
       PROVE  IImages'
  <2>1. /\ \A nom \in Noms :
               \/ rep'[nom].image = 0
               \/ \E n \in Noms : rep'[nom].image = rep[n].image
        /\ \/ rep'["inprogress"].image = 0
           \/ rep'["inprogress"].image = rep["inprogress"].image
    BY <1>22, EffetOld DEF Noms
  <2>2. /\ nbRsync' = nbRsync /\ numero' = numero /\ interrompu' = interrompu
        /\ \A u \in Taches : pc'[u] = "rsync" => pc[u] = "rsync"
    BY <1>22 DEF SupprimerOldEchoue, Avancer, TypeOK
  <2>3. QED
    BY <2>1, <2>2, ImagesDeplacees
<1>23. ASSUME NEW t \in Taches, RenommerFull(t)
       PROVE  IImages'
  <2>1. /\ \A nom \in Noms :
               \/ rep'[nom].image = 0
               \/ \E n \in Noms : rep'[nom].image = rep[n].image
        /\ \/ rep'["inprogress"].image = 0
           \/ rep'["inprogress"].image = rep["inprogress"].image
    BY <1>23, EffetFull DEF Noms
  <2>2. /\ nbRsync' = nbRsync /\ numero' = numero /\ interrompu' = interrompu
        /\ \A u \in Taches : pc'[u] = "rsync" => pc[u] = "rsync"
    BY <1>23 DEF RenommerFull, Avancer, TypeOK
  <2>3. QED
    BY <2>1, <2>2, ImagesDeplacees
<1>24. ASSUME NEW t \in Taches, RenommerFullEchoue(t)
       PROVE  IImages'
  BY <1>24, <1>1 DEF RenommerFullEchoue, Avancer, TypeOK, IImages, IVerrou,
     Actif, Noms
<1>25. ASSUME NEW t \in Taches, RenommerInprogress(t)
       PROVE  IImages'
  <2>1. /\ \A nom \in Noms :
               \/ rep'[nom].image = 0
               \/ \E n \in Noms : rep'[nom].image = rep[n].image
        /\ \/ rep'["inprogress"].image = 0
           \/ rep'["inprogress"].image = rep["inprogress"].image
    BY <1>25, EffetInprogress DEF Noms
  <2>2. /\ nbRsync' = nbRsync /\ numero' = numero /\ interrompu' = interrompu
        /\ \A u \in Taches : pc'[u] = "rsync" => pc[u] = "rsync"
    BY <1>25 DEF RenommerInprogress, Avancer, TypeOK
  <2>3. QED
    BY <2>1, <2>2, ImagesDeplacees
<1>26. ASSUME NEW t \in Taches, RenommerInprogressEchoue(t)
       PROVE  IImages'
  BY <1>26, <1>1 DEF RenommerInprogressEchoue, Avancer, TypeOK, IImages,
     IVerrou, Actif, Noms
<1>27. ASSUME NEW t \in Taches, Nettoyer(t)
       PROVE  IImages'
  <2>1. /\ \A nom \in Noms :
               \/ rep'[nom].image = 0
               \/ \E n \in Noms : rep'[nom].image = rep[n].image
        /\ \/ rep'["inprogress"].image = 0
           \/ rep'["inprogress"].image = rep["inprogress"].image
    BY <1>27, EffetNettoyer DEF Noms
  <2>2. /\ nbRsync' = nbRsync /\ numero' = numero /\ interrompu' = interrompu
        /\ \A u \in Taches : pc'[u] = "rsync" => pc[u] = "rsync"
    BY <1>27 DEF Nettoyer, Avancer, TypeOK
  <2>3. QED
    BY <2>1, <2>2, ImagesDeplacees
<1>28. ASSUME NEW t \in Taches, NettoyerEchoue(t)
       PROVE  IImages'
  <2>1. /\ \A nom \in Noms :
               \/ rep'[nom].image = 0
               \/ \E n \in Noms : rep'[nom].image = rep[n].image
        /\ \/ rep'["inprogress"].image = 0
           \/ rep'["inprogress"].image = rep["inprogress"].image
    BY <1>28, EffetNettoyer DEF Noms
  <2>2. /\ nbRsync' = nbRsync /\ numero' = numero /\ interrompu' = interrompu
        /\ \A u \in Taches : pc'[u] = "rsync" => pc[u] = "rsync"
    BY <1>28 DEF NettoyerEchoue, Avancer, TypeOK
  <2>3. QED
    BY <2>1, <2>2, ImagesDeplacees
<1>29. ASSUME NEW t \in Taches, Fin(t)
       PROVE  IImages'
  BY <1>29, <1>1 DEF Fin, Avancer, TypeOK, IImages, IVerrou, Actif, Noms
<1>30. CASE Crash
  BY <1>30, <1>1 DEF Crash, TypeOK, IImages, IVerrou, Actif, Noms
<1>31. CASE UNCHANGED vars
  BY <1>31 DEF vars, tacheVars, TypeOK, IImages, IVerrou, Actif, Noms
<1>32. QED
  BY <1>11, <1>12, <1>13, <1>14, <1>15, <1>16, <1>17, <1>18, <1>19, <1>20,
     <1>21, <1>22, <1>23, <1>24, <1>25, <1>26, <1>27, <1>28, <1>29, <1>30,
     <1>31
     DEF Next, PasRsync, PasRotation

(* .inprogress without a fault.                                            *)
LEMMA PropreGarde ==
    TypeOK /\ IEcrit /\ ISeul /\ IImages /\ IPropre /\ [Next]_vars => IPropre'
<1> SUFFICES ASSUME TypeOK, IEcrit, ISeul, IImages, IPropre,
                    [Next]_vars
             PROVE  IPropre'
  OBVIOUS
<1>1. Faute => /\ fautes' # 0
               /\ fautes' <= 1 => fautes = 0
               /\ fautes' = 1 => fautes = 0
  BY FauteCompte
<1>11. ASSUME NEW t \in Taches, Commencer(t)
       PROVE  IPropre'
  BY <1>11, <1>1 DEF Commencer, Avancer, Seul, TypeOK, IPropre, IEcrit,
     ISeul, Complet, Actif, Rotation
<1>12. ASSUME NEW t \in Taches, CommencerSansVerrou(t)
       PROVE  IPropre'
  BY <1>12, <1>1 DEF CommencerSansVerrou, Avancer, TypeOK, IPropre, IEcrit,
     ISeul, Complet, Actif, Rotation
<1>13. ASSUME NEW t \in Taches, StopTache(t)
       PROVE  IPropre'
  BY <1>13, <1>1 DEF StopTache, TypeOK, IPropre, IEcrit, ISeul, Complet,
     Actif, Rotation
<1>14. ASSUME NEW t \in Taches, DestinationImpossible(t)
       PROVE  IPropre'
  BY <1>14, <1>1 DEF DestinationImpossible, Avancer, TypeOK, IPropre,
     IEcrit, ISeul, Complet, Actif, Rotation
<1>15. ASSUME NEW t \in Taches, RsyncImpossible(t)
       PROVE  IPropre'
  BY <1>15, <1>1 DEF RsyncImpossible, Avancer, TypeOK, IPropre, IEcrit,
     ISeul, Complet, Actif, Rotation
<1>16. ASSUME NEW t \in Taches, RsyncDebut(t)
       PROVE  IPropre'
  BY <1>16, <1>1, EffetDebut DEF RsyncDebut, Avancer, TypeOK, IPropre, IEcrit,
     IImages, ISeul, Complet, Actif, Rotation, Noms
<1>17. ASSUME NEW t \in Taches, RsyncReussit(t)
       PROVE  IPropre'
  BY <1>17, <1>1, EffetReussit DEF RsyncReussit, Avancer, TypeOK, IPropre,
     IEcrit, IImages, ISeul, Complet, Actif, Rotation, Noms
<1>18. ASSUME NEW t \in Taches, RsyncSansDestination(t)
       PROVE  IPropre'
  BY <1>18, <1>1 DEF RsyncSansDestination, Avancer, TypeOK, IPropre,
     IEcrit, ISeul, Complet, Actif, Rotation
<1>19. ASSUME NEW t \in Taches, RsyncEchoue(t)
       PROVE  IPropre'
  BY <1>19, <1>1 DEF RsyncEchoue, Avancer, TypeOK, IPropre, IEcrit, ISeul,
     Complet, Actif, Rotation
<1>20. ASSUME NEW t \in Taches, RsyncArrete(t)
       PROVE  IPropre'
  BY <1>20, <1>1 DEF RsyncArrete, Avancer, TypeOK, IPropre, IEcrit, ISeul,
     Complet, Actif, Rotation
<1>21. ASSUME NEW t \in Taches, SupprimerOld(t)
       PROVE  IPropre'
  BY <1>21, <1>1, EffetOld DEF SupprimerOld, Avancer, TypeOK, IPropre, IEcrit,
     IImages, ISeul, Complet, Actif, Rotation, Noms
<1>22. ASSUME NEW t \in Taches, SupprimerOldEchoue(t)
       PROVE  IPropre'
  BY <1>22, <1>1, EffetOld DEF SupprimerOldEchoue, Avancer, TypeOK, IPropre,
     IEcrit, IImages, ISeul, Complet, Actif, Rotation, Noms
<1>23. ASSUME NEW t \in Taches, RenommerFull(t)
       PROVE  IPropre'
  BY <1>23, <1>1, EffetFull DEF RenommerFull, Avancer, TypeOK, IPropre, IEcrit,
     IImages, ISeul, Complet, Actif, Rotation, Noms
<1>24. ASSUME NEW t \in Taches, RenommerFullEchoue(t)
       PROVE  IPropre'
  BY <1>24, <1>1 DEF RenommerFullEchoue, Avancer, TypeOK, IPropre, IEcrit,
     ISeul, Complet, Actif, Rotation
<1>25. ASSUME NEW t \in Taches, RenommerInprogress(t)
       PROVE  IPropre'
  BY <1>25, <1>1, EffetInprogress DEF RenommerInprogress, Avancer, Seul,
     Complet, TypeOK, IPropre, IEcrit, IImages, ISeul, Complet, Actif,
     Rotation, Noms
<1>26. ASSUME NEW t \in Taches, RenommerInprogressEchoue(t)
       PROVE  IPropre'
  BY <1>26, <1>1 DEF RenommerInprogressEchoue, Avancer, TypeOK, IPropre,
     IEcrit, ISeul, Complet, Actif, Rotation
<1>27. ASSUME NEW t \in Taches, Nettoyer(t)
       PROVE  IPropre'
  BY <1>27, <1>1, EffetNettoyer DEF Nettoyer, Avancer, TypeOK, IPropre, IEcrit,
     IImages, ISeul, Complet, Actif, Rotation, Noms
<1>28. ASSUME NEW t \in Taches, NettoyerEchoue(t)
       PROVE  IPropre'
  BY <1>28, <1>1, EffetNettoyer DEF NettoyerEchoue, Avancer, TypeOK, IPropre,
     IEcrit, IImages, ISeul, Complet, Actif, Rotation, Noms
<1>29. ASSUME NEW t \in Taches, Fin(t)
       PROVE  IPropre'
  BY <1>29, <1>1 DEF Fin, Avancer, TypeOK, IPropre, IEcrit, ISeul, Complet,
     Actif, Rotation
<1>30. CASE Crash
  BY <1>30, <1>1 DEF Crash, TypeOK, IPropre, IEcrit, ISeul, Complet, Actif,
     Rotation
<1>31. CASE UNCHANGED vars
  BY <1>31 DEF vars, tacheVars, TypeOK, IPropre, IEcrit, ISeul, Complet,
     Actif, Rotation
<1>32. QED
  BY <1>11, <1>12, <1>13, <1>14, <1>15, <1>16, <1>17, <1>18, <1>19, <1>20,
     <1>21, <1>22, <1>23, <1>24, <1>25, <1>26, <1>27, <1>28, <1>29, <1>30,
     <1>31
     DEF Next, PasRsync, PasRotation

(* last and old without a fault.                                           *)
LEMMA ZeroGarde ==
    TypeOK /\ IEcrit /\ ISeul /\ IImages /\ IPropre /\ IZero /\
    [Next]_vars => IZero'
<1> SUFFICES ASSUME TypeOK, IEcrit, ISeul, IImages, IPropre, IZero,
                    [Next]_vars
             PROVE  IZero'
  OBVIOUS
<1>1. Faute => /\ fautes' # 0
               /\ fautes' <= 1 => fautes = 0
               /\ fautes' = 1 => fautes = 0
  BY FauteCompte
<1>11. ASSUME NEW t \in Taches, Commencer(t)
       PROVE  IZero'
  BY <1>11, <1>1 DEF Commencer, Avancer, Seul, TypeOK, IZero, ISeul,
     Complet, Actif, Rotation
<1>12. ASSUME NEW t \in Taches, CommencerSansVerrou(t)
       PROVE  IZero'
  BY <1>12, <1>1 DEF CommencerSansVerrou, Avancer, TypeOK, IZero, ISeul,
     Complet, Actif, Rotation
<1>13. ASSUME NEW t \in Taches, StopTache(t)
       PROVE  IZero'
  BY <1>13, <1>1 DEF StopTache, TypeOK, IZero, ISeul, Complet, Actif, Rotation
<1>14. ASSUME NEW t \in Taches, DestinationImpossible(t)
       PROVE  IZero'
  BY <1>14, <1>1 DEF DestinationImpossible, Avancer, TypeOK, IZero, ISeul,
     Complet, Actif, Rotation
<1>15. ASSUME NEW t \in Taches, RsyncImpossible(t)
       PROVE  IZero'
  BY <1>15, <1>1 DEF RsyncImpossible, Avancer, TypeOK, IZero, ISeul,
     Complet, Actif, Rotation
<1>16. ASSUME NEW t \in Taches, RsyncDebut(t)
       PROVE  IZero'
  BY <1>16, <1>1, EffetDebut DEF RsyncDebut, Avancer, TypeOK, IZero, IPropre,
     IEcrit, IImages, ISeul, Complet, Actif, Rotation, Noms
<1>17. ASSUME NEW t \in Taches, RsyncReussit(t)
       PROVE  IZero'
  BY <1>17, <1>1, EffetReussit DEF RsyncReussit, Avancer, TypeOK, IZero,
     IPropre, IEcrit, IImages, ISeul, Complet, Actif, Rotation, Noms
<1>18. ASSUME NEW t \in Taches, RsyncSansDestination(t)
       PROVE  IZero'
  BY <1>18, <1>1 DEF RsyncSansDestination, Avancer, TypeOK, IZero, ISeul,
     Complet, Actif, Rotation
<1>19. ASSUME NEW t \in Taches, RsyncEchoue(t)
       PROVE  IZero'
  BY <1>19, <1>1 DEF RsyncEchoue, Avancer, TypeOK, IZero, ISeul, Complet,
     Actif, Rotation
<1>20. ASSUME NEW t \in Taches, RsyncArrete(t)
       PROVE  IZero'
  BY <1>20, <1>1 DEF RsyncArrete, Avancer, TypeOK, IZero, ISeul, Complet,
     Actif, Rotation
<1>21. ASSUME NEW t \in Taches, SupprimerOld(t)
       PROVE  IZero'
  <2>1. rep'["old"].image <= rep'["last"].image
    <3>1. rep["last"].image \in Nat
      BY DEF TypeOK, Repertoires, Noms
    <3>2. QED
      BY <1>21, <3>1, EffetOld
  <2>2. /\ rep'["last"] = rep["last"] /\ ~rep'["old"].existe
        /\ fautes' = fautes /\ sauvegardee' = sauvegardee
        /\ pc[t] = "old" /\ pc'[t] = "full"
        /\ \A u \in Taches : u # t => pc'[u] = pc[u]
    BY <1>21, EffetOld DEF SupprimerOld, Avancer, TypeOK
  <2>3. fautes = 0 => \A u \in Taches : u # t => pc[u] = "repos"
    BY <2>2 DEF ISeul, Actif
  <2>4. QED
    BY <2>1, <2>2, <2>3 DEF IZero, Complet
<1>22. ASSUME NEW t \in Taches, SupprimerOldEchoue(t)
       PROVE  IZero'
  BY <1>22, <1>1, EffetOld DEF SupprimerOldEchoue, Avancer, TypeOK, IZero,
     IPropre, IEcrit, IImages, ISeul, Complet, Actif, Rotation, Noms
<1>23. ASSUME NEW t \in Taches, RenommerFull(t)
       PROVE  IZero'
  BY <1>23, <1>1, EffetFull DEF RenommerFull, Avancer, TypeOK, IZero, IPropre,
     IEcrit, IImages, ISeul, Complet, Actif, Rotation, Noms
<1>24. ASSUME NEW t \in Taches, RenommerFullEchoue(t)
       PROVE  IZero'
  BY <1>24, <1>1 DEF RenommerFullEchoue, Avancer, TypeOK, IZero, ISeul,
     Complet, Actif, Rotation
<1>25. ASSUME NEW t \in Taches, RenommerInprogress(t)
       PROVE  IZero'
  BY <1>25, <1>1, EffetInprogress DEF RenommerInprogress, Avancer, Seul,
     Complet, TypeOK, IZero, IPropre, IEcrit, IImages, ISeul, Complet,
     Actif, Rotation, Noms
<1>26. ASSUME NEW t \in Taches, RenommerInprogressEchoue(t)
       PROVE  IZero'
  BY <1>26, <1>1 DEF RenommerInprogressEchoue, Avancer, TypeOK, IZero,
     ISeul, Complet, Actif, Rotation
<1>27. ASSUME NEW t \in Taches, Nettoyer(t)
       PROVE  IZero'
  BY <1>27, <1>1, EffetNettoyer DEF Nettoyer, Avancer, TypeOK, IZero, IPropre,
     IEcrit, IImages, ISeul, Complet, Actif, Rotation, Noms
<1>28. ASSUME NEW t \in Taches, NettoyerEchoue(t)
       PROVE  IZero'
  BY <1>28, <1>1, EffetNettoyer DEF NettoyerEchoue, Avancer, TypeOK, IZero,
     IPropre, IEcrit, IImages, ISeul, Complet, Actif, Rotation, Noms
<1>29. ASSUME NEW t \in Taches, Fin(t)
       PROVE  IZero'
  BY <1>29, <1>1 DEF Fin, Avancer, TypeOK, IZero, ISeul, Complet, Actif,
     Rotation
<1>30. CASE Crash
  BY <1>30, <1>1 DEF Crash, TypeOK, IZero, ISeul, Complet, Actif, Rotation
<1>31. CASE UNCHANGED vars
  BY <1>31 DEF vars, tacheVars, TypeOK, IZero, ISeul, Complet, Actif, Rotation
<1>32. QED
  BY <1>11, <1>12, <1>13, <1>14, <1>15, <1>16, <1>17, <1>18, <1>19, <1>20,
     <1>21, <1>22, <1>23, <1>24, <1>25, <1>26, <1>27, <1>28, <1>29, <1>30,
     <1>31
     DEF Next, PasRsync, PasRotation

(* The copy after one fault.                                               *)
LEMMA UnGarde ==
    TypeOK /\ IVerrou /\ IEcrit /\ ISeul /\ IFantome /\ IImages /\
    IPropre /\ IZero /\ IUn /\ [Next]_vars => IUn'
<1> SUFFICES ASSUME TypeOK, IVerrou, IEcrit, ISeul, IFantome,
                    IImages, IPropre, IZero, IUn, [Next]_vars
             PROVE  IUn'
  OBVIOUS
<1>1. Faute => /\ fautes' # 0
               /\ fautes' <= 1 => fautes = 0
               /\ fautes' = 1 => fautes = 0
  BY FauteCompte
<1>2. fautes = 1 => fautes <= 1
  BY DEF TypeOK
<1>11. ASSUME NEW t \in Taches, Commencer(t)
       PROVE  IUn'
  BY <1>11, <1>1, <1>2, SauvegardeAssumption DEF Commencer, Avancer, Seul,
     TypeOK, IUn, IZero, IFantome, Fantome, ISeul, IVerrou, Abri, Complet,
     Actif, Rotation
<1>12. ASSUME NEW t \in Taches, CommencerSansVerrou(t)
       PROVE  IUn'
  BY <1>12, <1>1, <1>2, SauvegardeAssumption DEF CommencerSansVerrou,
     Avancer, TypeOK, IUn, IZero, IFantome, Fantome, ISeul, IVerrou, Abri,
     Complet, Actif, Rotation
<1>13. ASSUME NEW t \in Taches, StopTache(t)
       PROVE  IUn'
  BY <1>13, <1>1, <1>2, SauvegardeAssumption DEF StopTache, TypeOK, IUn,
     IZero, IFantome, Fantome, ISeul, IVerrou, Abri, Complet, Actif, Rotation
<1>14. ASSUME NEW t \in Taches, DestinationImpossible(t)
       PROVE  IUn'
  BY <1>14, <1>1, <1>2, SauvegardeAssumption DEF DestinationImpossible,
     Avancer, TypeOK, IUn, IZero, IFantome, Fantome, ISeul, IVerrou, Abri,
     Complet, Actif, Rotation
<1>15. ASSUME NEW t \in Taches, RsyncImpossible(t)
       PROVE  IUn'
  BY <1>15, <1>1, <1>2, SauvegardeAssumption DEF RsyncImpossible, Avancer,
     TypeOK, IUn, IZero, IFantome, Fantome, ISeul, IVerrou, Abri, Complet,
     Actif, Rotation
<1>16. ASSUME NEW t \in Taches, RsyncDebut(t)
       PROVE  IUn'
  BY <1>16, <1>1, <1>2, EffetDebut DEF RsyncDebut, Avancer, TypeOK, IUn, IZero,
     IFantome, Fantome, IPropre, IEcrit, IImages, ISeul, IVerrou, Abri,
     Complet, Actif, Rotation, Noms
<1>17. ASSUME NEW t \in Taches, RsyncReussit(t)
       PROVE  IUn'
  BY <1>17, <1>1, <1>2, EffetReussit DEF RsyncReussit, Avancer, TypeOK, IUn,
     IZero, IFantome, Fantome, IPropre, IEcrit, IImages, ISeul, IVerrou,
     Abri, Complet, Actif, Rotation, Noms
<1>18. ASSUME NEW t \in Taches, RsyncSansDestination(t)
       PROVE  IUn'
  BY <1>18, <1>1, <1>2, SauvegardeAssumption DEF RsyncSansDestination,
     Avancer, TypeOK, IUn, IZero, IFantome, Fantome, ISeul, IVerrou, Abri,
     Complet, Actif, Rotation
<1>19. ASSUME NEW t \in Taches, RsyncEchoue(t)
       PROVE  IUn'
  BY <1>19, <1>1, <1>2, SauvegardeAssumption DEF RsyncEchoue, Avancer,
     TypeOK, IUn, IZero, IFantome, Fantome, ISeul, IVerrou, Abri, Complet,
     Actif, Rotation
<1>20. ASSUME NEW t \in Taches, RsyncArrete(t)
       PROVE  IUn'
  BY <1>20, <1>1, <1>2, SauvegardeAssumption DEF RsyncArrete, Avancer,
     TypeOK, IUn, IZero, IFantome, Fantome, ISeul, IVerrou, Abri, Complet,
     Actif, Rotation
<1>21. ASSUME NEW t \in Taches, SupprimerOld(t)
       PROVE  IUn'
  <2>1. /\ rep'["last"] = rep["last"] /\ ~rep'["old"].existe
        /\ rep'["inprogress"] = rep["inprogress"]
        /\ fautes' = fautes /\ sauvegardee' = sauvegardee
        /\ ecrit' = ecrit /\ interrompu' = interrompu
        /\ pc[t] = "old" /\ pc'[t] = "full"
        /\ \A u \in Taches : u # t => pc'[u] = pc[u]
    BY <1>21, EffetOld DEF SupprimerOld, Avancer, TypeOK
  <2>2. fautes = 1 => \A u \in Taches : u # t => pc[u] \notin Rotation
    BY <1>2, <2>1 DEF IFantome, Fantome, Actif, Rotation
  <2>3. SUFFICES ASSUME fautes = 1, sauvegardee  PROVE IUn'
    BY <2>1 DEF IUn
  <2>4. ASSUME NEW u \in Taches, Abri(u)
        PROVE  Abri(u)'
    BY <2>1, <2>4 DEF Abri, Complet, Actif
  <2>5. Abri(t)'
    BY <2>1, <2>3, <2>4 DEF IUn
  <2>6. \A u \in Taches : u # t =>
          /\ pc'[u] \notin Rotation
          /\ pc'[u] = "rsync" /\ ~interrompu'[u] /\ ~ecrit'[u] =>
                 Complet("last")'
          /\ pc'[u] \in {"destination", "rsync"} /\ ~interrompu'[u] =>
                 \/ Complet("last")'
                 \/ \A v \in Taches : v # u => ~Actif(v)'
    BY <2>1, <2>2, <2>3 DEF IUn, Complet, Actif
  <2>7. QED
    BY <2>1, <2>5, <2>6 DEF IUn, Rotation
<1>22. ASSUME NEW t \in Taches, SupprimerOldEchoue(t)
       PROVE  IUn'
  BY <1>22, <1>1, <1>2, EffetOld DEF SupprimerOldEchoue, Avancer, TypeOK, IUn,
     IZero, IFantome, Fantome, IPropre, IEcrit, IImages, ISeul, IVerrou,
     Abri, Complet, Actif, Rotation, Noms
<1>23. ASSUME NEW t \in Taches, RenommerFull(t)
       PROVE  IUn'
  <2>1. /\ fautes' = fautes /\ sauvegardee' = sauvegardee
        /\ ecrit' = ecrit /\ interrompu' = interrompu
        /\ pc[t] = "full" /\ pc'[t] = "renommer"
        /\ \A u \in Taches : u # t => pc'[u] = pc[u]
    BY <1>23 DEF RenommerFull, Avancer, TypeOK
  <2>2. SUFFICES ASSUME fautes = 1, sauvegardee  PROVE IUn'
    BY <2>1 DEF IUn
  <2>3. \A u \in Taches : u # t /\ Actif(u) =>
          pc[u] \notin Rotation /\ interrompu[u]
    BY <1>2, <2>1, <2>2 DEF IFantome, Fantome, Actif, Rotation
  <2>4. ~rep'["last"].existe
    BY <1>23, EffetFull
  <2>5. Abri(t)
    BY <2>1, <2>2 DEF IUn
  <2>6. Complet("old")' \/ Abri(t)'
    <3>1. CASE Complet("last")
      BY <1>23, <3>1, EffetFull DEF Complet
    <3>2. CASE ~Complet("last")
      BY <1>23, <2>1, <2>5, <3>2, EffetFull DEF Complet, Abri, Actif
    <3>3. QED
      BY <3>1, <3>2
  <2>7. \A u \in Taches : u # t =>
          /\ pc'[u] \notin Rotation
          /\ Actif(u) => interrompu'[u]
    BY <2>1, <2>3 DEF Actif, Rotation
  <2>8. QED
    BY <2>1, <2>4, <2>6, <2>7 DEF IUn, Actif, Rotation
<1>24. ASSUME NEW t \in Taches, RenommerFullEchoue(t)
       PROVE  IUn'
  BY <1>24, <1>1, <1>2, SauvegardeAssumption DEF RenommerFullEchoue,
     Avancer, TypeOK, IUn, IZero, IFantome, Fantome, ISeul, IVerrou, Abri,
     Complet, Actif, Rotation
<1>25. ASSUME NEW t \in Taches, RenommerInprogress(t)
       PROVE  IUn'
  BY <1>25, <1>1, <1>2, EffetInprogress DEF RenommerInprogress, Avancer, Seul,
     Complet, TypeOK, IUn, IZero, IFantome, Fantome, IPropre, IEcrit,
     IImages, ISeul, IVerrou, Abri, Complet, Actif, Rotation, Noms
<1>26. ASSUME NEW t \in Taches, RenommerInprogressEchoue(t)
       PROVE  IUn'
  BY <1>26, <1>1, <1>2, SauvegardeAssumption DEF RenommerInprogressEchoue,
     Avancer, TypeOK, IUn, IZero, IFantome, Fantome, ISeul, IVerrou, Abri,
     Complet, Actif, Rotation
<1>27. ASSUME NEW t \in Taches, Nettoyer(t)
       PROVE  IUn'
  BY <1>27, <1>1, <1>2, EffetNettoyer DEF Nettoyer, Avancer, TypeOK, IUn,
     IZero, IFantome, Fantome, IPropre, IEcrit, IImages, ISeul, IVerrou,
     Abri, Complet, Actif, Rotation, Noms
<1>28. ASSUME NEW t \in Taches, NettoyerEchoue(t)
       PROVE  IUn'
  BY <1>28, <1>1, <1>2, EffetNettoyer DEF NettoyerEchoue, Avancer, TypeOK, IUn,
     IZero, IFantome, Fantome, IPropre, IEcrit, IImages, ISeul, IVerrou,
     Abri, Complet, Actif, Rotation, Noms
<1>29. ASSUME NEW t \in Taches, Fin(t)
       PROVE  IUn'
  BY <1>29, <1>1, <1>2, SauvegardeAssumption DEF Fin, Avancer, TypeOK, IUn,
     IZero, IFantome, Fantome, ISeul, IVerrou, Abri, Complet, Actif, Rotation
<1>30. CASE Crash
  BY <1>30, <1>1, <1>2, SauvegardeAssumption DEF Crash, TypeOK, IUn, IZero,
     IFantome, Fantome, ISeul, IVerrou, Abri, Complet, Actif, Rotation
<1>31. CASE UNCHANGED vars
  BY <1>31 DEF vars, tacheVars, TypeOK, IUn, IZero, IFantome, Fantome,
     ISeul, IVerrou, Abri, Complet, Actif, Rotation
<1>32. QED
  BY <1>11, <1>12, <1>13, <1>14, <1>15, <1>16, <1>17, <1>18, <1>19, <1>20,
     <1>21, <1>22, <1>23, <1>24, <1>25, <1>26, <1>27, <1>28, <1>29, <1>30,
     <1>31
     DEF Next, PasRsync, PasRotation

LEMMA PasIInv == IInv /\ [Next]_vars => IInv'
BY TypesGardes, VerrouGarde, SeulGarde, FantomeGarde, EcritGarde,
   ImagesGardees, PropreGarde, ZeroGarde, UnGarde DEF IInv

LEMMA InvariantFull == Spec => []IInv
BY Initial, PasIInv, PTL DEF Spec

-----------------------------------------------------------------------------
(* Every variable keeps its type, for any number of tasks, runs and faults *)
(* (PD_TacheSauvegarde.m:569-638).                                         *)
THEOREM TypesFull == Spec => []TypeOK
<1>1. IInv => TypeOK
  BY DEF IInv
<1>2. QED
  BY <1>1, InvariantFull, PTL

(* After a first backup one fault, whatever it is and wherever it comes,   *)
(* and any number of stops leave a complete copy                           *)
(* (PD_TacheSauvegarde.m:593-624).                                         *)
THEOREM CopieToujoursGardee == Spec => []CopieGardee
<1>1. IInv => CopieGardee
  <2> SUFFICES ASSUME IInv, sauvegardee, fautes <= 1
               PROVE  \E nom \in Noms : Complet(nom)
    BY DEF CopieGardee
  <2>1. fautes = 0 \/ fautes = 1
    BY DEF IInv, TypeOK
  <2>2. CASE fautes = 0
    BY <2>2 DEF IInv, IZero, Noms
  <2>3. CASE fautes = 1
    BY <2>3 DEF IInv, IUn, Abri, Rotation, Noms
  <2>4. QED
    BY <2>1, <2>2, <2>3
<1>2. QED
  BY <1>1, InvariantFull, PTL

(* Without a fault rsync finds no directory to mix its files with          *)
(* (PD_TacheSauvegarde.m:586 and 621-624).                                 *)
THEOREM ImageToujoursExacte == Spec => []ImageExacte
<1>1. IInv => ImageExacte
  BY DEF IInv, IPropre, ImageExacte
<1>2. QED
  BY <1>1, InvariantFull, PTL

(* One of two numbers is the greatest.                                     *)
LEMMA PlusGrand ==
    ASSUME NEW a \in Nat, NEW b \in Nat
    PROVE  \E i \in {a, b} : \A j \in {a, b} : j <= i
<1>1. CASE a <= b
  BY <1>1
<1>2. CASE b <= a
  BY <1>2
<1>3. QED
  BY <1>1, <1>2

(* Without a fault no step takes the newest copy away                      *)
(* (PD_TacheSauvegarde.m:606-619).                                         *)
THEOREM CopieJamaisEnArriere == Spec => JamaisEnArriere
<1>1. IInv /\ IInv' /\ [Next]_vars =>
        [fautes = 0 /\ fautes' = 0 => Meilleure' >= Meilleure]_vars
  <2> SUFFICES ASSUME IInv, IInv', [Next]_vars, fautes = 0, fautes' = 0
               PROVE  Meilleure' >= Meilleure
    OBVIOUS
  <2> USE DEF IInv
  <2>1. /\ Meilleure \in Nat /\ Meilleure' \in Nat
        /\ rep["last"].image <= Meilleure /\ rep["old"].image <= Meilleure
        /\ Meilleure = rep["last"].image \/ Meilleure = rep["old"].image
        /\ rep'["last"].image <= Meilleure' /\ rep'["old"].image <= Meilleure'
        /\ \A nom \in Noms : rep[nom].image \in Nat /\ rep'[nom].image \in Nat
    <3>1. \A nom \in Noms : rep[nom].image \in Nat /\ rep'[nom].image \in Nat
      BY DEF TypeOK, Repertoires
    <3>2. /\ {rep[nom].image : nom \in {"last", "old"}} =
                {rep["last"].image, rep["old"].image}
          /\ {rep'[nom].image : nom \in {"last", "old"}} =
                {rep'["last"].image, rep'["old"].image}
      OBVIOUS
    <3>3. /\ Meilleure \in Nat
          /\ rep["last"].image <= Meilleure /\ rep["old"].image <= Meilleure
          /\ Meilleure = rep["last"].image \/ Meilleure = rep["old"].image
      <4> DEFINE S == {rep[nom].image : nom \in {"last", "old"}}
      <4>1. Meilleure = CHOOSE i \in S : \A j \in S : j <= i
        BY DEF Meilleure
      <4>2. S = {rep["last"].image, rep["old"].image}
        BY <3>2
      <4>3. rep["last"].image \in Nat /\ rep["old"].image \in Nat
        BY <3>1 DEF Noms
      <4> HIDE DEF S
      <4>4. \E i \in S : \A j \in S : j <= i
        BY <4>2, <4>3, PlusGrand
      <4>5. Meilleure \in S /\ \A j \in S : j <= Meilleure
        BY <4>1, <4>4
      <4>6. QED
        BY <4>2, <4>3, <4>5
    <3>4. /\ Meilleure' \in Nat
          /\ rep'["last"].image <= Meilleure'
          /\ rep'["old"].image <= Meilleure'
      <4> DEFINE S == {rep'[nom].image : nom \in {"last", "old"}}
      <4>1. Meilleure' = CHOOSE i \in S : \A j \in S : j <= i
        BY DEF Meilleure
      <4>2. S = {rep'["last"].image, rep'["old"].image}
        BY <3>2
      <4>3. rep'["last"].image \in Nat /\ rep'["old"].image \in Nat
        BY <3>1 DEF Noms
      <4> HIDE DEF S
      <4>4. \E i \in S : \A j \in S : j <= i
        BY <4>2, <4>3, PlusGrand
      <4>5. Meilleure' \in S /\ \A j \in S : j <= Meilleure'
        BY <4>1, <4>4
      <4>6. QED
        BY <4>2, <4>3, <4>5
    <3>5. QED
      BY <3>1, <3>3, <3>4
  <2>2. SUFFICES \/ rep'["last"].image >= Meilleure
                 \/ rep'["old"].image >= Meilleure
    BY <2>1 DEF Noms
  <2>3. CASE rep'["last"] = rep["last"] /\ rep'["old"] = rep["old"]
    BY <2>1, <2>3
  <2>4. ASSUME NEW t \in Taches, SupprimerOld(t) \/ SupprimerOldEchoue(t)
        PROVE  rep'["last"].image >= Meilleure
    <3>1. pc[t] = "old" /\ rep'["last"] = rep["last"]
      BY <2>4, EffetOld DEF SupprimerOld, SupprimerOldEchoue, Avancer
    <3>2. \A u \in Taches : pc[u] # "renommer"
      BY <3>1 DEF ISeul, Actif
    <3>3. rep["old"].image <= rep["last"].image
      BY <3>2 DEF IZero
    <3>4. QED
      BY <2>1, <3>1, <3>3 DEF Noms
  <2>5. ASSUME NEW t \in Taches, RenommerFull(t)
        PROVE  \/ rep'["last"].image >= Meilleure
               \/ rep'["old"].image >= Meilleure
    <3>1. pc[t] = "full"
      BY <2>5 DEF RenommerFull, Avancer
    <3>2. ~rep["old"].existe
      BY <3>1 DEF IZero
    <3>3. rep["old"].image = 0
      BY <3>2 DEF IEcrit, Noms
    <3>4. rep'["old"] = rep["last"] \/ rep' = rep
      BY <2>5, EffetFull
    <3>5. QED
      BY <2>1, <3>3, <3>4 DEF Noms
  <2>6. ASSUME NEW t \in Taches, RenommerInprogress(t)
        PROVE  rep'["last"].image >= Meilleure
    <3>1. pc[t] \in Rotation
      BY <2>6 DEF RenommerInprogress, Avancer, Rotation
    <3>2. rep["inprogress"].existe /\ rep["inprogress"].image > 0
      BY <3>1 DEF IPropre, Complet
    <3>3. rep'["last"] = rep["inprogress"]
      BY <2>6, <3>2, EffetInprogress
    <3>4. QED
      BY <2>1, <3>2, <3>3 DEF IImages, Noms
  <2>7. ASSUME NEW t \in Taches, PasRsync(t)
        PROVE  rep'["last"] = rep["last"] /\ rep'["old"] = rep["old"]
    BY <2>7, EffetDebut, EffetReussit
       DEF PasRsync, DestinationImpossible, RsyncImpossible,
           RsyncSansDestination, RsyncEchoue, RsyncArrete
  <2>8. ASSUME NEW t \in Taches,
               \/ RenommerFullEchoue(t) \/ RenommerInprogressEchoue(t)
               \/ Nettoyer(t) \/ NettoyerEchoue(t)
               \/ Commencer(t) \/ CommencerSansVerrou(t) \/ StopTache(t)
               \/ Fin(t)
        PROVE  rep'["last"] = rep["last"] /\ rep'["old"] = rep["old"]
    BY <2>8, EffetNettoyer
       DEF RenommerFullEchoue, RenommerInprogressEchoue, Commencer,
           CommencerSansVerrou, StopTache, Fin
  <2>9. CASE Crash \/ UNCHANGED vars
    BY <2>3, <2>9 DEF Crash, vars
  <2>10. QED
    BY <2>3, <2>4, <2>5, <2>6, <2>7, <2>8, <2>9 DEF Next, PasRotation
<1>2. QED
  BY <1>1, Initial, PasIInv, PTL DEF Spec, JamaisEnArriere
=============================================================================
