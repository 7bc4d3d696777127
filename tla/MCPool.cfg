CONSTANTS
    w1 = w1
    w2 = w2
    t1 = t1
    t2 = t2
    t3 = t3
    Threads <- DeuxThreads
    Taches <- TroisTaches
    Arret = Arret
    Aucune = Aucune
SPECIFICATION FairSpec
INVARIANTS
    TypeOK
    PasDeReveilPerdu
    CompteurFidele
    ArretComplet
PROPERTIES
    RaffineExecuteur
    ToutSeTermine
CHECK_DEADLOCK FALSE
