CONSTANTS
    Taches = {t1, t2}
    Personne = Personne
    MaxRsync = 4
    MaxFautes = 2
SPECIFICATION Spec
INVARIANTS
    TypeOK
    CopieGardee
    ImageExacte
PROPERTIES
    JamaisEnArriere
CHECK_DEADLOCK FALSE
