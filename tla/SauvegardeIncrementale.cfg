CONSTANTS
    MaxTemps = 8
    MaxFautes = 1
    MaxPurges = 1
    Duree <- MCDuree
    Periode <- MCPeriode
    Numero <- MCNumero
    Rang <- MCRang
    Aucune = Aucune
SPECIFICATION Spec
INVARIANTS
    TypeOK
    Couverture
    LienSuit
    LienVivant
CHECK_DEADLOCK FALSE
