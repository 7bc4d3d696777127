CONSTANTS
    a = a
    b = b
    c = c
    croissant = croissant
    decroissant = decroissant
    Cles <- MCCles
    Tris <- MCTris
    SansTri = SansTri
    Trier <- MCTrier
    Aucune = Aucune
    MaxMontages = 3
    MaxBoutons = 2
SPECIFICATION Spec
INVARIANTS
    TypeOK
    BaseCoherente
    ActionSurCleChoisie
    MonteeConnue
CHECK_DEADLOCK FALSE
