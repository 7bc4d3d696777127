CONSTANTS
    Noms <- MCNoms
    Noeuds <- MCNoeuds
    Repertoires <- MCRepertoires
    Aucun = Aucun
SPECIFICATION Spec
INVARIANTS
    TypeOK
    Coherence
PROPERTIES
    RaffineSelection
