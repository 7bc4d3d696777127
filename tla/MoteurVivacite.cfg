CONSTANTS
    w1 = w1
    w2 = w2
    p1 = p1
    p2 = p2
    k1 = k1
    k2 = k2
    Points = {p1}
    Ids = {k1}
    IdDuPoint <- UnVolume
    BackupType <- Deux
    ActionInsersion <- Deux
    Planning <- Deux
    Intervalle = 1
    Travailleurs = {w1, w2}
    Aucune = Aucune
    Personne = Personne
    MaxTemps = 1
    MaxBranchements = 0
    MaxDemandes = 1
SPECIFICATION FairSpec
PROPERTIES
    RessourceRendue
    AttenteFinie
    DispatcheurRevient
CHECK_DEADLOCK FALSE
