CONSTANTS
    w1 = w1
    w2 = w2
    p1 = p1
    p2 = p2
    k1 = k1
    k2 = k2
    Points = {p1, p2}
    Ids = {k1, k2}
    IdDuPoint <- DeuxVolumes
    BackupType <- Mixte
    ActionInsersion <- RienAInsersion
    Planning <- MixtePlanning
    Intervalle = 1
    Travailleurs = {w1, w2}
    Aucune = Aucune
    Personne = Personne
    MaxTemps = 2
    MaxBranchements = 0
    MaxDemandes = 1
SPECIFICATION Spec
INVARIANTS
    CleJamaisOubliee
    PlanTriee
SYMMETRY Symetrie
CHECK_DEADLOCK FALSE
