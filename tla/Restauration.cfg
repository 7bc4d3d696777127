CONSTANTS
    Fils <- MCFils
    MaxDus = 2
    MaxRestaurations = 1
    MaxOuvertures = 2
    Tours = 2
SPECIFICATION Spec
CHECK_DEADLOCK FALSE
INVARIANTS
    TypeOK
    OrdonnanceurReprend
    RestaurationSeule
PROPERTIES
    AucunLancement
    ModaleFinit
    PlanServi
