SPECIFICATION RegistrySpec
CONSTANTS
    k1 = k1
    k2 = k2
    NoFile = NoFile
    NoDigest = NoDigest
    Roles <- BothRoles
    Principals <- TwoSets
    MaxVersion <- OneChange
SYMMETRY SameSets
VIEW Distinguished
INVARIANTS
    ServedOnlyAdvances
    ServedIsLedgered
    LatestIsAdmitted
