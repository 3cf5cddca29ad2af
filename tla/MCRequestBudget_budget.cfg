\* An archive worker and the API share one gate and one ledger.
SPECIFICATION FairSpec
CONSTANTS
    Archive = {w1}
    Other = {api}
    Window = 2
    Ceiling = 2
    Cooldown = 3
    MinInterval = 1
    Need = {3}
    MaxLoads = 2
    MaxLimits = 1
    MaxFailures = 1
INVARIANTS SendsBounded CooldownRespected PausesJustified
PROPERTY LoadsEnd
