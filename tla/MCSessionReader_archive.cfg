CONSTANTS
    None = None
    Spelling <- Spellings
    Canonical <- Names
    Feed <- Feeds
    RaceLike = TRUE
    BatchSize = 2
    MaxVersions = 3
    MaxAborts = 1
    PageSize = 1
    Slots = 2
    MaxFailures = 1
SPECIFICATION Spec
INVARIANT NeverRefused
INVARIANT LapsOfOneSnapshot
INVARIANT SelectionsComparable
PROPERTY Replaces
