SPECIFICATION FairSpec
CONSTANTS
    Upgrader = {unit, admin}
    Unit = unit
    MaxTrouble = 2
    Idle = Idle
    Script = {p1, p2}
    Handler = {h1}
    RouterId = {1}
    RouterName = {edge}
    SourceId = {1, 2, 3}
    SourceName = {n1, n2}
    Secret = {1, 2, 3, 4}
    NewKeys <- Least
    None = None
INVARIANTS DInv ServesKnownSchema UniqueSourceNames NoLockout RotationRevokes RevokedStaysOut
PROPERTIES RevocationIsFinal EventuallyServes
