SPECIFICATION SystemSpec
CONSTANTS
    vpn = vpn  ann = ann  bob = bob  ppp = ppp  a1 = a1  a2 = a2  f1 = f1  f2 = f2
    Source = {vpn}
    EnabledSource = {vpn}
    SourceServices <- MCSourceServices
    User = {ann, bob}
    Service = {ppp}
    RouterSessionId = {1, 2}
    Text = {a1, a2, f1, f2}
    BootId = {}
    EventId <- MCEventId
    SessionId = {1, 2, 3, 4, 5, 6}
    None = None
    Empty = Empty
    Events <- MCEvents
    Snapshots <- MCSnapshots
    OwnSource = vpn
    OwnService = ppp
    KeyOrder <- MCKeyOrder
    Endpoints <- MCEndpoints
    Horizon = 4
    ActiveUntil = 1
    MaxDelay = 1
    MaxSkew = 1
    MaxFaults = 1
    Overlapped <- Reconnects
    Slow = Slow
VIEW LiveState
INVARIANT IdentifiedEndIsReal
PROPERTY Repair
