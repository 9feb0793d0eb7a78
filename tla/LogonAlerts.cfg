SPECIFICATION Spec
CONSTANTS
    EventId = {e1, e2}
    Lookback = 3
    Period = 2
    MaxWait = 1
    Horizon = 8
    None = None
SYMMETRY Symmetry
INVARIANTS AInv NoConnectMissed
PROPERTY AlertFiresOnce
