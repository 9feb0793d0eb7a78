SPECIFICATION Spec
CONSTANTS
    vpn = vpn  lab = lab  old = old  ann = ann  bob = bob  ppp = ppp  l2tp = l2tp
    r1 = r1  r2 = r2  a1 = a1  a2 = a2  b1 = b1  b2 = b2
    e1 = e1  e2 = e2  e3 = e3  e4 = e4
    Source = {vpn}
    EnabledSource = {vpn}
    SourceServices <- MCSourceServices
    User = {ann, bob}
    Service = {ppp}
    RouterSessionId = {r1, r2}
    Text = {a1, a2}
    BootId = {b1, b2}
    EventId = {e1, e2}
    SessionId = {s1, s2, s3}
    None = None
    Empty = Empty
    Worker = {w1, w2}
    Events <- ConnectDisconnect
    Snapshots <- EmptySnapshot
PROPERTY ClosedIsFinal
