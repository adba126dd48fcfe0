SPECIFICATION Spec
SYMMETRY MCSymmetry
CONSTANTS
    Ends = {a, b}
    ConeNats = {c1, c2}
    SymmetricNats = {s1, s2}
    Open = Open
    Stun = Stun
    Stun1 = Stun1
    Relay = Relay
    RelayUses = {u1, u2}
    AnyDest = AnyDest
    Lan = Lan
    None = None
INVARIANTS
    TypeOK
    OwnMapping
    AnsweredMeansSymmetric
    PunchedEndpointsWork
    ForwardedToItsNode
