SPECIFICATION Spec
SYMMETRY MCSymmetry
CONSTANTS
    NodeIds = {1, 2}
    Requests = {r1, r2}
    Pools4 <- MCPools4
    Pools6 <- MCPools6
    Asked6 <- MCAsked6
    Default4 <- MCDefault4
    Default6 <- MCDefault6
    Octet <- MCOctet
    Endpoints = {e1}
    NoEp = NoEp
    Absent = Absent
    NoNet = NoNet
    NoPool = NoPool
    Nobody = Nobody
    Nothing = Nothing
INVARIANTS
    TypeOK
    UniqueAddresses
    LockedViewIsCurrent
PROPERTIES
    ReallocationIsComplete
    AddressesComeFromAllocations
    EndpointsComeFromTheNode
