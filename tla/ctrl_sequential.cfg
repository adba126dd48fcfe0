SPECIFICATION Spec
CONSTANTS
    NodeIds = {1, 2, 3}
    Requests = {r1}
    Pools4 <- MCPools4Small
    Pools6 <- MCPools6Two
    Asked6 <- MCAsked6All
    Default4 <- MCDefault4
    Default6 <- MCDefault6
    Octet <- MCOctet
    Endpoints = {}
    NoEp = NoEp
    Absent = Absent
    NoNet = NoNet
    NoPool = NoPool
    Nobody = Nobody
    Nothing = Nothing
INVARIANTS
    AllNodesInPool
PROPERTY RegistrationSucceeds
