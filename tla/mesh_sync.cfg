SPECIFICATION MCFairSpec
CHECK_DEADLOCK FALSE
CONSTANTS
    NodeIds = {n1, n2, n3}
    Daemons = {n1}
    Addresses <- MCAddresses
    Prefixes = {p1}
    Hostnames <- NodeIds
    Namings <- MCNamings
    Absent = Absent
    NoConfig = NoConfig
    MaxChanges = 4
    MaxFaults = 1
INVARIANTS
    TypeOK
    NamesReachTheirNodes
PROPERTIES
    OneTurnSuffices
    Convergence
