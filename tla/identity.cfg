SPECIFICATION FairSpec
CHECK_DEADLOCK FALSE
CONSTANTS
    NodeIds = {n1, n2}
    Addresses <- MCAddresses
    Absent = Absent
    Missing = Missing
    Torn = Torn
    Nothing = Nothing
    MaxChanges = 3
    MaxFaults = 2
INVARIANTS
    TypeOK
    CopiesAreGenuine
    RestartKeepsNode
    RestartResumes
PROPERTY AddressCatchesUp
