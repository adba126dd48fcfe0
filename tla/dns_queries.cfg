SPECIFICATION FairSpec
CONSTANTS
    NodeIds = {n1, n2}
    Tlds = {cr}
    Addresses <- MCAddresses
    CtrlIp = 100
    Queries = {q1, q2}
    Absent = Absent
    NoName = NoName
    MaxChanges = 2
INVARIANT TypeOK
PROPERTIES
    NamesStayPrivate
    KnownNamesResolve
    EveryQueryEnds
