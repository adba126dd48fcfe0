SPECIFICATION Spec
SYMMETRY MCSymmetry
CONSTANTS
    Requests = {r1, r2, r3}
    Tokens = {t1}
    Limits = {2, NoLimit}
    NoLimit = NoLimit
    Absent = Absent
    AnyPort = AnyPort
    RuleSet <- MCRuleSet
    Packets <- MCPackets
    MaxAdmissions = 3
    MaxRules = 3
INVARIANTS
    TypeOK
    NotRefusedEarly
    ChainFollowsEngine
