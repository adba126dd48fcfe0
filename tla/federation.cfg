SPECIFICATION FairSpec
CONSTANTS
    Controllers = {a, b}
    Local = Local
    Nowhere = Nowhere
    Requests = {r1, r2}
    None = None
INVARIANTS
    TypeOK
    AnnouncedFirst
PROPERTIES
    SuccessIsRecorded
    EveryPeeringEnds
