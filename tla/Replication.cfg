SPECIFICATION FairSpec
CONSTANTS
    a = a
    b = b
    c = c
    None = None
    Nodes = {a, b, c}
    BacklogSize = 1
    Scenarios <- Small
INVARIANTS TypeOK StreamContinues AcceptedIsShared
PROPERTY Converges
CHECK_DEADLOCK FALSE
