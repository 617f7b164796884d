CONSTANTS
    A = A
    B = B
    C = C
    D = D
    None = None
    Nodes = {A, B, C, D}
    Voters = {A, B, C}
    Of <- MCOf
    Cuts <- MCCuts
    BlacklistTTL = 2
    MaxFaults = 2
SPECIFICATION Spec
INVARIANT FailHasMajority MinorityStops ForgottenStays RecoversInTime
SYMMETRY Symmetry
CHECK_DEADLOCK FALSE
