CONSTANTS
    A = A
    B = B
    C = C
    k1 = k1
    k2 = k2
    None = None
    Nodes = {A, B, C}
    Id <- MCId
    Slots = {0, 1}
    Keys = {k1, k2}
    SlotOf <- MCSlotOf
    Values = {x}
    MaxPackets = 1
    MaxWrites = 2
SPECIFICATION Spec
INVARIANT TypeOK  GossipFixpointAgrees
 
CHECK_DEADLOCK FALSE
