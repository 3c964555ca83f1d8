\* Three calls for one slot and one port.
CONSTANTS
    Calls = {c1, c2, c3}
    Ports = {p1}
    MaxForwards = 1
SPECIFICATION FairSpec
INVARIANTS
    IInv
    ListenersAccountedFor
PROPERTIES
    SlotsComeBack
    TunnelsEnd
    KeepsLease
