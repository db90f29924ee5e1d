\* Two devices compete for two slots of one node; sync requests may arrive late.
SPECIFICATION Spec
CONSTANTS
    Nodes = {"n1"}
    s1 = s1
    s2 = s2
    Slots = {s1, s2}
    d1 = d1
    d2 = d2
    fast = fast
    plus = plus
    Devices = {d1, d2}
    Accounts = {"acc"}
    Routes = {fast}
    Keys = {}
    AccountOf <- MCAccountOf
    Hops <- MCHops
    Grid <- MCGrid
    Life <- MCLife
    PolicyNodes = {"n1"}
    DefaultGrid = 1
    DefaultLife = 2
    MinRemaining = 1
    RenewLength = 2
    RenewLead = 0
    DeviceLimit = 2
    AccountLimit = 3
    Window = 1
    MaxLate = 1
    MaxTime = 2
    MaxLeases = 2
    MaxResizes = 0
INVARIANTS
    TypeOK
    OneHolder
    LeasableIsLive
    CutOffAfterRevocation
    RevocationIsComplete
PROPERTIES
    NoEarlyRotation
SYMMETRY Symmetry
