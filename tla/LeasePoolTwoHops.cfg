\* One device on a two-hop route; retries with a key; the pools may be resized.
SPECIFICATION TwoHopsSpec
CONSTANTS
    Nodes = {"n1", "n2"}
    s1 = s1
    s2 = s2
    Slots = {s1, s2}
    d1 = d1
    d2 = d2
    fast = fast
    plus = plus
    Devices = {d1}
    Accounts = {"acc"}
    Routes = {plus}
    Keys = {"k"}
    AccountOf <- MCAccountOf
    Hops <- MCHops
    Grid <- MCGrid
    Life <- MCLife
    PolicyNodes = {"n1", "n2"}
    DefaultGrid = 1
    DefaultLife = 2
    MinRemaining = 1
    RenewLength = 2
    RenewLead = 0
    DeviceLimit = 2
    AccountLimit = 3
    Window = 1
    MaxLate = 0
    MaxTime = 1
    MaxLeases = 2
    MaxResizes = 1
INVARIANTS
    LeasesAgree
    RouteEndsByExpiry
PROPERTIES
    ImplementsExclusiveLease
SYMMETRY Symmetry
