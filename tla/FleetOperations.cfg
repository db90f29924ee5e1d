\* A serving node is replaced, another is created, failed nodes are cleaned up.
SPECIFICATION FairSpec
CONSTANTS
    Nodes = {"a", "b"}
    Devices = {"d"}
    Serving = {"a"}
    Kinds = {"CREATE_NODE", "REPLACE_NODE", "CLEANUP_ABANDONED_NODE"}
    AdminMoves = {"QUARANTINED", "RETIRED"}
    ReadyPasses = 2
    Calls = {"c1"}
    OneCall = TRUE
    MaxOps = 2
    MaxFaults = 1
INVARIANTS
    TypeOK
PROPERTIES
    ServersHold
    QuarantineHolds
    OperationsEnd
CHECK_DEADLOCK FALSE
