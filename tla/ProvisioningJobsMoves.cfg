\* A device subscribes, is moved between two nodes and is revoked.
SPECIFICATION Spec
CONSTANTS
    Devices = {"d1"}
    Nodes = {"n1", "n2"}
    Placements = {"n1", "n2", "POLICY", "CAPACITY"}
    MaxAttempts = 1
    RequireToken = TRUE
    TokenNodes = {"n1", "n2"}
    PromptReports = TRUE
    Changes = {"renew", "revoke", "move"}
    MaxEvents = 2
    MaxJobs = 5
    MaxFaults = 1
INVARIANTS
    
    BreakAfterMake
CHECK_DEADLOCK FALSE
