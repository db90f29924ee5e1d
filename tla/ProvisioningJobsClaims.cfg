\* The jobs of one identity: agents and handlers die, claims lapse, the device is revoked.
SPECIFICATION FairSpec
CONSTANTS
    Devices = {"d1"}
    Nodes = {"n1"}
    Placements = {"n1"}
    MaxAttempts = 2
    RequireToken = TRUE
    TokenNodes = {"n1"}
    PromptReports = TRUE
    Changes = {"subscribe", "lapse", "revoke"}
    MaxEvents = 2
    MaxJobs = 4
    MaxFaults = 2
INVARIANTS
    TypeOK
PROPERTIES
    JobsCloseRightly
    RevokedGoesDark
CHECK_DEADLOCK FALSE
