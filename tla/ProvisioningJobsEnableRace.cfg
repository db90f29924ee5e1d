\* A subscription lapses and is renewed, and the device is revoked before it is enabled again.
SPECIFICATION Spec
CONSTANTS
    Devices = {"d1"}
    Nodes = {"n1"}
    Placements = {"n1"}
    MaxAttempts = 2
    RequireToken = TRUE
    TokenNodes = {"n1"}
    PromptReports = TRUE
    Changes = {"subscribe", "lapse", "revoke"}
    MaxEvents = 3
    MaxJobs = 4
    MaxFaults = 0
PROPERTY RevokedStaysOff
CHECK_DEADLOCK FALSE
