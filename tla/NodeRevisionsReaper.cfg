\* An expired claim next to a pending job of the same node: the reaper's statement is refused.
CONSTANTS
    Nodes = {"n1", "n2"}
    Pushes = {"q1"}
    MaxNodeRevision = 2
    MaxAttempts = 2
    Keep = 2
    MaxDeaths = 0
    OneAtATime = FALSE
    NewestStays = TRUE

SPECIFICATION FairRevisionSpec
PROPERTY ExpiredIsReaped
CHECK_DEADLOCK FALSE
