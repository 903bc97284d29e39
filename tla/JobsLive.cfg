\* Sweeps, time and the host are fair; deliveries, sessions and answers are not.
CONSTANTS
    Gateways = {g1}
    Approvers = {p1}
    RequiredApprovals = 1
    Reboot = FALSE
    MaxAttempts = 2
    MaxSessions = 1
    MaxCancels = 1
SPECIFICATION FairSpec
PROPERTIES EventuallySettled
