\* A job canceled while the reclaim statement runs.
CONSTANTS
    Gateways = {g1, g2}
    Approvers = {p1}
    RequiredApprovals = 0
    Reboot = FALSE
    MaxAttempts = 2
    MaxSessions = 2
    MaxCancels = 0
SPECIFICATION Spec
PROPERTY FinalIsFinal
