\* A restart of the host that two persons approve, between two gateways and two
\* sessions of the host, with one cancel and room for a second delivery.
CONSTANTS
    Gateways = {g1, g2}
    Approvers = {p1, p2}
    RequiredApprovals = 2
    Reboot = TRUE
    MaxAttempts = 2
    MaxSessions = 2
    MaxCancels = 1
SPECIFICATION Spec
SYMMETRY Symmetry
INVARIANTS TypeOK CarriedByAnOpenAttempt RebootSentOnce ApprovedBeforeDelivery 
PROPERTIES SettledStaysSettled CapacityGoesBackWithTheJob 
