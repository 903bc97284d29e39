CONSTANTS
    Runners = {r1, r2}
    N = 2
    CampaignOrders <- WaveOrders
    WaveSize = 2
    MaxConcurrent = 1
    Outcomes = {"ok", "failed"}
    Orders = {"advance", "cancel"}
    Faults = {"lapse"}
    MaxFaults = 1
SYMMETRY Symmetry
SPECIFICATION Spec
INVARIANTS TypeOK GateIsHonoured EveryTaskIsFollowed
PROPERTY ImplementsRollout
CHECK_DEADLOCK FALSE
