CONSTANTS
    Runners = {r1, r2}
    N = 1
    CampaignOrders <- LiveOrders
    WaveSize = 1
    MaxConcurrent = 1
    Outcomes = {"ok", "failed"}
    Orders = {"cancel"}
    Faults = {"lapse", "stop"}
    MaxFaults = 1
SPECIFICATION FairSpec
PROPERTIES  CancelDrains
CHECK_DEADLOCK FALSE
