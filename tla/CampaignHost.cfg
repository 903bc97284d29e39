CONSTANTS
    Runners = {r1}
    N = 1
    CampaignOrders <- HostOrders
    WaveSize = 2
    MaxConcurrent = 1
    Outcomes = {"ok", "failed", "reboot", "nochange", "refused", "lost", "absent"}
    Orders = {"approve", "pause", "advance", "cancel", "skip"}
    Faults = {"pass", "stop", "lapse", "hold", "host", "refused", "task", "window", "age"}
    MaxFaults = 1

SPECIFICATION Spec
INVARIANTS  SuccessIsVerified EndIsTheHostsEnd
CHECK_DEADLOCK FALSE
