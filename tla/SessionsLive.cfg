\* Two sessions that meet on one gateway, its reaper running.
CONSTANTS
    Gateways = {g1}
    MaxSessions = 2
SPECIFICATION FairSpec
PROPERTIES  OrphanRowsAreClosed
