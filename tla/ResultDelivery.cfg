CONSTANTS
    Results = {r1}
    Messages = {1, 2}
    Handlers = {1, 2}
    Nothing = Nothing
    MaxInflight = 1
    InboxAttempts = 2
    Faults = {"break", "lost", "relay", "agent", "spool", "full", "age", "store", "gateway", "slow"}
    MaxFaults = 1
SPECIFICATION FairSpec
INVARIANTS TypeOK FreedWhenAnswered  OneOwner
PROPERTIES EveryResultIsAnswered RelayDrains
CHECK_DEADLOCK FALSE
