\* Two deliveries of one operation.
CONSTANT MaxAttempts = 2
SPECIFICATION FairSpec
INVARIANT AtMostOnce
PROPERTIES FirstResultStands KeyIsFreed
