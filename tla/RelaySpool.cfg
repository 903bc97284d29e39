CONSTANTS
    Messages = {1, 2, 3, 4}
    Stream <- StreamOf
    MaxSegment = 3
    SegmentBytes = 3
    MaxBytes = 6
    ReserveBytes = 2
    MaxInflight = 2
    Failures = {"write", "short", "sync", "roll"}
    MaxFailures = 1
SPECIFICATION Spec
INVARIANTS TypeOK IndexIsReadable SegmentsAreCounted
PROPERTY ImplementsRelayQueue
