\* Two sessions of the host over two gateways.
CONSTANTS
    Gateways = {g1, g2}
    MaxSessions = 2
SPECIFICATION Spec
SYMMETRY Symmetry
INVARIANTS TypeOK
PROPERTIES ImplementsHostOwner LostForGood SupersededReleasesNothing NewestRowStands
