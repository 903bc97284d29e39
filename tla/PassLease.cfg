CONSTANTS
    i1 = i1
    i2 = i2
    h1 = h1
    Instances = {i1, i2}
    NoInstance = NoInstance
    Hosts = {h1}
    MaxToken = 3
    MaxInputs = 1
SPECIFICATION Spec
SYMMETRY Symmetry
INVARIANT TokenIsUnique
 
CHECK_DEADLOCK FALSE
