SPECIFICATION Spec
CONSTANTS
    Byte = {0, 1}
    InitCapacity = 1
    Capacities = {1, 2, 4}
    MaxBlock = 3
INVARIANT TypeOK
PROPERTIES ImplementsByteQueue GrowsOnlyWhenNeeded
