SPECIFICATION CountersSpec
CONSTANTS
    Modulus = 40
    Windows = {8, 11, 16}
    MaxRead = 4
    MaxBacklog = 30
INVARIANTS CountersOK AtMostHalfUnacked
