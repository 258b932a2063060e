SPECIFICATION Spec
CONSTANTS
    Streams = {4, 6}
    Lengths = {1, 2}
    Times = {1, 5}
    Deltas = {2, 5}
    Limit = 3
    Half = 8
    InType3 = {FALSE, TRUE}
    MaxMsgs = 3
INVARIANTS TypeOK FieldsRight TimestampsRight
