SPECIFICATION Spec
CONSTANTS
    NumSize = 8
    MaxProps = 2
    Changed = {0, 1, 2, 3, 5, 8, 9, 10, 255}
    Inputs <- Bodies
INVARIANTS TypeOK Decoded CutIsRefused Survives AcceptedHasForm
