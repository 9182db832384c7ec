SPECIFICATION Spec
CONSTANTS
    Faults = {"torn"}
    MaxBatch = 2
    MaxEvents = 4
    MaxPending = 2
    MaxRestarts = 3
INVARIANTS TypeOK SeqInOrder AlwaysReadable CasExclusive
PROPERTIES LogSpec
CHECK_DEADLOCK FALSE
