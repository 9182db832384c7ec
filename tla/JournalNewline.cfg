SPECIFICATION Spec
CONSTANTS
    Faults = {"torn", "whole"}
    MaxBatch = 2
    MaxEvents = 4
    MaxPending = 2
    MaxRestarts = 3
INVARIANT AlwaysReadable
CHECK_DEADLOCK FALSE
