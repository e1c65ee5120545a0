\* csv module backend, well-formed data: the positional win rates.
CONSTANTS
    HAS_PANDAS = FALSE
    IOFaults = FALSE
    Labels = {1, 2}
    Tables <- WinRateTables
    FileSystems <- DataFileSystems
SPECIFICATION Spec
INVARIANTS
    TypeOK
    WinRateBounded
\* The process exits after the last step.
CHECK_DEADLOCK FALSE
