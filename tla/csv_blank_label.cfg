\* csv module backend: can a record with an empty label be analysed?
CONSTANTS
    HAS_PANDAS = FALSE
    IOFaults = FALSE
    Labels = {1, 2}
    Tables <- OutcomeTables
    FileSystems <- DataFileSystems
SPECIFICATION Spec
INVARIANTS
    SuccessImpliesLabelled
\* The process exits after the last step.
CHECK_DEADLOCK FALSE
