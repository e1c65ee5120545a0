\* csv module backend: which inputs end in exit 0, exit 1 or a crash.
CONSTANTS
    HAS_PANDAS = FALSE
    IOFaults = TRUE
    Labels = {1, 2}
    Tables <- OutcomeTables
    FileSystems <- DataFileSystems
SPECIFICATION Spec
INVARIANTS
    SuccessImpliesNumeric
PROPERTIES
    SuccessAfterAllCharts
\* The process exits after the last step.
CHECK_DEADLOCK FALSE
