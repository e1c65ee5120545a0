\* pandas backend: can a blank metric cell reach a successful report?
CONSTANTS
    HAS_PANDAS = TRUE
    IOFaults = FALSE
    Labels = {1, 2}
    Tables <- OutcomeTables
    FileSystems <- DataFileSystems
SPECIFICATION Spec
INVARIANTS
    SuccessImpliesNumeric
\* The process exits after the last step.
CHECK_DEADLOCK FALSE
