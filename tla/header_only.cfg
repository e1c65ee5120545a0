\* Well-formed input with a header and no data row.
CONSTANTS
    HAS_PANDAS = FALSE
    IOFaults = FALSE
    Labels = {1, 2}
    Tables <- HeaderOnlyTables
    FileSystems <- DataFileSystems
SPECIFICATION Spec
INVARIANTS
    CrashOnlyOnMalformed
\* The process exits after the last step.
CHECK_DEADLOCK FALSE
