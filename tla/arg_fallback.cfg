\* Which file is analysed when the argument names a missing file?
CONSTANTS
    HAS_PANDAS = FALSE
    IOFaults = FALSE
    Labels = {1}
    Tables <- OneRowTables
    FileSystems <- AllFileSystems
SPECIFICATION Spec
INVARIANTS
    ArgumentHonoured
\* The process exits after the last step.
CHECK_DEADLOCK FALSE
