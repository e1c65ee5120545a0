\* csv module backend, well-formed CSVs in which an algorithm's Makespan
\* values are all 0: the improvement printed by the report.
CONSTANTS
    HAS_PANDAS = FALSE
    IOFaults = FALSE
    Labels = {1, 2}
    Tables <- ZeroTables
    FileSystems <- DataFileSystems
SPECIFICATION Spec
INVARIANTS
    ImprovementsFinite
\* The process exits after the last step.
CHECK_DEADLOCK FALSE
