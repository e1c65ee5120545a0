\* csv module backend with I/O faults: the step-wise win-rate loop
\* implements Visualizer's one-step ExecWinChart.
CONSTANTS
    HAS_PANDAS = FALSE
    IOFaults = TRUE
    Labels = {1, 2}
    Tables <- LoopTables
    FileSystems <- DataFileSystems
SPECIFICATION LoopSpec
PROPERTIES
    Refinement
\* The process exits after the last step.
CHECK_DEADLOCK FALSE
