----------------------------- MODULE MC_WinLoop -----------------------------
(***************************************************************************)
(* An instance of WinLoop for TLC: well-formed CSVs of up to four rows    *)
(* over two algorithms (loops of 0 to 2 comparisons per metric, with wins *)
(* both ways and ties; CacheHit equals Makespan, so that a lower value     *)
(* wins one metric and loses the other), and a CSV whose execution time   *)
(* is blank (the conversion at line 357 raises before the loop).          *)
(***************************************************************************)
EXTENDS WinLoop, MC_Visualizer

LoopRows ==
    {[alg |-> a, Makespan |-> v, CacheHit |-> v, TotalExecutionTime |-> 1] :
        a \in {1, 2}, v \in {1, 2}}

LoopTables ==
    TablesOf({Columns}, LoopRows, 4)
    \cup TablesOf({Columns}, RowsOf({1, 2}, {1}, {1}, {BlankCell}), 2)

=============================================================================
