--------------------------- MODULE MC_Visualizer ---------------------------
(***************************************************************************)
(* Instances of Visualizer for TLC.  Each set of tables is every CSV with  *)
(* at most n rows drawn from a small set of rows, under a few headers;     *)
(* each .cfg picks the set that makes its question's cases happen.         *)
(***************************************************************************)
EXTENDS Visualizer

RowsOf(alg, mk, ch, et) ==
    [alg : alg, Makespan : mk, CacheHit : ch, TotalExecutionTime : et]

TablesOf(headers, rows, n) ==
    {[header |-> h, rows |-> s] :
        h \in headers, s \in UNION {[1..k -> rows] : k \in 0..n}}

\* Full headers, headers lacking a metric or the Algorithm column, the
\* empty file; rows with blank labels, bad and blank cells; up to 2 rows.
OutcomeTables ==
    TablesOf({Columns, Columns \ {"CacheHit"}, Columns \ {"Algorithm"}},
             RowsOf({0, 1, 2}, {1, 2, BadCell}, {1, BlankCell},
                    {1, BlankCell}), 2)
    \cup {NoTable}

\* Well-formed tables of up to 4 rows over two algorithms: two positional
\* pairs, with wins, losses and ties on every metric.
WinRateTables ==
    TablesOf({Columns}, RowsOf({1, 2}, {1, 2}, {1, 2}, {1, 2}), 4)

\* Well-formed tables with up to five algorithms.
ManyLabelTables ==
    TablesOf({Columns}, RowsOf(1..5, {1}, {1}, {1}), 5)

\* A CSV with the header and no data row.
HeaderOnlyTables ==
    {[header |-> Columns, rows |-> << >>]}

\* A well-formed one-row CSV.
OneRowTables ==
    TablesOf({Columns}, RowsOf({1}, {1}, {1}, {1}), 1)

\* No CSV at all, or one at both the argument's and the default place.
DataFileSystems == {{}, {"argCwd", "defCwd"}}

AllFileSystems == SUBSET Paths

\* Well-formed tables of up to two rows whose Makespan may be 0.
ZeroTables ==
    TablesOf({Columns}, RowsOf({1, 2}, {0, 1}, {1}, {1}), 2)

\* Five algorithm names, one more than a chart palette has colours.
FiveLabels == 1..5

=============================================================================
