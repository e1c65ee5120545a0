----------------------------- MODULE Visualizer -----------------------------
(***************************************************************************)
(* The control of src/code/simu/src/visualizer/visualize.py: main() builds *)
(* an AlgorithmVisualizer (result directory and CSV file discovery), then  *)
(* run_full_analysis() loads the CSV, saves three charts and prints the    *)
(* report.  The program is one sequential process; what the model keeps is *)
(* every point where it stops: a failed load (exit status 1), an uncaught  *)
(* exception at a given source line, or success (exit status 0).          *)
(*                                                                         *)
(* Data abstraction.  An algorithm label is a positive natural (the order  *)
(* of naturals stands for Python's order on the label strings); the blank  *)
(* label 0 is the empty CSV cell, read as '' by the csv module (sorting    *)
(* before every label) and as NaN by pandas.  A metric cell is a natural   *)
(* (a number), BadCell (text that float() rejects) or BlankCell (an empty  *)
(* cell: '' for csv, NaN for pandas).  Scaling CacheHit by 100 and every   *)
(* drawing call are left out: no outcome depends on them.                  *)
(***************************************************************************)
EXTENDS Naturals, Integers, Sequences, FiniteSets

CONSTANTS
    HAS_PANDAS,   \* whether `import pandas` succeeded (lines 28-36)
    IOFaults,     \* whether makedirs/savefig may raise (disk full, no rights)
    Labels,       \* the algorithm names that may appear in a CSV
    Tables,       \* the CSV contents a present file may have
    FileSystems   \* the sets of candidate CSV paths that may exist

BlankLabel == 0
BadCell == -1
BlankCell == -2
AllLabels == Labels \cup {BlankLabel}
Cells == Nat \cup {BadCell, BlankCell}

Metrics == {"Makespan", "CacheHit", "TotalExecutionTime"}
Columns == {"Algorithm"} \cup Metrics
Row == [alg : AllLabels, Makespan : Cells, CacheHit : Cells,
        TotalExecutionTime : Cells]
TableType == [header : SUBSET Columns, rows : Seq(Row)]

\* The places _find_csv_file looks at: the argument as given, the argument
\* inside the result directory, and the default file name in the result
\* directory, in the working directory and in ../result.
Paths == {"argCwd", "argRd", "defRd", "defCwd", "defUp"}

Charts == {"makespan_analysis.png", "cache_hit_analysis.png",
           "execution_time_and_win_rate_analysis.png"}
Steps == {"init", "load", "makespan", "cachehit", "exec", "report", "done"}
Statuses == {"running", "exit0", "exit1", "crashed"}

\* The lines at which an uncaught exception can end the run.
FaultLines == {92, 168, 203, 215, 232, 248, 260, 296, 309, 327, 343, 357,
               411, 447, 459, 481}

\* The colour lists of the three charts have four entries (lines 175, 267).
PaletteSize == 4

ASSUME ConstantsAssumption ==
    /\ HAS_PANDAS \in BOOLEAN
    /\ IOFaults \in BOOLEAN
    /\ Labels \subseteq Nat \ {0}
    /\ Tables \subseteq TableType
    /\ FileSystems \subseteq SUBSET Paths
    /\ FileSystems # {}

VARIABLES
    argGiven,    \* len(sys.argv) > 1
    present,     \* which candidate CSV paths exist
    csvFile,     \* self.csv_file
    table,       \* self.data: the header and rows read from csvFile
    algorithms,  \* self.algorithms, kept as a set (the list is sorted)
    saved,       \* the chart files written so far
    compared,    \* `total` of the win-rate loop: pairs compared
    wins,        \* `wins` of the win-rate loop, per metric
    pc,          \* the step of run_full_analysis reached
    status,      \* running, or how the process ended
    fault        \* the line of the uncaught exception, 0 if none

vars == <<argGiven, present, csvFile, table, algorithms, saved, compared,
          wins, pc, status, fault>>

MinOf(S) == CHOOSE x \in S : \A y \in S : x <= y

(***************************************************************************)
(* _find_csv_file: the first candidate that exists, else csv_file itself.  *)
(* Without an argument csv_file is the default name, so the first two      *)
(* candidates are the default file in the working and result directories. *)
(***************************************************************************)
Candidates(arg) ==
    IF arg THEN <<"argCwd", "argRd", "defRd", "defCwd", "defUp">>
           ELSE <<"defCwd", "defRd", "defRd", "defCwd", "defUp">>

FindCsvFile(arg, files) ==
    LET found == {k \in 1..5 : Candidates(arg)[k] \in files}
    IN  IF found = {} THEN Candidates(arg)[1]
                      ELSE Candidates(arg)[MinOf(found)]

NoTable == [header |-> {}, rows |-> << >>]

LabelsOf(t) == {t.rows[i].alg : i \in 1..Len(t.rows)}

(***************************************************************************)
(* load_data fails (returns False) when pandas cannot read the Algorithm   *)
(* column (line 120), or holds a NaN label: sorted() of NaN and strings    *)
(* raises, and so does ', '.join of a NaN at line 137.  The csv module     *)
(* fails only when a row lacks the Algorithm key (line 133).               *)
(***************************************************************************)
\* Mutant: a loader that lets NaN labels through (no sort, no join check).
LoadFailsNoLabelCheck(t) ==
    \/ HAS_PANDAS /\ "Algorithm" \notin t.header
    \/ /\ ~HAS_PANDAS
       /\ "Algorithm" \notin t.header
       /\ Len(t.rows) > 0

LoadFails(t) ==
    \/ /\ HAS_PANDAS
       /\ \/ "Algorithm" \notin t.header
          \/ BlankLabel \in LabelsOf(t)
    \/ /\ ~HAS_PANDAS
       /\ "Algorithm" \notin t.header
       /\ Len(t.rows) > 0

(***************************************************************************)
(* _get_algorithm_data(a, m): the rows whose label equals a (NaN equals    *)
(* nothing under pandas), and whether converting their m cells raises.     *)
(***************************************************************************)
Matches(lbl, a) == lbl = a /\ ~(HAS_PANDAS /\ a = BlankLabel)

GroupIdx(a) == {i \in 1..Len(table.rows) : Matches(table.rows[i].alg, a)}

Cell(i, m) == table.rows[i][m]

\* Mutant: the csv path converting an empty cell to NaN, as pandas does.
ConversionFailsBlankAccepted(a, m) ==
    \/ /\ HAS_PANDAS
       /\ \/ m \notin table.header
          \/ \E i \in GroupIdx(a) : Cell(i, m) = BadCell
    \/ /\ ~HAS_PANDAS
       /\ \E i \in GroupIdx(a) :
             m \notin table.header \/ Cell(i, m) = BadCell

ConversionFails(a, m) ==
    \/ /\ HAS_PANDAS
       /\ \/ m \notin table.header
          \/ \E i \in GroupIdx(a) : Cell(i, m) = BadCell
    \/ /\ ~HAS_PANDAS
       /\ \E i \in GroupIdx(a) :
             m \notin table.header \/ Cell(i, m) \in {BadCell, BlankCell}

\* np.histogram raises on a NaN value (pandas reads a blank cell as NaN).
HistogramFails(a, m) ==
    HAS_PANDAS /\ \E i \in GroupIdx(a) : Cell(i, m) = BlankCell

(***************************************************************************)
(* The win-rate loop of create_execution_time_and_win_rate_analysis pairs  *)
(* the k-th value of the first two (sorted) algorithms, k < min of their   *)
(* lengths.  A comparison with NaN is false.                               *)
(***************************************************************************)
First == MinOf(algorithms)
Second == MinOf(algorithms \ {First})

Nth(G, k) == CHOOSE i \in G : Cardinality({j \in G : j <= i}) = k

Value(a, m, k) == Cell(Nth(GroupIdx(a), k), m)

Compared(a, b) ==
    LET la == Cardinality(GroupIdx(a))
        lb == Cardinality(GroupIdx(b))
    IN  IF la < lb THEN la ELSE lb

\* Mutant: a tie counted as a win (`<=` for `<`).
BetterOrTie(m, x, y) ==
    /\ x \in Nat
    /\ y \in Nat
    /\ IF m = "CacheHit" THEN x >= y ELSE x <= y

Better(m, x, y) ==
    /\ x \in Nat
    /\ y \in Nat
    /\ IF m = "CacheHit" THEN x > y ELSE x < y

\* Mutant: `wins = 0` hoisted out of the metrics loop, so each metric's
\* count includes the wins of the metrics before it.
WinsNoReset(a, b, m) ==
    LET upTo == IF m = "Makespan" THEN {"Makespan"}
                ELSE IF m = "CacheHit" THEN {"Makespan", "CacheHit"}
                ELSE Metrics
    IN  Cardinality({p \in upTo \X (1..Compared(a, b)) :
                        Better(p[1], Value(a, p[1], p[2]),
                                     Value(b, p[1], p[2]))})

WinsOf(a, b, m) ==
    Cardinality({k \in 1..Compared(a, b) :
                    Better(m, Value(a, m, k), Value(b, m, k))})

(***************************************************************************)
(* The improvement figures of the report (lines 488-505), the execution-   *)
(* time one also drawn on the third chart (lines 378-379): np.mean of each *)
(* group, then (wfd - ca) / wfd * 100 for a lower-is-better metric and     *)
(* ca - wfd for CacheHit.  numpy divides a float by 0 without raising: the *)
(* result is -inf, or nan for 0 / 0.  A mean is kept as what the division *)
(* tells apart: nan (an empty group or a NaN cell), zero, or positive.     *)
(***************************************************************************)
MeanClass(a, m) ==
    IF GroupIdx(a) = {} \/ \E i \in GroupIdx(a) : Cell(i, m) \notin Nat
      THEN "nan"
    ELSE IF \A i \in GroupIdx(a) : Cell(i, m) = 0 THEN "zero"
    ELSE "positive"

Improvement(m) ==
    LET ca == MeanClass(First, m)
        wfd == MeanClass(Second, m)
    IN  CASE "nan" \in {ca, wfd}          -> "nan"
          [] m = "CacheHit"               -> "finite"
          [] wfd = "zero" /\ ca = "zero"  -> "nan"
          [] wfd = "zero"                 -> "inf"
          [] OTHER                        -> "finite"

(***************************************************************************)
(* The exceptions each step can raise; the first one raised is the one at  *)
(* the lowest line, since each step runs top to bottom.  With no algorithm *)
(* boxplot([], labels=[]) raises (matplotlib reads [] as one empty data    *)
(* set, which the zero labels do not match), at lines 215 and 309.         *)
(***************************************************************************)
MakespanRaises ==
    {ln \in {168, 203, 215, 232} :
        \/ ln = 168 /\ \E a \in algorithms : ConversionFails(a, "Makespan")
        \/ ln = 203 /\ Cardinality(algorithms) > PaletteSize
        \/ ln = 215 /\ algorithms = {}
        \/ ln = 232 /\ \E a \in algorithms : HistogramFails(a, "Makespan")}

CacheHitRaises ==
    {ln \in {260, 296, 309, 327} :
        \/ ln = 260 /\ \E a \in algorithms : ConversionFails(a, "CacheHit")
        \/ ln = 296 /\ Cardinality(algorithms) > PaletteSize
        \/ ln = 309 /\ algorithms = {}
        \/ ln = 327 /\ \E a \in algorithms : HistogramFails(a, "CacheHit")}

ExecRaises ==
    {ln \in {357, 411} :
        \/ ln = 357 /\ \E a \in algorithms :
                          ConversionFails(a, "TotalExecutionTime")
        \/ ln = 411 /\ Cardinality(algorithms) >= 2
                    /\ Compared(First, Second) = 0}

ReportRaises ==
    {ln \in {459, 481} :
        \/ ln = 459 /\ algorithms = {}
        \/ ln = 481 /\ \E a \in algorithms : GroupIdx(a) = {}}

Crash(ln) ==
    /\ status' = "crashed"
    /\ fault' = ln
    /\ UNCHANGED <<argGiven, present, csvFile, table, algorithms, saved,
                   compared, wins, pc>>

-----------------------------------------------------------------------------

Init ==
    /\ argGiven \in BOOLEAN
    /\ present \in FileSystems
    /\ csvFile = Candidates(argGiven)[1]
    /\ table = NoTable
    /\ algorithms = {}
    /\ saved = {}
    /\ compared = 0
    /\ wins = [m \in Metrics |-> 0]
    /\ pc = "init"
    /\ status = "running"
    /\ fault = 0

\* AlgorithmVisualizer.__init__: find (or create) the result directory,
\* then the CSV file.  makedirs raises only when no directory exists.
Construct ==
    /\ pc = "init"
    /\ status = "running"
    /\ \/ /\ csvFile' = FindCsvFile(argGiven, present)
          /\ pc' = "load"
          /\ UNCHANGED <<argGiven, present, table, algorithms, saved,
                         compared, wins, status, fault>>
       \/ IOFaults /\ Crash(92)

\* load_data, and main returning 1 when it fails.
LoadFailed ==
    /\ status' = "exit1"
    /\ UNCHANGED <<algorithms, pc>>

Load ==
    /\ pc = "load"
    /\ status = "running"
    /\ \/ /\ csvFile \notin present
          /\ UNCHANGED table
          /\ LoadFailed
       \/ \E t \in Tables :
             /\ csvFile \in present
             /\ table' = t
             /\ \/ LoadFails(t) /\ LoadFailed
                \/ /\ ~LoadFails(t)
                   /\ algorithms' = LabelsOf(t)
                   /\ pc' = "makespan"
                   /\ UNCHANGED status
    /\ UNCHANGED <<argGiven, present, csvFile, saved, compared, wins, fault>>

\* A chart step that raised nothing saves its figure; savefig itself may
\* raise when I/O faults are possible.
SaveChart(chart, next, ln) ==
    \/ /\ saved' = saved \cup {chart}
       /\ pc' = next
       /\ UNCHANGED <<status, fault>>
    \/ /\ IOFaults
       /\ status' = "crashed"
       /\ fault' = ln
       /\ UNCHANGED <<saved, pc>>

\* create_makespan_analysis
MakespanChart ==
    /\ pc = "makespan"
    /\ status = "running"
    /\ \/ MakespanRaises # {} /\ Crash(MinOf(MakespanRaises))
       \/ /\ MakespanRaises = {}
          /\ SaveChart("makespan_analysis.png", "cachehit", 248)
          /\ UNCHANGED <<argGiven, present, csvFile, table, algorithms,
                         compared, wins>>

\* create_cache_hit_analysis
CacheHitChart ==
    /\ pc = "cachehit"
    /\ status = "running"
    /\ \/ CacheHitRaises # {} /\ Crash(MinOf(CacheHitRaises))
       \/ /\ CacheHitRaises = {}
          /\ SaveChart("cache_hit_analysis.png", "exec", 343)
          /\ UNCHANGED <<argGiven, present, csvFile, table, algorithms,
                         compared, wins>>

\* Mutant: the method returning early, before savefig, when there are
\* fewer than two algorithms to compare.
ExecWinChartSkipSave ==
    /\ pc = "exec"
    /\ status = "running"
    /\ \/ ExecRaises # {} /\ Crash(MinOf(ExecRaises))
       \/ /\ ExecRaises = {}
          /\ IF Cardinality(algorithms) >= 2
               THEN /\ SaveChart("execution_time_and_win_rate_analysis.png",
                                 "report", 447)
                    /\ compared' = Compared(First, Second)
                    /\ wins' = [m \in Metrics |-> WinsOf(First, Second, m)]
               ELSE /\ pc' = "report"
                    /\ UNCHANGED <<saved, status, fault, compared, wins>>
          /\ UNCHANGED <<argGiven, present, csvFile, table, algorithms>>

\* create_execution_time_and_win_rate_analysis, with the win-rate loop.
ExecWinChart ==
    /\ pc = "exec"
    /\ status = "running"
    /\ \/ ExecRaises # {} /\ Crash(MinOf(ExecRaises))
       \/ /\ ExecRaises = {}
          /\ SaveChart("execution_time_and_win_rate_analysis.png", "report",
                       447)
          /\ IF Cardinality(algorithms) >= 2
               THEN /\ compared' = Compared(First, Second)
                    /\ wins' = [m \in Metrics |-> WinsOf(First, Second, m)]
               ELSE UNCHANGED <<compared, wins>>
          /\ UNCHANGED <<argGiven, present, csvFile, table, algorithms>>

\* generate_comprehensive_report, then run_full_analysis and main return
\* success.
Report ==
    /\ pc = "report"
    /\ status = "running"
    /\ \/ ReportRaises # {} /\ Crash(MinOf(ReportRaises))
       \/ /\ ReportRaises = {}
          /\ status' = "exit0"
          /\ pc' = "done"
          /\ UNCHANGED <<argGiven, present, csvFile, table, algorithms,
                         saved, compared, wins, fault>>

Next ==
    \/ Construct
    \/ Load
    \/ MakespanChart
    \/ CacheHitChart
    \/ ExecWinChart
    \/ Report

\* One process that runs each step as soon as the previous one returns.
Spec == Init /\ [][Next]_vars /\ WF_vars(Next)

-----------------------------------------------------------------------------

TypeOK ==
    /\ argGiven \in BOOLEAN
    /\ present \in FileSystems
    /\ csvFile \in Paths
    /\ table \in TableType
    /\ algorithms \subseteq AllLabels
    /\ saved \subseteq Charts
    /\ compared \in Nat
    /\ wins \in [Metrics -> 0..compared]
    /\ pc \in Steps
    /\ status \in Statuses
    /\ fault \in {0} \cup FaultLines


(***************************************************************************)
(* What the spec asks of the input (sections 3, 4.1): every required       *)
(* column is in the header and every metric cell parses as a number.       *)
(***************************************************************************)
Malformed(t) ==
    \/ ~(Columns \subseteq t.header)
    \/ \E i \in 1..Len(t.rows), m \in Metrics : t.rows[i][m] \notin Nat

WellParsed(t) ==
    /\ Columns \subseteq t.header
    /\ Len(t.rows) >= 1
    /\ \A i \in 1..Len(t.rows), m \in Metrics : t.rows[i][m] \in Nat

\* The three win rates have been computed (create_execution_time_and_win_
\* rate_analysis returned with at least two algorithms).
WinRateComputed ==
    pc \in {"report", "done"} /\ Cardinality(algorithms) >= 2

\* A run that exits with status 0 has read a file with every required
\* column and only numeric metric cells: the conversions in
\* _get_algorithm_data, reached for every row by the three chart steps,
\* rejected everything else (spec section 3).
SuccessImpliesNumeric ==
    status = "exit0" => WellParsed(table)

\* A run that exits with status 0 has read no record with an empty
\* algorithm label (spec section 3: every record has a non-empty label).
SuccessImpliesLabelled ==
    status = "exit0" =>
        \A i \in 1..Len(table.rows) : table.rows[i].alg # BlankLabel

\* The win rate of the first algorithm over the second and the win rate of
\* the second over the first, on the same positional pairs, add up to at
\* most 100%: a tie is nobody's win (spec section 8).
WinRateBounded ==
    WinRateComputed =>
        \A m \in Metrics : wins[m] + WinsOf(Second, First, m) <= compared

\* The inductive strengthening of WinRateBounded: once the win-rate step
\* has returned, compared and wins hold what it computed from the table
\* and the algorithms, which no later step of main() changes.
WinRateInv ==
    /\ TypeOK
    /\ WinRateComputed =>
          /\ compared = Compared(First, Second)
          /\ \A m \in Metrics : wins[m] = WinsOf(First, Second, m)

\* No step meets an empty algorithm group: neither `wins / total` at line
\* 411 nor np.min at line 481 raises, since every label load_data accepts
\* has at least one matching row.
NoEmptyGroupFault ==
    fault \notin {411, 481}

\* The inductive strengthening of NoEmptyGroupFault: before load_data no
\* algorithm is known, and every algorithm it stores names at least one row
\* of the table it read.
GroupsInv ==
    /\ TypeOK
    /\ pc \in {"init", "load"} => algorithms = {}
    /\ \A a \in algorithms : GroupIdx(a) # {}
    /\ NoEmptyGroupFault

\* main() reports success only in a step that follows the writing of all
\* three chart files: whatever the input and the I/O faults, no run exits
\* with status 0 with a chart missing (spec section 7: there is no partial
\* output).
SuccessAfterAllCharts ==
    [][status = "running" /\ status' = "exit0" => saved = Charts]_vars

\* A run that exits with status 0 has printed a finite improvement
\* percentage for every metric (spec section 4.3(b) defines it as
\* (other - first) / other * 100, a number).
ImprovementsFinite ==
    (status = "exit0" /\ Cardinality(algorithms) >= 2) =>
        \A m \in Metrics : Improvement(m) = "finite"

ArgumentHonoured ==
    (argGiven /\ status = "exit0") => csvFile \in {"argCwd", "argRd"}

\* Without I/O faults, an uncaught exception only ends a run whose input is
\* malformed (spec section 7: the other failures are rendering or
\* file-system errors).
CrashOnlyOnMalformed ==
    status = "crashed" => Malformed(table)


\* The inductive strengthening of SuccessAfterAllCharts: each chart step
\* that has been passed wrote its file.
ChartsInv ==
    /\ TypeOK
    /\ pc \in {"cachehit", "exec", "report", "done"} =>
          "makespan_analysis.png" \in saved
    /\ pc \in {"exec", "report", "done"} => "cache_hit_analysis.png" \in saved
    /\ pc \in {"report", "done"} =>
          "execution_time_and_win_rate_analysis.png" \in saved

\* A metric whose cells _get_algorithm_data converts for every algorithm.
Converted(m) == \A a \in algorithms : ~ConversionFails(a, m)

\* The inductive strengthening of SuccessImpliesNumeric: after load_data
\* the algorithms are the table's labels, and each chart step passed has
\* converted its metric for every algorithm; exit 0 comes from the report,
\* which needs an algorithm.
NumericInv ==
    /\ TypeOK
    /\ pc \notin {"init", "load"} =>
          /\ algorithms = LabelsOf(table)
          /\ "Algorithm" \in table.header \/ Len(table.rows) = 0
    /\ pc \in {"cachehit", "exec", "report", "done"} => Converted("Makespan")
    /\ pc \in {"exec", "report", "done"} => Converted("CacheHit")
    /\ pc \in {"report", "done"} => Converted("TotalExecutionTime")
    /\ status = "exit0" => pc = "done" /\ algorithms # {}

=============================================================================
