---------------------------- MODULE WinLoop_proofs ----------------------------
(***************************************************************************)
(* The step-wise win-rate loop of WinLoop implements Visualizer: proved   *)
(* for every value of the constants.  AP is Visualizer (with the lemmas    *)
(* of Visualizer_proofs and Outcome_proofs) seen through the refinement   *)
(* mapping pc <- AbsPc, the instance that WinLoop's Refinement property   *)
(* checks.  The invariants proved of Visualizer then hold of the loop.    *)
(***************************************************************************)
EXTENDS WinLoop, Visualizer_proofs

AP == INSTANCE Outcome_proofs WITH pc <- AbsPc

(***************************************************************************)
(* The operators that do not read pc are the same seen through the        *)
(* mapping.                                                                *)
(***************************************************************************)
LEMMA CardMap == \A S : AP!Cardinality(S) = Cardinality(S)
BY DEF AP!Cardinality, Cardinality

\* The least element, as the first raised line is picked.
LEMMA MinOfMap == \A S : AP!MinOf(S) = MinOf(S)
BY DEF AP!MinOf, MinOf

\* The rows of a label (the matching of `_get_algorithm_data`).
LEMMA GroupMap == \A a : AP!GroupIdx(a) = GroupIdx(a)
BY DEF AP!GroupIdx, GroupIdx, AP!Matches, Matches, AP!BlankLabel, BlankLabel

\* The float conversions and histograms of the chart methods.
LEMMA ConvMap ==
    \A a, m : /\ AP!ConversionFails(a, m) = ConversionFails(a, m)
              /\ AP!HistogramFails(a, m) = HistogramFails(a, m)
BY GroupMap DEF AP!ConversionFails, ConversionFails, AP!HistogramFails,
                HistogramFails, AP!Cell, Cell, AP!BadCell, BadCell,
                AP!BlankCell, BlankCell

\* `algorithms[0]`, `algorithms[1]` and `total` of line 399.
LEMMA PairMap ==
    /\ AP!First = First
    /\ AP!Second = Second
    /\ \A a, b : AP!Compared(a, b) = Compared(a, b)
BY MinOfMap, CardMap, GroupMap DEF AP!First, First, AP!Second, Second,
                                   AP!Compared, Compared

\* The win counts of the loop at lines 398-408.
LEMMA WinsMap == \A a, b, m : AP!WinsOf(a, b, m) = WinsOf(a, b, m)
<1>1. \A G, k : AP!Nth(G, k) = Nth(G, k)
  BY CardMap DEF AP!Nth, Nth
<1>2. \A a, m, k : AP!Value(a, m, k) = Value(a, m, k)
  BY <1>1, GroupMap DEF AP!Value, Value, AP!Cell, Cell
<1>3. \A m, x, y : AP!Better(m, x, y) = Better(m, x, y)
  BY DEF AP!Better, Better
<1>. QED  BY <1>2, <1>3, CardMap, PairMap DEF AP!WinsOf, WinsOf

\* The lines each step raises at.
LEMMA RaisesMap ==
    /\ AP!MakespanRaises = MakespanRaises
    /\ AP!CacheHitRaises = CacheHitRaises
    /\ AP!ExecRaises = ExecRaises
    /\ AP!ReportRaises = ReportRaises
BY CardMap, GroupMap, ConvMap, PairMap
   DEF AP!MakespanRaises, MakespanRaises, AP!CacheHitRaises, CacheHitRaises,
       AP!ExecRaises, ExecRaises, AP!ReportRaises, ReportRaises,
       AP!PaletteSize, PaletteSize

\* _find_csv_file, and what load_data accepts and stores.
LEMMA LoadMap ==
    /\ \A arg, files : AP!FindCsvFile(arg, files) = FindCsvFile(arg, files)
    /\ \A t : AP!LoadFails(t) = LoadFails(t)
    /\ \A t : AP!LabelsOf(t) = LabelsOf(t)
BY MinOfMap DEF AP!FindCsvFile, FindCsvFile, AP!Candidates, Candidates,
                AP!LoadFails, LoadFails, AP!LabelsOf, LabelsOf,
                AP!BlankLabel, BlankLabel

(***************************************************************************)
(* The steps of main() outside the win-rate method are Visualizer's steps  *)
(* seen through the mapping: none of them is at or goes to "winloop".      *)
(***************************************************************************)
LEMMA CrashMap ==
    ASSUME NEW ln, Crash(ln)
    PROVE  AP!Crash(ln)
BY DEF Crash, AP!Crash, AbsPc

\* savefig, to a step other than the loop.
LEMMA SaveMap ==
    ASSUME NEW chart, NEW next, NEW ln, next # "winloop",
           SaveChart(chart, next, ln)
    PROVE  AP!SaveChart(chart, next, ln)
BY DEF SaveChart, AP!SaveChart, AbsPc

\* __init__.
LEMMA ConstructMap ==
    ASSUME Construct
    PROVE  AP!Construct
<1>1. pc = "init" /\ AbsPc = "init" /\ status = "running"
  BY DEF Construct, AbsPc
<1>2. CASE /\ csvFile' = FindCsvFile(argGiven, present)
           /\ pc' = "load"
           /\ UNCHANGED <<argGiven, present, table, algorithms, saved,
                          compared, wins, status, fault>>
  BY <1>1, <1>2, LoadMap DEF AP!Construct, AbsPc
<1>3. CASE IOFaults /\ Crash(92)
  BY <1>1, <1>3, CrashMap DEF AP!Construct
<1>. QED  BY <1>2, <1>3 DEF Construct

\* load_data.
LEMMA LoadStepMap ==
    ASSUME Load
    PROVE  AP!Load
<1>1. pc = "load" /\ AbsPc = "load" /\ status = "running"
  BY DEF Load, AbsPc
<1>2. LoadFailed => AP!LoadFailed
  BY DEF LoadFailed, AP!LoadFailed, AbsPc
<1>3. CASE /\ csvFile \notin present
           /\ UNCHANGED table
           /\ LoadFailed
           /\ UNCHANGED <<argGiven, present, csvFile, saved, compared, wins,
                          fault>>
  BY <1>1, <1>2, <1>3 DEF AP!Load
<1>4. CASE /\ \E t \in Tables :
                 /\ csvFile \in present
                 /\ table' = t
                 /\ \/ LoadFails(t) /\ LoadFailed
                    \/ /\ ~LoadFails(t)
                       /\ algorithms' = LabelsOf(t)
                       /\ pc' = "makespan"
                       /\ UNCHANGED status
           /\ UNCHANGED <<argGiven, present, csvFile, saved, compared, wins,
                          fault>>
  <2>1. PICK t \in Tables :
                 /\ csvFile \in present
                 /\ table' = t
                 /\ \/ LoadFails(t) /\ LoadFailed
                    \/ /\ ~LoadFails(t)
                       /\ algorithms' = LabelsOf(t)
                       /\ pc' = "makespan"
                       /\ UNCHANGED status
    BY <1>4
  <2>2. \/ AP!LoadFails(t) /\ AP!LoadFailed
        \/ /\ ~AP!LoadFails(t)
           /\ algorithms' = AP!LabelsOf(t)
           /\ AbsPc' = "makespan"
           /\ UNCHANGED status
    BY <1>2, <2>1, LoadMap DEF AbsPc
  <2>. QED  BY <1>1, <1>4, <2>1, <2>2 DEF AP!Load
<1>. QED  BY <1>3, <1>4 DEF Load

\* A chart step: pc is its own name before and either unchanged or the
\* next chart's name after.
LEMMA MakespanMap ==
    ASSUME MakespanChart
    PROVE  AP!MakespanChart
<1>1. pc = "makespan" /\ AbsPc = "makespan" /\ status = "running"
  BY DEF MakespanChart, AbsPc
<1>2. CASE MakespanRaises # {} /\ Crash(MinOf(MakespanRaises))
  BY <1>1, <1>2, CrashMap, RaisesMap, MinOfMap DEF AP!MakespanChart
<1>3. CASE /\ MakespanRaises = {}
           /\ SaveChart("makespan_analysis.png", "cachehit", 248)
           /\ UNCHANGED <<argGiven, present, csvFile, table, algorithms,
                          compared, wins>>
  BY <1>1, <1>3, SaveMap, RaisesMap DEF AP!MakespanChart
<1>. QED  BY <1>2, <1>3 DEF MakespanChart

\* create_cache_hit_analysis.
LEMMA CacheHitMap ==
    ASSUME CacheHitChart
    PROVE  AP!CacheHitChart
<1>1. pc = "cachehit" /\ AbsPc = "cachehit" /\ status = "running"
  BY DEF CacheHitChart, AbsPc
<1>2. CASE CacheHitRaises # {} /\ Crash(MinOf(CacheHitRaises))
  BY <1>1, <1>2, CrashMap, RaisesMap, MinOfMap DEF AP!CacheHitChart
<1>3. CASE /\ CacheHitRaises = {}
           /\ SaveChart("cache_hit_analysis.png", "exec", 343)
           /\ UNCHANGED <<argGiven, present, csvFile, table, algorithms,
                          compared, wins>>
  BY <1>1, <1>3, SaveMap, RaisesMap DEF AP!CacheHitChart
<1>. QED  BY <1>2, <1>3 DEF CacheHitChart

\* generate_comprehensive_report and the return of main().
LEMMA ReportMap ==
    ASSUME Report
    PROVE  AP!Report
<1>1. pc = "report" /\ AbsPc = "report" /\ status = "running"
  BY DEF Report, AbsPc
<1>2. CASE ReportRaises # {} /\ Crash(MinOf(ReportRaises))
  BY <1>1, <1>2, CrashMap, RaisesMap, MinOfMap DEF AP!Report
<1>3. CASE /\ ReportRaises = {}
           /\ status' = "exit0"
           /\ pc' = "done"
           /\ UNCHANGED <<argGiven, present, csvFile, table, algorithms,
                          saved, compared, wins, fault>>
  BY <1>1, <1>3, RaisesMap DEF AP!Report, AbsPc
<1>. QED  BY <1>2, <1>3 DEF Report

-----------------------------------------------------------------------------

(***************************************************************************)
(* The type of the data seen through the mapping is the data's own type.  *)
(***************************************************************************)
LEMMA TypeMap ==
    ASSUME AP!TypeOK
    PROVE  /\ table \in TableType
           /\ algorithms \subseteq AllLabels
           /\ compared \in Nat
BY DEF AP!TypeOK, AP!TableType, TableType, AP!Row, Row, AP!AllLabels,
       AllLabels, AP!Cells, Cells, AP!BadCell, BadCell, AP!BlankCell,
       BlankCell, AP!BlankLabel, BlankLabel, AP!Columns, Columns,
       AP!Metrics, Metrics

(***************************************************************************)
(* The raises of the win-rate method inside the loop: a failed conversion *)
(* is the first (line 357); with the conversion passed and two algorithms, *)
(* line 411 raises exactly when no pair is compared.                       *)
(***************************************************************************)
LEMMA ExecRaisesConversion ==
    ASSUME \E a \in algorithms : ConversionFails(a, "TotalExecutionTime")
    PROVE  ExecRaises # {} /\ MinOf(ExecRaises) = 357
<1>. DEFINE R == ExecRaises
<1>1. 357 \in R /\ R \subseteq {357, 411}
  BY DEF ExecRaises
<1>. HIDE DEF R
<1>2. R \subseteq Nat /\ R # {}
  BY <1>1
<1>3. MinOf(R) \in R /\ \A y \in R : MinOf(R) <= y
  BY <1>2, MinOfNat
<1>4. MinOf(R) \in {357, 411}
  BY <1>1, <1>3, Zenon
<1>5. MinOf(R) <= 357
  BY <1>1, <1>3
<1>6. MinOf(R) = 357
  BY <1>4, <1>5
<1>. QED  BY <1>2, <1>6 DEF R

\* With the conversion passed, `wins / total` raises only for no pair.
LEMMA ExecRaisesLoop ==
    ASSUME ~\E a \in algorithms : ConversionFails(a, "TotalExecutionTime")
    PROVE  ExecRaises = IF Cardinality(algorithms) >= 2 /\ Total = 0
                        THEN {411} ELSE {}
BY DEF ExecRaises, Total

(***************************************************************************)
(* The steps of the win-rate method seen through the mapping: the start of *)
(* the loop, each comparison and each metric's end that does not divide by *)
(* zero are stutters; a failed conversion, the division at 411 and the     *)
(* final savefig are Visualizer's ExecWinChart.                             *)
(***************************************************************************)
LEMMA ExecStartMap ==
    ASSUME ExecStart
    PROVE  AP!ExecWinChart \/ UNCHANGED AP!vars
<1>1. pc = "exec" /\ AbsPc = "exec" /\ status = "running"
  BY DEF ExecStart, AbsPc
<1>2. CASE /\ \E a \in algorithms : ConversionFails(a, "TotalExecutionTime")
           /\ Crash(357)
  <2>1. AP!ExecRaises # {} /\ AP!MinOf(AP!ExecRaises) = 357
    BY <1>2, ExecRaisesConversion, RaisesMap, MinOfMap
  <2>2. AP!Crash(357)
    BY <1>2, CrashMap
  <2>. QED  BY <1>1, <2>1, <2>2 DEF AP!ExecWinChart
<1>3. CASE /\ pc' = "winloop"
           /\ UNCHANGED <<argGiven, present, csvFile, table, algorithms,
                          saved, compared, wins, status, fault>>
  <2>1. AbsPc' = AbsPc
    BY <1>1, <1>3 DEF AbsPc
  <2>. QED  BY <1>3, <2>1 DEF AP!vars
<1>4. CASE /\ ~\E a \in algorithms : ConversionFails(a, "TotalExecutionTime")
           /\ ~(Cardinality(algorithms) >= 2)
           /\ SaveChart("execution_time_and_win_rate_analysis.png", "report",
                        447)
           /\ UNCHANGED <<argGiven, present, csvFile, table, algorithms,
                          compared, wins>>
  <2>1. AP!ExecRaises = {}
    BY <1>4, ExecRaisesLoop, RaisesMap
  <2>2. AP!SaveChart("execution_time_and_win_rate_analysis.png", "report",
                     447)
    BY <1>4, SaveMap
  <2>3. ~(AP!Cardinality(algorithms) >= 2)
    BY <1>4, CardMap
  <2>. QED  BY <1>1, <1>4, <2>1, <2>2, <2>3 DEF AP!ExecWinChart
<1>. QED  BY <1>2, <1>3, <1>4 DEF ExecStart

\* One comparison of lines 401-408 changes none of Visualizer's state.
LEMMA LoopCompareMap ==
    ASSUME LoopCompare
    PROVE  UNCHANGED AP!vars
BY DEF LoopCompare, AP!vars, AbsPc, vars

\* The end of a metric: line 411 raising, or a stutter.
LEMMA MetricEndMap ==
    ASSUME LoopInv, MetricEnd
    PROVE  AP!ExecWinChart \/ UNCHANGED AP!vars
<1>1. /\ pc = "winloop" /\ AbsPc = "exec" /\ status = "running"
      /\ Cardinality(algorithms) >= 2
      /\ ~\E a \in algorithms : ConversionFails(a, "TotalExecutionTime")
  BY DEF MetricEnd, AbsPc, LoopInv
<1>2. CASE Total = 0
  <2>1. AP!ExecRaises = {411}
    BY <1>1, <1>2, ExecRaisesLoop, RaisesMap
  <2>2. AP!MinOf({411}) = 411
    BY MinOfMap DEF MinOf
  <2>3. AP!Crash(411)
    BY <1>2, CrashMap DEF MetricEnd
  <2>. QED  BY <1>1, <2>1, <2>2, <2>3 DEF AP!ExecWinChart
<1>3. CASE Total # 0
  BY <1>1, <1>3 DEF MetricEnd, AP!vars, AbsPc, vars
<1>. QED  BY <1>2, <1>3

\* The final savefig (447) with the rates of every metric.
LEMMA ExecSaveMap ==
    ASSUME LoopInv, ExecSave
    PROVE  AP!ExecWinChart
<1>1. /\ pc = "winloop" /\ AbsPc = "exec" /\ status = "running"
      /\ Cardinality(algorithms) >= 2
      /\ ~\E a \in algorithms : ConversionFails(a, "TotalExecutionTime")
      /\ Total # 0
      /\ rates \in [Metrics -> Nat]
      /\ \A j \in 1..3 :
            rates[MetricOrder[j]] = WinsOf(First, Second, MetricOrder[j])
  BY DEF ExecSave, AbsPc, LoopInv, LoopTypeOK
<1>2. AP!ExecRaises = {}
  BY <1>1, ExecRaisesLoop, RaisesMap
<1>3. AP!SaveChart("execution_time_and_win_rate_analysis.png", "report", 447)
  BY SaveMap DEF ExecSave
<1>4. rates = [m \in Metrics |-> WinsOf(First, Second, m)]
  <2>1. \A m \in Metrics : \E j \in 1..3 : MetricOrder[j] = m
    BY DEF Metrics, MetricOrder
  <2>. QED  BY <1>1, <2>1
<1>5. wins' = [m \in AP!Metrics |-> AP!WinsOf(AP!First, AP!Second, m)]
  BY <1>4, WinsMap, PairMap DEF ExecSave, AP!Metrics, Metrics
<1>6. compared' = AP!Compared(AP!First, AP!Second)
  BY PairMap DEF ExecSave, Total
<1>7. AP!Cardinality(algorithms) >= 2
  BY <1>1, CardMap
<1>. QED  BY <1>1, <1>2, <1>3, <1>5, <1>6, <1>7 DEF AP!ExecWinChart, ExecSave

-----------------------------------------------------------------------------

(***************************************************************************)
(* Counting the wins one position at a time: the positions among the      *)
(* first n+1 are those among the first n, and n+1 when it is a win.        *)
(***************************************************************************)
LEMMA CountStep ==
    ASSUME NEW n \in Nat, NEW S, S \subseteq 1..(n + 1)
    PROVE  Cardinality(S) = IF n + 1 \in S
                            THEN Cardinality(S \cap 1..n) + 1
                            ELSE Cardinality(S \cap 1..n)
<1>1. IsFiniteSet(S \cap 1..n)
  <2>1. IsFiniteSet(1..n)
    BY FS_Interval
  <2>. QED  BY <2>1, FS_Subset
<1>2. \A k \in S : k \in 1..n \/ k = n + 1
  BY SMT
<1>3. CASE n + 1 \in S
  <2>1. S = (S \cap 1..n) \cup {n + 1}
    BY <1>2, <1>3, Zenon
  <2>2. n + 1 \notin S \cap 1..n
    OBVIOUS
  <2>. QED  BY <1>1, <1>3, <2>1, <2>2, FS_AddElement
<1>4. CASE n + 1 \notin S
  <2>1. S = S \cap 1..n
    BY <1>2, <1>4, Zenon
  <2>. QED  BY <1>4, <2>1
<1>. QED  BY <1>3, <1>4

\* No pair compared, no win (`wins = 0`, line 392).
LEMMA PartialWinsZero ==
    ASSUME NEW m
    PROVE  PartialWins(m, 0) = 0
<1>1. {k \in 1..0 : Better(m, Value(First, m, k), Value(Second, m, k))} = {}
  OBVIOUS
<1>. QED  BY <1>1, FS_EmptySet DEF PartialWins

\* One more pair compared: the count grows by its win (lines 401-408).
LEMMA PartialWinsStep ==
    ASSUME NEW m, NEW n \in Nat
    PROVE  PartialWins(m, n + 1) =
              IF Better(m, Value(First, m, n + 1), Value(Second, m, n + 1))
              THEN PartialWins(m, n) + 1 ELSE PartialWins(m, n)
<1>. DEFINE W(k) == Better(m, Value(First, m, k), Value(Second, m, k))
            S == {k \in 1..(n + 1) : W(k)}
<1>1. S \cap 1..n = {k \in 1..n : W(k)}
  OBVIOUS
<1>2. (n + 1 \in S) <=> W(n + 1)
  OBVIOUS
<1>. HIDE DEF W, S
<1>3. Cardinality(S) = IF n + 1 \in S THEN Cardinality(S \cap 1..n) + 1
                                    ELSE Cardinality(S \cap 1..n)
  BY CountStep DEF S
<1>. QED  BY <1>1, <1>2, <1>3 DEF PartialWins, S, W

\* The data the loop reads are those of the table and the algorithms,
\* which no step of the loop changes.
LEMMA LoopDataFrame ==
    ASSUME UNCHANGED <<table, algorithms>>
    PROVE  /\ Total' = Total
           /\ \A m, n : PartialWins(m, n)' = PartialWins(m, n)
           /\ \A m : WinsOf(First, Second, m)' = WinsOf(First, Second, m)
           /\ (\E a \in algorithms : ConversionFails(a, "TotalExecutionTime"))'
                 = \E a \in algorithms : ConversionFails(a, "TotalExecutionTime")
BY DEF Total, Compared, First, Second, WinsOf, PartialWins, GroupIdx,
       Matches, Value, Cell, Nth, MinOf, ConversionFails

\* LoopInv after a step that leaves the data alone, in terms of the new
\* values of the loop's own variables.
LEMMA LoopInvFrame ==
    ASSUME UNCHANGED <<table, algorithms>>,
           LoopTypeOK',
           pc' = "winloop" =>
              /\ Cardinality(algorithms) >= 2
              /\ ~\E a \in algorithms : ConversionFails(a, "TotalExecutionTime")
              /\ loopI' <= Total
              /\ metricIdx' <= 3 =>
                    loopWins' = PartialWins(MetricOrder[metricIdx'], loopI')
              /\ \A j \in 1..(metricIdx' - 1) :
                    rates'[MetricOrder[j]] = WinsOf(First, Second, MetricOrder[j])
              /\ metricIdx' > 1 => Total # 0
    PROVE  LoopInv'
<1>1. /\ Total' = Total
      /\ \A m, n : PartialWins(m, n)' = PartialWins(m, n)
      /\ \A m : WinsOf(First, Second, m)' = WinsOf(First, Second, m)
      /\ (\E a \in algorithms : ConversionFails(a, "TotalExecutionTime"))'
            = \E a \in algorithms : ConversionFails(a, "TotalExecutionTime")
  BY LoopDataFrame
<1>. QED  BY <1>1 DEF LoopInv

-----------------------------------------------------------------------------

(***************************************************************************)
(* LoopInv is inductive (given the type of the data): each comparison adds *)
(* its win to the count of the metric, and each metric's end stores the    *)
(* count of all Total pairs, which is WinsOf.                              *)
(***************************************************************************)
LEMMA LoopInvStep ==
    ASSUME AP!TypeOK, LoopInv, [LoopNext]_allVars
    PROVE  LoopInv'
<1>1. table \in TableType /\ Total \in Nat
  BY TypeMap, ComparedType DEF Total
<1>2. CASE OtherStep
  <2>1. pc' # "winloop"
    BY <1>2 DEF OtherStep, Construct, Load, LoadFailed, MakespanChart,
                CacheHitChart, Report, SaveChart, Crash
  <2>. QED  BY <1>2, <2>1 DEF OtherStep, LoopInv, LoopTypeOK, loopVars
<1>3. CASE ExecStart
  <2>1. CASE /\ \E a \in algorithms : ConversionFails(a, "TotalExecutionTime")
             /\ Crash(357)
             /\ UNCHANGED loopVars
    BY <2>1 DEF ExecStart, Crash, LoopInv, LoopTypeOK, loopVars
  <2>2. CASE /\ ~\E a \in algorithms : ConversionFails(a, "TotalExecutionTime")
             /\ Cardinality(algorithms) >= 2
             /\ pc' = "winloop"
             /\ metricIdx' = 1
             /\ loopI' = 0
             /\ loopWins' = 0
             /\ UNCHANGED <<argGiven, present, csvFile, table, algorithms,
                            saved, compared, wins, status, fault, rates>>
    <3>1. PartialWins(MetricOrder[1], 0) = 0
      BY PartialWinsZero
    <3>2. LoopTypeOK'
      BY <2>2 DEF LoopInv, LoopTypeOK
    <3>. QED  BY <1>1, <2>2, <3>1, <3>2, LoopDataFrame DEF LoopInv
  <2>3. CASE /\ ~(Cardinality(algorithms) >= 2)
             /\ SaveChart("execution_time_and_win_rate_analysis.png",
                          "report", 447)
             /\ UNCHANGED loopVars
    <3>1. pc' # "winloop"
      BY <1>3, <2>3 DEF ExecStart, SaveChart
    <3>. QED  BY <2>3, <3>1 DEF LoopInv, LoopTypeOK, loopVars
  <2>. QED  BY <1>3, <2>1, <2>2, <2>3 DEF ExecStart
<1>4. CASE LoopCompare
  <2>. DEFINE m == MetricOrder[metricIdx]
  <2>1. /\ pc = "winloop" /\ pc' = "winloop"
        /\ UNCHANGED <<table, algorithms, metricIdx, rates>>
        /\ metricIdx <= 3 /\ loopI < Total /\ loopI' = loopI + 1
        /\ loopWins' = IF Better(m, Value(First, m, loopI + 1),
                                     Value(Second, m, loopI + 1))
                       THEN loopWins + 1 ELSE loopWins
    BY <1>4 DEF LoopCompare, vars
  <2>2. loopI \in Nat /\ loopWins = PartialWins(m, loopI)
    BY <2>1 DEF LoopInv, LoopTypeOK
  <2>3. loopWins' = PartialWins(m, loopI')
    BY <2>1, <2>2, PartialWinsStep
  <2>4. LoopTypeOK'
    BY <2>1 DEF LoopInv, LoopTypeOK
  <2>5. /\ Cardinality(algorithms) >= 2
        /\ ~\E a \in algorithms : ConversionFails(a, "TotalExecutionTime")
        /\ loopI' <= Total
        /\ \A j \in 1..(metricIdx' - 1) :
              rates'[MetricOrder[j]] = WinsOf(First, Second, MetricOrder[j])
        /\ metricIdx' > 1 => Total # 0
    <3>1. loopI \in Nat
      BY DEF LoopInv, LoopTypeOK
    <3>. QED  BY <1>1, <2>1, <3>1 DEF LoopInv
  <2>6. metricIdx' <= 3 =>
           loopWins' = PartialWins(MetricOrder[metricIdx'], loopI')
    BY <2>1, <2>3
  <2>. QED  BY <2>1, <2>4, <2>5, <2>6, LoopInvFrame
<1>5. CASE MetricEnd
  <2>1. /\ pc = "winloop" /\ metricIdx <= 3 /\ loopI = Total
    BY <1>5 DEF MetricEnd
  <2>2. CASE Total = 0
    <3>1. UNCHANGED <<table, algorithms, pc>> /\ UNCHANGED loopVars
      BY <1>5, <2>2 DEF MetricEnd, Crash
    <3>2. /\ LoopTypeOK'
          /\ pc' = "winloop" =>
                /\ Cardinality(algorithms) >= 2
                /\ ~\E a \in algorithms :
                      ConversionFails(a, "TotalExecutionTime")
                /\ loopI' <= Total
                /\ metricIdx' <= 3 =>
                      loopWins' = PartialWins(MetricOrder[metricIdx'], loopI')
                /\ \A j \in 1..(metricIdx' - 1) :
                      rates'[MetricOrder[j]]
                        = WinsOf(First, Second, MetricOrder[j])
                /\ metricIdx' > 1 => Total # 0
      BY <3>1 DEF LoopInv, LoopTypeOK, loopVars
    <3>. QED  BY <3>1, <3>2, LoopInvFrame
  <2>3. CASE Total # 0
    <3>. DEFINE m == MetricOrder[metricIdx]
    <3>1. /\ rates' = [rates EXCEPT ![m] = loopWins]
          /\ metricIdx' = metricIdx + 1 /\ loopI' = 0 /\ loopWins' = 0
          /\ UNCHANGED vars
      BY <1>5, <2>3 DEF MetricEnd
    <3>2. /\ metricIdx \in 1..3 /\ loopWins \in Nat
          /\ rates \in [Metrics -> Nat] /\ m \in Metrics
          /\ loopWins = WinsOf(First, Second, m)
      BY <2>1 DEF LoopInv, LoopTypeOK, MetricOrder, Metrics, PartialWins,
                  WinsOf, Total
    <3>3. \A j \in 1..metricIdx :
             rates'[MetricOrder[j]] = WinsOf(First, Second, MetricOrder[j])
      <4>1. \A j \in 1..(metricIdx - 1) :
               /\ MetricOrder[j] # m
               /\ rates[MetricOrder[j]]
                    = WinsOf(First, Second, MetricOrder[j])
        BY <2>1, <3>2 DEF LoopInv, MetricOrder
      <4>2. \A j \in 1..3 : MetricOrder[j] \in Metrics
        BY DEF MetricOrder, Metrics
      <4>. QED  BY <3>1, <3>2, <4>1, <4>2
    <3>4. PartialWins(MetricOrder[metricIdx + 1], 0) = 0
      BY PartialWinsZero
    <3>5. LoopTypeOK'
      BY <3>1, <3>2 DEF LoopTypeOK
    <3>6. /\ Cardinality(algorithms) >= 2
          /\ ~\E a \in algorithms : ConversionFails(a, "TotalExecutionTime")
      BY <2>1 DEF LoopInv
    <3>7. UNCHANGED <<table, algorithms>>
      BY <3>1 DEF vars
    <3>8. /\ loopI' <= Total
          /\ metricIdx' <= 3 =>
                loopWins' = PartialWins(MetricOrder[metricIdx'], loopI')
          /\ \A j \in 1..(metricIdx' - 1) :
                rates'[MetricOrder[j]] = WinsOf(First, Second, MetricOrder[j])
          /\ metricIdx' > 1 => Total # 0
      BY <1>1, <2>3, <3>1, <3>2, <3>3, <3>4
    <3>. QED  BY <3>5, <3>6, <3>7, <3>8, LoopInvFrame
  <2>. QED  BY <2>2, <2>3
<1>6. CASE ExecSave
  <2>1. UNCHANGED <<table, algorithms>> /\ UNCHANGED loopVars
    BY <1>6 DEF ExecSave
  <2>. QED  BY <1>1, <1>6, <2>1, LoopDataFrame
            DEF ExecSave, LoopInv, LoopTypeOK, loopVars
<1>7. CASE UNCHANGED allVars
  BY <1>1, <1>7, LoopDataFrame DEF allVars, vars, loopVars, LoopInv,
                                   LoopTypeOK
<1>. QED  BY <1>2, <1>3, <1>4, <1>5, <1>6, <1>7 DEF LoopNext

-----------------------------------------------------------------------------

(***************************************************************************)
(* Every step of LoopNext is a step of Visualizer or a stutter under the   *)
(* mapping, and the invariant of the type and the loop is kept.            *)
(***************************************************************************)
LEMMA LoopStepMap ==
    ASSUME LoopInv, [LoopNext]_allVars
    PROVE  [AP!Next]_AP!vars
<1>1. CASE OtherStep
  BY <1>1, ConstructMap, LoadStepMap, MakespanMap, CacheHitMap, ReportMap
     DEF OtherStep, AP!Next
<1>2. CASE ExecStart
  BY <1>2, ExecStartMap DEF AP!Next
<1>3. CASE LoopCompare
  BY <1>3, LoopCompareMap
<1>4. CASE MetricEnd
  BY <1>4, MetricEndMap DEF AP!Next
<1>5. CASE ExecSave
  BY <1>5, ExecSaveMap DEF AP!Next
<1>6. CASE UNCHANGED allVars
  BY <1>6 DEF allVars, vars, AP!vars, AbsPc
<1>. QED  BY <1>1, <1>2, <1>3, <1>4, <1>5, <1>6 DEF LoopNext

\* The invariant of the refinement: the type of Visualizer's variables
\* under the mapping, and LoopInv.
RefInv == AP!TypeOK /\ LoopInv

\* The assumption on the constants, as Visualizer's lemmas seen through the
\* mapping state it.
LEMMA AssumptionMap ==
    /\ HAS_PANDAS \in BOOLEAN
    /\ IOFaults \in BOOLEAN
    /\ Labels \subseteq Nat \ {0}
    /\ Tables \subseteq AP!TableType
    /\ FileSystems \subseteq SUBSET AP!Paths
    /\ FileSystems # {}
<1>1. AP!TableType = TableType /\ AP!Paths = Paths
  BY DEF AP!TableType, TableType, AP!Row, Row, AP!AllLabels, AllLabels,
         AP!Cells, Cells, AP!BadCell, BadCell, AP!BlankCell, BlankCell,
         AP!BlankLabel, BlankLabel, AP!Columns, Columns, AP!Metrics, Metrics,
         AP!Paths, Paths
<1>. QED  BY <1>1, ConstantsAssumption

\* RefInv is kept by every step of main() with the loop.
LEMMA RefInvStep == RefInv /\ [LoopNext]_allVars => RefInv'
<1> SUFFICES ASSUME RefInv, [LoopNext]_allVars PROVE RefInv'
  OBVIOUS
<1>1. [AP!Next]_AP!vars
  BY LoopStepMap DEF RefInv
<1>2. AP!TypeOK'
  BY <1>1, AssumptionMap, AP!TypeStep DEF RefInv
<1>3. LoopInv'
  BY LoopInvStep DEF RefInv
<1>. QED  BY <1>2, <1>3 DEF RefInv

\* main() starts in a state of Visualizer where RefInv holds.
LEMMA RefInit == LoopInit => AP!Init /\ RefInv
<1> SUFFICES ASSUME LoopInit PROVE AP!Init /\ RefInv
  OBVIOUS
<1>1. AP!Init
  BY DEF LoopInit, Init, AP!Init, AbsPc, AP!NoTable, NoTable,
         AP!Candidates, Candidates, AP!Metrics, Metrics
<1>2. AP!TypeOK
  BY <1>1, AssumptionMap, AP!TypeInit
<1>3. LoopInv
  BY DEF LoopInit, Init, LoopInv, LoopTypeOK
<1>. QED  BY <1>1, <1>2, <1>3 DEF RefInv

(***************************************************************************)
(* main() with the win-rate loop run one comparison at a time implements  *)
(* Visualizer, whose ExecWinChart runs create_execution_time_and_win_rate_ *)
(* analysis as one step: from every initial state, every step of the loop *)
(* (lines 355-449) is a stutter or Visualizer's step, so the loop computes *)
(* the same `win_rates`, and raises at the same lines, as the atomic step. *)
(* This is the safety part of Refinement; its fairness part is TLC's.     *)
(***************************************************************************)
THEOREM LoopRefinesVisualizer == LoopSpec => AP!Init /\ [][AP!Next]_AP!vars
<1>1. LoopInit => AP!Init /\ RefInv
  BY RefInit
<1>2. RefInv /\ [LoopNext]_allVars => RefInv'
  BY RefInvStep
<1>3. RefInv /\ [LoopNext]_allVars => [AP!Next]_AP!vars
  BY LoopStepMap DEF RefInv
<1>. QED  BY <1>1, <1>2, <1>3, PTL DEF LoopSpec

(***************************************************************************)
(* What the refinement carries over.  An inductive invariant of Visualizer *)
(* seen through the mapping is one of the loop: RefInv gives a step of     *)
(* Visualizer for every step of the loop.                                   *)
(***************************************************************************)

\* The loop's division at line 411 (wins / total, once per metric) and the
\* report's np.min at line 481 never meet an empty group, for either
\* backend: the loop run one comparison at a time keeps NoEmptyGroupFault.
THEOREM LoopNoEmptyGroupFault == LoopSpec => []NoEmptyGroupFault
<1>1. LoopInit => RefInv /\ AP!GroupsInv
  BY RefInit, AssumptionMap, AP!GroupsInit
<1>2. RefInv /\ AP!GroupsInv /\ [LoopNext]_allVars =>
         RefInv' /\ AP!GroupsInv'
  BY RefInvStep, LoopStepMap, AssumptionMap, AP!GroupsStep DEF RefInv
<1>3. AP!GroupsInv => NoEmptyGroupFault
  BY DEF AP!GroupsInv, AP!NoEmptyGroupFault, NoEmptyGroupFault
<1>. QED  BY <1>1, <1>2, <1>3, PTL DEF LoopSpec

\* The loop exits with status 0 only after writing the three charts: the
\* win-rate chart is saved by its last step (line 447), before the report.
THEOREM LoopSuccessAfterAllCharts == LoopSpec => SuccessAfterAllCharts
<1>1. LoopInit => RefInv /\ AP!ChartsInv
  BY RefInit, AssumptionMap, AP!ChartsInit
<1>2. RefInv /\ AP!ChartsInv /\ [LoopNext]_allVars =>
         RefInv' /\ AP!ChartsInv'
  BY RefInvStep, LoopStepMap, AssumptionMap, AP!ChartsStep DEF RefInv
<1>3. RefInv /\ AP!ChartsInv /\ [LoopNext]_allVars =>
         [status = "running" /\ status' = "exit0" => saved = Charts]_vars
  <2> SUFFICES ASSUME RefInv, AP!ChartsInv, [LoopNext]_allVars,
                      status = "running", status' = "exit0"
               PROVE  saved = Charts
    OBVIOUS
  <2>1. [AP!Next]_AP!vars
    BY LoopStepMap DEF RefInv
  <2>. QED  BY <2>1, AssumptionMap, AP!ExitAfterCharts DEF AP!Charts, Charts
<1>. QED  BY <1>1, <1>2, <1>3, PTL DEF LoopSpec, SuccessAfterAllCharts

\* Under the csv module the loop too exits with status 0 only on a file
\* with every column and numeric metric cells.
THEOREM LoopCsvSuccessImpliesNumeric ==
    ASSUME ~HAS_PANDAS
    PROVE  LoopSpec => []SuccessImpliesNumeric
<1>1. LoopInit => RefInv /\ AP!NumericInv
  BY RefInit, AssumptionMap, AP!NumericInit
<1>2. RefInv /\ AP!NumericInv /\ [LoopNext]_allVars =>
         RefInv' /\ AP!NumericInv'
  BY RefInvStep, LoopStepMap, AssumptionMap, AP!NumericStep DEF RefInv
<1>3. AP!NumericInv => SuccessImpliesNumeric
  <2>1. AP!NumericInv => AP!SuccessImpliesNumeric
    BY AssumptionMap, AP!CsvNumeric
  <2>. QED  BY <2>1 DEF AP!SuccessImpliesNumeric, SuccessImpliesNumeric,
                        AP!WellParsed, WellParsed, AP!Columns, Columns,
                        AP!Metrics, Metrics
<1>. QED  BY <1>1, <1>2, <1>3, PTL DEF LoopSpec

=============================================================================
