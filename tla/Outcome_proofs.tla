--------------------------- MODULE Outcome_proofs ---------------------------
(***************************************************************************)
(* Proofs about how main() ends, for every value of the constants: exit 0 *)
(* only after the three charts were written, no step meets an empty       *)
(* algorithm group, and (csv backend) exit 0 only on a well-parsed file.   *)
(* Each invariant is proved through an inductive strengthening defined in  *)
(* Visualizer (ChartsInv, GroupsInv, NumericInv), checked first with TLC.  *)
(***************************************************************************)
EXTENDS Visualizer_proofs

(***************************************************************************)
(* How each step moves pc and the status.  Crash and LoadFailed keep pc;  *)
(* a save either moves pc on and adds its chart, or keeps both.           *)
(***************************************************************************)

\* Only the report's last branch turns a running process into exit 0.
LEMMA ExitOnlyFromReport ==
    ASSUME [Next]_vars, status = "running", status' = "exit0"
    PROVE  pc = "report" /\ ReportRaises = {}
<1>1. ~Construct
  BY DEF Construct, Crash
<1>2. ~Load
  BY DEF Load, LoadFailed
<1>3. ~MakespanChart /\ ~CacheHitChart /\ ~ExecWinChart
  BY DEF MakespanChart, CacheHitChart, ExecWinChart, Crash, SaveChart
<1>4. ~UNCHANGED vars
  BY DEF vars
<1>5. Report
  BY <1>1, <1>2, <1>3, <1>4 DEF Next
<1>. QED  BY <1>5 DEF Report, Crash

-----------------------------------------------------------------------------

(***************************************************************************)
(* Charts.  Each chart step that pc has passed wrote its file.            *)
(***************************************************************************)

\* The non-type part of ChartsInv.
ChartsWritten ==
    /\ pc \in {"cachehit", "exec", "report", "done"} =>
          "makespan_analysis.png" \in saved
    /\ pc \in {"exec", "report", "done"} => "cache_hit_analysis.png" \in saved
    /\ pc \in {"report", "done"} =>
          "execution_time_and_win_rate_analysis.png" \in saved

\* A chart step keeps ChartsWritten when its file goes with the new pc.
LEMMA SaveWritten ==
    ASSUME ChartsWritten, NEW chart, NEW next, NEW ln,
           SaveChart(chart, next, ln),
           \/ /\ pc = "makespan" /\ next = "cachehit"
              /\ chart = "makespan_analysis.png"
           \/ /\ pc = "cachehit" /\ next = "exec"
              /\ chart = "cache_hit_analysis.png"
           \/ /\ pc = "exec" /\ next = "report"
              /\ chart = "execution_time_and_win_rate_analysis.png"
    PROVE  ChartsWritten'
BY DEF ChartsWritten, SaveChart

LEMMA ChartsStep == ChartsInv /\ [Next]_vars => ChartsInv'
<1> SUFFICES ASSUME ChartsInv, [Next]_vars PROVE ChartsInv'
  OBVIOUS
<1>1. TypeOK'
  BY TypeStep DEF ChartsInv
<1>2. ChartsWritten
  BY DEF ChartsInv, ChartsWritten
<1>3. SUFFICES ChartsWritten'
  BY <1>1 DEF ChartsInv, ChartsWritten
<1>4. CASE Construct \/ Load
  BY <1>4 DEF Construct, Load, LoadFailed, Crash, ChartsWritten
<1>5. CASE MakespanChart
  BY <1>2, <1>5, SaveWritten DEF MakespanChart, Crash, ChartsWritten
<1>6. CASE CacheHitChart
  BY <1>2, <1>6, SaveWritten DEF CacheHitChart, Crash, ChartsWritten
<1>7. CASE ExecWinChart
  BY <1>2, <1>7, SaveWritten DEF ExecWinChart, Crash, ChartsWritten
<1>8. CASE Report
  BY <1>2, <1>8 DEF Report, Crash, ChartsWritten
<1>9. CASE UNCHANGED vars
  BY <1>2, <1>9 DEF vars, ChartsWritten
<1>. QED  BY <1>4, <1>5, <1>6, <1>7, <1>8, <1>9 DEF Next

LEMMA ChartsInit == Init => ChartsInv
BY TypeInit DEF Init, ChartsInv

\* The step that exits with status 0 starts from a state with every chart.
LEMMA ExitAfterCharts ==
    ASSUME ChartsInv, [Next]_vars, status = "running", status' = "exit0"
    PROVE  saved = Charts
<1>1. pc = "report"
  BY ExitOnlyFromReport
<1>. QED  BY <1>1 DEF ChartsInv, TypeOK, Charts

\* main() exits with status 0 only after makespan_analysis.png,
\* cache_hit_analysis.png and execution_time_and_win_rate_analysis.png
\* were all written (run_full_analysis calls the three chart methods before
\* the report, and each saves its figure before returning): for every
\* backend, fault setting and input, a success never leaves a chart out.
THEOREM SuccessAfterAllChartsHolds == Spec => SuccessAfterAllCharts
<1>1. ChartsInv /\ [Next]_vars =>
         [status = "running" /\ status' = "exit0" => saved = Charts]_vars
  BY ExitAfterCharts
<1>. QED  BY <1>1, ChartsInit, ChartsStep, PTL DEF Spec, SuccessAfterAllCharts

-----------------------------------------------------------------------------

(***************************************************************************)
(* Algorithm groups.  Every label load_data stores names a row of the     *)
(* table, so `algorithms[0]` and `algorithms[1]` have rows to compare and  *)
(* np.min always has values.                                               *)
(***************************************************************************)

\* With two algorithms or more, algorithms[0] and algorithms[1] exist.
LEMMA FirstSecondIn ==
    ASSUME algorithms \subseteq Nat, Cardinality(algorithms) >= 2
    PROVE  First \in algorithms /\ Second \in algorithms
<1>1. algorithms # {}
  BY FS_EmptySet
<1>2. First \in algorithms
  BY <1>1, MinOfNat DEF First
<1>3. algorithms \ {First} # {}
  <2>1. SUFFICES ASSUME algorithms = {First} PROVE FALSE
    BY <1>2
  <2>2. Cardinality(algorithms) = 1
    BY <2>1, FS_Singleton
  <2>. QED  BY <2>2
<1>4. Second \in algorithms
  BY <1>3, MinOfNat DEF Second
<1>. QED  BY <1>2, <1>4

\* Two non-empty groups are compared on at least one pair.
LEMMA ComparedPositive ==
    ASSUME table \in TableType, NEW a, NEW b,
           GroupIdx(a) # {}, GroupIdx(b) # {}
    PROVE  Compared(a, b) # 0
<1>1. /\ IsFiniteSet(GroupIdx(a)) /\ Cardinality(GroupIdx(a)) \in Nat
      /\ IsFiniteSet(GroupIdx(b)) /\ Cardinality(GroupIdx(b)) \in Nat
  BY GroupFinite
<1>2. Cardinality(GroupIdx(a)) # 0 /\ Cardinality(GroupIdx(b)) # 0
  BY <1>1, FS_EmptySet
<1>. QED  BY <1>1, <1>2 DEF Compared

\* The line a step raises at is one of the lines it can raise at.
LEMMA RaisedIn ==
    ASSUME NEW S, NEW L, L \subseteq Nat, S \subseteq L, S # {}
    PROVE  MinOf(S) \in L
<1>1. S \subseteq Nat
  OBVIOUS
<1>2. MinOf(S) \in S
  BY <1>1, MinOfNat
<1>. QED  BY <1>2

\* The non-type part of GroupsInv.
GroupsKnown ==
    /\ pc \in {"init", "load"} => algorithms = {}
    /\ \A a \in algorithms : GroupIdx(a) # {}

\* The groups depend on the table alone.
LEMMA GroupFrame ==
    ASSUME UNCHANGED <<table, algorithms>>,
           \A a \in algorithms : GroupIdx(a) # {}
    PROVE  \A a \in algorithms' : GroupIdx(a)' # {}
BY DEF GroupIdx, Matches

\* load_data stores the labels of the table it read; under pandas it
\* rejected a NaN label, so each stored label matches its own rows.
LEMMA LoadedGroups ==
    ASSUME NEW t \in Tables, ~LoadFails(t), NEW a \in LabelsOf(t)
    PROVE  \E i \in 1..Len(t.rows) : Matches(t.rows[i].alg, a)
<1>1. PICK i \in 1..Len(t.rows) : t.rows[i].alg = a
  BY DEF LabelsOf
<1>2. ~(HAS_PANDAS /\ a = BlankLabel)
  BY DEF LoadFails, LabelsOf
<1>. QED  BY <1>1, <1>2 DEF Matches

LEMMA GroupsStep == GroupsInv /\ [Next]_vars => GroupsInv'
<1> SUFFICES ASSUME GroupsInv, [Next]_vars PROVE GroupsInv'
  OBVIOUS
<1>1. TypeOK' /\ TypeOK
  BY TypeStep DEF GroupsInv
<1>2. GroupsKnown /\ fault \notin {411, 481}
  BY DEF GroupsInv, GroupsKnown, NoEmptyGroupFault
<1>3. SUFFICES GroupsKnown' /\ fault' \notin {411, 481}
  BY <1>1 DEF GroupsInv, GroupsKnown, NoEmptyGroupFault
<1>4. CASE Construct
  BY <1>2, <1>4, GroupFrame DEF Construct, Crash, GroupsKnown
<1>5. CASE Load
  <2>1. CASE csvFile \notin present /\ UNCHANGED table /\ LoadFailed
    BY <1>2, <1>5, <2>1 DEF Load, LoadFailed, GroupsKnown
  <2>2. CASE \E t \in Tables :
               /\ csvFile \in present
               /\ table' = t
               /\ \/ LoadFails(t) /\ LoadFailed
                  \/ /\ ~LoadFails(t)
                     /\ algorithms' = LabelsOf(t)
                     /\ pc' = "makespan"
                     /\ UNCHANGED status
    <3>1. PICK t \in Tables :
               /\ csvFile \in present
               /\ table' = t
               /\ \/ LoadFails(t) /\ LoadFailed
                  \/ /\ ~LoadFails(t)
                     /\ algorithms' = LabelsOf(t)
                     /\ pc' = "makespan"
                     /\ UNCHANGED status
      BY <2>2
    <3>2. fault' = fault
      BY <1>5 DEF Load
    <3>3. CASE LoadFails(t) /\ LoadFailed
      BY <1>2, <1>5, <3>2, <3>3 DEF Load, LoadFailed, GroupsKnown
    <3>4. CASE ~LoadFails(t) /\ algorithms' = LabelsOf(t) /\ pc' = "makespan"
      <4>1. \A a \in algorithms' : GroupIdx(a)' # {}
        BY <3>1, <3>4, LoadedGroups DEF GroupIdx
      <4>. QED  BY <1>2, <3>2, <3>4, <4>1 DEF GroupsKnown
    <3>. QED  BY <3>1, <3>3, <3>4
  <2>. QED  BY <1>5, <2>1, <2>2 DEF Load
<1>6. CASE MakespanChart
  <2>1. MakespanRaises \subseteq {168, 203, 215, 232}
    BY DEF MakespanRaises
  <2>2. MakespanRaises # {} => MinOf(MakespanRaises) \in {168, 203, 215, 232}
    <3>1. {168, 203, 215, 232} \subseteq Nat
      OBVIOUS
    <3>. QED  BY <2>1, <3>1, RaisedIn, Zenon
  <2>. QED  BY <1>2, <1>6, <2>2, GroupFrame
            DEF MakespanChart, Crash, SaveChart, GroupsKnown
<1>7. CASE CacheHitChart
  <2>1. CacheHitRaises \subseteq {260, 296, 309, 327}
    BY DEF CacheHitRaises
  <2>2. CacheHitRaises # {} => MinOf(CacheHitRaises) \in {260, 296, 309, 327}
    <3>1. {260, 296, 309, 327} \subseteq Nat
      OBVIOUS
    <3>. QED  BY <2>1, <3>1, RaisedIn, ZenonT(60)
  <2>. QED  BY <1>2, <1>7, <2>2, GroupFrame
            DEF CacheHitChart, Crash, SaveChart, GroupsKnown
<1>8. CASE ExecWinChart
  <2>1. 411 \notin ExecRaises
    <3>1. SUFFICES ASSUME Cardinality(algorithms) >= 2
                   PROVE  Compared(First, Second) # 0
      BY DEF ExecRaises
    <3>2. First \in algorithms /\ Second \in algorithms
      <4>1. AllLabels \subseteq Nat
        BY ConstantsAssumption DEF AllLabels, BlankLabel
      <4>2. algorithms \subseteq Nat
        BY <1>1, <4>1 DEF TypeOK
      <4>. QED  BY <3>1, <4>2, FirstSecondIn
    <3>. QED  BY <1>1, <1>2, <3>2, ComparedPositive DEF GroupsKnown, TypeOK
  <2>2. ExecRaises \subseteq {357}
    BY <2>1 DEF ExecRaises
  <2>3. ExecRaises # {} => MinOf(ExecRaises) \in {357}
    <3>1. {357} \subseteq Nat
      OBVIOUS
    <3>. QED  BY <2>2, <3>1, RaisedIn, Zenon
  <2>. QED  BY <1>2, <1>8, <2>3, GroupFrame
            DEF ExecWinChart, Crash, SaveChart, GroupsKnown
<1>9. CASE Report
  <2>1. 481 \notin ReportRaises
    BY <1>2 DEF ReportRaises, GroupsKnown
  <2>2. ReportRaises \subseteq {459}
    BY <2>1 DEF ReportRaises
  <2>3. ReportRaises # {} => MinOf(ReportRaises) \in {459}
    <3>1. {459} \subseteq Nat
      OBVIOUS
    <3>. QED  BY <2>2, <3>1, RaisedIn, Zenon
  <2>. QED  BY <1>2, <1>9, <2>3, GroupFrame DEF Report, Crash, GroupsKnown
<1>10. CASE UNCHANGED vars
  BY <1>2, <1>10, GroupFrame DEF vars, GroupsKnown
<1>. QED  BY <1>4, <1>5, <1>6, <1>7, <1>8, <1>9, <1>10 DEF Next

LEMMA GroupsInit == Init => GroupsInv
BY TypeInit DEF Init, GroupsInv, NoEmptyGroupFault

\* No run of main() raises at `wins / total` (line 411) or at np.min of
\* an empty group (line 481), for either backend and every input: every
\* label load_data accepts has a row (under pandas it rejects NaN labels
\* at the sort and the join, lines 134-137), so `total` is positive and
\* no group is empty.
THEOREM NoEmptyGroupFaultHolds == Spec => []NoEmptyGroupFault
<1>1. GroupsInv => NoEmptyGroupFault
  BY DEF GroupsInv
<1>. QED  BY <1>1, GroupsInit, GroupsStep, PTL DEF Spec

-----------------------------------------------------------------------------

(***************************************************************************)
(* Numeric input.  After load_data the algorithms are the table's labels, *)
(* and each chart step that pc has passed converted its metric for every  *)
(* algorithm; under the csv module every row belongs to the group of its  *)
(* own label, so every metric cell of the table was converted.            *)
(***************************************************************************)

\* The non-type part of NumericInv.
NumericKnown ==
    /\ pc \notin {"init", "load"} =>
          /\ algorithms = LabelsOf(table)
          /\ "Algorithm" \in table.header \/ Len(table.rows) = 0
    /\ pc \in {"cachehit", "exec", "report", "done"} => Converted("Makespan")
    /\ pc \in {"exec", "report", "done"} => Converted("CacheHit")
    /\ pc \in {"report", "done"} => Converted("TotalExecutionTime")
    /\ status = "exit0" => pc = "done" /\ algorithms # {}

\* The conversions depend on the table and the algorithms alone.
LEMMA ConvertedFrame ==
    ASSUME UNCHANGED <<table, algorithms>>
    PROVE  \A m : Converted(m)' = Converted(m)
BY DEF Converted, ConversionFails, GroupIdx, Matches, Cell

\* A step that keeps the table, the algorithms and pc, and does not exit
\* with status 0, keeps what has been converted.
LEMMA NumericFrame ==
    ASSUME NumericKnown, UNCHANGED <<table, algorithms, pc>>,
           status' # "exit0"
    PROVE  NumericKnown'
<1>1. \A m : Converted(m)' = Converted(m)
  BY ConvertedFrame
<1>2. LabelsOf(table)' = LabelsOf(table)
  BY DEF LabelsOf
<1>. QED  BY <1>1, <1>2 DEF NumericKnown

\* A table load_data accepts has the Algorithm column or no rows: pandas
\* needs the column, the csv module only asks each row for it.
LEMMA LoadedHeader ==
    ASSUME NEW t \in Tables, ~LoadFails(t)
    PROVE  "Algorithm" \in t.header \/ Len(t.rows) = 0
<1>1. Len(t.rows) \in Nat
  BY ConstantsAssumption DEF TableType
<1>. QED  BY <1>1 DEF LoadFails

\* A chart step that raised nothing converted its metric for every
\* algorithm (lines 168, 260 and 357 are the conversions).
LEMMA ConvertedWhenNoRaise ==
    /\ MakespanRaises = {} => Converted("Makespan")
    /\ CacheHitRaises = {} => Converted("CacheHit")
    /\ ExecRaises = {} => Converted("TotalExecutionTime")
BY Zenon DEF MakespanRaises, CacheHitRaises, ExecRaises, Converted

LEMMA NumericStep == NumericInv /\ [Next]_vars => NumericInv'
<1> SUFFICES ASSUME NumericInv, [Next]_vars PROVE NumericInv'
  OBVIOUS
<1>1. TypeOK /\ TypeOK'
  BY TypeStep DEF NumericInv
<1>2. NumericKnown
  BY DEF NumericInv, NumericKnown
<1>3. SUFFICES NumericKnown'
  BY <1>1 DEF NumericInv, NumericKnown
<1>4. CASE Construct
  BY <1>4 DEF Construct, Crash, NumericKnown
<1>5. CASE Load
  <2>1. CASE csvFile \notin present /\ UNCHANGED table /\ LoadFailed
    BY <1>5, <2>1 DEF Load, LoadFailed, NumericKnown
  <2>2. CASE \E t \in Tables :
               /\ csvFile \in present
               /\ table' = t
               /\ \/ LoadFails(t) /\ LoadFailed
                  \/ /\ ~LoadFails(t)
                     /\ algorithms' = LabelsOf(t)
                     /\ pc' = "makespan"
                     /\ UNCHANGED status
    <3>1. PICK t \in Tables :
               /\ csvFile \in present
               /\ table' = t
               /\ \/ LoadFails(t) /\ LoadFailed
                  \/ /\ ~LoadFails(t)
                     /\ algorithms' = LabelsOf(t)
                     /\ pc' = "makespan"
                     /\ UNCHANGED status
      BY <2>2
    <3>2. CASE LoadFails(t) /\ LoadFailed
      BY <1>5, <3>2 DEF Load, LoadFailed, NumericKnown
    <3>3. CASE ~LoadFails(t) /\ algorithms' = LabelsOf(t) /\ pc' = "makespan"
                /\ UNCHANGED status
      <4>1. "Algorithm" \in t.header \/ Len(t.rows) = 0
        BY <3>3, LoadedHeader
      <4>2. LabelsOf(table)' = LabelsOf(t)
        BY <3>1 DEF LabelsOf
      <4>. QED  BY <1>5, <3>1, <3>3, <4>1, <4>2 DEF Load, NumericKnown
    <3>. QED  BY <3>1, <3>2, <3>3
  <2>. QED  BY <1>5, <2>1, <2>2 DEF Load
<1>6. CASE MakespanChart
  <2>1. CASE MakespanRaises # {} /\ Crash(MinOf(MakespanRaises))
    BY <1>2, <2>1, NumericFrame DEF Crash
  <2>2. CASE /\ MakespanRaises = {}
             /\ saved' = saved \cup {"makespan_analysis.png"}
             /\ pc' = "cachehit"
             /\ UNCHANGED <<status, table, algorithms>>
    <3>1. Converted("Makespan")' /\ LabelsOf(table)' = LabelsOf(table)
      BY <2>2, ConvertedWhenNoRaise, ConvertedFrame DEF LabelsOf
    <3>. QED  BY <1>2, <1>6, <2>2, <3>1 DEF MakespanChart, NumericKnown
  <2>3. CASE /\ IOFaults /\ status' = "crashed"
             /\ UNCHANGED <<pc, table, algorithms>>
    BY <1>2, <2>3, NumericFrame
  <2>. QED  BY <1>6, <2>1, <2>2, <2>3 DEF MakespanChart, SaveChart
<1>7. CASE CacheHitChart
  <2>1. CASE CacheHitRaises # {} /\ Crash(MinOf(CacheHitRaises))
    BY <1>2, <2>1, NumericFrame DEF Crash
  <2>2. CASE /\ CacheHitRaises = {}
             /\ saved' = saved \cup {"cache_hit_analysis.png"}
             /\ pc' = "exec"
             /\ UNCHANGED <<status, table, algorithms>>
    <3>1. /\ Converted("CacheHit")'
          /\ Converted("Makespan")' = Converted("Makespan")
          /\ LabelsOf(table)' = LabelsOf(table)
      BY <2>2, ConvertedWhenNoRaise, ConvertedFrame DEF LabelsOf
    <3>. QED  BY <1>2, <1>7, <2>2, <3>1 DEF CacheHitChart, NumericKnown
  <2>3. CASE /\ IOFaults /\ status' = "crashed"
             /\ UNCHANGED <<pc, table, algorithms>>
    BY <1>2, <2>3, NumericFrame
  <2>. QED  BY <1>7, <2>1, <2>2, <2>3 DEF CacheHitChart, SaveChart
<1>8. CASE ExecWinChart
  <2>1. CASE ExecRaises # {} /\ Crash(MinOf(ExecRaises))
    BY <1>2, <2>1, NumericFrame DEF Crash
  <2>2. CASE /\ ExecRaises = {}
             /\ saved' = saved \cup {"execution_time_and_win_rate_analysis.png"}
             /\ pc' = "report"
             /\ UNCHANGED <<status, table, algorithms>>
    <3>1. /\ Converted("TotalExecutionTime")'
          /\ Converted("CacheHit")' = Converted("CacheHit")
          /\ Converted("Makespan")' = Converted("Makespan")
          /\ LabelsOf(table)' = LabelsOf(table)
      BY <2>2, ConvertedWhenNoRaise, ConvertedFrame DEF LabelsOf
    <3>. QED  BY <1>2, <1>8, <2>2, <3>1 DEF ExecWinChart, NumericKnown
  <2>3. CASE /\ IOFaults /\ status' = "crashed"
             /\ UNCHANGED <<pc, table, algorithms>>
    BY <1>2, <2>3, NumericFrame
  <2>. QED  BY <1>8, <2>1, <2>2, <2>3 DEF ExecWinChart, SaveChart
<1>9. CASE Report
  <2>1. CASE ReportRaises # {} /\ Crash(MinOf(ReportRaises))
    BY <1>2, <2>1, NumericFrame DEF Crash
  <2>2. CASE ReportRaises = {} /\ status' = "exit0" /\ pc' = "done"
             /\ UNCHANGED <<table, algorithms>>
    <3>1. algorithms # {}
      BY <2>2 DEF ReportRaises
    <3>2. \A m : Converted(m)' = Converted(m)
      BY <2>2, ConvertedFrame
    <3>3. LabelsOf(table)' = LabelsOf(table)
      BY <2>2 DEF LabelsOf
    <3>. QED  BY <1>2, <1>9, <2>2, <3>1, <3>2, <3>3 DEF Report, NumericKnown
  <2>. QED  BY <1>9, <2>1, <2>2 DEF Report
<1>10. CASE UNCHANGED vars
  <2>1. /\ \A m : Converted(m)' = Converted(m)
        /\ LabelsOf(table)' = LabelsOf(table)
    BY <1>10, ConvertedFrame DEF vars, LabelsOf
  <2>. QED  BY <1>2, <1>10, <2>1 DEF vars, NumericKnown
<1>. QED  BY <1>4, <1>5, <1>6, <1>7, <1>8, <1>9, <1>10 DEF Next

LEMMA NumericInit == Init => NumericInv
BY TypeInit DEF Init, NumericInv

\* Under the csv module a row's label matches the row, so a label whose
\* group converted metric m has a numeric m cell in each of its rows.
LEMMA CsvRowConverted ==
    ASSUME ~HAS_PANDAS, table \in TableType,
           NEW i \in 1..Len(table.rows), NEW m \in Metrics,
           ~ConversionFails(table.rows[i].alg, m)
    PROVE  m \in table.header /\ table.rows[i][m] \in Nat
<1>1. i \in GroupIdx(table.rows[i].alg)
  BY DEF GroupIdx, Matches
<1>2. m \in table.header /\ Cell(i, m) \notin {BadCell, BlankCell}
  BY <1>1 DEF ConversionFails
<1>3. table.rows[i][m] \in Cells
  <2>1. table.rows[i] \in Row
    BY DEF TableType
  <2>. QED  BY <2>1 DEF Row, Metrics
<1>. QED  BY <1>2, <1>3 DEF Cells, Cell

\* NumericInv gives SuccessImpliesNumeric under the csv module.
LEMMA CsvNumeric ==
    ASSUME ~HAS_PANDAS, NumericInv
    PROVE  SuccessImpliesNumeric
<1> SUFFICES ASSUME status = "exit0" PROVE WellParsed(table)
  BY DEF SuccessImpliesNumeric
<1>1. /\ algorithms # {}
      /\ algorithms = LabelsOf(table)
      /\ "Algorithm" \in table.header \/ Len(table.rows) = 0
      /\ \A m \in Metrics : Converted(m)
  BY DEF NumericInv, Metrics
<1>2. table \in TableType
  BY DEF NumericInv, TypeOK
<1>3. Len(table.rows) >= 1
  <2>1. PICK a \in algorithms : TRUE
    BY <1>1
  <2>2. PICK i \in 1..Len(table.rows) : table.rows[i].alg = a
    BY <1>1, <2>1 DEF LabelsOf
  <2>. QED  BY <2>2
<1>4. \A i \in 1..Len(table.rows), m \in Metrics :
         m \in table.header /\ table.rows[i][m] \in Nat
  <2> TAKE i \in 1..Len(table.rows), m \in Metrics
  <2>1. table.rows[i].alg \in algorithms
    BY <1>1 DEF LabelsOf
  <2>2. ~ConversionFails(table.rows[i].alg, m)
    BY <1>1, <2>1 DEF Converted
  <2>. QED  BY <1>2, <2>2, CsvRowConverted
<1>5. Columns \subseteq table.header
  <2>1. 1 \in 1..Len(table.rows)
    BY <1>2, <1>3 DEF TableType
  <2>2. Metrics \subseteq table.header
    BY <1>4, <2>1
  <2>3. "Algorithm" \in table.header
    BY <1>1, <1>3
  <2>. QED  BY <2>2, <2>3 DEF Columns
<1>. QED  BY <1>3, <1>4, <1>5 DEF WellParsed

\* Under the csv module, no run of main() exits with status 0 on a file
\* that lacks a required column or holds a non-numeric metric cell: each
\* chart step converts its metric in every row (_get_algorithm_data, lines
\* 168, 260, 357) and a run with no algorithm raises (the boxplot at line
\* 215; the report's division at line 459 is the later guard).  Under
\* pandas a blank cell is read as NaN and converts, so the property fails
\* there (run pandas_blank_metric).
THEOREM CsvSuccessImpliesNumeric ==
    ASSUME ~HAS_PANDAS
    PROVE  Spec => []SuccessImpliesNumeric
<1>1. NumericInv => SuccessImpliesNumeric
  BY CsvNumeric
<1>. QED  BY <1>1, NumericInit, NumericStep, PTL DEF Spec

=============================================================================
