-------------------------- MODULE Visualizer_proofs --------------------------
(***************************************************************************)
(* Proofs about Visualizer for every value of its constants: the type      *)
(* invariant, and the win-rate bound of spec section 8.                    *)
(***************************************************************************)
EXTENDS Visualizer, FiniteSetTheorems, TLAPS

(***************************************************************************)
(* A non-empty set of naturals has a least element, so MinOf picks the     *)
(* first raised line of a step, and the first existing candidate path.     *)
(***************************************************************************)
LEMMA MinOfNat ==
    ASSUME NEW T, T \subseteq Nat, T # {}
    PROVE  /\ MinOf(T) \in T
           /\ \A y \in T : MinOf(T) <= y
<1>1. IsWellFoundedOn(OpToRel(<, Nat), Nat)
  BY NatLessThanWellFounded
<1>2. \E x \in T : \A y \in T : ~(<<y, x>> \in OpToRel(<, Nat))
  BY <1>1, WFMin
<1>3. \A x, y \in Nat : <<y, x>> \in OpToRel(<, Nat) <=> y < x
  BY Zenon DEF OpToRel
<1>4. \E x \in T : \A y \in T : ~(y < x)
  BY <1>2, <1>3, Zenon
<1>5. \E x \in T : \A y \in T : x <= y
  BY <1>4
<1>. QED  BY <1>5 DEF MinOf

(***************************************************************************)
(* A subset of 1..n has at most n elements: a win count is bounded by the  *)
(* number of compared runs.                                                *)
(***************************************************************************)
LEMMA SubsetOfInterval ==
    ASSUME NEW n \in Nat, NEW W, W \subseteq 1..n
    PROVE  Cardinality(W) \in 0..n
<1>1. IsFiniteSet(1..n) /\ Cardinality(1..n) = n
  BY FS_Interval
<1>2. IsFiniteSet(W) /\ Cardinality(W) <= n
  BY <1>1, FS_Subset
<1>. QED  BY <1>2, FS_CardinalityType

(***************************************************************************)
(* Two disjoint subsets of 1..n have at most n elements between them.      *)
(***************************************************************************)
LEMMA DisjointInInterval ==
    ASSUME NEW n \in Nat, NEW S1, NEW S2,
           S1 \subseteq 1..n, S2 \subseteq 1..n, S1 \cap S2 = {}
    PROVE  Cardinality(S1) + Cardinality(S2) <= n
<1>1. IsFiniteSet(1..n) /\ Cardinality(1..n) = n
  BY FS_Interval
<1>2. IsFiniteSet(S1) /\ IsFiniteSet(S2)
  BY <1>1, FS_Subset
<1>3. Cardinality(S1 \cup S2)
        = Cardinality(S1) + Cardinality(S2) - Cardinality(S1 \cap S2)
  BY <1>2, FS_Union
<1>4. Cardinality(S1 \cap S2) = 0
  BY FS_EmptySet
<1>5. Cardinality(S1 \cup S2) <= n
  BY <1>1, <1>2, FS_Subset
<1>. QED  BY <1>2, <1>3, <1>4, <1>5, FS_CardinalityType

USE ConstantsAssumption

(***************************************************************************)
(* _find_csv_file returns one of the candidate paths.                      *)
(***************************************************************************)
LEMMA FindCsvFileType ==
    ASSUME NEW arg \in BOOLEAN, NEW files
    PROVE  FindCsvFile(arg, files) \in Paths
<1>. DEFINE found == {k \in 1..5 : Candidates(arg)[k] \in files}
<1>1. \A k \in 1..5 : Candidates(arg)[k] \in Paths
  BY DEF Candidates, Paths
<1>2. CASE found # {}
  <2>1. found \subseteq Nat
    OBVIOUS
  <2>2. MinOf(found) \in found
    BY <1>2, <2>1, MinOfNat
  <2>. QED  BY <1>1, <1>2, <2>2 DEF FindCsvFile
<1>3. CASE found = {}
  BY <1>1, <1>3 DEF FindCsvFile
<1>. QED  BY <1>2, <1>3

(***************************************************************************)
(* A group is a finite set of row indices, and the number of compared      *)
(* pairs and every win count are naturals, the wins at most the pairs.     *)
(***************************************************************************)
LEMMA GroupFinite ==
    ASSUME table \in TableType, NEW a
    PROVE  /\ IsFiniteSet(GroupIdx(a))
           /\ Cardinality(GroupIdx(a)) \in Nat
<1>1. GroupIdx(a) \subseteq 1..Len(table.rows)
  BY DEF GroupIdx
<1>2. IsFiniteSet(1..Len(table.rows))
  BY FS_Interval DEF TableType
<1>. QED  BY <1>1, <1>2, FS_Subset, FS_CardinalityType

LEMMA ComparedType ==
    ASSUME table \in TableType, NEW a, NEW b
    PROVE  /\ Compared(a, b) \in Nat
           /\ Compared(a, b) = Compared(b, a)
BY GroupFinite DEF Compared

LEMMA WinsType ==
    ASSUME table \in TableType, NEW a, NEW b, NEW m
    PROVE  WinsOf(a, b, m) \in 0..Compared(a, b)
<1>1. Compared(a, b) \in Nat
  BY ComparedType
<1>. HIDE DEF Compared
<1>. QED  BY <1>1, SubsetOfInterval DEF WinsOf

(***************************************************************************)
(* No position of the win-rate loop is a win for both algorithms: Better   *)
(* is a strict comparison, and a NaN (a non-number) wins nothing.          *)
(***************************************************************************)
LEMMA WinsDisjoint ==
    ASSUME table \in TableType, NEW a, NEW b, NEW m
    PROVE  WinsOf(a, b, m) + WinsOf(b, a, m) <= Compared(a, b)
<1>. DEFINE n == Compared(a, b)
            S1 == {k \in 1..n : Better(m, Value(a, m, k), Value(b, m, k))}
            S2 == {k \in 1..n : Better(m, Value(b, m, k), Value(a, m, k))}
<1>1. n \in Nat /\ Compared(b, a) = n
  BY ComparedType
<1>2. S1 \cap S2 = {}
  BY DEF Better
<1>3. WinsOf(a, b, m) = Cardinality(S1) /\ WinsOf(b, a, m) = Cardinality(S2)
  BY <1>1 DEF WinsOf
<1>. HIDE DEF n, S1, S2
<1>4. Cardinality(S1) + Cardinality(S2) <= n
  BY <1>1, <1>2, DisjointInInterval DEF S1, S2
<1>. QED  BY <1>3, <1>4 DEF n

-----------------------------------------------------------------------------

(***************************************************************************)
(* An uncaught exception, and a chart saved or failing to save, keep the   *)
(* types: the two exits every chart step shares.                           *)
(***************************************************************************)
LEMMA RaisedLine ==
    ASSUME NEW S, S \subseteq FaultLines, S # {}
    PROVE  MinOf(S) \in FaultLines
<1>1. S \subseteq Nat
  BY DEF FaultLines
<1>. QED  BY <1>1, MinOfNat

LEMMA CrashType ==
    ASSUME TypeOK, NEW ln \in FaultLines, Crash(ln)
    PROVE  TypeOK'
<1>1. status' \in Statuses /\ fault' \in {0} \cup FaultLines
  BY DEF Crash, Statuses
<1>. QED  BY <1>1 DEF Crash, TypeOK

LEMMA SaveType ==
    ASSUME TypeOK, NEW chart \in Charts, NEW next \in Steps,
           NEW ln \in FaultLines, SaveChart(chart, next, ln),
           compared' \in Nat, wins' \in [Metrics -> 0..compared'],
           UNCHANGED <<argGiven, present, csvFile, table, algorithms>>
    PROVE  TypeOK'
<1>1. CASE /\ saved' = saved \cup {chart}
           /\ pc' = next
           /\ UNCHANGED <<status, fault>>
  <2>1. saved' \subseteq Charts
    BY <1>1 DEF TypeOK
  <2>. QED  BY <1>1, <2>1 DEF TypeOK
<1>2. CASE /\ IOFaults
           /\ status' = "crashed"
           /\ fault' = ln
           /\ UNCHANGED <<saved, pc>>
  <2>1. status' \in Statuses /\ fault' \in {0} \cup FaultLines
    BY <1>2 DEF Statuses
  <2>. QED  BY <1>2, <2>1 DEF TypeOK
<1>. QED  BY <1>1, <1>2 DEF SaveChart

LEMMA TypeInit == Init => TypeOK
BY DEF Init, TypeOK, NoTable, TableType, Candidates, Paths, Statuses, Steps

LEMMA TypeStep == TypeOK /\ [Next]_vars => TypeOK'
<1> SUFFICES ASSUME TypeOK, [Next]_vars PROVE TypeOK'
  OBVIOUS
<1>1. CASE Construct
  <2>1. CASE csvFile' = FindCsvFile(argGiven, present) /\ pc' = "load"
             /\ UNCHANGED <<argGiven, present, table, algorithms, saved,
                            compared, wins, status, fault>>
    BY <2>1, FindCsvFileType DEF TypeOK, Steps
  <2>2. CASE IOFaults /\ Crash(92)
    BY <2>2 DEF TypeOK, Crash, FaultLines, Statuses
  <2>. QED  BY <1>1, <2>1, <2>2 DEF Construct
<1>2. CASE Load
  <2>1. ASSUME NEW t \in Tables PROVE LabelsOf(t) \subseteq AllLabels
    <3>1. t.rows \in Seq(Row)
      BY DEF TableType
    <3>2. \A i \in 1..Len(t.rows) : t.rows[i] \in Row
      BY <3>1
    <3>. QED  BY <3>2 DEF LabelsOf, Row
  <2>. QED  BY <1>2, <2>1 DEF Load, LoadFailed, TypeOK, Steps, Statuses
<1>3. CASE MakespanChart
  <2>1. CASE MakespanRaises # {} /\ Crash(MinOf(MakespanRaises))
    <3>1. MakespanRaises \subseteq FaultLines
      BY DEF MakespanRaises, FaultLines
    <3>2. MinOf(MakespanRaises) \in FaultLines
      BY <2>1, <3>1, RaisedLine
    <3>. QED  BY <2>1, <3>2, CrashType
  <2>2. CASE MakespanRaises = {}
             /\ SaveChart("makespan_analysis.png", "cachehit", 248)
             /\ UNCHANGED <<argGiven, present, csvFile, table, algorithms,
                            compared, wins>>
    <3>1. "makespan_analysis.png" \in Charts /\ "cachehit" \in Steps
          /\ 248 \in FaultLines
      BY DEF Charts, Steps, FaultLines
    <3>. QED  BY <2>2, <3>1, SaveType DEF TypeOK
  <2>. QED  BY <1>3, <2>1, <2>2 DEF MakespanChart
<1>4. CASE CacheHitChart
  <2>1. CASE CacheHitRaises # {} /\ Crash(MinOf(CacheHitRaises))
    <3>1. CacheHitRaises \subseteq FaultLines
      BY DEF CacheHitRaises, FaultLines
    <3>2. MinOf(CacheHitRaises) \in FaultLines
      BY <2>1, <3>1, RaisedLine
    <3>. QED  BY <2>1, <3>2, CrashType
  <2>2. CASE CacheHitRaises = {}
             /\ SaveChart("cache_hit_analysis.png", "exec", 343)
             /\ UNCHANGED <<argGiven, present, csvFile, table, algorithms,
                            compared, wins>>
    <3>1. "cache_hit_analysis.png" \in Charts /\ "exec" \in Steps
          /\ 343 \in FaultLines
      BY DEF Charts, Steps, FaultLines
    <3>. QED  BY <2>2, <3>1, SaveType DEF TypeOK
  <2>. QED  BY <1>4, <2>1, <2>2 DEF CacheHitChart
<1>5. CASE ExecWinChart
  <2>1. CASE ExecRaises # {} /\ Crash(MinOf(ExecRaises))
    <3>1. ExecRaises \subseteq FaultLines
      BY DEF ExecRaises, FaultLines
    <3>2. MinOf(ExecRaises) \in FaultLines
      BY <2>1, <3>1, RaisedLine
    <3>. QED  BY <2>1, <3>2, CrashType
  <2>2. CASE /\ ExecRaises = {}
             /\ SaveChart("execution_time_and_win_rate_analysis.png",
                          "report", 447)
             /\ IF Cardinality(algorithms) >= 2
                  THEN /\ compared' = Compared(First, Second)
                       /\ wins' = [m \in Metrics |->
                                     WinsOf(First, Second, m)]
                  ELSE UNCHANGED <<compared, wins>>
             /\ UNCHANGED <<argGiven, present, csvFile, table, algorithms>>
    <3>1. /\ compared' \in Nat
          /\ wins' \in [Metrics -> 0..compared']
      BY <2>2, ComparedType, WinsType DEF TypeOK
    <3>2. "execution_time_and_win_rate_analysis.png" \in Charts
          /\ "report" \in Steps /\ 447 \in FaultLines
      BY DEF Charts, Steps, FaultLines
    <3>. QED  BY <2>2, <3>1, <3>2, SaveType
  <2>. QED  BY <1>5, <2>1, <2>2 DEF ExecWinChart
<1>6. CASE Report
  <2>1. CASE ReportRaises # {} /\ Crash(MinOf(ReportRaises))
    <3>1. ReportRaises \subseteq FaultLines
      BY DEF ReportRaises, FaultLines
    <3>2. MinOf(ReportRaises) \in FaultLines
      BY <2>1, <3>1, RaisedLine
    <3>. QED  BY <2>1, <3>2, CrashType
  <2>2. CASE ReportRaises = {} /\ status' = "exit0" /\ pc' = "done"
             /\ UNCHANGED <<argGiven, present, csvFile, table, algorithms,
                            saved, compared, wins, fault>>
    BY <2>2 DEF TypeOK, Steps, Statuses
  <2>. QED  BY <1>6, <2>1, <2>2 DEF Report
<1>7. CASE UNCHANGED vars
  BY <1>7 DEF vars, TypeOK
<1>. QED  BY <1>1, <1>2, <1>3, <1>4, <1>5, <1>6, <1>7 DEF Next

\* The type invariant: every variable keeps the type TypeOK gives it, in
\* every state of every run of main(), for all values of the constants.
THEOREM TypeCorrect == Spec => []TypeOK
BY TypeInit, TypeStep, PTL DEF Spec

-----------------------------------------------------------------------------

(***************************************************************************)
(* Win rates.  The counts the win-rate step computed depend only on the    *)
(* table and the algorithms, which no step after load_data changes.        *)
(***************************************************************************)
LEMMA WinsFrame ==
    ASSUME UNCHANGED <<table, algorithms>>
    PROVE  /\ Compared(First, Second)' = Compared(First, Second)
           /\ \A m \in Metrics :
                 WinsOf(First, Second, m)' = WinsOf(First, Second, m)
BY DEF Compared, First, Second, WinsOf, GroupIdx, Matches, Value, Cell,
       Nth, MinOf

\* Every step other than the win-rate step and the report leaves pc outside
\* {"report", "done"}.
LEMMA EarlyStepsNotComputed ==
    ASSUME TypeOK, Construct \/ Load \/ MakespanChart \/ CacheHitChart
    PROVE  pc' \notin {"report", "done"}
BY DEF Construct, Load, LoadFailed, MakespanChart, CacheHitChart, SaveChart,
       Crash

LEMMA WinRateStep == WinRateInv /\ [Next]_vars => WinRateInv'
<1> SUFFICES ASSUME WinRateInv, [Next]_vars PROVE WinRateInv'
  OBVIOUS
<1>1. TypeOK'
  BY TypeStep DEF WinRateInv
<1>2. SUFFICES ASSUME WinRateComputed'
               PROVE  /\ compared' = Compared(First, Second)'
                      /\ \A m \in Metrics :
                            wins'[m] = WinsOf(First, Second, m)'
  BY <1>1 DEF WinRateInv
<1>3. CASE Construct \/ Load \/ MakespanChart \/ CacheHitChart
  BY <1>2, <1>3, EarlyStepsNotComputed DEF WinRateInv, WinRateComputed
<1>4. CASE ExecWinChart
  <2>1. UNCHANGED <<table, algorithms>> /\ pc' = "report"
        /\ Cardinality(algorithms) >= 2
        /\ compared' = Compared(First, Second)
        /\ wins' = [m \in Metrics |-> WinsOf(First, Second, m)]
    BY <1>2, <1>4 DEF ExecWinChart, SaveChart, Crash, WinRateComputed
  <2>. QED  BY <2>1, WinsFrame
<1>5. CASE Report \/ UNCHANGED vars
  <2>1. /\ UNCHANGED <<table, algorithms, compared, wins>>
        /\ pc \in {"report", "done"}
    BY <1>2, <1>5 DEF Report, Crash, WinRateComputed, vars
  <2>2. WinRateComputed
    BY <1>2, <2>1 DEF WinRateComputed
  <2>. QED  BY <2>1, <2>2, WinsFrame DEF WinRateInv
<1>. QED  BY <1>3, <1>4, <1>5 DEF Next

LEMMA WinRateInit == Init => WinRateInv
BY TypeInit DEF Init, WinRateInv, WinRateComputed

\* The win rate of the first algorithm over the second and that of the
\* second over the first add up to at most 100% in every run of main()
\* (create_execution_time_and_win_rate_analysis, spec section 8): a tie
\* or a NaN is nobody's win.
THEOREM WinRateBoundedHolds == Spec => []WinRateBounded
<1>1. WinRateInv => WinRateBounded
  <2> SUFFICES ASSUME WinRateInv, WinRateComputed,
                      NEW m \in Metrics
               PROVE  wins[m] + WinsOf(Second, First, m) <= compared
    BY DEF WinRateBounded
  <2>1. WinsOf(First, Second, m) + WinsOf(Second, First, m)
          <= Compared(First, Second)
    BY WinsDisjoint DEF WinRateInv, TypeOK
  <2>. QED  BY <2>1 DEF WinRateInv
<1>. QED  BY <1>1, WinRateInit, WinRateStep, PTL DEF Spec

=============================================================================
