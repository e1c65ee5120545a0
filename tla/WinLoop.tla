------------------------------- MODULE WinLoop -------------------------------
(***************************************************************************)
(* create_execution_time_and_win_rate_analysis one statement group at a    *)
(* time.  Visualizer runs the whole method as one step; here the           *)
(* conversion of the execution times (line 357), each comparison of the   *)
(* positional loop (lines 398-408), the end of each metric's loop with its *)
(* division (line 411) and the final savefig (line 447) are steps of their *)
(* own.  Every other step of main() is Visualizer's.                       *)
(*                                                                         *)
(* The module implements Visualizer: under the mapping that shows the     *)
(* inner pc "winloop" as "exec", every step of the loop is a stutter of   *)
(* Visualizer and the final save is its ExecWinChart step.                 *)
(***************************************************************************)
EXTENDS Visualizer

VARIABLES
    metricIdx,  \* position of `metric` in `metrics` (line 390); 4 when done
    loopI,      \* `i` of `for i in range(total)`: comparisons made so far
    loopWins,   \* `wins` of the current metric
    rates       \* the win counts of the metrics finished, `win_rates`

loopVars == <<metricIdx, loopI, loopWins, rates>>
allVars == <<vars, loopVars>>

\* `metrics = ['Makespan', 'CacheHit', 'TotalExecutionTime']`, line 390.
MetricOrder == <<"Makespan", "CacheHit", "TotalExecutionTime">>

\* `total = min(len(algo1_data), len(algo2_data))`, line 399.
Total == Compared(First, Second)

LoopInit ==
    /\ Init
    /\ metricIdx = 1
    /\ loopI = 0
    /\ loopWins = 0
    /\ rates = [m \in Metrics |-> 0]

\* The steps before the win-rate method and after it are Visualizer's.
OtherStep ==
    /\ Construct \/ Load \/ MakespanChart \/ CacheHitChart \/ Report
    /\ UNCHANGED loopVars

(***************************************************************************)
(* Lines 355-388: the execution times of every algorithm are converted    *)
(* (raising at 357); with fewer than two algorithms the win-rate part is   *)
(* skipped and the figure saved, otherwise the metrics loop starts.        *)
(***************************************************************************)
ExecStart ==
    /\ pc = "exec"
    /\ status = "running"
    /\ \/ /\ \E a \in algorithms : ConversionFails(a, "TotalExecutionTime")
          /\ Crash(357)
          /\ UNCHANGED loopVars
       \/ /\ ~\E a \in algorithms : ConversionFails(a, "TotalExecutionTime")
          /\ Cardinality(algorithms) >= 2
          /\ pc' = "winloop"
          /\ metricIdx' = 1
          /\ loopI' = 0
          /\ loopWins' = 0
          /\ UNCHANGED <<argGiven, present, csvFile, table, algorithms,
                         saved, compared, wins, status, fault, rates>>
       \/ /\ ~\E a \in algorithms : ConversionFails(a, "TotalExecutionTime")
          /\ ~(Cardinality(algorithms) >= 2)
          /\ SaveChart("execution_time_and_win_rate_analysis.png", "report",
                       447)
          /\ UNCHANGED <<argGiven, present, csvFile, table, algorithms,
                         compared, wins>>
          /\ UNCHANGED loopVars

\* Lines 401-408: one comparison of the i-th values; a win is a strict
\* improvement, and a comparison with NaN is false.
LoopCompare ==
    /\ pc = "winloop"
    /\ status = "running"
    /\ metricIdx <= 3
    /\ loopI < Total
    /\ LET m == MetricOrder[metricIdx]
       IN  loopWins' = IF Better(m, Value(First, m, loopI + 1),
                                    Value(Second, m, loopI + 1))
                       THEN loopWins + 1 ELSE loopWins
    /\ loopI' = loopI + 1
    /\ UNCHANGED <<vars, metricIdx, rates>>

\* Mutant: `wins = 0` missing at the top of the metrics loop.
MetricEndNoReset ==
    /\ pc = "winloop"
    /\ status = "running"
    /\ metricIdx <= 3
    /\ loopI = Total
    /\ IF Total = 0
         THEN Crash(411) /\ UNCHANGED loopVars
         ELSE /\ rates' = [rates EXCEPT ![MetricOrder[metricIdx]] = loopWins]
              /\ metricIdx' = metricIdx + 1
              /\ loopI' = 0
              /\ UNCHANGED <<vars, loopWins>>

\* Lines 410-411, then 392-399 of the next metric: `wins / total` raises
\* ZeroDivisionError when total is 0; otherwise the rate is appended and
\* the next metric starts with `wins = 0`.
MetricEnd ==
    /\ pc = "winloop"
    /\ status = "running"
    /\ metricIdx <= 3
    /\ loopI = Total
    /\ IF Total = 0
         THEN Crash(411) /\ UNCHANGED loopVars
         ELSE /\ rates' = [rates EXCEPT ![MetricOrder[metricIdx]] = loopWins]
              /\ metricIdx' = metricIdx + 1
              /\ loopI' = 0
              /\ loopWins' = 0
              /\ UNCHANGED vars

\* Lines 414-449: the bar chart of the rates is drawn and savefig (447)
\* writes the figure or raises.
ExecSave ==
    /\ pc = "winloop"
    /\ status = "running"
    /\ metricIdx = 4
    /\ SaveChart("execution_time_and_win_rate_analysis.png", "report", 447)
    /\ compared' = Total
    /\ wins' = rates
    /\ UNCHANGED <<argGiven, present, csvFile, table, algorithms>>
    /\ UNCHANGED loopVars

LoopNext ==
    \/ OtherStep
    \/ ExecStart
    \/ LoopCompare
    \/ MetricEnd
    \/ ExecSave

\* The same single process as Visualizer, one statement after the other.
LoopSpec == LoopInit /\ [][LoopNext]_allVars /\ WF_allVars(LoopNext)

-----------------------------------------------------------------------------

\* What Visualizer sees of this module: the loop runs inside the "exec"
\* step.
AbsPc == IF pc = "winloop" THEN "exec" ELSE pc

Abs == INSTANCE Visualizer WITH pc <- AbsPc

LoopTypeOK ==
    /\ metricIdx \in 1..4
    /\ loopI \in Nat
    /\ loopWins \in 0..loopI
    /\ rates \in [Metrics -> Nat]

\* The wins of metric m among the first n positional pairs.
PartialWins(m, n) ==
    Cardinality({k \in 1..n : Better(m, Value(First, m, k),
                                        Value(Second, m, k))})

\* The inductive invariant of the refinement: inside the loop the data
\* are those that passed the conversion at line 357, `wins` counts the
\* wins among the pairs compared so far, and each finished metric's count
\* is the one Visualizer's ExecWinChart computes.
LoopInv ==
    /\ LoopTypeOK
    /\ pc = "winloop" =>
          /\ Cardinality(algorithms) >= 2
          /\ ~\E a \in algorithms : ConversionFails(a, "TotalExecutionTime")
          /\ loopI <= Total
          /\ metricIdx <= 3 =>
                loopWins = PartialWins(MetricOrder[metricIdx], loopI)
          /\ \A j \in 1..(metricIdx - 1) :
                rates[MetricOrder[j]] = WinsOf(First, Second, MetricOrder[j])
          /\ metricIdx > 1 => Total # 0

\* The step-wise win-rate method computes what Visualizer's one-step
\* ExecWinChart computes, with the same exceptions at the same lines:
\* every behaviour of main() with the loop is a behaviour of Visualizer.
Refinement == Abs!Spec

=============================================================================
