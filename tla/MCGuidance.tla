----------------------------- MODULE MCGuidance -----------------------------
(***************************************************************************)
(* Guidance over the grid of MCReports: tests of the form of an algorithm,  *)
(* one of them of a parent cell, and of the older form; three metrics of    *)
(* one cell and two of a parent cell, one of each without points to earn.   *)
(***************************************************************************)
EXTENDS Guidance, MCReports

AlgorithmTests ==
  {[cell |-> "f1", legacy |-> Null, reference |-> "Unique"],
   [cell |-> "f1", legacy |-> Null, reference |-> "Persistent"],
   [cell |-> "a1_1", legacy |-> Null, reference |-> "Unique"],
   [cell |-> "a1", legacy |-> Null, reference |-> "Persistent"],
   [cell |-> Null, legacy |-> Null, reference |-> "Unknown"]}

OlderTests ==
  {[cell |-> Null, legacy |-> "f1", reference |-> "Unique"],
   [cell |-> Null, legacy |-> "f1", reference |-> "Persistent"]}

Failing == [cell |-> Null, legacy |-> "a1_2", reference |-> "Unique"]

MCTests == AlgorithmTests \cup OlderTests \cup {Failing}

MCMetrics ==
  {[id |-> "FsF-F1-01MD", cell |-> "f1", total |-> 1],
   [id |-> "FsF-F1-02MD", cell |-> "f1", total |-> 2],
   [id |-> "FsF-F1-03MD", cell |-> "f1", total |-> 0],
   [id |-> "FsF-A1-01M", cell |-> "a1", total |-> 1],
   [id |-> "FsF-A1-02MD", cell |-> "a1", total |-> 0]}

MCStatuses == {"pass", "partial", "fail", ""}

MCSpellings == {"pass", "passed", "fail", "failed", "partial", "error", "unavailable", Null}

AllEarned ==
  [m \in MCMetrics |-> [earned |-> m.total, status |-> "pass", scored |-> TRUE, decided |-> TRUE]]

AllPassed == [test_results |-> "dict", result |-> [r \in References |-> "pass"]]

\* Bound: in the older form the algorithm's tests have nothing, and one fails.
SomeResults ==
  [test_results : {"dict"}, result : [References -> MCSpellings]]
    \cup [test_results : {"absent", "null"},
          result :
            {[t \in MCTests |-> IF t \in OlderTests THEN r[t]
                               ELSE IF t = Failing
                               THEN [status |-> "completed", found |-> "failed", value |-> Null]
                               ELSE [status |-> "", found |-> Null, value |-> Null]] :
               r \in [OlderTests -> [status : {"completed", "failed", ""},
                                    found : {"pass", "passed", "partial", "failed", Null},
                                    value : {"pass", "passed", "partial", "failed", Null}]]}]

SomePointsOf(c) ==
  {[m \in MCMetrics |-> IF m \in MetricsOf(c) THEN p[m] ELSE AllEarned[m]] :
     p \in {p \in [MetricsOf(c) -> [earned : 0 .. 2, status : MCStatuses,
                                    scored : BOOLEAN, decided : BOOLEAN]] :
              \A m \in MetricsOf(c) : p[m] \in MetricPoints(m)}}

\* Bound: the answer of FAIR Champion varies while F-UJI's has everything
\* earned, and the other way round, one cell at a time; they meet only in the
\* scores and the consensus, for which the run of MCReports varies them all.
MCAnswers ==
  [champion : SomeResults, points : {AllEarned}]
    \cup [champion : {AllPassed}, points : SomePointsOf("f1") \cup SomePointsOf("a1")]
=============================================================================
