------------------------------ MODULE Guidance ------------------------------
(***************************************************************************)
(* The raw answers of the assessors, and the two ways they go into a        *)
(* report: normalised to cells (Reports), and again, when it is read, to    *)
(* one guidance entry per test.  Beside it the offline assessor, which      *)
(* decides F-UJI's metrics without a network.                               *)
(*                                                                          *)
(* FAIR Champion answers in spellings, in the form of an algorithm or, in   *)
(* older rows, of single tests; F-UJI and the offline assessor answer in    *)
(* points.  The points of a metric are the same for both here, so that      *)
(* their cells can be compared; what is offline may leave it undecided.     *)
(*                                                                          *)
(* Cells and entries are not read from the same places of an answer, and    *)
(* nothing makes those places agree.  Here they need not; where they do is  *)
(* SameEvidence.                                                            *)
(***************************************************************************)
EXTENDS Reports

CONSTANTS
  Tests,      \* FAIR Champion's tests: the cell and the reference of each, and
              \* the cell it has in an answer of the older form
  Spellings,  \* what it may give as a result, Null for none
  Metrics,    \* F-UJI's metrics: the id, the cell and the total of each
  Statuses,   \* test_status, in lower case
  Answers     \* what the services may answer

References == {t.reference : t \in Tests}
MetricsOf(c) == {m \in Metrics : m.cell = c}
Maxima == [m \in Metrics |-> m.total]

\* FAIR Champion's answer has test_results, a result for each reference of an
\* algorithm; or has none, or null, and for each test how its execution ended,
\* what the search of its raw result finds, and its prov:value.
ChampionAnswers ==
  [test_results : {"dict"}, result : [References -> Spellings]]
    \cup [test_results : {"absent", "null"},
          result : [Tests -> [status : {"completed", "failed", ""},
                              found : Spellings, value : Spellings]]]

\* The score of a metric may be missing or not be numeric.
MetricPoints(m) ==
  [earned : 0 .. m.total, status : Statuses, scored : BOOLEAN, decided : BOOLEAN]

\* A parent cell may have a test of its own, but none in the older form. A
\* cell's metrics have fewer than 200 points, so that a percentage rounded to
\* whole ones is 0 or 100 only when it is exact.
ASSUME EvidenceAssumption ==
  /\ Null \notin Cells
  /\ IsFiniteSet(Metrics)
  /\ \A t \in Tests : t.cell \in Cells \cup {Null} /\ t.legacy \in (Cells \ Derived) \cup {Null}
  /\ \A m \in Metrics : m.cell \in Cells /\ m.total \in Nat
  /\ \A c \in Cells : Total(Maxima, MetricsOf(c)) < 200
  /\ \A answer \in Answers : /\ answer.champion \in ChampionAnswers
                             /\ DOMAIN answer.points = Metrics
                             /\ \A m \in Metrics : answer.points[m] \in MetricPoints(m)

VARIABLES
  champion,  \* what FAIR Champion answered
  points,    \* what each metric earned, its test_status, whether its score says
             \* so, and whether it can be decided offline
  offline,   \* the report of the offline assessor
  guidance   \* the guidance in the reports, by assessor

gvars == <<pvars, champion, points, offline, guidance>>

----------------------------------------------------------------------------
\* FAIR Champion.

\* The spellings that mean an outcome, as far as they are told apart here:
\* the plain one, which a guidance entry may show, and another.
Aliases ==
  [pass |-> {"pass", "passed"}, partial |-> {"partial", "partially_passed"},
   fail |-> {"fail", "failed"}, error |-> {"error", "timeout"},
   not_applicable |-> {"not_applicable", "skipped"}]

\* _parse_outcome_value, and indeterminate for what it does not know.
ParseOutcome(v) ==
  IF \E o \in DOMAIN Aliases : v \in Aliases[o]
  THEN CHOOSE o \in DOMAIN Aliases : v \in Aliases[o] ELSE "indeterminate"

ExtractTestOutcome(test) ==
  IF test.status = "failed" THEN "error"
  ELSE IF test.status # "completed" THEN "indeterminate"
  ELSE ParseOutcome(test.found)

\* What is found for a parent cell is not read.
TestOutcomes ==
  LET algorithm == champion.test_results = "dict"
      principle(t) == IF algorithm THEN t.cell ELSE t.legacy
      outcome(t) == IF algorithm THEN ParseOutcome(champion.result[t.reference])
                    ELSE ExtractTestOutcome(champion.result[t])
  IN [c \in Cells \ Derived |-> {outcome(t) : t \in {x \in Tests : principle(x) = c}}]

\* serialize_guidance knows the plain spellings only.
EntryOutcome(v) == IF v \in Outcomes \cup {"unavailable"} THEN v ELSE "indeterminate"

Entry(cell, test, outcome) == [cell |-> cell, test |-> test, outcome |-> EntryOutcome(outcome)]

\* A null has no results.
AlgorithmGuidance ==
  LET result(t) == IF champion.test_results = "null" THEN Null ELSE champion.result[t.reference]
  IN {Entry(t.cell, t, result(t)) : t \in Tests}

TestsGuidance ==
  LET found(test) == IF test.value # Null THEN test.value ELSE ExtractTestOutcome(test)
  IN {Entry(t.legacy, t, OutcomeValue(found(champion.result[t]))) : t \in Tests}

\* Unlike normalize, which looks for an object, it asks for the key only.
ChampionGuidance ==
  IF champion.test_results = "absent" THEN TestsGuidance ELSE AlgorithmGuidance

----------------------------------------------------------------------------
\* F-UJI.

\* The percentage in F-UJI's summary, of the points of the cell's metrics.
CellPercent(c) ==
  LET total == Total(Maxima, MetricsOf(c))
      earned == Total([m \in Metrics |-> points[m].earned], MetricsOf(c))
  IN IF total = 0 THEN Null ELSE RoundedMean(100 * earned, total)

\* Slip: a status other than "fail" is believed.
OutcomeOfStatus(m) ==
  IF points[m].status \in {"pass", "partial", "fail"} THEN points[m].status
  ELSE "indeterminate"

\* outcome_of: without a score the status is believed.
OutcomeOf(m) ==
  IF points[m].status \notin {"pass", "partial", "fail"} THEN "indeterminate"
  ELSE IF points[m].status = "fail" \/ ~ points[m].scored THEN points[m].status
  ELSE IF m.total <= 0 THEN "indeterminate"
  ELSE IF points[m].earned <= 0 THEN "fail"
  ELSE IF points[m].earned >= m.total THEN "pass" ELSE "partial"

FujiGuidance == {Entry(m.cell, m.id, OutcomeOf(m)) : m \in Metrics}

----------------------------------------------------------------------------
\* The offline assessor.

Outcome(earned, maximum) ==
  IF earned <= 0 THEN "fail" ELSE IF earned >= maximum THEN "pass" ELSE "partial"

\* Slip: an undecided metric counts with no points.
DecidedAll(m) == m.total # 0

\* _points: a metric without a complete score, or without points to earn, has
\* none.
Decided(m) == points[m].decided /\ m.total # 0

Earned(m) == IF points[m].decided THEN points[m].earned ELSE 0

\* cells_from_metrics
OfflineRow ==
  [c \in Cells |->
     LET decided == {m \in MetricsOf(c) : Decided(m)}
     IN IF decided = {} THEN "indeterminate"
        ELSE Outcome(Total([m \in Metrics |-> Earned(m)], decided),
                     Total(Maxima, decided))]

\* Slip: the guidance shows the status F-UJI would give.
OfflineGuidanceByStatus == {Entry(m.cell, m.id, points[m].status) : m \in Metrics}

OfflineGuidance ==
  {Entry(m.cell, m.id, IF Decided(m) THEN Outcome(Earned(m), m.total)
                       ELSE "indeterminate") : m \in Metrics}

----------------------------------------------------------------------------
GuidanceInit ==
  /\ \E answer \in Answers : champion = answer.champion /\ points = answer.points
  /\ tests = TestOutcomes
  /\ percents = [c \in Cells |-> CellPercent(c)]
  /\ rows = Null
  /\ results = Null
  /\ consensus = Null
  /\ offline = Null
  /\ guidance = [x \in MeasuresParents \cup Assessors |-> {}]

\* POST with metadata: assess_metadata answers at once and stores nothing.
AssessMetadata ==
  /\ offline = Null
  /\ offline' = Serialize("offline", OfflineRow)
  /\ guidance' = [guidance EXCEPT !["offline"] = OfflineGuidance]
  /\ UNCHANGED <<pvars, champion, points>>

NormalizeAnswers == Normalize /\ UNCHANGED <<champion, points, offline, guidance>>

\* get_results takes the guidance from the raw rows it read beside the others.
GetResultsWithGuidance ==
  /\ GetResults
  /\ guidance' = [guidance EXCEPT !["fuji"] = FujiGuidance,
                                  !["fair_champion"] = ChampionGuidance]
  /\ UNCHANGED <<champion, points, offline>>

GuidanceNext == AssessMetadata \/ NormalizeAnswers \/ GetResultsWithGuidance

GuidanceSpec == GuidanceInit /\ [][GuidanceNext]_gvars

----------------------------------------------------------------------------
\* The reports that were given, by assessor.
ReportOf(x) == IF x = "offline" THEN offline ELSE results[x]
Given(x) == IF x = "offline" THEN offline # Null ELSE results # Null

EntriesOf(x, c) == {e \in guidance[x] : e.cell = c}

\* The entries of a cell were read from evidence that agrees with what its cell
\* was computed from: every metric of F-UJI has a numeric score, and one that
\* it calls a failure had points to earn and earned none; every test in the
\* older form has the prov:value its execution and its raw result speak of, or
\* has none.  The answers need not be so, and then the code may show an entry
\* "pass" beside a failed cell.
SameEvidence(x, c) ==
  /\ x = "fuji" =>
       \A m \in MetricsOf(c) :
         /\ points[m].scored
         /\ points[m].status = "fail" => points[m].earned = 0 /\ m.total # 0
  /\ x = "fair_champion" /\ champion.test_results = "absent" =>
       \A t \in {t \in Tests : t.legacy = c} :
         LET test == champion.result[t]
         IN test.value = Null \/ ParseOutcome(test.value) = ExtractTestOutcome(test)

\* Where the evidence is the same, the entries beside a cell do not contradict
\* it, although the cells are computed from percentages and parsed spellings
\* when an answer arrives, and the entries from points and plain spellings when
\* it is read: beside a pass nothing failed, in part or whole; beside a failure
\* of the assessors that count points, nothing passed.  Nothing is said of a
\* derived cell: the entry of a test of the parent itself may contradict it.
NoContradiction ==
  \A x \in DOMAIN guidance : Given(x) =>
    \A c \in Cells \ ReportOf(x).derived : SameEvidence(x, c) =>
      \A e \in EntriesOf(x, c) :
        /\ ReportOf(x).cells[c] = "pass" => e.outcome \notin {"fail", "partial"}
        /\ (x \in MeasuresParents /\ ReportOf(x).cells[c] = "fail") => e.outcome # "pass"

\* Where the evidence is the same, a cell that is not passed has an entry that
\* is not a pass, for a reader to act on; a cell derived from others has theirs.
\* With test_results null the entries go to other cells than the tests do, and
\* a failed cell may have none.
NotPassedIsExplained ==
  \A x \in DOMAIN guidance : Given(x) =>
    \A c \in Cells \ ReportOf(x).derived :
      /\ SameEvidence(x, c)
      /\ ~ (x = "fair_champion" /\ champion.test_results = "null")
      /\ ReportOf(x).cells[c] \in {"partial", "fail"}
      => \E e \in EntriesOf(x, c) : e.outcome # "pass"

\* From the same points the offline assessor and F-UJI say the same of a cell
\* whose metrics are all decided; with less decided, neither passes what the
\* other fails.
OfflineAgreesWithFuji ==
  (Given("offline") /\ Given("fuji")) =>
    \A c \in Cells :
      LET here == offline.cells[c]
          there == results["fuji"].cells[c]
      IN /\ (\A m \in MetricsOf(c) : points[m].decided) => here = there
         /\ ~ (here = "pass" /\ there = "fail")
         /\ ~ (here = "fail" /\ there = "pass")
=============================================================================
