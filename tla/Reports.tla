------------------------------ MODULE Reports ------------------------------
(***************************************************************************)
(* From what the assessors measure to what a report says: the outcomes a    *)
(* plugin stores per FAIR cell (fair_champion.py, fuji.py), and the cells,  *)
(* scores and consensus reporting.py and get_results compute from the rows. *)
(***************************************************************************)
EXTENDS Naturals, FiniteSets, Sums

CONSTANTS
  Principles,  \* of f, a, i, r
  Members,     \* PRINCIPLE_CELLS
  Parents,     \* PARENTS: the refinements a parent cell is derived from
  TestSets,    \* the outcomes the tests of one cell may have
  Percents,    \* the percentages F-UJI may give a cell, Null for none
  Null

Cells == UNION {Members[p] : p \in Principles}
Derived == DOMAIN Parents
Outcomes == {"pass", "partial", "fail", "indeterminate", "error", "not_applicable"}
Values == {"pass", "partial", "fail", "indeterminate"}
Assessors == {"fair_champion", "fuji"}

ASSUME ConstantsAssumption ==
  /\ \A p \in Principles : Members[p] # {} /\ IsFiniteSet(Members[p])
  /\ \A p, q \in Principles : p = q \/ Members[p] \cap Members[q] = {}
  /\ Derived \subseteq Cells
  /\ \A p \in Derived : Parents[p] # {} /\ Parents[p] \subseteq Cells \ Derived
  /\ \A p \in Derived : \E q \in Principles : {p} \cup Parents[p] \subseteq Members[q]
  /\ TestSets \subseteq SUBSET Outcomes
  /\ Percents \ {Null} \subseteq 0 .. 100
  /\ Null \notin Outcomes
  /\ Null \notin 0 .. 1000

\* PRINCIPLE_CELLS has four principles of at most four cells: too few for one
\* cell to be lost when the scores are rounded to tenths, twice.
ASSUME GridAssumption ==
  /\ IsFiniteSet(Principles)
  /\ \A p \in Principles : Cardinality(Members[p]) * (Cardinality(Principles) + 1) < 1000

VARIABLES
  tests,     \* the outcomes FAIR Champion's tests gave, per cell
  percents,  \* the score_percent of F-UJI, per cell
  rows,      \* the harmonized rows, by assessor
  results,   \* the "results" of the report, by assessor
  consensus  \* the "cells" of the report

pvars == <<tests, percents, rows, results, consensus>>

----------------------------------------------------------------------------
\* The plugins.

\* Slip: what was partly passed hides what failed.
CombineOutcomesFailLast(S) ==
  IF S = {} THEN Null
  ELSE IF \E o \in {"pass", "error", "not_applicable"} : S = {o} THEN CHOOSE o \in S : TRUE
  ELSE IF {"partial", "pass"} \cap S # {} THEN "partial"
  ELSE IF "fail" \in S THEN "fail"
  ELSE IF "error" \in S THEN "error"
  ELSE "indeterminate"

\* combine_outcomes; no test gives no outcome.
CombineOutcomes(S) ==
  IF S = {} THEN Null
  ELSE IF \E o \in {"pass", "error", "not_applicable"} : S = {o} THEN CHOOSE o \in S : TRUE
  ELSE IF "fail" \in S THEN "fail"
  ELSE IF {"partial", "pass"} \cap S # {} THEN "partial"
  ELSE IF "error" \in S THEN "error"
  ELSE "indeterminate"

\* Slip: a cell no test covers is left empty.
ChampionCellEmpty(c) == CombineOutcomes(tests[c])

ChampionCell(c) ==
  IF CombineOutcomes(tests[c]) = Null THEN "not_applicable"
  ELSE CombineOutcomes(tests[c])

ChampionParent(p) == CombineOutcomes({ChampionCell(c) : c \in Parents[p]})

Tops(p) == Members[p] \ UNION {Parents[d] : d \in Derived}

\* FairChampionAssessor.normalize
ChampionRow ==
  LET cell(c) == IF c \in Derived THEN ChampionParent(c) ELSE ChampionCell(c)
  IN [x \in Cells \cup Principles |->
        IF x \in Cells THEN cell(x) ELSE CombineOutcomes({cell(c) : c \in Tops(x)})]

OutcomeFromPercent(value) ==
  IF value = Null THEN "indeterminate"
  ELSE IF value = 100 THEN "pass"
  ELSE IF value = 0 THEN "fail" ELSE "partial"

\* FujiAssessor.normalize; the columns of the principles, filled in the same way,
\* are left out.
FujiRow == [c \in Cells |-> OutcomeFromPercent(percents[c])]

----------------------------------------------------------------------------
\* reporting.py

OutcomeValue(o) == IF o \in {"pass", "partial", "fail"} THEN o ELSE "indeterminate"

\* Slip: what was not measured counts as a failure to pass.
CombineAll(S) ==
  IF S = {} THEN "indeterminate"
  ELSE IF S = {"pass"} THEN "pass"
  ELSE IF "fail" \in S THEN "fail" ELSE "partial"

Combine(S) ==
  LET measured == S \ {"indeterminate"}
  IN IF measured = {} THEN "indeterminate"
     ELSE IF measured = {"pass"} THEN "pass"
     ELSE IF "fail" \in measured THEN "fail" ELSE "partial"

\* The assessors that test a parent cell themselves.
MeasuresParents == {"fuji", "offline"}

DerivedFor(assessor) == IF assessor \in MeasuresParents THEN {} ELSE Derived

\* Slip: the stored parent cells are trusted.
CellsForStored(assessor, row) == [c \in Cells |-> OutcomeValue(row[c])]

CellsFor(assessor, row) ==
  LET value(c) == OutcomeValue(row[c])
  IN [c \in Cells |-> IF c \in DerivedFor(assessor)
                      THEN Combine({value(k) : k \in Parents[c]})
                      ELSE value(c)]

\* Scores are kept in tenths, as they are rounded to.
Points(value) == CASE value = "pass" -> 1000 [] value = "partial" -> 500 [] OTHER -> 0

\* A mean rounded to a tenth; Python rounds halves by their binary value, here
\* they go up.
RoundedMean(total, n) == (2 * total + n) \div (2 * n)

\* Slip: the derived cells are counted with the cells they come from.
ScoredAll(grid, derived, p) == {c \in Members[p] : grid[c] # "indeterminate"}

Scored(grid, derived, p) == {c \in Members[p] \ derived : grid[c] # "indeterminate"}

Score(grid, derived, p) ==
  LET scored == Scored(grid, derived, p)
  IN IF scored = {} THEN Null
     ELSE RoundedMean(Total([c \in scored |-> Points(grid[c])], scored), Cardinality(scored))

\* Slip: the overall score counts an unscored principle as nothing achieved.
OverallOfAll(scores) ==
  RoundedMean(Total([p \in Principles |-> IF scores[p] = Null THEN 0 ELSE scores[p]], Principles),
              Cardinality(Principles))

Overall(scores) ==
  LET available == {p \in Principles : scores[p] # Null}
  IN IF available = {} THEN Null
     ELSE RoundedMean(Total(scores, available), Cardinality(available))

\* serialize_result
Serialize(assessor, row) ==
  LET grid == CellsFor(assessor, row)
      derived == DerivedFor(assessor)
      scores == [p \in Principles |-> Score(grid, derived, p)]
  IN [cells |-> grid, derived |-> derived, scores |-> scores,
      overall |-> Overall(scores),
      scored |-> [p \in Principles |-> Cardinality(Scored(grid, derived, p))]]

----------------------------------------------------------------------------
Init ==
  /\ tests \in [Cells \ Derived -> TestSets]
  /\ percents \in [Cells -> Percents]
  /\ rows = Null
  /\ results = Null
  /\ consensus = Null

Normalize ==
  /\ rows = Null
  /\ rows' = [x \in Assessors |-> IF x = "fuji" THEN FujiRow ELSE ChampionRow]
  /\ UNCHANGED <<tests, percents, results, consensus>>

GetResults ==
  /\ rows # Null
  /\ results = Null
  /\ results' = [x \in Assessors |-> Serialize(x, rows[x])]
  /\ consensus' = [c \in Cells |-> Combine({CellsFor(x, rows[x])[c] : x \in Assessors})]
  /\ UNCHANGED <<tests, percents, rows>>

Next == Normalize \/ GetResults

Spec == Init /\ [][Next]_pvars

----------------------------------------------------------------------------
\* The reference: values in the order in which one overrides another.
Rank(value) ==
  CASE value = "indeterminate" -> 0 [] value = "pass" -> 1
    [] value = "partial" -> 2 [] value = "fail" -> 3

Worst(S) == CHOOSE v \in S : \A w \in S : Rank(w) <= Rank(v)

\* Every column of a row has an outcome, as the tables demand, also where no
\* test covers a cell.
NoNullColumn ==
  rows # Null => \A x \in Assessors : \A c \in DOMAIN rows[x] :
                    rows[x][c] \in Outcomes

Reported == results # Null

\* The docstring of combine_outcomes: "error" is for tests that all had one.
ErrorMeansAllError ==
  rows # Null => \A c \in Cells \ Derived :
    rows["fair_champion"][c] = "error" => tests[c] = {"error"}

\* The consensus on a cell is the worst that any assessor measured; it does not
\* depend on the order or the number of the assessors.
ConsensusIsWorst ==
  Reported => \A c \in Cells :
    consensus[c] = Worst({results[x].cells[c] : x \in Assessors})

\* A cell FAIR Champion is reported with is no better than the worst of its
\* tests, is a pass only when every test ran and passed, and fails only when a
\* test did: an error, a test that does not apply or an indeterminate one turns
\* a cell neither into a pass nor into a failure.
ChampionNeverFlatters ==
  Reported => \A c \in Cells \ Derived :
    LET value == results["fair_champion"].cells[c]
    IN /\ \A o \in tests[c] : Rank(OutcomeValue(o)) <= Rank(value)
       /\ value = "pass" => tests[c] = {"pass"}
       /\ value = "fail" => "fail" \in tests[c]

\* A derived parent says what its refinements in the same report say, whatever
\* was stored for it; F-UJI's own measurement of a parent is kept.
ParentsFollowChildren ==
  Reported =>
    /\ \A p \in Derived : results["fair_champion"].cells[p]
                            = Worst({results["fair_champion"].cells[c] : c \in Parents[p]})
    /\ \A p \in Derived : results["fuji"].cells[p] = OutcomeValue(rows["fuji"][p])

\* A score of 100 means that all that was measured passed, one of 0 that all of
\* it failed; rounding never makes either.  Nothing measured is no score.
ExtremesAreExact ==
  Reported => \A x \in Assessors :
    LET r == results[x]
        measured == {r.cells[c] : c \in Cells \ r.derived} \ {"indeterminate"}
    IN /\ (r.overall = 1000) = (measured = {"pass"})
       /\ (r.overall = 0) = (measured = {"fail"})
       /\ (r.overall = Null) = (measured = {})

\* A parent that is derived is not counted beside its refinements: each
\* principle counts at most the cells an assessor measured itself.
NothingCountedTwice ==
  Reported => \A p \in Principles :
    /\ results["fair_champion"].scored[p]
         <= Cardinality({c \in Members[p] \ Derived : tests[c] # {}})
    /\ results["fuji"].scored[p] = Cardinality({c \in Members[p] : percents[c] # Null})
=============================================================================
