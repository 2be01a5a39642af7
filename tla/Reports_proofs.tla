--------------------------- MODULE Reports_proofs ---------------------------
(***************************************************************************)
(* The reports, for every grid, all outcomes of the tests, all percentages  *)
(* and all answers of the assessors: theorems of Reports and of Guidance,   *)
(* which extends it.                                                        *)
(***************************************************************************)
EXTENDS Guidance, Sums_proofs

\* The rows and the report are computed from what was measured.
RInv ==
  /\ tests \in [Cells \ Derived -> SUBSET Outcomes]
  /\ rows # Null =>
       rows = [x \in Assessors |-> IF x = "fuji" THEN FujiRow ELSE ChampionRow]
  /\ results # Null =>
       /\ rows # Null
       /\ results = [x \in Assessors |-> Serialize(x, rows[x])]
       /\ consensus = [c \in Cells |-> Combine({CellsFor(x, rows[x])[c] : x \in Assessors})]

LEMMA RInvNext == RInv /\ [Next]_pvars => RInv'
<1>1. SUFFICES ASSUME RInv, [Next]_pvars PROVE RInv'
  OBVIOUS
<1>2. tests' = tests /\ percents' = percents
  BY <1>1 DEF Next, Normalize, GetResults, pvars
<1>3. ChampionRow' = ChampionRow /\ FujiRow' = FujiRow
  BY <1>2 DEF ChampionRow, ChampionCell, ChampionParent, FujiRow
<1>4. CASE Normalize
  BY <1>1, <1>2, <1>3, <1>4 DEF Normalize, RInv
<1>5. CASE GetResults
  BY <1>1, <1>2, <1>3, <1>5 DEF GetResults, RInv
<1>6. CASE UNCHANGED pvars
  BY <1>1, <1>2, <1>3, <1>6 DEF pvars, RInv
<1>7. QED
  BY <1>1, <1>4, <1>5, <1>6 DEF Next

LEMMA ReportInvariant == Spec => []RInv
<1>1. Init => RInv
  BY ConstantsAssumption DEF Init, RInv
<1>2. QED
  BY <1>1, RInvNext, PTL DEF Spec

----------------------------------------------------------------------------
\* combine takes the worst of what was measured.

LEMMA WorstIs ==
  ASSUME NEW S \in SUBSET Values, NEW v \in S, \A w \in S : Rank(w) <= Rank(v)
  PROVE  Worst(S) = v
<1>1. \A w \in Values : Rank(w) = Rank(v) => w = v
  BY DEF Values, Rank
<1>2. \A w \in Values : Rank(w) \in Nat
  BY DEF Values, Rank
<1>3. Worst(S) \in S /\ \A w \in S : Rank(w) <= Rank(Worst(S))
  BY DEF Worst
<1>4. QED
  BY <1>1, <1>2, <1>3

LEMMA CombineIsWorst ==
  ASSUME NEW S \in SUBSET Values, S # {}
  PROVE  Combine(S) = Worst(S) /\ Combine(S) \in Values
<1>1. Combine(S) \in S
  BY DEF Combine, Values
<1>2. \A w \in S : Rank(w) <= Rank(Combine(S))
  BY DEF Combine, Values, Rank
<1>3. QED
  BY <1>1, <1>2, WorstIs

LEMMA OutcomeValueType == \A o : OutcomeValue(o) \in Values
BY DEF OutcomeValue, Values

LEMMA ParentsNonempty ==
  ASSUME NEW p \in Derived
  PROVE  p \in Cells /\ Parents[p] # {} /\ Parents[p] \subseteq Cells \ Derived
BY ConstantsAssumption

LEMMA CellsForType ==
  ASSUME NEW assessor, NEW row, NEW c \in Cells
  PROVE  CellsFor(assessor, row)[c] \in Values
<1>1. CASE c \in DerivedFor(assessor)
  <2>1. c \in Derived
    BY <1>1 DEF DerivedFor
  <2> DEFINE S == {OutcomeValue(row[k]) : k \in Parents[c]}
  <2>2. S \in SUBSET Values /\ S # {}
    BY <2>1, OutcomeValueType, ParentsNonempty
  <2>3. CellsFor(assessor, row)[c] = Combine(S)
    BY <1>1 DEF CellsFor
  <2>4. QED
    BY <2>2, <2>3, CombineIsWorst
<1>2. CASE c \notin DerivedFor(assessor)
  BY <1>2, OutcomeValueType DEF CellsFor
<1>3. QED
  BY <1>1, <1>2

LEMMA ReportedCells ==
  ASSUME RInv, Reported, NEW x \in Assessors
  PROVE  /\ results[x].cells = CellsFor(x, rows[x])
         /\ rows[x] = IF x = "fuji" THEN FujiRow ELSE ChampionRow
         /\ results[x].scored = [p \in Principles |->
              Cardinality(Scored(CellsFor(x, rows[x]), DerivedFor(x), p))]
<1>1. results[x] = Serialize(x, rows[x])
  BY DEF RInv, Reported
<1>2. /\ Serialize(x, rows[x]).cells = CellsFor(x, rows[x])
      /\ Serialize(x, rows[x]).scored = [p \in Principles |->
           Cardinality(Scored(CellsFor(x, rows[x]), DerivedFor(x), p))]
  BY DEF Serialize
<1>3. rows[x] = IF x = "fuji" THEN FujiRow ELSE ChampionRow
  BY DEF RInv, Reported
<1>4. QED
  BY <1>1, <1>2, <1>3

LEMMA ConsensusIsWorstHolds == RInv => ConsensusIsWorst
<1>1. ASSUME RInv, Reported, NEW c \in Cells
      PROVE  consensus[c] = Worst({results[x].cells[c] : x \in Assessors})
  <2> DEFINE S == {CellsFor(x, rows[x])[c] : x \in Assessors}
  <2>1. S \in SUBSET Values /\ S # {}
    BY CellsForType DEF Assessors
  <2>2. consensus[c] = Combine(S)
    BY <1>1 DEF RInv, Reported
  <2>3. S = {results[x].cells[c] : x \in Assessors}
    <3>1. \A x \in Assessors : results[x].cells[c] = CellsFor(x, rows[x])[c]
      BY <1>1, ReportedCells
    <3>2. QED
      BY <3>1
  <2>4. QED
    BY <2>1, <2>2, <2>3, CombineIsWorst
<1>2. QED
  BY <1>1 DEF ConsensusIsWorst

\* The consensus on a cell is the worst any assessor measured, for all rows.
THEOREM ConsensusTakesTheWorst == Spec => []ConsensusIsWorst
BY ConsensusIsWorstHolds, ReportInvariant, PTL

LEMMA ParentsFollowChildrenHolds == RInv => ParentsFollowChildren
<1>1. ASSUME RInv, Reported, NEW p \in Derived
      PROVE  /\ results["fair_champion"].cells[p]
                  = Worst({results["fair_champion"].cells[c] : c \in Parents[p]})
             /\ results["fuji"].cells[p] = OutcomeValue(rows["fuji"][p])
  <2> DEFINE row == rows["fair_champion"]
             S == {OutcomeValue(row[k]) : k \in Parents[p]}
  <2>1. /\ results["fair_champion"].cells = CellsFor("fair_champion", row)
        /\ results["fuji"].cells = CellsFor("fuji", rows["fuji"])
    BY <1>1, ReportedCells DEF Assessors
  <2>2. DerivedFor("fair_champion") = Derived /\ DerivedFor("fuji") = {}
    BY DEF DerivedFor, MeasuresParents
  <2>3. p \in Cells /\ Parents[p] # {} /\ Parents[p] \subseteq Cells \ Derived
    BY ParentsNonempty
  <2>4. CellsFor("fair_champion", row)[p] = Combine(S)
    BY <2>2, <2>3 DEF CellsFor
  <2>5. \A c \in Parents[p] : CellsFor("fair_champion", row)[c] = OutcomeValue(row[c])
    BY <2>2, <2>3 DEF CellsFor
  <2>6. S \in SUBSET Values /\ S # {}
    BY <2>3, OutcomeValueType
  <2>7. S = {results["fair_champion"].cells[c] : c \in Parents[p]}
    BY <2>1, <2>5
  <2>8. CellsFor("fuji", rows["fuji"])[p] = OutcomeValue(rows["fuji"][p])
    BY <2>2, <2>3 DEF CellsFor
  <2>9. QED
    BY <2>1, <2>4, <2>6, <2>7, <2>8, CombineIsWorst
<1>2. QED
  BY <1>1 DEF ParentsFollowChildren

\* A derived cell is the worst of the refinements shown beside it, whatever was
\* stored for it, and F-UJI's parents are its own measurements.
THEOREM ParentsAreDerived == Spec => []ParentsFollowChildren
BY ParentsFollowChildrenHolds, ReportInvariant, PTL

----------------------------------------------------------------------------
\* combine_outcomes and the cells FAIR Champion is reported with.

LEMMA CombineOutcomesType ==
  ASSUME NEW S \in SUBSET Outcomes
  PROVE  IF S = {} THEN CombineOutcomes(S) = Null ELSE CombineOutcomes(S) \in Outcomes
BY DEF CombineOutcomes, Outcomes

LEMMA CombineOutcomesWorst ==
  ASSUME NEW S \in SUBSET Outcomes, S # {}
  PROVE  LET value == OutcomeValue(CombineOutcomes(S))
         IN /\ \A o \in S : Rank(OutcomeValue(o)) <= Rank(value)
            /\ value = "pass" => S = {"pass"}
            /\ value = "fail" => "fail" \in S
<1> DEFINE o == CombineOutcomes(S)
<1>1. CASE \E x \in {"pass", "error", "not_applicable"} : S = {x}
  BY <1>1 DEF CombineOutcomes, OutcomeValue, Rank
<1>2. CASE "fail" \in S
  <2>1. o = "fail"
    BY <1>2 DEF CombineOutcomes
  <2>2. QED
    BY <1>2, <2>1 DEF OutcomeValue, Rank
<1>3. CASE /\ "fail" \notin S /\ {"partial", "pass"} \cap S # {}
           /\ ~ \E x \in {"pass", "error", "not_applicable"} : S = {x}
  <2>1. o = "partial"
    BY <1>3 DEF CombineOutcomes
  <2>2. QED
    BY <1>3, <2>1 DEF OutcomeValue, Rank
<1>4. CASE /\ "fail" \notin S /\ {"partial", "pass"} \cap S = {}
           /\ ~ \E x \in {"pass", "error", "not_applicable"} : S = {x}
  <2>1. o \in {"error", "indeterminate"}
    BY <1>4 DEF CombineOutcomes
  <2>2. \A x \in S : OutcomeValue(x) = "indeterminate"
    BY <1>4 DEF OutcomeValue
  <2>3. QED
    BY <2>1, <2>2 DEF OutcomeValue, Rank
<1>5. QED
  BY <1>1, <1>2, <1>3, <1>4

LEMMA ChampionCellShown ==
  ASSUME RInv, Reported, NEW c \in Cells \ Derived
  PROVE  /\ tests[c] \in SUBSET Outcomes
         /\ results["fair_champion"].cells[c]
              = IF tests[c] = {} THEN "indeterminate"
                ELSE OutcomeValue(CombineOutcomes(tests[c]))
<1>1. tests[c] \in SUBSET Outcomes
  BY DEF RInv
<1>2. /\ results["fair_champion"].cells = CellsFor("fair_champion", rows["fair_champion"])
      /\ rows["fair_champion"] = ChampionRow
  BY ReportedCells DEF Assessors
<1>3. DerivedFor("fair_champion") = Derived
  BY DEF DerivedFor, MeasuresParents
<1>4. ChampionRow[c] = ChampionCell(c)
  BY DEF ChampionRow
<1>5. CellsFor("fair_champion", ChampionRow)[c] = OutcomeValue(ChampionCell(c))
  BY <1>3, <1>4 DEF CellsFor
<1>6. ChampionCell(c) = IF tests[c] = {} THEN "not_applicable" ELSE CombineOutcomes(tests[c])
  BY <1>1, CombineOutcomesType, ConstantsAssumption DEF ChampionCell
<1>7. QED
  BY <1>1, <1>2, <1>5, <1>6 DEF OutcomeValue

LEMMA ChampionNeverFlattersHolds == RInv => ChampionNeverFlatters
<1>1. ASSUME RInv, Reported, NEW c \in Cells \ Derived
      PROVE  LET value == results["fair_champion"].cells[c]
             IN /\ \A o \in tests[c] : Rank(OutcomeValue(o)) <= Rank(value)
                /\ value = "pass" => tests[c] = {"pass"}
                /\ value = "fail" => "fail" \in tests[c]
  <2>1. CASE tests[c] = {}
    BY <1>1, <2>1, ChampionCellShown
  <2>2. CASE tests[c] # {}
    BY <1>1, <2>2, ChampionCellShown, CombineOutcomesWorst
  <2>3. QED
    BY <2>1, <2>2
<1>2. QED
  BY <1>1 DEF ChampionNeverFlatters

\* A cell is shown no better than the worst of its tests, for any number of
\* tests of any outcomes.
THEOREM ChampionIsStrict == Spec => []ChampionNeverFlatters
BY ChampionNeverFlattersHolds, ReportInvariant, PTL

----------------------------------------------------------------------------
\* What is counted.

LEMMA ScoredOf ==
  ASSUME RInv, Reported, NEW x \in Assessors, NEW p \in Principles
  PROVE  results[x].scored[p]
           = Cardinality({c \in Members[p] \ DerivedFor(x) :
                            results[x].cells[c] # "indeterminate"})
<1>1. results[x].cells = CellsFor(x, rows[x])
  BY ReportedCells
<1>2. results[x].scored = [q \in Principles |->
        Cardinality(Scored(CellsFor(x, rows[x]), DerivedFor(x), q))]
  BY ReportedCells
<1>3. QED
  BY <1>1, <1>2 DEF Scored

LEMMA NothingCountedTwiceHolds == RInv => NothingCountedTwice
<1>1. ASSUME RInv, Reported, NEW p \in Principles
      PROVE  /\ results["fair_champion"].scored[p]
                  <= Cardinality({c \in Members[p] \ Derived : tests[c] # {}})
             /\ results["fuji"].scored[p]
                  = Cardinality({c \in Members[p] : percents[c] # Null})
  <2>1. Members[p] \subseteq Cells /\ IsFiniteSet(Members[p])
    BY ConstantsAssumption DEF Cells
  <2>2. DerivedFor("fair_champion") = Derived /\ DerivedFor("fuji") = {}
        /\ {"fair_champion", "fuji"} \subseteq Assessors
    BY DEF DerivedFor, MeasuresParents, Assessors
  <2> DEFINE tested == {c \in Members[p] \ Derived : tests[c] # {}}
             shown == {c \in Members[p] \ Derived :
                         results["fair_champion"].cells[c] # "indeterminate"}
             given == {c \in Members[p] : percents[c] # Null}
             seen == {c \in Members[p] : results["fuji"].cells[c] # "indeterminate"}
  <2>3. shown \subseteq tested
    BY <1>1, <2>1, ChampionCellShown
  <2>4. IsFiniteSet(tested)
    BY <2>1, FS_Subset
  <2>5. Cardinality(shown) <= Cardinality(tested)
    BY <2>3, <2>4, FS_Subset
  <2>6. seen = given
    <3>1. ASSUME NEW c \in Members[p]
          PROVE  results["fuji"].cells[c] # "indeterminate" <=> percents[c] # Null
      <4>1. c \in Cells
        BY <2>1
      <4>2. results["fuji"].cells[c] = OutcomeValue(FujiRow[c])
        <5>1. results["fuji"].cells = CellsFor("fuji", FujiRow)
          BY <1>1, <2>2, ReportedCells
        <5>2. CellsFor("fuji", FujiRow)[c] = OutcomeValue(FujiRow[c])
          BY <2>2, <4>1 DEF CellsFor
        <5>3. QED
          BY <5>1, <5>2
      <4>3. FujiRow[c] = OutcomeFromPercent(percents[c])
        BY <4>1 DEF FujiRow
      <4>4. QED
        BY <4>2, <4>3 DEF OutcomeFromPercent, OutcomeValue
    <3>2. QED
      BY <3>1
  <2>7. results["fair_champion"].scored[p] = Cardinality(shown)
    BY <1>1, <2>2, ScoredOf
  <2>8. results["fuji"].scored[p] = Cardinality(seen)
    <3>1. Members[p] \ DerivedFor("fuji") = Members[p]
      BY <2>2
    <3>2. QED
      BY <1>1, <2>2, <3>1, ScoredOf
  <2>9. QED
    BY <2>5, <2>6, <2>7, <2>8
<1>2. QED
  BY <1>1 DEF NothingCountedTwice

\* A principle counts no cell twice, and nothing that was not measured.
THEOREM CountsAreOnce == Spec => []NothingCountedTwice
BY NothingCountedTwiceHolds, ReportInvariant, PTL

----------------------------------------------------------------------------
\* The columns of a row.

LEMMA ChampionCellType ==
  ASSUME RInv, NEW c \in Cells \ Derived
  PROVE  ChampionCell(c) \in Outcomes
<1>1. tests[c] \in SUBSET Outcomes
  BY DEF RInv
<1>2. "not_applicable" \in Outcomes
  BY DEF Outcomes
<1>3. QED
  BY <1>1, <1>2, CombineOutcomesType DEF ChampionCell

\* A principle has a cell no other cell is derived from: a parent, or one that
\* is not a refinement.
LEMMA TopsNonempty ==
  ASSUME NEW p \in Principles
  PROVE  Tops(p) # {} /\ Tops(p) \subseteq Cells
<1>1. PICK c \in Members[p] : TRUE
  BY ConstantsAssumption
<1>2. CASE c \in UNION {Parents[d] : d \in Derived}
  <2>1. PICK d \in Derived : c \in Parents[d]
    BY <1>2
  <2>2. PICK q \in Principles : {d} \cup Parents[d] \subseteq Members[q]
    BY ConstantsAssumption
  <2>3. q = p
    BY <1>1, <2>1, <2>2, ConstantsAssumption
  <2>4. d \notin UNION {Parents[e] : e \in Derived}
    BY ParentsNonempty
  <2>5. d \in Tops(p)
    BY <2>2, <2>3, <2>4 DEF Tops
  <2>6. QED
    BY <2>5 DEF Tops, Cells
<1>3. CASE c \notin UNION {Parents[d] : d \in Derived}
  BY <1>1, <1>3 DEF Tops, Cells
<1>4. QED
  BY <1>2, <1>3

LEMMA NoNullColumnHolds == RInv => NoNullColumn
<1>1. ASSUME RInv, NEW c \in Cells
      PROVE  (IF c \in Derived THEN ChampionParent(c) ELSE ChampionCell(c)) \in Outcomes
  <2>1. CASE c \in Derived
    <3> DEFINE S == {ChampionCell(k) : k \in Parents[c]}
    <3>1. S \in SUBSET Outcomes /\ S # {}
      BY <1>1, <2>1, ParentsNonempty, ChampionCellType
    <3>2. ChampionParent(c) = CombineOutcomes(S)
      BY DEF ChampionParent
    <3>3. QED
      BY <2>1, <3>1, <3>2, CombineOutcomesType
  <2>2. CASE c \notin Derived
    BY <1>1, <2>2, ChampionCellType
  <2>3. QED
    BY <2>1, <2>2
<1>2. ASSUME RInv, NEW x \in Cells \cup Principles
      PROVE  ChampionRow[x] \in Outcomes
  <2> DEFINE cell(c) == IF c \in Derived THEN ChampionParent(c) ELSE ChampionCell(c)
  <2>1. ChampionRow[x] = IF x \in Cells THEN cell(x)
                         ELSE CombineOutcomes({cell(c) : c \in Tops(x)})
    BY DEF ChampionRow
  <2>2. \A c \in Cells : cell(c) \in Outcomes
    BY <1>1, <1>2
  <2> HIDE DEF cell
  <2>3. CASE x \in Cells
    BY <2>1, <2>2, <2>3
  <2>4. CASE x \notin Cells
    <3>1. /\ {cell(c) : c \in Tops(x)} \in SUBSET Outcomes
          /\ {cell(c) : c \in Tops(x)} # {}
      BY <1>2, <2>2, <2>4, TopsNonempty
    <3>2. QED
      BY <2>1, <2>4, <3>1, CombineOutcomesType
  <2>5. QED
    BY <2>3, <2>4
<1>3. \A c \in Cells : FujiRow[c] \in Outcomes
  BY DEF FujiRow, OutcomeFromPercent, Outcomes
<1>4. DOMAIN ChampionRow = Cells \cup Principles /\ DOMAIN FujiRow = Cells
  BY DEF ChampionRow, FujiRow
<1>5. ASSUME RInv, rows # Null, NEW x \in Assessors
      PROVE  \A c \in DOMAIN rows[x] : rows[x][c] \in Outcomes
  <2>1. rows[x] = IF x = "fuji" THEN FujiRow ELSE ChampionRow
    BY <1>5 DEF RInv
  <2>2. QED
    BY <1>2, <1>3, <1>4, <1>5, <2>1
<1>6. QED
  BY <1>5 DEF NoNullColumn

\* Every column of every row holds an outcome, whatever the tests gave, also
\* where there is no test: the tables' NOT NULL is never broken.
THEOREM ColumnsAreFilled == Spec => []NoNullColumn
BY NoNullColumnHolds, ReportInvariant, PTL

----------------------------------------------------------------------------
\* Scores: means of at most 1000 tenths, rounded.

LEMMA Division ==
  \A a \in Nat, b \in Nat \ {0} :
    a \div b \in Nat /\ b * (a \div b) <= a /\ a < b * (a \div b) + b
OBVIOUS

LEMMA MeanIs ==
  ASSUME NEW total \in Nat, NEW n \in Nat \ {0}
  PROVE  /\ RoundedMean(total, n) \in Nat
         /\ (2 * n) * RoundedMean(total, n) <= 2 * total + n
         /\ 2 * total + n < (2 * n) * RoundedMean(total, n) + 2 * n
<1>1. 2 * total + n \in Nat /\ 2 * n \in Nat \ {0}
  OBVIOUS
<1>2. QED
  BY <1>1, Division DEF RoundedMean

LEMMA MeanBounds ==
  ASSUME NEW total \in Nat, NEW n \in Nat \ {0}, total <= 1000 * n
  PROVE  /\ RoundedMean(total, n) \in Nat /\ RoundedMean(total, n) <= 1000
         /\ total = 1000 * n => RoundedMean(total, n) = 1000
         /\ total = 0 => RoundedMean(total, n) = 0
<1> DEFINE q == RoundedMean(total, n)
<1>1. q \in Nat /\ (2 * n) * q <= 2 * total + n /\ 2 * total + n < (2 * n) * q + 2 * n
  BY MeanIs
<1> HIDE DEF q
<1>2. q <= 1000
  BY <1>1
<1>3. ASSUME total = 1000 * n PROVE q = 1000
  BY <1>1, <1>3
<1>4. ASSUME total = 0 PROVE q = 0
  BY <1>1, <1>4
<1>5. QED
  BY <1>1, <1>2, <1>3, <1>4 DEF q

\* How far a score is from an end when a cell of it is not at that end.
LEMMA MeanInside ==
  ASSUME NEW total \in Nat, NEW n \in Nat \ {0}, NEW k \in Nat, n * (k + 1) < 1000
  PROVE  /\ total + 500 <= 1000 * n => k < 2 * (1000 - RoundedMean(total, n))
         /\ total >= 500 => k < 2 * RoundedMean(total, n)
<1> DEFINE q == RoundedMean(total, n)
<1>1. q \in Nat /\ (2 * n) * q <= 2 * total + n /\ 2 * total + n < (2 * n) * q + 2 * n
  BY MeanIs
<1> HIDE DEF q
<1>2. ASSUME total + 500 <= 1000 * n PROVE k < 2 * (1000 - q)
  <2>1. (2 * n) * q <= 2001 * n - 1000
    BY <1>1, <1>2
  <2>2. QED
    BY <1>1, <2>1
<1>3. ASSUME total >= 500 PROVE k < 2 * q
  <2>1. 1000 + n < (2 * n) * q + 2 * n
    BY <1>1, <1>3
  <2>2. QED
    BY <1>1, <2>1
<1>4. QED
  BY <1>2, <1>3 DEF q

\* Few enough scores are averaged for one that is not at an end to show.
LEMMA MeanOfScores ==
  ASSUME NEW total \in Nat, NEW n \in Nat \ {0}, NEW score \in Nat, score <= 1000
  PROVE  /\ (total + 1000 <= 1000 * n + score /\ n < 2 * (1000 - score))
              => RoundedMean(total, n) # 1000
         /\ (score <= total /\ n < 2 * score) => RoundedMean(total, n) # 0
<1> DEFINE q == RoundedMean(total, n)
<1>1. q \in Nat /\ (2 * n) * q <= 2 * total + n /\ 2 * total + n < (2 * n) * q + 2 * n
  BY MeanIs
<1> HIDE DEF q
<1>2. ASSUME total + 1000 <= 1000 * n + score, n < 2 * (1000 - score), q = 1000
      PROVE  FALSE
  BY <1>1, <1>2
<1>3. ASSUME score <= total, n < 2 * score, q = 0
      PROVE  FALSE
  BY <1>1, <1>3
<1>4. QED
  BY <1>2, <1>3 DEF q

LEMMA PointsType ==
  ASSUME NEW v \in Values \ {"indeterminate"}
  PROVE  /\ Points(v) \in Nat /\ Points(v) <= 1000
         /\ IF v = "pass" THEN Points(v) = 1000 ELSE Points(v) <= 500
         /\ IF v = "fail" THEN Points(v) = 0 ELSE Points(v) >= 500
BY DEF Values, Points

LEMMA PrinciplesCounted ==
  /\ Cardinality(Principles) \in Nat /\ IsFiniteSet(Principles)
  /\ \A P \in SUBSET Principles : /\ IsFiniteSet(P)
                                  /\ Cardinality(P) \in Nat
                                  /\ Cardinality(P) <= Cardinality(Principles)
BY GridAssumption, FS_Subset, FS_CardinalityType

LEMMA ScoreIs ==
  ASSUME NEW grid, NEW derived, NEW p \in Principles,
         \A c \in Cells : grid[c] \in Values
  PROVE  LET scored == Scored(grid, derived, p)
             score == Score(grid, derived, p)
             N == Cardinality(Principles)
         IN IF scored = {} THEN score = Null
            ELSE /\ score \in 0 .. 1000
                 /\ (\A c \in scored : grid[c] = "pass") => score = 1000
                 /\ (\A c \in scored : grid[c] = "fail") => score = 0
                 /\ (\E c \in scored : grid[c] # "pass") => N < 2 * (1000 - score)
                 /\ (\E c \in scored : grid[c] # "fail") => N < 2 * score
<1> DEFINE scored == Scored(grid, derived, p)
           n == Cardinality(scored)
           N == Cardinality(Principles)
           f == [c \in scored |-> Points(grid[c])]
           total == Total(f, scored)
<1>1. CASE scored = {}
  BY <1>1 DEF Score
<1>2. CASE scored # {}
  <2>1. Score(grid, derived, p) = RoundedMean(total, n)
    BY <1>2 DEF Score
  <2>2. scored \subseteq Members[p] /\ Members[p] \subseteq Cells /\ IsFiniteSet(Members[p])
    BY ConstantsAssumption DEF Scored, Cells
  <2>3. IsFiniteSet(scored) /\ n <= Cardinality(Members[p])
        /\ Cardinality(Members[p]) \in Nat
    BY <2>2, FS_Subset, FS_CardinalityType
  <2>4. n \in Nat \ {0}
    BY <1>2, <2>3, FS_CardinalityType, FS_EmptySet
  <2>5. \A c \in scored : grid[c] \in Values \ {"indeterminate"} /\ f[c] = Points(grid[c])
    BY <2>2 DEF Scored
  <2>6. \A c \in scored : f[c] \in Nat /\ f[c] <= 1000
    BY <2>5, PointsType
  <2>7. N \in Nat /\ Cardinality(Members[p]) * (N + 1) < 1000
    BY PrinciplesCounted, GridAssumption
  <2> HIDE DEF scored, f
  <2>8. /\ total \in Nat /\ total <= 1000 * n
        /\ \A c \in scored : total + 1000 <= 1000 * n + f[c]
        /\ \A c \in scored : f[c] <= total
    <3>1. /\ total \in Nat /\ total <= 1000 * n
          /\ \A c \in scored : total + 1000 <= 1000 * n + f[c]
      BY <2>3, <2>6, TotalAtMost
    <3>2. ASSUME NEW c \in scored PROVE f[c] <= total
      BY <2>3, <2>6, TotalAtLeast
    <3>3. QED
      BY <3>1, <3>2
  <2> HIDE DEF n, N, total
  <2>9. n * (N + 1) < 1000
    BY <2>3, <2>4, <2>7
  <2> DEFINE score == RoundedMean(total, n)
  <2>10. score \in Nat /\ score <= 1000
    BY <2>4, <2>8, MeanBounds
  <2>11. ASSUME \A c \in scored : grid[c] = "pass" PROVE score = 1000
    <3>1. \A c \in scored : f[c] = 1000
      BY <2>5, <2>11, PointsType
    <3>2. total = 1000 * n
      BY <2>3, <3>1, TotalConstant DEF total, n
    <3>3. QED
      BY <2>4, <2>8, <3>2, MeanBounds
  <2>12. ASSUME \A c \in scored : grid[c] = "fail" PROVE score = 0
    <3>1. \A c \in scored : f[c] = 0
      BY <2>5, <2>12, PointsType
    <3>2. total = 0
      BY <2>3, <3>1, TotalZero DEF total
    <3>3. QED
      BY <2>4, <2>8, <3>2, MeanBounds
  <2>13. ASSUME NEW c \in scored, grid[c] # "pass" PROVE N < 2 * (1000 - score)
    <3>1. f[c] <= 500 /\ f[c] \in Nat
      BY <2>5, <2>6, <2>13, PointsType
    <3>2. total + 500 <= 1000 * n
      BY <2>4, <2>8, <3>1
    <3>3. QED
      BY <2>4, <2>7, <2>8, <2>9, <3>2, MeanInside
  <2>14. ASSUME NEW c \in scored, grid[c] # "fail" PROVE N < 2 * score
    <3>1. f[c] >= 500 /\ f[c] \in Nat
      BY <2>5, <2>6, <2>14, PointsType
    <3>2. total >= 500
      BY <2>8, <3>1
    <3>3. QED
      BY <2>4, <2>7, <2>8, <2>9, <3>2, MeanInside
  <2>15. QED
    BY <1>2, <2>1, <2>10, <2>11, <2>12, <2>13, <2>14 DEF scored, N
<1>3. QED
  BY <1>1, <1>2

LEMMA ScoresAreSmall ==
  ASSUME NEW f, NEW S, NEW b \in Nat, \A x \in S : f[x] \in 0 .. b
  PROVE  \A x \in S : f[x] \in Nat /\ f[x] <= b
OBVIOUS

LEMMA OverallIs ==
  ASSUME NEW scores, \A p \in Principles : scores[p] # Null => scores[p] \in 0 .. 1000
  PROVE  LET available == {p \in Principles : scores[p] # Null}
             overall == Overall(scores)
             N == Cardinality(Principles)
         IN IF available = {} THEN overall = Null
            ELSE /\ overall \in 0 .. 1000
                 /\ (\A p \in available : scores[p] = 1000) => overall = 1000
                 /\ (\A p \in available : scores[p] = 0) => overall = 0
                 /\ (\E p \in available : N < 2 * (1000 - scores[p])) => overall # 1000
                 /\ (\E p \in available : N < 2 * scores[p]) => overall # 0
<1> DEFINE available == {p \in Principles : scores[p] # Null}
           n == Cardinality(available)
           N == Cardinality(Principles)
           total == Total(scores, available)
<1>1. CASE available = {}
  BY <1>1 DEF Overall
<1>2. CASE available # {}
  <2>1. Overall(scores) = RoundedMean(total, n)
    BY <1>2 DEF Overall
  <2>2. IsFiniteSet(available) /\ n \in Nat /\ N \in Nat /\ n <= N
    BY PrinciplesCounted
  <2>3. n \in Nat \ {0}
    BY <1>2, <2>2, FS_EmptySet
  <2>4. \A p \in available : scores[p] \in Nat /\ scores[p] <= 1000
    <3> DEFINE top == 1000
    <3>1. (\A p \in available : scores[p] \in 0 .. top) /\ top \in Nat
      OBVIOUS
    <3> HIDE DEF available, n, N, total, top
    <3>2. \A p \in available : scores[p] \in Nat /\ scores[p] <= top
      BY <3>1, ScoresAreSmall
    <3>3. QED
      BY <3>2 DEF top
  <2> HIDE DEF available
  <2>5. /\ total \in Nat /\ total <= 1000 * n
        /\ \A p \in available : total + 1000 <= 1000 * n + scores[p]
        /\ \A p \in available : scores[p] <= total
    <3>1. /\ total \in Nat /\ total <= 1000 * n
          /\ \A p \in available : total + 1000 <= 1000 * n + scores[p]
      BY <2>2, <2>4, TotalAtMost
    <3>2. ASSUME NEW p \in available PROVE scores[p] <= total
      BY <2>2, <2>4, TotalAtLeast
    <3>3. QED
      BY <3>1, <3>2
  <2> HIDE DEF n, N, total
  <2> DEFINE overall == RoundedMean(total, n)
  <2>6. overall \in Nat /\ overall <= 1000
    BY <2>3, <2>5, MeanBounds
  <2>7. ASSUME \A p \in available : scores[p] = 1000 PROVE overall = 1000
    <3>1. total = 1000 * n
      BY <2>2, <2>7, TotalConstant DEF total, n
    <3>2. QED
      BY <2>3, <2>5, <3>1, MeanBounds
  <2>8. ASSUME \A p \in available : scores[p] = 0 PROVE overall = 0
    <3>1. total = 0
      BY <2>2, <2>8, TotalZero DEF total
    <3>2. QED
      BY <2>3, <2>5, <3>1, MeanBounds
  <2>9. ASSUME NEW p \in available, N < 2 * (1000 - scores[p]) PROVE overall # 1000
    <3>1. n < 2 * (1000 - scores[p]) /\ total + 1000 <= 1000 * n + scores[p]
      BY <2>2, <2>4, <2>5, <2>9
    <3>2. scores[p] \in Nat /\ scores[p] <= 1000
      BY <2>4
    <3>3. QED
      BY <2>3, <2>5, <3>1, <3>2, MeanOfScores
  <2>10. ASSUME NEW p \in available, N < 2 * scores[p] PROVE overall # 0
    <3>1. n < 2 * scores[p] /\ scores[p] <= total
      BY <2>2, <2>4, <2>5, <2>10
    <3>2. scores[p] \in Nat /\ scores[p] <= 1000
      BY <2>4
    <3>3. QED
      BY <2>3, <2>5, <3>1, <3>2, MeanOfScores
  <2>11. overall \in 0 .. 1000
    BY <2>6
  <2>12. overall = Overall(scores)
    BY <2>1
  <2> HIDE DEF overall
  <2>13. QED
    BY <1>2, <2>7, <2>8, <2>9, <2>10, <2>11, <2>12 DEF available, N
<1>3. QED
  BY <1>1, <1>2

LEMMA ExtremesAreExactHolds == RInv => ExtremesAreExact
<1>1. ASSUME RInv, Reported, NEW x \in Assessors
      PROVE  LET r == results[x]
                 measured == {r.cells[c] : c \in Cells \ r.derived} \ {"indeterminate"}
             IN /\ (r.overall = 1000) = (measured = {"pass"})
                /\ (r.overall = 0) = (measured = {"fail"})
                /\ (r.overall = Null) = (measured = {})
  <2> DEFINE grid == CellsFor(x, rows[x])
             derived == DerivedFor(x)
             scores == [p \in Principles |-> Score(grid, derived, p)]
             scored(p) == Scored(grid, derived, p)
             N == Cardinality(Principles)
             available == {p \in Principles : scores[p] # Null}
             overall == Overall(scores)
             measured == {grid[c] : c \in Cells \ derived} \ {"indeterminate"}
  <2>1. /\ results[x].cells = grid /\ results[x].derived = derived
        /\ results[x].overall = overall
    <3>1. results[x] = Serialize(x, rows[x])
      BY <1>1 DEF RInv, Reported
    <3>2. QED
      BY <3>1 DEF Serialize
  <2>2. \A c \in Cells : grid[c] \in Values
    BY CellsForType
  <2>3. measured = UNION {{grid[c] : c \in scored(p)} : p \in Principles}
    BY DEF Scored, Cells
  <2> HIDE DEF grid, derived
  <2>4. \A p \in Principles : Null \notin 0 .. 1000 /\ scores[p] = Score(grid, derived, p)
    BY ConstantsAssumption
  <2> HIDE DEF scores
  <2>5. ASSUME NEW p \in Principles
        PROVE  IF scored(p) = {} THEN scores[p] = Null
               ELSE /\ scores[p] \in 0 .. 1000
                    /\ (\A c \in scored(p) : grid[c] = "pass") => scores[p] = 1000
                    /\ (\A c \in scored(p) : grid[c] = "fail") => scores[p] = 0
                    /\ (\E c \in scored(p) : grid[c] # "pass") => N < 2 * (1000 - scores[p])
                    /\ (\E c \in scored(p) : grid[c] # "fail") => N < 2 * scores[p]
    BY <2>2, <2>4, ScoreIs
  <2>6. \A p \in Principles : scores[p] # Null => scores[p] \in 0 .. 1000
    BY <2>5
  <2>7. IF available = {} THEN overall = Null
        ELSE /\ overall \in 0 .. 1000
             /\ (\A p \in available : scores[p] = 1000) => overall = 1000
             /\ (\A p \in available : scores[p] = 0) => overall = 0
             /\ (\E p \in available : N < 2 * (1000 - scores[p])) => overall # 1000
             /\ (\E p \in available : N < 2 * scores[p]) => overall # 0
    BY <2>6, OverallIs
  <2>8. \A p \in Principles : p \in available <=> scored(p) # {}
    BY <2>4, <2>5
  <2> HIDE DEF scored, overall, N, measured
  <2>9. CASE measured = {}
    <3>1. available = {}
      BY <2>3, <2>8, <2>9
    <3>2. overall = Null
      BY <2>7, <3>1
    <3>3. Null \notin 0 .. 1000
      BY ConstantsAssumption
    <3>4. overall # 1000 /\ overall # 0
      BY <3>2, <3>3
    <3>5. QED
      BY <2>1, <2>9, <3>2, <3>4 DEF measured
  <2>10. CASE measured # {}
    <3>1. available # {} /\ overall # Null
      <4>1. available # {}
        BY <2>3, <2>8, <2>10
      <4>2. QED
        BY <2>7, <4>1, ConstantsAssumption
    <3>2. ASSUME measured = {"pass"} PROVE overall = 1000
      <4>1. \A p \in available : scores[p] = 1000
        BY <2>3, <2>5, <2>8, <3>2
      <4>2. QED
        BY <2>7, <3>1, <4>1
    <3>3. ASSUME measured = {"fail"} PROVE overall = 0
      <4>1. \A p \in available : scores[p] = 0
        BY <2>3, <2>5, <2>8, <3>3
      <4>2. QED
        BY <2>7, <3>1, <4>1
    <3>4. ASSUME measured # {"pass"} PROVE overall # 1000
      <4>1. PICK p \in Principles : \E c \in scored(p) : grid[c] # "pass"
        BY <2>3, <2>10, <3>4
      <4>2. p \in available /\ N < 2 * (1000 - scores[p])
        BY <2>5, <2>8, <4>1
      <4>3. QED
        BY <2>7, <3>1, <4>2
    <3>5. ASSUME measured # {"fail"} PROVE overall # 0
      <4>1. PICK p \in Principles : \E c \in scored(p) : grid[c] # "fail"
        BY <2>3, <2>10, <3>5
      <4>2. p \in available /\ N < 2 * scores[p]
        BY <2>5, <2>8, <4>1
      <4>3. QED
        BY <2>7, <3>1, <4>2
    <3>6. QED
      BY <2>1, <2>10, <3>1, <3>2, <3>3, <3>4, <3>5 DEF measured
  <2>11. QED
    BY <2>9, <2>10
<1>2. QED
  BY <1>1 DEF ExtremesAreExact

\* A score of 100 means that everything measured passed, one of 0 that it all
\* failed, and no score that nothing was measured: for every grid small enough
\* (GridAssumption), no rounding hides a cell.
THEOREM RoundingIsHonest == Spec => []ExtremesAreExact
BY ExtremesAreExactHolds, ReportInvariant, PTL

----------------------------------------------------------------------------
\* Guidance: the reports and their entries are computed from the answers.

GInv ==
  /\ RInv
  /\ champion \in ChampionAnswers
  /\ DOMAIN points = Metrics /\ \A m \in Metrics : points[m] \in MetricPoints(m)
  /\ tests = TestOutcomes
  /\ percents = [c \in Cells |-> CellPercent(c)]
  /\ DOMAIN guidance = MeasuresParents \cup Assessors
  /\ offline # Null => /\ offline = Serialize("offline", OfflineRow)
                       /\ guidance["offline"] = OfflineGuidance
  /\ results # Null => /\ guidance["fuji"] = FujiGuidance
                       /\ guidance["fair_champion"] = ChampionGuidance

\* What a spelling is taken for; only its two spellings are taken for a pass.
LEMMA ParseIs ==
  ASSUME NEW v
  PROVE  /\ ParseOutcome(v) \in Outcomes
         /\ ParseOutcome(v) = "pass" <=> v \in {"pass", "passed"}
<1>1. DOMAIN Aliases = {"pass", "partial", "fail", "error", "not_applicable"}
  BY DEF Aliases
<1>2. ASSUME \E o \in DOMAIN Aliases : v \in Aliases[o]
      PROVE  ParseOutcome(v) \in DOMAIN Aliases /\ v \in Aliases[ParseOutcome(v)]
  BY <1>2 DEF ParseOutcome
<1>3. CASE \E o \in DOMAIN Aliases : v \in Aliases[o]
  BY <1>1, <1>2, <1>3 DEF Aliases, Outcomes
<1>4. CASE ~ \E o \in DOMAIN Aliases : v \in Aliases[o]
  <2>1. ParseOutcome(v) = "indeterminate"
    BY <1>4 DEF ParseOutcome
  <2>2. v \notin {"pass", "passed"}
    BY <1>1, <1>4 DEF Aliases
  <2>3. QED
    BY <2>1, <2>2 DEF Outcomes
<1>5. QED
  BY <1>3, <1>4

\* The outcome of one test of FAIR Champion, as it is normalised, and its cell.
TestOutcome(t) ==
  IF champion.test_results = "dict" THEN ParseOutcome(champion.result[t.reference])
  ELSE ExtractTestOutcome(champion.result[t])

CellOf(t) == IF champion.test_results = "dict" THEN t.cell ELSE t.legacy

LEMMA TestOutcomesAre ==
  /\ TestOutcomes \in [Cells \ Derived -> SUBSET Outcomes]
  /\ \A c \in Cells \ Derived :
       TestOutcomes[c] = {TestOutcome(t) : t \in {x \in Tests : CellOf(x) = c}}
<1>1. TestOutcomes = [c \in Cells \ Derived |->
                        {TestOutcome(t) : t \in {x \in Tests : CellOf(x) = c}}]
  BY DEF TestOutcomes, TestOutcome, CellOf
<1>2. \A t : ExtractTestOutcome(t) \in Outcomes
  BY ParseIs DEF ExtractTestOutcome, Outcomes
<1>3. \A t : TestOutcome(t) \in Outcomes
  BY <1>2, ParseIs DEF TestOutcome
<1>4. QED
  BY <1>1, <1>3

LEMMA GuidanceStart == GuidanceInit => GInv
<1>1. SUFFICES ASSUME GuidanceInit PROVE GInv
  OBVIOUS
<1>2. RInv
  BY <1>1, TestOutcomesAre DEF GuidanceInit, RInv
<1>3. /\ champion \in ChampionAnswers
      /\ DOMAIN points = Metrics /\ \A m \in Metrics : points[m] \in MetricPoints(m)
  BY <1>1, EvidenceAssumption DEF GuidanceInit
<1>4. QED
  BY <1>1, <1>2, <1>3 DEF GuidanceInit, GInv

LEMMA GuidanceSteps == GInv /\ [GuidanceNext]_gvars => GInv'
<1>1. SUFFICES ASSUME GInv, [GuidanceNext]_gvars PROVE GInv'
  OBVIOUS
<1>2. champion' = champion /\ points' = points
  BY <1>1 DEF GuidanceNext, AssessMetadata, NormalizeAnswers, GetResultsWithGuidance, gvars
<1>3. [Next]_pvars
  BY <1>1 DEF GuidanceNext, AssessMetadata, NormalizeAnswers, GetResultsWithGuidance, gvars, Next
<1>4. RInv' /\ tests' = tests /\ percents' = percents
  <2>1. tests' = tests /\ percents' = percents
    BY <1>3 DEF Next, Normalize, GetResults, pvars
  <2>2. QED
    BY <1>1, <1>3, <2>1, RInvNext DEF GInv
<1>5. /\ TestOutcomes' = TestOutcomes /\ OfflineRow' = OfflineRow
      /\ FujiGuidance' = FujiGuidance /\ ChampionGuidance' = ChampionGuidance
      /\ OfflineGuidance' = OfflineGuidance
      /\ \A c \in Cells : CellPercent(c)' = CellPercent(c)
  BY <1>2 DEF TestOutcomes, OfflineRow, Decided, Earned, FujiGuidance, OutcomeOf,
              ChampionGuidance, AlgorithmGuidance, TestsGuidance, OfflineGuidance, CellPercent
<1>6. /\ champion' \in ChampionAnswers
      /\ DOMAIN points' = Metrics /\ \A m \in Metrics : points'[m] \in MetricPoints(m)
      /\ tests' = TestOutcomes'
      /\ percents' = [c \in Cells |-> CellPercent(c)']
  BY <1>1, <1>2, <1>4, <1>5 DEF GInv
<1>7. /\ DOMAIN guidance' = MeasuresParents \cup Assessors
      /\ offline' # Null => /\ offline' = Serialize("offline", OfflineRow)
                            /\ guidance'["offline"] = OfflineGuidance
      /\ results' # Null => /\ guidance'["fuji"] = FujiGuidance
                            /\ guidance'["fair_champion"] = ChampionGuidance
  <2>1. CASE AssessMetadata
    BY <1>1, <2>1 DEF AssessMetadata, GInv, pvars, MeasuresParents, Assessors
  <2>2. CASE NormalizeAnswers
    BY <1>1, <2>2 DEF NormalizeAnswers, Normalize, GInv
  <2>3. CASE GetResultsWithGuidance
    BY <1>1, <2>3 DEF GetResultsWithGuidance, GInv, MeasuresParents, Assessors
  <2>4. CASE UNCHANGED gvars
    BY <1>1, <2>4 DEF gvars, pvars, GInv
  <2>5. QED
    BY <1>1, <2>1, <2>2, <2>3, <2>4 DEF GuidanceNext
<1>8. QED
  BY <1>4, <1>5, <1>6, <1>7 DEF GInv

LEMMA GuidanceInvariant == GuidanceSpec => []GInv
BY GuidanceStart, GuidanceSteps, PTL DEF GuidanceSpec

----------------------------------------------------------------------------
\* Points: what the sums over the metrics of a cell say of each metric.

LEMMA MetricIs ==
  ASSUME GInv, NEW m \in Metrics
  PROVE  /\ m.total \in Nat /\ m.cell \in Cells
         /\ points[m].earned \in Nat /\ points[m].earned <= m.total
         /\ points[m].decided \in BOOLEAN
<1>1. m.total \in Nat /\ m.cell \in Cells
  BY EvidenceAssumption
<1>2. points[m] \in MetricPoints(m)
  BY DEF GInv
<1>3. QED
  BY <1>1, <1>2 DEF MetricPoints

EarnedPoints == [m \in Metrics |-> points[m].earned]

LEMMA SumsOfPoints ==
  ASSUME GInv, NEW S \in SUBSET Metrics
  PROVE  /\ IsFiniteSet(S)
         /\ Total(Maxima, S) \in Nat /\ Total(EarnedPoints, S) \in Nat
         /\ Total(EarnedPoints, S) <= Total(Maxima, S)
         /\ Total(EarnedPoints, S) = Total(Maxima, S)
              => \A m \in S : points[m].earned = m.total
         /\ Total(EarnedPoints, S) = 0 => \A m \in S : points[m].earned = 0
         /\ (\A m \in S : points[m].earned = m.total)
              => Total(EarnedPoints, S) = Total(Maxima, S)
         /\ (\A m \in S : points[m].earned = 0) => Total(EarnedPoints, S) = 0
         /\ \A m \in S : m.total <= Total(Maxima, S)
<1>1. IsFiniteSet(S)
  BY EvidenceAssumption, FS_Subset
<1>2. \A m \in S : /\ EarnedPoints[m] = points[m].earned /\ Maxima[m] = m.total
                   /\ EarnedPoints[m] \in Nat /\ Maxima[m] \in Nat
                   /\ EarnedPoints[m] <= Maxima[m]
  BY MetricIs DEF EarnedPoints, Maxima
<1>3. Total(Maxima, S) \in Nat /\ Total(EarnedPoints, S) \in Nat
  BY <1>1, <1>2, TotalNat
<1>4. Total(EarnedPoints, S) <= Total(Maxima, S)
  BY <1>1, <1>2, TotalMonotone
<1>5. ASSUME Total(EarnedPoints, S) = Total(Maxima, S), NEW m \in S
      PROVE  points[m].earned = m.total
  <2>1. Total(Maxima, S) <= Total(EarnedPoints, S)
    BY <1>3, <1>5
  <2>2. QED
    BY <1>1, <1>2, <1>5, <2>1, TotalEqual
<1>6. ASSUME Total(EarnedPoints, S) = 0, NEW m \in S
      PROVE  points[m].earned = 0
  <2>1. EarnedPoints[m] <= Total(EarnedPoints, S)
    BY <1>1, <1>2, <1>6, TotalAtLeast
  <2>2. QED
    BY <1>2, <1>6, <2>1
<1>7. ASSUME \A m \in S : points[m].earned = m.total
      PROVE  Total(EarnedPoints, S) = Total(Maxima, S)
  BY <1>1, <1>2, <1>7, TotalSame
<1>8. ASSUME \A m \in S : points[m].earned = 0
      PROVE  Total(EarnedPoints, S) = 0
  BY <1>1, <1>2, <1>8, TotalZero
<1>9. \A m \in S : m.total <= Total(Maxima, S)
  BY <1>1, <1>2, TotalAtLeast
<1>10. QED
  BY <1>1, <1>3, <1>4, <1>5, <1>6, <1>7, <1>8, <1>9

LEMMA PercentIs ==
  ASSUME NEW earned \in Nat, NEW total \in Nat, total # 0, total < 200, earned <= total
  PROVE  /\ RoundedMean(100 * earned, total) \in 0 .. 1000
         /\ RoundedMean(100 * earned, total) = 100 <=> earned = total
         /\ RoundedMean(100 * earned, total) = 0 <=> earned = 0
<1> DEFINE q == RoundedMean(100 * earned, total)
<1>1. /\ q \in Nat
      /\ (2 * total) * q <= 2 * (100 * earned) + total
      /\ 2 * (100 * earned) + total < (2 * total) * q + 2 * total
  BY MeanIs
<1> HIDE DEF q
<1>2. q <= 100
  BY <1>1
<1>3. ASSUME earned = total PROVE q = 100
  BY <1>1, <1>3
<1>4. ASSUME q = 100 PROVE earned = total
  <2>1. 200 * total <= 200 * earned + total
    BY <1>1, <1>4
  <2>2. QED
    BY <2>1
<1>5. ASSUME earned = 0 PROVE q = 0
  BY <1>1, <1>5
<1>6. ASSUME q = 0 PROVE earned = 0
  <2>1. 200 * earned + total < 2 * total
    BY <1>1, <1>6
  <2>2. QED
    BY <2>1
<1>7. QED
  BY <1>1, <1>2, <1>3, <1>4, <1>5, <1>6 DEF q

\* What the points of a cell make of it: F-UJI's cell, from all its metrics.
OfPoints(earned, total) ==
  IF total = 0 THEN "indeterminate"
  ELSE IF earned = total THEN "pass" ELSE IF earned = 0 THEN "fail" ELSE "partial"

LEMMA FujiCellShown ==
  ASSUME GInv, Reported, NEW c \in Cells
  PROVE  results["fuji"].cells[c]
           = OfPoints(Total(EarnedPoints, MetricsOf(c)), Total(Maxima, MetricsOf(c)))
<1> DEFINE e == Total(EarnedPoints, MetricsOf(c))
           t == Total(Maxima, MetricsOf(c))
<1>1. e \in Nat /\ t \in Nat /\ e <= t /\ t < 200
  BY SumsOfPoints, EvidenceAssumption DEF MetricsOf
<1>2. percents[c] = IF t = 0 THEN Null ELSE RoundedMean(100 * e, t)
  BY DEF GInv, CellPercent, EarnedPoints
<1>3. results["fuji"].cells[c] = OutcomeValue(FujiRow[c])
  <2>1. results["fuji"].cells = CellsFor("fuji", FujiRow)
    BY ReportedCells DEF GInv, Assessors
  <2>2. CellsFor("fuji", FujiRow)[c] = OutcomeValue(FujiRow[c])
    BY DEF CellsFor, DerivedFor, MeasuresParents
  <2>3. QED
    BY <2>1, <2>2
<1>4. FujiRow[c] = OutcomeFromPercent(percents[c])
  BY DEF FujiRow
<1> HIDE DEF e, t
<1>5. CASE t = 0
  BY <1>2, <1>3, <1>4, <1>5 DEF OutcomeFromPercent, OutcomeValue, OfPoints, e, t
<1>6. CASE t # 0
  <2> DEFINE q == RoundedMean(100 * e, t)
  <2>1. /\ q \in 0 .. 1000
        /\ q = 100 <=> e = t
        /\ q = 0 <=> e = 0
    BY <1>1, <1>6, PercentIs
  <2> HIDE DEF q
  <2>2. q # Null /\ percents[c] = q
    BY <1>2, <1>6, <2>1, ConstantsAssumption DEF q
  <2>3. OutcomeValue(OutcomeFromPercent(q)) = OfPoints(e, t)
    BY <1>6, <2>1, <2>2 DEF OutcomeFromPercent, OutcomeValue, OfPoints
  <2>4. QED
    BY <1>3, <1>4, <2>2, <2>3 DEF e, t
<1>7. QED
  BY <1>5, <1>6

DecidedOf(c) == {m \in MetricsOf(c) : Decided(m)}

\* The offline assessor's cell, from the metrics it decided.
LEMMA OfflineCellShown ==
  ASSUME GInv, offline # Null, NEW c \in Cells
  PROVE  offline.cells[c]
           = OfPoints(Total(EarnedPoints, DecidedOf(c)), Total(Maxima, DecidedOf(c)))
<1> DEFINE S == DecidedOf(c)
           e == Total(EarnedPoints, S)
           t == Total(Maxima, S)
           a == [m \in Metrics |-> Earned(m)]
<1>1. S \subseteq Metrics /\ \A m \in S : m \in Metrics /\ m.total # 0 /\ points[m].decided
  BY DEF DecidedOf, MetricsOf, Decided
<1>2. e \in Nat /\ t \in Nat /\ e <= t /\ IsFiniteSet(S) /\ \A m \in S : m.total <= t
  BY <1>1, SumsOfPoints
<1>3. Total(a, S) = e
  <2>1. \A m \in S : EarnedPoints[m] \in Nat /\ EarnedPoints[m] = a[m]
    BY <1>1, MetricIs DEF EarnedPoints, Earned
  <2> HIDE DEF a, S
  <2>2. QED
    BY <1>2, <2>1, TotalSame
<1>4. offline.cells[c] = OutcomeValue(OfflineRow[c])
  <2>1. offline.cells = CellsFor("offline", OfflineRow)
    BY DEF GInv, Serialize
  <2>2. QED
    BY <2>1 DEF CellsFor, DerivedFor, MeasuresParents
<1>5. OfflineRow[c] = IF S = {} THEN "indeterminate" ELSE Outcome(Total(a, S), t)
  BY DEF OfflineRow, DecidedOf
<1> HIDE DEF a
<1>6. CASE S = {}
  <2>1. t = 0
    BY <1>6, TotalEmpty
  <2>2. QED
    BY <1>4, <1>5, <1>6, <2>1 DEF OutcomeValue, OfPoints
<1>7. CASE S # {}
  <2>1. t # 0
    <3>1. PICK m \in S : TRUE
      BY <1>7
    <3>2. m.total \in Nat /\ m.total # 0 /\ m.total <= t
      BY <1>1, <1>2, <3>1, MetricIs
    <3>3. QED
      BY <1>2, <3>2
  <2> HIDE DEF S, e, t
  <2>2. Outcome(e, t) = OfPoints(e, t) /\ Outcome(e, t) \in {"pass", "partial", "fail"}
    BY <1>2, <2>1 DEF Outcome, OfPoints
  <2>3. QED
    BY <1>3, <1>4, <1>5, <1>7, <2>2 DEF OutcomeValue, S, e, t
<1>8. QED
  BY <1>6, <1>7

\* From the same points the offline assessor and F-UJI come to the same outcome
\* where all is decided, and never to opposite ones, for any number of metrics.
THEOREM OfflineAndFujiAgree == GuidanceSpec => []OfflineAgreesWithFuji
<1>1. ASSUME GInv, Given("offline"), Given("fuji"), NEW c \in Cells
      PROVE  LET here == offline.cells[c]
                 there == results["fuji"].cells[c]
             IN /\ (\A m \in MetricsOf(c) : points[m].decided) => here = there
                /\ ~ (here = "pass" /\ there = "fail")
                /\ ~ (here = "fail" /\ there = "pass")
  <2> DEFINE S == MetricsOf(c)
             D == DecidedOf(c)
             here == OfPoints(Total(EarnedPoints, D), Total(Maxima, D))
             there == OfPoints(Total(EarnedPoints, S), Total(Maxima, S))
  <2>1. offline.cells[c] = here /\ results["fuji"].cells[c] = there
    BY <1>1, OfflineCellShown, FujiCellShown DEF Given, Reported
  <2>2. D \subseteq S /\ S \subseteq Metrics /\ D \subseteq Metrics
    BY DEF DecidedOf, MetricsOf
  <2>3. ASSUME \A m \in S : points[m].decided PROVE here = there
    <3>1. \A m \in S \ D : m.total = 0
      BY <2>3 DEF DecidedOf, Decided
    <3>2. \A m \in S : /\ Maxima[m] \in Nat /\ EarnedPoints[m] \in Nat
                       /\ m \notin D => Maxima[m] = 0 /\ EarnedPoints[m] = 0
      BY <1>1, <2>2, <3>1, MetricIs DEF Maxima, EarnedPoints
    <3>3. IsFiniteSet(S)
      BY <1>1, <2>2, SumsOfPoints
    <3> HIDE DEF S, D
    <3>4. Total(Maxima, S) = Total(Maxima, D)
      BY <2>2, <3>2, <3>3, TotalWithoutZeros
    <3>5. Total(EarnedPoints, S) = Total(EarnedPoints, D)
      BY <2>2, <3>2, <3>3, TotalWithoutZeros
    <3>6. QED
      BY <3>4, <3>5
  <2> HIDE DEF S
  <2>4. ASSUME here = "pass", there = "fail" PROVE FALSE
    <3>1. /\ Total(Maxima, D) # 0
          /\ Total(EarnedPoints, D) = Total(Maxima, D)
          /\ Total(EarnedPoints, S) = 0
      BY <2>4 DEF OfPoints
    <3>2. \A m \in D : points[m].earned = 0
      BY <1>1, <2>2, <3>1, SumsOfPoints
    <3>3. Total(EarnedPoints, D) = 0
      BY <1>1, <2>2, <3>2, SumsOfPoints
    <3>4. QED
      BY <3>1, <3>3
  <2>5. ASSUME here = "fail", there = "pass" PROVE FALSE
    <3>1. /\ Total(Maxima, D) # 0 /\ Total(EarnedPoints, D) # Total(Maxima, D)
          /\ Total(EarnedPoints, S) = Total(Maxima, S)
      BY <2>5 DEF OfPoints
    <3>2. \A m \in D : points[m].earned = m.total
      BY <1>1, <2>2, <3>1, SumsOfPoints
    <3>3. Total(EarnedPoints, D) = Total(Maxima, D)
      BY <1>1, <2>2, <3>2, SumsOfPoints
    <3>4. QED
      BY <3>1, <3>3
  <2> HIDE DEF here, there
  <2>6. QED
    BY <2>1, <2>3, <2>4, <2>5 DEF S
<1>2. GInv => OfflineAgreesWithFuji
  BY <1>1 DEF OfflineAgreesWithFuji
<1>3. QED
  BY <1>2, GuidanceInvariant, PTL

----------------------------------------------------------------------------
\* Entries beside the cells.

LEMMA EntryIs ==
  ASSUME NEW c, NEW test, NEW v
  PROVE  /\ Entry(c, test, v).cell = c /\ Entry(c, test, v).outcome = EntryOutcome(v)
         /\ v \in Outcomes => EntryOutcome(v) = v
         /\ EntryOutcome(v) = "pass" <=> v = "pass"
         /\ EntryOutcome(v) \in {"fail", "partial"} => EntryOutcome(v) = v
BY DEF Entry, EntryOutcome, Outcomes

\* F-UJI, where the evidence is the same: where everything was earned no metric
\* is shown to have failed, where nothing was no metric is shown to have passed,
\* and where not everything was a metric is shown not to have passed.
LEMMA FujiEntries ==
  ASSUME GInv, Reported, NEW c \in Cells, SameEvidence("fuji", c)
  PROVE  LET cell == results["fuji"].cells[c]
         IN /\ cell = "pass" =>
                 \A e \in EntriesOf("fuji", c) : e.outcome \notin {"fail", "partial"}
            /\ cell = "fail" => \A e \in EntriesOf("fuji", c) : e.outcome # "pass"
            /\ cell \in {"partial", "fail"} =>
                 \E e \in EntriesOf("fuji", c) : e.outcome # "pass"
<1> DEFINE S == MetricsOf(c)
           E == Total(EarnedPoints, S)
           T == Total(Maxima, S)
           cell == results["fuji"].cells[c]
           shown(m) == Entry(m.cell, m.id, OutcomeOf(m))
<1>1. guidance["fuji"] = {shown(m) : m \in Metrics}
  BY DEF GInv, Reported, FujiGuidance
<1>2. EntriesOf("fuji", c) = {shown(m) : m \in S}
  BY <1>1, EntryIs DEF EntriesOf, MetricsOf
<1>3. cell = OfPoints(E, T) /\ S \in SUBSET Metrics
  BY FujiCellShown DEF MetricsOf
<1>4. \A m \in S : /\ m.total \in Nat /\ points[m].earned \in Nat
                   /\ points[m].scored
                   /\ points[m].status = "fail" => points[m].earned = 0 /\ m.total # 0
                   /\ points[m].earned <= m.total
  BY <1>3, MetricIs DEF SameEvidence
<1>5. \A m \in S : OutcomeOf(m) \in Outcomes /\ shown(m).outcome = OutcomeOf(m)
  <2>1. \A m \in S : OutcomeOf(m) \in Outcomes
    BY DEF OutcomeOf, Outcomes
  <2>2. QED
    BY <2>1, EntryIs
<1> HIDE DEF shown
<1>6. ASSUME cell = "pass", NEW m \in S PROVE shown(m).outcome \notin {"fail", "partial"}
  <2>1. E = T
    BY <1>3, <1>6 DEF OfPoints
  <2>2. points[m].earned = m.total
    BY <1>3, <1>6, <2>1, SumsOfPoints
  <2>3. OutcomeOf(m) \notin {"fail", "partial"}
    BY <1>4, <1>6, <2>2 DEF OutcomeOf
  <2>4. QED
    BY <1>5, <1>6, <2>3
<1>7. ASSUME cell = "fail", NEW m \in S PROVE shown(m).outcome # "pass"
  <2>1. E = 0
    BY <1>3, <1>7 DEF OfPoints
  <2>2. points[m].earned = 0
    BY <1>3, <1>7, <2>1, SumsOfPoints
  <2>3. OutcomeOf(m) # "pass"
    BY <1>4, <1>7, <2>2 DEF OutcomeOf
  <2>4. QED
    BY <1>5, <1>7, <2>3
<1>8. ASSUME cell \in {"partial", "fail"} PROVE \E m \in S : shown(m).outcome # "pass"
  <2>1. E # T
    BY <1>3, <1>8 DEF OfPoints
  <2>2. PICK m \in S : points[m].earned # m.total
    BY <1>3, <2>1, SumsOfPoints
  <2>3. OutcomeOf(m) # "pass"
    BY <1>4, <2>2 DEF OutcomeOf
  <2>4. QED
    BY <1>5, <2>2, <2>3
<1> HIDE DEF cell, S
<1>9. QED
  BY <1>2, <1>6, <1>7, <1>8 DEF cell

\* The offline assessor: the same of the metrics it decided.
LEMMA OfflineEntries ==
  ASSUME GInv, offline # Null, NEW c \in Cells
  PROVE  LET cell == offline.cells[c]
         IN /\ cell = "pass" =>
                 \A e \in EntriesOf("offline", c) : e.outcome \notin {"fail", "partial"}
            /\ cell = "fail" => \A e \in EntriesOf("offline", c) : e.outcome # "pass"
            /\ cell \in {"partial", "fail"} =>
                 \E e \in EntriesOf("offline", c) : e.outcome # "pass"
<1> DEFINE S == MetricsOf(c)
           D == DecidedOf(c)
           E == Total(EarnedPoints, D)
           T == Total(Maxima, D)
           cell == offline.cells[c]
           found(m) == IF Decided(m) THEN Outcome(Earned(m), m.total) ELSE "indeterminate"
           shown(m) == Entry(m.cell, m.id, found(m))
<1>1. guidance["offline"] = {shown(m) : m \in Metrics}
  BY DEF GInv, OfflineGuidance
<1>2. EntriesOf("offline", c) = {shown(m) : m \in S}
  BY <1>1, EntryIs DEF EntriesOf, MetricsOf
<1>3. cell = OfPoints(E, T) /\ D \in SUBSET Metrics /\ D \subseteq S
  BY OfflineCellShown DEF DecidedOf, MetricsOf
<1>4. ASSUME NEW m \in D
      PROVE  /\ m.total \in Nat /\ m.total # 0 /\ points[m].earned \in Nat
             /\ found(m) = Outcome(points[m].earned, m.total)
  <2>1. m \in Metrics /\ Decided(m)
    BY <1>3, <1>4 DEF DecidedOf
  <2>2. Earned(m) = points[m].earned
    BY <2>1 DEF Decided, Earned
  <2>3. QED
    BY <2>1, <2>2, MetricIs DEF Decided
<1>5. \A m \in S : m \notin D => found(m) = "indeterminate"
  BY DEF DecidedOf
<1>6. \A m \in S : shown(m).outcome = found(m)
  <2>1. \A m \in S : found(m) \in Outcomes
    BY DEF Outcome, Outcomes
  <2> HIDE DEF found
  <2>2. QED
    BY <2>1, EntryIs
<1> HIDE DEF shown, found
<1>7. ASSUME cell = "pass", NEW m \in S PROVE shown(m).outcome \notin {"fail", "partial"}
  <2>1. E = T
    BY <1>3, <1>7 DEF OfPoints
  <2>2. m \in D => points[m].earned = m.total
    BY <1>3, <2>1, SumsOfPoints
  <2>3. m \in D => found(m) = "pass"
    BY <1>4, <2>2 DEF Outcome
  <2>4. QED
    BY <1>5, <1>6, <1>7, <2>3
<1>8. ASSUME cell = "fail", NEW m \in S PROVE shown(m).outcome # "pass"
  <2>1. E = 0
    BY <1>3, <1>8 DEF OfPoints
  <2>2. m \in D => points[m].earned = 0
    BY <1>3, <2>1, SumsOfPoints
  <2>3. m \in D => found(m) = "fail"
    BY <1>4, <2>2 DEF Outcome
  <2>4. QED
    BY <1>5, <1>6, <1>8, <2>3
<1>9. ASSUME cell \in {"partial", "fail"} PROVE \E m \in S : shown(m).outcome # "pass"
  <2>1. E # T
    BY <1>3, <1>9 DEF OfPoints
  <2>2. PICK m \in D : points[m].earned # m.total
    BY <1>3, <2>1, SumsOfPoints
  <2>3. points[m].earned <= m.total
    BY <1>3, <2>2, MetricIs
  <2>4. found(m) # "pass"
    BY <1>4, <2>2, <2>3 DEF Outcome
  <2>5. QED
    BY <1>3, <1>6, <2>2, <2>4
<1> HIDE DEF cell, S
<1>10. QED
  BY <1>2, <1>7, <1>8, <1>9 DEF cell

\* FAIR Champion: what the entry of a test is made of.
FoundIn(t) ==
  IF champion.test_results = "dict" THEN champion.result[t.reference]
  ELSE OutcomeValue(IF champion.result[t].value # Null THEN champion.result[t].value
                    ELSE ExtractTestOutcome(champion.result[t]))

\* A test taken for a pass is not shown as a failure, and one that was not is not
\* shown as a pass, although the entry knows fewer spellings.
LEMMA FoundIs ==
  ASSUME NEW t \in Tests,
         champion.test_results # "dict" =>
           LET test == champion.result[t]
           IN test.value = Null \/ ParseOutcome(test.value) = ExtractTestOutcome(test)
  PROVE  /\ TestOutcome(t) = "pass" => EntryOutcome(FoundIn(t)) \notin {"fail", "partial"}
         /\ TestOutcome(t) # "pass" => EntryOutcome(FoundIn(t)) # "pass"
<1>1. CASE champion.test_results = "dict"
  <2> DEFINE v == champion.result[t.reference]
  <2>1. FoundIn(t) = v /\ TestOutcome(t) = ParseOutcome(v)
    BY <1>1 DEF FoundIn, TestOutcome
  <2> HIDE DEF v
  <2>2. TestOutcome(t) = "pass" <=> v \in {"pass", "passed"}
    BY <2>1, ParseIs
  <2>3. QED
    BY <2>1, <2>2 DEF EntryOutcome, Outcomes
<1>2. CASE champion.test_results # "dict"
  <2> DEFINE test == champion.result[t]
             found == IF test.value # Null THEN test.value ELSE ExtractTestOutcome(test)
  <2>1. FoundIn(t) = OutcomeValue(found) /\ TestOutcome(t) = ExtractTestOutcome(test)
    BY <1>2 DEF FoundIn, TestOutcome
  <2>2. test.value = Null \/ ParseOutcome(test.value) = ExtractTestOutcome(test)
    BY <1>2
  <2> HIDE DEF test
  <2>3. ParseOutcome(test.value) = "pass" <=> test.value \in {"pass", "passed"}
    BY ParseIs
  <2>4. ASSUME TestOutcome(t) = "pass" PROVE found \in {"pass", "passed"}
    BY <2>1, <2>2, <2>3, <2>4
  <2>5. ASSUME TestOutcome(t) # "pass" PROVE found # "pass"
    BY <2>1, <2>2, <2>3, <2>5
  <2> HIDE DEF found
  <2>6. QED
    BY <2>1, <2>4, <2>5 DEF OutcomeValue, EntryOutcome, Outcomes
<1>3. QED
  BY <1>1, <1>2

\* A null shows every test as indeterminate.
LEMMA NullEntries ==
  ASSUME GInv, Reported, champion.test_results = "null", NEW c,
         NEW e \in EntriesOf("fair_champion", c)
  PROVE  e.outcome \notin {"fail", "partial"}
<1>1. guidance["fair_champion"] = {Entry(t.cell, t, Null) : t \in Tests}
  BY DEF GInv, Reported, ChampionGuidance, AlgorithmGuidance
<1>2. PICK t \in Tests : e = Entry(t.cell, t, Null)
  BY <1>1 DEF EntriesOf
<1>3. EntryOutcome(Null) \notin {"fail", "partial"}
  BY ConstantsAssumption DEF EntryOutcome, Outcomes
<1>4. QED
  BY <1>2, <1>3, EntryIs

LEMMA ChampionEntries ==
  ASSUME GInv, Reported, NEW c \in Cells \ Derived, SameEvidence("fair_champion", c)
  PROVE  LET cell == results["fair_champion"].cells[c]
         IN /\ cell = "pass" =>
                 \A e \in EntriesOf("fair_champion", c) : e.outcome \notin {"fail", "partial"}
            /\ champion.test_results # "null" /\ cell \in {"partial", "fail"} =>
                 \E e \in EntriesOf("fair_champion", c) : e.outcome # "pass"
<1> DEFINE S == {t \in Tests : CellOf(t) = c}
           cell == results["fair_champion"].cells[c]
           shown(t) == Entry(CellOf(t), t, FoundIn(t))
<1>1. CASE champion.test_results = "null"
  BY <1>1, NullEntries
<1>2. CASE champion.test_results # "null"
  <2>1. champion.test_results \in {"dict", "absent"}
    BY <1>2 DEF GInv, ChampionAnswers
  <2>2. guidance["fair_champion"] = {shown(t) : t \in Tests}
    <3>1. CASE champion.test_results = "dict"
      <4>1. ChampionGuidance = {Entry(t.cell, t, champion.result[t.reference]) : t \in Tests}
        BY <3>1 DEF ChampionGuidance, AlgorithmGuidance
      <4>2. \A t : shown(t) = Entry(t.cell, t, champion.result[t.reference])
        BY <3>1 DEF FoundIn, CellOf
      <4>3. QED
        BY <4>1, <4>2 DEF GInv, Reported
    <3>2. CASE champion.test_results = "absent"
      <4>1. ChampionGuidance = TestsGuidance
        BY <3>2 DEF ChampionGuidance
      <4>2. TestsGuidance = {shown(t) : t \in Tests}
        BY <3>2 DEF TestsGuidance, FoundIn, CellOf
      <4>3. QED
        BY <4>1, <4>2 DEF GInv, Reported
    <3>3. QED
      BY <2>1, <3>1, <3>2
  <2>3. EntriesOf("fair_champion", c) = {shown(t) : t \in S}
    BY <2>2, EntryIs DEF EntriesOf
  <2>4. \A t \in S : shown(t).outcome = EntryOutcome(FoundIn(t))
    BY EntryIs
  <2>5. ASSUME NEW t \in S
        PROVE  /\ TestOutcome(t) = "pass" => EntryOutcome(FoundIn(t)) \notin {"fail", "partial"}
               /\ TestOutcome(t) # "pass" => EntryOutcome(FoundIn(t)) # "pass"
    <3>1. t \in Tests /\ CellOf(t) = c
      BY <2>5
    <3>2. champion.test_results # "dict" =>
            LET test == champion.result[t]
            IN test.value = Null \/ ParseOutcome(test.value) = ExtractTestOutcome(test)
      BY <2>1, <3>1 DEF SameEvidence, CellOf
    <3>3. QED
      BY <3>1, <3>2, FoundIs
  <2>6. tests[c] = {TestOutcome(t) : t \in S}
    BY TestOutcomesAre DEF GInv
  <2>7. /\ tests[c] \in SUBSET Outcomes
        /\ cell = IF tests[c] = {} THEN "indeterminate"
                  ELSE OutcomeValue(CombineOutcomes(tests[c]))
    BY ChampionCellShown DEF GInv
  <2> HIDE DEF cell, S, shown
  <2>8. ASSUME cell = "pass", NEW t \in S PROVE shown(t).outcome \notin {"fail", "partial"}
    <3>1. tests[c] = {"pass"}
      BY <2>7, <2>8, CombineOutcomesWorst
    <3>2. TestOutcome(t) = "pass"
      BY <2>6, <2>8, <3>1
    <3>3. QED
      BY <2>4, <2>5, <2>8, <3>2
  <2>9. ASSUME cell \in {"partial", "fail"} PROVE \E t \in S : shown(t).outcome # "pass"
    <3>1. tests[c] # {} /\ tests[c] # {"pass"}
      BY <2>7, <2>9 DEF CombineOutcomes, OutcomeValue
    <3>2. PICK t \in S : TestOutcome(t) # "pass"
      BY <2>6, <3>1
    <3>3. QED
      BY <2>4, <2>5, <3>2
  <2>10. QED
    BY <2>3, <2>8, <2>9 DEF cell
<1>3. QED
  BY <1>1, <1>2

LEMMA GivenReports ==
  ASSUME NEW x \in MeasuresParents \cup Assessors, Given(x)
  PROVE  \/ x = "offline" /\ offline # Null /\ ReportOf(x) = offline
         \/ x \in {"fuji", "fair_champion"} /\ Reported /\ ReportOf(x) = results[x]
BY DEF Given, ReportOf, Reported, MeasuresParents, Assessors

\* What FAIR Champion is reported with derives the parent cells.
LEMMA ChampionDerives == GInv /\ Reported => results["fair_champion"].derived = Derived
<1>1. ASSUME GInv, Reported PROVE results["fair_champion"].derived = Derived
  <2>1. results["fair_champion"] = Serialize("fair_champion", rows["fair_champion"])
    BY <1>1 DEF GInv, RInv, Reported, Assessors
  <2>2. QED
    BY <2>1 DEF Serialize, DerivedFor, MeasuresParents
<1>2. QED
  BY <1>1

\* No entry contradicts the cell it is shown with where both were read from the
\* same evidence (numeric scores, failures that earned nothing, a prov:value that
\* agrees with the raw result), for every such answer, any tests and any metrics
\* of a cell with fewer than 200 points; the answers that disagree in themselves
\* are in the model, and the cells they disagree on are left out by name.
THEOREM EntriesDoNotContradict == GuidanceSpec => []NoContradiction
<1>1. ASSUME GInv, NEW x \in DOMAIN guidance, Given(x),
             NEW c \in Cells \ ReportOf(x).derived, SameEvidence(x, c),
             NEW e \in EntriesOf(x, c)
      PROVE  /\ ReportOf(x).cells[c] = "pass" => e.outcome \notin {"fail", "partial"}
             /\ (x \in MeasuresParents /\ ReportOf(x).cells[c] = "fail") => e.outcome # "pass"
  <2>1. \/ x = "offline" /\ offline # Null /\ ReportOf(x) = offline
        \/ x \in {"fuji", "fair_champion"} /\ Reported /\ ReportOf(x) = results[x]
    BY <1>1, GivenReports DEF GInv
  <2>2. CASE x = "offline"
    BY <1>1, <2>1, <2>2, OfflineEntries
  <2>3. CASE x = "fuji"
    BY <1>1, <2>1, <2>3, FujiEntries
  <2>4. CASE x = "fair_champion"
    <3>1. x \notin MeasuresParents
      BY <2>4 DEF MeasuresParents
    <3>2. Reported /\ c \in Cells \ Derived
      BY <1>1, <2>1, <2>4, ChampionDerives
    <3>3. QED
      BY <1>1, <2>1, <2>4, <3>1, <3>2, ChampionEntries
  <2>5. QED
    BY <2>1, <2>2, <2>3, <2>4
<1>2. GInv => NoContradiction
  BY <1>1 DEF NoContradiction
<1>3. QED
  BY <1>2, GuidanceInvariant, PTL

\* Whatever is not passed has an entry that is not a pass beside it, where both
\* were read from the same evidence and test_results is not null: the points that
\* are missing, or the test that did not pass, are shown.
THEOREM FailuresAreExplained == GuidanceSpec => []NotPassedIsExplained
<1>1. ASSUME GInv, NEW x \in DOMAIN guidance, Given(x),
             NEW c \in Cells \ ReportOf(x).derived,
             SameEvidence(x, c),
             ~ (x = "fair_champion" /\ champion.test_results = "null"),
             ReportOf(x).cells[c] \in {"partial", "fail"}
      PROVE  \E e \in EntriesOf(x, c) : e.outcome # "pass"
  <2>1. \/ x = "offline" /\ offline # Null /\ ReportOf(x) = offline
        \/ x \in {"fuji", "fair_champion"} /\ Reported /\ ReportOf(x) = results[x]
    BY <1>1, GivenReports DEF GInv
  <2>2. CASE x = "offline"
    BY <1>1, <2>1, <2>2, OfflineEntries
  <2>3. CASE x = "fuji"
    BY <1>1, <2>1, <2>3, FujiEntries
  <2>4. CASE x = "fair_champion"
    <3>1. Reported /\ c \in Cells \ Derived
      BY <1>1, <2>1, <2>4, ChampionDerives
    <3>2. QED
      BY <1>1, <2>1, <2>4, <3>1, ChampionEntries
  <2>5. QED
    BY <2>1, <2>2, <2>3, <2>4
<1>2. GInv => NotPassedIsExplained
  BY <1>1 DEF NotPassedIsExplained
<1>3. QED
  BY <1>2, GuidanceInvariant, PTL

\* The reports given with guidance are reports of the columns, cells, scores and
\* consensus proved of above, with the outcomes and percentages that FAIR
\* Champion's spellings and F-UJI's points stand for.
THEOREM GuidanceKeepsReports ==
  GuidanceSpec => [](/\ NoNullColumn /\ ConsensusIsWorst /\ ParentsFollowChildren
                     /\ ChampionNeverFlatters /\ NothingCountedTwice /\ ExtremesAreExact)
<1>1. GInv => /\ NoNullColumn /\ ConsensusIsWorst /\ ParentsFollowChildren
              /\ ChampionNeverFlatters /\ NothingCountedTwice /\ ExtremesAreExact
  BY NoNullColumnHolds, ConsensusIsWorstHolds, ParentsFollowChildrenHolds,
     ChampionNeverFlattersHolds, NothingCountedTwiceHolds, ExtremesAreExactHolds DEF GInv
<1>2. QED
  BY <1>1, GuidanceInvariant, PTL
=============================================================================
