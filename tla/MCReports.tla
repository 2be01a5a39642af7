----------------------------- MODULE MCReports -----------------------------
(***************************************************************************)
(* Reports over a cut of the grid: the principle with a derived cell and a  *)
(* principle of one cell.                                                   *)
(***************************************************************************)
EXTENDS Reports

MCPrinciples == {"a", "f"}
MCMembers == [p \in MCPrinciples |-> IF p = "a" THEN {"a1", "a1_1", "a1_2"} ELSE {"f1"}]
MCParents == [p \in {"a1"} |-> {"a1_1", "a1_2"}]

\* No test, one test, or two that disagree, for each rule of combine_outcomes.
MCTestSets ==
  {{}, {"pass"}, {"partial"}, {"fail"}, {"error"}, {"not_applicable"},
   {"pass", "error"}, {"error", "indeterminate"}, {"pass", "fail"}}
=============================================================================
