------------------------ MODULE Assessments_proofs ------------------------
(***************************************************************************)
(* Proofs about Assessments, for every value of its constants: the          *)
(* inductive invariant IInv, and what follows from it.                      *)
(***************************************************************************)
EXTENDS Assessments, TLAPS

----------------------------------------------------------------------------
\* The operators the actions are built from.

\* The places a request asks for are positions.
LEMMA SelectedPositions ==
  ASSUME NEW r \in Requests
  PROVE  DOMAIN Selected(r) \subseteq Positions
BY ConstantsAssumption DEF Selected

\* The online part of an accepted request is a list of enabled plugins other
\* than the offline one.
LEMMA OnlineType ==
  ASSUME NEW r \in Requests, Accepted(r)
  PROVE  Online(r) \in PartialList(PluginIds \ {Offline})
<1> DEFINE D == {k \in DOMAIN Selected(r) : Selected(r)[k] # Offline}
<1>1. D \in SUBSET Positions
  BY SelectedPositions
<1>2. \A i \in D : Selected(r)[i] \in PluginIds \ {Offline}
  BY DEF Accepted
<1>3. [i \in D |-> Selected(r)[i]] \in [D -> PluginIds \ {Offline}]
  BY <1>2
<1>4. QED
  BY <1>1, <1>3 DEF Online, PartialList

\* Taking a prefix off a pid leaves a pid.
LEMMA NormalizeType ==
  ASSUME NEW pid \in Seq(Tokens)
  PROVE  NormalizePid(pid) \in Seq(Tokens)
BY DEF NormalizePid

\* The record an accepted request leads to is a queued one.
LEMMA NewAssessmentType ==
  ASSUME NEW r \in Requests, Accepted(r)
  PROVE  /\ NewAssessment(r) \in AssessmentRow
         /\ NewAssessment(r) # Null
         /\ NewAssessment(r).status = "queued"
<1>1. r \in RequestBody
  BY ConstantsAssumption
<1>2. NormalizePid(r.pid) \in Seq(Tokens) /\ r.mode \in Modes /\ r.cached \in BOOLEAN
  BY <1>1, NormalizeType DEF RequestBody
<1>3. Online(r) \in PartialList(PluginIds \ {Offline})
  BY OnlineType
<1>4. NewAssessment(r) \in AssessmentRow
  BY <1>2, <1>3 DEF NewAssessment, AssessmentRow
<1>5. NewAssessment(r).status = "queued"
  BY DEF NewAssessment
<1>6. QED
  BY <1>4, <1>5, NullAssumption

----------------------------------------------------------------------------
\* What a job knows of its assessment, and what stays when a part of the state
\* does.

\* A job that runs belongs to a running assessment whose task gathers it.
LEMMA ActiveJob ==
  ASSUME IInv, NEW j \in Jobs, job[j].pc \in Active
  PROVE  /\ j[1] \in Ids /\ j[2] \in Positions /\ j = <<j[1], j[2]>>
         /\ assessment[j[1]] \in AssessmentRow
         /\ assessment[j[1]].status = "running"
         /\ task[j[1]] = "gather"
         /\ j[2] \in DOMAIN assessment[j[1]].assessors
         /\ Assessor(j) \in PluginIds \ {Offline}
<1>1. j[1] \in Ids /\ j[2] \in Positions /\ j = <<j[1], j[2]>>
  BY DEF Jobs
<1>2. JobInv(j) /\ TaskInv(j[1])
  BY <1>1 DEF IInv
<1>3. /\ Known(j[1])
      /\ j[2] \in DOMAIN assessment[j[1]].assessors
      /\ task[j[1]] = "gather"
  BY <1>2 DEF JobInv, Active
<1>4. assessment[j[1]] \in AssessmentRow
  BY <1>1, <1>3 DEF IInv, TypeOK, Known
<1>5. assessment[j[1]].status = "running"
  BY <1>2, <1>3 DEF TaskInv
<1>6. assessment[j[1]].assessors \in PartialList(PluginIds \ {Offline})
  BY <1>4 DEF AssessmentRow
<1>7. Assessor(j) \in PluginIds \ {Offline}
  BY <1>3, <1>6 DEF PartialList, Assessor
<1>8. QED
  BY <1>1, <1>3, <1>4, <1>5, <1>7

\* A step of one running job keeps what the handlers, the tasks and the other
\* jobs know, when rows are only added and the job still runs or has answered.
LEMMA JobStepInv ==
  ASSUME IInv, NEW j \in Jobs, job[j].pc \in Active,
         handler' = handler, request' = request,
         assessment' = assessment, task' = task,
         raw \subseteq raw', harmonized \subseteq harmonized',
         \A k \in Jobs \ {j} : job'[k] = job[k],
         job'[j].pc \in Active \cup {"completed", "failed"},
         job'[j].pc \in {"match", "store"} => job'[j].raw \in Payloads,
         job'[j].pc = "match" => job'[j].src \in Ids,
         job'[j].pc = "store" => job'[j].norm \in Jobs,
         job'[j].pc = "completed" => Answered(j[1], j[2])'
  PROVE  /\ \A a \in Ids : HandlerInv(a)' /\ TaskInv(a)'
         /\ \A k \in Jobs : JobInv(k)'
<1>1. \A a, i : Answered(a, i) => Answered(a, i)'
  BY DEF Answered
<1>2. \A a \in Ids : HandlerInv(a)'
  BY DEF IInv, HandlerInv, Known
<1>3. ASSUME NEW a \in Ids PROVE TaskInv(a)'
  <2>1. TaskInv(a)
    BY DEF IInv
  <2>2. JobsOf(a)' = JobsOf(a) /\ Known(a)' = Known(a) /\ Terminal(a)' = Terminal(a)
    BY DEF JobsOf, Known, Terminal
  <2>3. Terminal(a) => j \notin JobsOf(a)
    BY <2>1 DEF TaskInv, Active
  <2>4. ASSUME task[a] # "none", NEW k \in JobsOf(a) PROVE k \in Jobs
    <3>1. assessment[a] \in AssessmentRow
      BY <2>1, <2>4 DEF TaskInv, IInv, TypeOK, Known
    <3>2. assessment[a].assessors \in PartialList(PluginIds \ {Offline})
      BY <3>1 DEF AssessmentRow
    <3>3. DOMAIN assessment[a].assessors \subseteq Positions
      BY <3>2 DEF PartialList
    <3>4. QED
      BY <3>3 DEF JobsOf, Jobs
  <2>5. task[a] = "gather" =>
          /\ assessment[a].status = "running"
          /\ \A k \in JobsOf(a) : job'[k].pc \in Active \cup {"completed", "failed"}
    BY <2>1, <2>4 DEF TaskInv
  <2>6. Terminal(a) =>
          /\ task[a] \in {"ended", "lost"}
          /\ \A k \in JobsOf(a) : job'[k].pc \in {"completed", "failed"}
    BY <2>1, <2>3, <2>4 DEF TaskInv
  <2>7. (Known(a) /\ assessment[a].status = "completed") =>
          \A i \in DOMAIN assessment[a].assessors : Answered(a, i)'
    BY <1>1, <2>1 DEF TaskInv
  <2>8. QED
    BY <2>1, <2>2, <2>5, <2>6, <2>7 DEF TaskInv
<1>4. ASSUME NEW k \in Jobs PROVE JobInv(k)'
  <2>1. JobInv(k)
    BY DEF IInv
  <2>2. CASE k # j
    BY <1>1, <2>1, <2>2 DEF JobInv, Known
  <2>3. CASE k = j
    <3>1. Known(j[1])' /\ j[2] \in DOMAIN assessment[j[1]]'.assessors
          /\ assessment'[j[1]].status # "queued" /\ task'[j[1]] = "gather"
      BY <2>1, <2>3 DEF JobInv, Known, Active
    <3>2. QED
      BY <2>3, <3>1 DEF JobInv
  <2>4. QED
    BY <2>2, <2>3
<1>5. QED
  BY <1>2, <1>3, <1>4

----------------------------------------------------------------------------
\* One lemma per action of a job.

\* What the actions of a job that touch no table have in common.
LEMMA QuietJobStep ==
  ASSUME IInv, NEW j \in Jobs, job[j].pc \in Active, NEW s \in JobStates,
         s.pc \in Active,
         s.pc \in {"match", "store"} => s.raw \in Payloads,
         s.pc = "match" => s.src \in Ids,
         s.pc = "store" => s.norm \in Jobs,
         job' = [job EXCEPT ![j] = s],
         clock' \in Nat,
         UNCHANGED <<handler, request, tables, task>>
  PROVE  IInv'
<1>1. TypeOK
  BY DEF IInv
<1>2. job'[j] = s /\ \A k \in Jobs \ {j} : job'[k] = job[k]
  BY <1>1 DEF TypeOK
<1>3. /\ handler' = handler /\ request' = request /\ assessment' = assessment
      /\ task' = task /\ raw' = raw /\ harmonized' = harmonized
  BY DEF tables
<1>4. TypeOK'
  BY <1>1, <1>3 DEF TypeOK
<1>5. s.pc \notin {"completed", "failed"}
  BY DEF Active
<1>6. /\ \A a \in Ids : HandlerInv(a)' /\ TaskInv(a)'
      /\ \A k \in Jobs : JobInv(k)'
  BY <1>2, <1>3, <1>5, JobStepInv
<1>7. \A row \in raw' \cup harmonized' : RowInv(row)'
  BY <1>3 DEF IInv, RowInv, Known
<1>8. QED
  BY <1>4, <1>6, <1>7 DEF IInv

LEMMA SelectRawInv ==
  ASSUME IInv, NEW j \in Jobs, SelectRaw(j)
  PROVE  IInv'
<1>1. job[j] \in JobStates /\ job[j].pc = "lookup" /\ job[j].pc \in Active
  BY DEF IInv, TypeOK, SelectRaw, Active
<1>2. clock' \in Nat /\ UNCHANGED <<handler, request, tables, task>>
  BY DEF IInv, TypeOK, SelectRaw
<1>3. CASE job' = [job EXCEPT ![j].pc = "assess"]
  <2>1. [job[j] EXCEPT !.pc = "assess"] \in JobStates
    BY <1>1 DEF JobStates
  <2>2. [job[j] EXCEPT !.pc = "assess"].pc = "assess"
    BY <1>1 DEF JobStates
  <2>3. QED
    BY <1>1, <1>2, <1>3, <2>1, <2>2, QuietJobStep DEF Active
<1>4. ASSUME NEW row \in Candidates(j),
             job' = [job EXCEPT ![j] = [@ EXCEPT !.pc = "match",
                                                 !.src = row.assessment_id,
                                                 !.raw = row.raw]]
      PROVE  IInv'
  <2> DEFINE s == [job[j] EXCEPT !.pc = "match", !.src = row.assessment_id,
                                 !.raw = row.raw]
  <2>1. row \in RawRows
    BY DEF Candidates, IInv, TypeOK
  <2>2. row.assessment_id \in Ids /\ row.raw \in Payloads
    BY <2>1 DEF RawRows
  <2>3. s \in JobStates /\ s.pc = "match" /\ s.src \in Ids /\ s.raw \in Payloads
    BY <1>1, <2>2 DEF JobStates
  <2>4. job' = [job EXCEPT ![j] = s]
    BY <1>4
  <2> HIDE DEF s
  <2>5. QED
    BY <1>1, <1>2, <2>3, <2>4, QuietJobStep DEF Active
<1>5. QED
  BY <1>3, <1>4 DEF SelectRaw

LEMMA SelectHarmonizedInv ==
  ASSUME IInv, NEW j \in Jobs, SelectHarmonized(j)
  PROVE  IInv'
<1>1. job[j] \in JobStates /\ job[j].pc = "match" /\ job[j].pc \in Active
  BY DEF IInv, TypeOK, SelectHarmonized, Active
<1>2. clock' \in Nat /\ UNCHANGED <<handler, request, tables, task>>
  BY DEF IInv, TypeOK, SelectHarmonized
<1>3. job[j].raw \in Payloads
  BY <1>1 DEF IInv, JobInv
<1>4. CASE job' = [job EXCEPT ![j] = [NoJob EXCEPT !.pc = "assess"]]
  <2>1. [NoJob EXCEPT !.pc = "assess"] \in JobStates
    BY DEF NoJob, JobStates
  <2>2. [NoJob EXCEPT !.pc = "assess"].pc = "assess"
    BY DEF NoJob
  <2>3. QED
    BY <1>1, <1>2, <1>4, <2>1, <2>2, QuietJobStep DEF Active
<1>5. ASSUME NEW row \in Matches(j),
             job' = [job EXCEPT ![j] = [@ EXCEPT !.pc = "store", !.src = Null,
                                                 !.norm = row.norm]]
      PROVE  IInv'
  <2> DEFINE s == [job[j] EXCEPT !.pc = "store", !.src = Null, !.norm = row.norm]
  <2>1. row \in HarmonizedRows
    BY DEF Matches, IInv, TypeOK
  <2>2. row.norm \in Jobs
    BY <2>1 DEF HarmonizedRows
  <2>3. s \in JobStates /\ s.pc = "store" /\ s.raw \in Payloads /\ s.norm \in Jobs
    BY <1>1, <1>3, <2>2 DEF JobStates
  <2>4. job' = [job EXCEPT ![j] = s]
    BY <1>5
  <2> HIDE DEF s
  <2>5. QED
    BY <1>1, <1>2, <2>3, <2>4, QuietJobStep DEF Active
<1>6. QED
  BY <1>4, <1>5 DEF SelectHarmonized

LEMMA LookupFailsInv ==
  ASSUME IInv, NEW j \in Jobs, LookupFails(j)
  PROVE  IInv'
<1>1. job[j].pc \in Active
  BY DEF LookupFails, Active
<1>2. clock' \in Nat /\ UNCHANGED <<handler, request, tables, task>>
  BY DEF IInv, TypeOK, LookupFails
<1>3. [NoJob EXCEPT !.pc = "except"] \in JobStates
  BY DEF NoJob, JobStates
<1>4. [NoJob EXCEPT !.pc = "except"].pc = "except"
  BY DEF NoJob
<1>5. QED
  BY <1>1, <1>2, <1>3, <1>4, QuietJobStep DEF Active, LookupFails

LEMMA AssessInv ==
  ASSUME IInv, NEW j \in Jobs, Assess(j)
  PROVE  IInv'
<1>1. job[j] \in JobStates /\ job[j].pc \in Active
  BY DEF IInv, TypeOK, Assess, Active
<1>2. clock' \in Nat /\ UNCHANGED <<handler, request, tables, task>>
  BY DEF IInv, TypeOK, Assess
<1>3. CASE job' = [job EXCEPT ![j] = [@ EXCEPT !.pc = "store", !.raw = j, !.norm = j]]
  <2> DEFINE s == [job[j] EXCEPT !.pc = "store", !.raw = j, !.norm = j]
  <2>1. s \in JobStates /\ s.pc = "store" /\ s.raw \in Payloads /\ s.norm \in Jobs
    BY <1>1 DEF JobStates, Payloads
  <2>2. job' = [job EXCEPT ![j] = s]
    BY <1>3
  <2> HIDE DEF s
  <2>3. QED
    BY <1>1, <1>2, <2>1, <2>2, QuietJobStep DEF Active
<1>4. ASSUME NEW pc \in {"fail", "except"}, job' = [job EXCEPT ![j].pc = pc]
      PROVE  IInv'
  <2> DEFINE s == [job[j] EXCEPT !.pc = pc]
  <2>1. s \in JobStates /\ s.pc = pc
    BY <1>1 DEF JobStates
  <2>2. job' = [job EXCEPT ![j] = s]
    BY <1>4
  <2> HIDE DEF s
  <2>3. QED
    BY <1>1, <1>2, <2>1, <2>2, QuietJobStep DEF Active
<1>5. QED
  BY <1>3, <1>4 DEF Assess

LEMMA BeginStoreInv ==
  ASSUME IInv, NEW j \in Jobs, BeginStore(j)
  PROVE  IInv'
<1> DEFINE s == [job[j] EXCEPT !.ts = clock + 1]
<1>1. job[j] \in JobStates /\ job[j].pc \in {"store", "fail", "except"}
  BY DEF IInv, TypeOK, BeginStore
<1>2. clock' \in Nat /\ clock + 1 \in Nat /\ UNCHANGED <<handler, request, tables, task>>
  BY DEF IInv, TypeOK, BeginStore
<1>3. s \in JobStates /\ s.pc = job[j].pc /\ s.raw = job[j].raw /\ s.norm = job[j].norm
  BY <1>1, <1>2 DEF JobStates
<1>4. s.pc = "store" => s.raw \in Payloads /\ s.norm \in Jobs
  BY <1>3 DEF IInv, JobInv
<1>5. job' = [job EXCEPT ![j] = s]
  BY DEF BeginStore
<1> HIDE DEF s
<1>6. QED
  BY <1>1, <1>2, <1>3, <1>4, <1>5, QuietJobStep DEF Active

\* What the three actions that commit rows have in common: job j ends or turns
\* to its except clause, and the rows that appear are its own.
LEMMA StoringJobStep ==
  ASSUME IInv, NEW j \in Jobs, job[j].pc \in Active,
         NEW pc \in {"except", "completed", "failed"},
         job' = [job EXCEPT ![j] = [NoJob EXCEPT !.pc = pc]],
         NEW R \in SUBSET RawRows, NEW H \in SUBSET HarmonizedRows,
         raw' = raw \cup R, harmonized' = harmonized \cup H,
         \A row \in R \cup H : row.assessment_id = j[1],
         pc = "completed" => Answered(j[1], j[2])',
         UNCHANGED <<handler, request, assessment, clock, task>>
  PROVE  IInv'
<1>1. TypeOK
  BY DEF IInv
<1> DEFINE s == [NoJob EXCEPT !.pc = pc]
<1>2. s \in JobStates /\ s.pc = pc
  BY DEF NoJob, JobStates
<1>3. job' = [job EXCEPT ![j] = s]
  OBVIOUS
<1> HIDE DEF s
<1>4. job'[j] = s /\ \A k \in Jobs \ {j} : job'[k] = job[k]
  BY <1>1, <1>3 DEF TypeOK
<1>5. TypeOK'
  BY <1>1, <1>2, <1>3 DEF TypeOK
<1>6. /\ \A a \in Ids : HandlerInv(a)' /\ TaskInv(a)'
      /\ \A k \in Jobs : JobInv(k)'
  BY <1>2, <1>4, JobStepInv DEF Active
<1>7. ASSUME NEW row \in raw' \cup harmonized' PROVE RowInv(row)'
  <2>1. CASE row \in raw \cup harmonized
    BY <2>1 DEF IInv, RowInv, Known
  <2>2. CASE row \in R \cup H
    <3>1. JobInv(j)
      BY DEF IInv
    <3>2. QED
      BY <2>2, <3>1 DEF RowInv, JobInv, Known, Active
  <2>3. QED
    BY <1>7, <2>1, <2>2
<1>8. QED
  BY <1>5, <1>6, <1>7 DEF IInv

\* A raw row written by a running job is a row of its assessment.
LEMMA RawRowType ==
  ASSUME IInv, NEW j \in Jobs, job[j].pc \in {"store", "fail", "except"},
         NEW payload \in Payloads
  PROVE  /\ RawRow(j, payload) \in RawRows
         /\ RawRow(j, payload).assessment_id = j[1]
         /\ RawRow(j, payload).row = <<j, job[j].pc>>
<1>1. /\ j[1] \in Ids
      /\ assessment[j[1]] \in AssessmentRow
      /\ Assessor(j) \in PluginIds \ {Offline}
  BY ActiveJob DEF Active
<1>2. assessment[j[1]].pid \in Seq(Tokens) /\ assessment[j[1]].mode \in Modes
  BY <1>1 DEF AssessmentRow
<1>3. job[j].ts \in Nat
  BY DEF IInv, TypeOK, JobStates
<1>4. QED
  BY <1>1, <1>2, <1>3 DEF RawRow, RawRows

LEMMA HarmonizedRowType ==
  ASSUME IInv, NEW j \in Jobs, job[j].pc = "store"
  PROVE  /\ HarmonizedRow(j) \in HarmonizedRows
         /\ HarmonizedRow(j).assessment_id = j[1]
         /\ HarmonizedRow(j).row = j
<1>1. /\ j[1] \in Ids
      /\ assessment[j[1]] \in AssessmentRow
      /\ Assessor(j) \in PluginIds \ {Offline}
  BY ActiveJob DEF Active
<1>2. assessment[j[1]].pid \in Seq(Tokens) /\ assessment[j[1]].mode \in Modes
  BY <1>1 DEF AssessmentRow
<1>3. job[j].norm \in Jobs
  BY DEF IInv, JobInv
<1>4. QED
  BY <1>1, <1>2, <1>3 DEF HarmonizedRow, HarmonizedRows

\* A commit that reports success has been applied.
LEMMA CommitOk ==
  ASSUME NEW where, NEW c \in Commit(where)
  PROVE  c.ok => c.applied
BY DEF Commit

LEMMA StoreResultInv ==
  ASSUME IInv, NEW j \in Jobs, StoreResult(j)
  PROVE  IInv'
<1>1. job[j].pc = "store" /\ job[j].pc \in Active
  BY DEF StoreResult, Active
<1>2. job[j].raw \in Payloads
  BY <1>1 DEF IInv, JobInv
<1>3. PICK c \in Commit("job_db") :
        /\ raw' = IF c.applied THEN raw \cup {RawRow(j, job[j].raw)} ELSE raw
        /\ harmonized' = IF c.applied THEN harmonized \cup {HarmonizedRow(j)}
                         ELSE harmonized
        /\ job' = [job EXCEPT ![j] =
             [NoJob EXCEPT !.pc = IF c.ok THEN "completed" ELSE "except"]]
  BY DEF StoreResult
<1> DEFINE R == IF c.applied THEN {RawRow(j, job[j].raw)} ELSE {}
           H == IF c.applied THEN {HarmonizedRow(j)} ELSE {}
           pc == IF c.ok THEN "completed" ELSE "except"
<1>4. R \in SUBSET RawRows /\ H \in SUBSET HarmonizedRows
  BY <1>1, <1>2, RawRowType, HarmonizedRowType
<1>5. \A row \in R \cup H : row.assessment_id = j[1]
  BY <1>1, <1>2, RawRowType, HarmonizedRowType
<1>6. raw' = raw \cup R /\ harmonized' = harmonized \cup H
  BY <1>3
<1>7. pc = "completed" => Answered(j[1], j[2])'
  <2>1. SUFFICES ASSUME c.ok PROVE Answered(j[1], j[2])'
    OBVIOUS
  <2>2. RawRow(j, job[j].raw) \in raw' /\ HarmonizedRow(j) \in harmonized'
    BY <1>3, <2>1, CommitOk
  <2>3. j = <<j[1], j[2]>>
    BY DEF Jobs
  <2>4. /\ HarmonizedRow(j).row = <<j[1], j[2]>>
        /\ RawRow(j, job[j].raw).row = <<<<j[1], j[2]>>, "store">>
    BY <1>1, <1>2, <2>3, RawRowType, HarmonizedRowType
  <2>5. QED
    BY <2>2, <2>4 DEF Answered
<1>8. pc \in {"except", "completed", "failed"}
  OBVIOUS
<1>9. job' = [job EXCEPT ![j] = [NoJob EXCEPT !.pc = pc]]
  BY <1>3
<1>10. UNCHANGED <<handler, request, assessment, clock, task>>
  BY DEF StoreResult
<1> HIDE DEF R, H, pc
<1>11. QED
  BY <1>1, <1>4, <1>5, <1>6, <1>7, <1>8, <1>9, <1>10, StoringJobStep

LEMMA StoreFailureInv ==
  ASSUME IInv, NEW j \in Jobs, StoreFailure(j)
  PROVE  IInv'
<1>1. job[j].pc = "fail" /\ job[j].pc \in Active /\ Failure \in Payloads
  BY DEF StoreFailure, Active, Payloads
<1>2. PICK c \in Commit("job_db") :
        /\ raw' = IF c.applied THEN raw \cup {RawRow(j, Failure)} ELSE raw
        /\ job' = [job EXCEPT ![j] =
             [NoJob EXCEPT !.pc = IF c.ok THEN "failed" ELSE "except"]]
  BY DEF StoreFailure
<1> DEFINE R == IF c.applied THEN {RawRow(j, Failure)} ELSE {}
           pc == IF c.ok THEN "failed" ELSE "except"
<1>3. R \in SUBSET RawRows /\ \A row \in R : row.assessment_id = j[1]
  BY <1>1, RawRowType
<1>4. raw' = raw \cup R /\ harmonized' = harmonized \cup {}
  BY <1>2 DEF StoreFailure
<1>5. pc \in {"except", "failed"}
  OBVIOUS
<1>6. job' = [job EXCEPT ![j] = [NoJob EXCEPT !.pc = pc]]
  BY <1>2
<1>7. UNCHANGED <<handler, request, assessment, clock, task>>
  BY DEF StoreFailure
<1> HIDE DEF R, pc
<1>8. {} \in SUBSET HarmonizedRows /\ pc # "completed"
  BY <1>5
<1>9. QED
  BY <1>1, <1>3, <1>4, <1>5, <1>6, <1>7, <1>8, StoringJobStep

LEMMA StoreExceptionInv ==
  ASSUME IInv, NEW j \in Jobs, StoreException(j)
  PROVE  IInv'
<1>1. job[j].pc = "except" /\ job[j].pc \in Active /\ Failure \in Payloads
  BY DEF StoreException, Active, Payloads
<1>2. PICK c \in Commit("job_db") :
        raw' = IF c.applied THEN raw \cup {RawRow(j, Failure)} ELSE raw
  BY DEF StoreException
<1> DEFINE R == IF c.applied THEN {RawRow(j, Failure)} ELSE {}
<1>3. R \in SUBSET RawRows /\ \A row \in R : row.assessment_id = j[1]
  BY <1>1, RawRowType
<1>4. raw' = raw \cup R /\ harmonized' = harmonized \cup {}
  BY <1>2 DEF StoreException
<1>5. job' = [job EXCEPT ![j] = [NoJob EXCEPT !.pc = "failed"]]
  BY DEF StoreException
<1>6. UNCHANGED <<handler, request, assessment, clock, task>>
  BY DEF StoreException
<1> HIDE DEF R
<1>7. {} \in SUBSET HarmonizedRows
  OBVIOUS
<1>8. QED
  BY <1>1, <1>3, <1>4, <1>5, <1>6, <1>7, StoringJobStep

----------------------------------------------------------------------------
\* The steps of handlers and tasks, and the crash.

\* The jobs of a known assessment are jobs.
LEMMA JobsOfKnown ==
  ASSUME NEW a \in Ids, assessment[a] \in AssessmentRow
  PROVE  JobsOf(a) \subseteq Jobs
<1>1. assessment[a].assessors \in PartialList(PluginIds \ {Offline})
  BY DEF AssessmentRow
<1>2. DOMAIN assessment[a].assessors \subseteq Positions
  BY <1>1 DEF PartialList
<1>3. QED
  BY <1>2 DEF JobsOf, Jobs

\* A step that leaves an assessment alone keeps what is known of it.
LEMMA SameAssessment ==
  ASSUME IInv, NEW b \in Ids,
         handler'[b] = handler[b], request'[b] = request[b],
         assessment'[b] = assessment[b], task'[b] = task[b],
         \A j \in Jobs : j[1] = b => job'[j] = job[j],
         raw' = raw, harmonized' = harmonized
  PROVE  HandlerInv(b)' /\ TaskInv(b)'
<1>1. HandlerInv(b) /\ TaskInv(b)
  BY DEF IInv
<1>2. HandlerInv(b)'
  BY <1>1 DEF HandlerInv, Known
<1>3. /\ Known(b)' = Known(b) /\ Terminal(b)' = Terminal(b)
      /\ JobsOf(b)' = JobsOf(b)
  BY DEF Known, Terminal, JobsOf
<1>4. \A i : Answered(b, i)' = Answered(b, i)
  BY DEF Answered
<1>5. Known(b) => \A j \in JobsOf(b) : job'[j] = job[j]
  <2>1. SUFFICES ASSUME Known(b), NEW j \in JobsOf(b) PROVE job'[j] = job[j]
    OBVIOUS
  <2>2. j \in Jobs
    BY <2>1, JobsOfKnown DEF IInv, TypeOK, Known
  <2>3. j[1] = b
    BY <2>1 DEF JobsOf
  <2>4. QED
    BY <2>2, <2>3
<1>6. task[b] = "gather" => Known(b)
  BY <1>1 DEF TaskInv
<1>7. Terminal(b) => Known(b)
  BY DEF Terminal
<1>8. TaskInv(b)'
  BY <1>1, <1>3, <1>4, <1>5, <1>6, <1>7 DEF TaskInv
<1>9. QED
  BY <1>2, <1>8

LEMMA SameJob ==
  ASSUME IInv, NEW j \in Jobs,
         job'[j] = job[j], assessment'[j[1]] = assessment[j[1]],
         task'[j[1]] = task[j[1]], raw' = raw, harmonized' = harmonized
  PROVE  JobInv(j)'
<1>1. JobInv(j)
  BY DEF IInv
<1>2. Answered(j[1], j[2])' = Answered(j[1], j[2])
  BY DEF Answered
<1>3. QED
  BY <1>1, <1>2 DEF JobInv, Known

\* A step that moves only the handler of a, and perhaps its request.
LEMMA HandlerOnlyStep ==
  ASSUME IInv, NEW a \in Ids, TypeOK', HandlerInv(a)',
         \A b \in Ids \ {a} : handler'[b] = handler[b] /\ request'[b] = request[b],
         UNCHANGED <<tables, clock, task, job>>
  PROVE  IInv'
<1>1. /\ assessment' = assessment /\ task' = task /\ job' = job
      /\ raw' = raw /\ harmonized' = harmonized
  BY DEF tables
<1>2. \A b \in Ids \ {a} : HandlerInv(b)' /\ TaskInv(b)'
  BY <1>1, SameAssessment
<1>3. TaskInv(a)'
  BY <1>1 DEF IInv, TaskInv, Known, Terminal, JobsOf, Answered
<1>4. \A j \in Jobs : JobInv(j)'
  BY <1>1, SameJob
<1>5. \A row \in raw' \cup harmonized' : RowInv(row)'
  BY <1>1 DEF IInv, RowInv, Known
<1>6. QED
  BY <1>2, <1>3, <1>4, <1>5 DEF IInv

LEMMA ReceiveRequestInv ==
  ASSUME IInv, NEW a \in Ids, NEW r \in Requests, ReceiveRequest(a, r)
  PROVE  IInv'
<1>1. handler \in [Ids -> HandlerStates] /\ request \in [Ids -> Requests \cup {Null}]
  BY DEF IInv, TypeOK
<1>2. /\ request'[a] = r
      /\ handler'[a] = IF ~ Accepted(r) THEN "rejected"
                       ELSE IF WantsOffline(r) THEN "offline" ELSE "insert"
      /\ \A b \in Ids \ {a} : handler'[b] = handler[b] /\ request'[b] = request[b]
  BY <1>1 DEF ReceiveRequest
<1>3. UNCHANGED <<tables, clock, task, job>>
  BY DEF ReceiveRequest
<1>4. TypeOK'
  BY <1>1, <1>3 DEF IInv, TypeOK, ReceiveRequest, HandlerStates, tables
<1>5. HandlerInv(a)
  BY DEF IInv
<1>6. ~ Known(a)' /\ task'[a] = "none"
  BY <1>3, <1>5 DEF HandlerInv, ReceiveRequest, Known, tables
<1>7. handler'[a] \in {"offline", "insert"} => Accepted(r)
  BY <1>2
<1>8. handler'[a] = "insert" => DOMAIN Online(r) # {}
  BY <1>2 DEF Accepted, WantsOffline, Online
<1>9. handler'[a] \in {"rejected", "offline", "insert"}
  BY <1>2
<1>10. HandlerInv(a)'
  BY <1>2, <1>6, <1>7, <1>8, <1>9 DEF HandlerInv
<1>11. QED
  BY <1>2, <1>3, <1>4, <1>10, HandlerOnlyStep

LEMMA AssessOfflineInv ==
  ASSUME IInv, NEW a \in Ids, AssessOffline(a)
  PROVE  IInv'
<1>1. handler \in [Ids -> HandlerStates]
  BY DEF IInv, TypeOK
<1>2. PICK next \in {"error", IF DOMAIN Online(request[a]) = {} THEN "completed"
                              ELSE "insert"} :
        handler' = [handler EXCEPT ![a] = next]
  BY DEF AssessOffline
<1>3. handler'[a] = next /\ \A b \in Ids \ {a} : handler'[b] = handler[b]
  BY <1>1, <1>2
<1>4. request' = request /\ UNCHANGED <<tables, clock, task, job>>
  BY DEF AssessOffline
<1>5. TypeOK'
  BY <1>1, <1>2, <1>4 DEF IInv, TypeOK, HandlerStates, tables
<1>6. HandlerInv(a) /\ handler[a] = "offline"
  BY DEF IInv, AssessOffline
<1>7. HandlerInv(a)'
  BY <1>3, <1>4, <1>6 DEF HandlerInv, Known, tables
<1>8. QED
  BY <1>3, <1>4, <1>5, <1>7, HandlerOnlyStep

LEMMA CreateAssessmentRecordInv ==
  ASSUME IInv, NEW a \in Ids, CreateAssessmentRecord(a)
  PROVE  IInv'
<1>1. TypeOK
  BY DEF IInv
<1>2. HandlerInv(a) /\ TaskInv(a) /\ handler[a] = "insert"
  BY DEF IInv, CreateAssessmentRecord
<1>3. ~ Known(a) /\ task[a] = "none" /\ request[a] \in Requests
      /\ Accepted(request[a]) /\ DOMAIN Online(request[a]) # {}
  BY <1>2 DEF HandlerInv
<1>4. PICK c \in Commit("task_db") :
        /\ assessment' = IF c.applied
                         THEN [assessment EXCEPT ![a] = NewAssessment(request[a])]
                         ELSE assessment
        /\ handler' = [handler EXCEPT ![a] = IF c.ok THEN "spawn" ELSE "error"]
  BY DEF CreateAssessmentRecord
<1>5. UNCHANGED <<request, raw, harmonized, clock, task, job>>
  BY DEF CreateAssessmentRecord
<1>6. /\ NewAssessment(request[a]) \in AssessmentRow
      /\ NewAssessment(request[a]) # Null
      /\ NewAssessment(request[a]).status = "queued"
  BY <1>3, NewAssessmentType
<1>7. /\ handler'[a] = IF c.ok THEN "spawn" ELSE "error"
      /\ assessment'[a] = IF c.applied THEN NewAssessment(request[a]) ELSE Null
      /\ \A b \in Ids \ {a} : handler'[b] = handler[b] /\ assessment'[b] = assessment[b]
  BY <1>1, <1>3, <1>4 DEF TypeOK, Known
<1>8. TypeOK'
  BY <1>1, <1>4, <1>5, <1>6 DEF TypeOK, HandlerStates
<1>9. HandlerInv(a)'
  BY <1>3, <1>5, <1>6, <1>7, CommitOk DEF HandlerInv, Known
<1>10. TaskInv(a)'
  BY <1>3, <1>5, <1>6, <1>7 DEF TaskInv, Known, Terminal
<1>11. \A b \in Ids \ {a} : HandlerInv(b)' /\ TaskInv(b)'
  BY <1>5, <1>7, SameAssessment
<1>12. ASSUME NEW j \in Jobs PROVE JobInv(j)'
  <2>1. CASE j[1] = a
    <3>1. job'[j].pc = "idle"
      BY <1>3, <1>5, <2>1 DEF IInv, JobInv
    <3>2. QED
      BY <3>1 DEF JobInv, Active
  <2>2. CASE j[1] # a
    <3>1. j[1] \in Ids \ {a}
      BY <2>2 DEF Jobs
    <3>2. QED
      BY <1>5, <1>7, <3>1, SameJob
  <2>3. QED
    BY <2>1, <2>2
<1>13. ASSUME NEW row \in raw' \cup harmonized' PROVE RowInv(row)'
  <2>1. RowInv(row) /\ row.assessment_id \in Ids
    BY <1>1, <1>5 DEF IInv, TypeOK, RawRows, HarmonizedRows
  <2>2. row.assessment_id # a
    BY <1>3, <2>1 DEF RowInv
  <2>3. QED
    BY <1>7, <2>1, <2>2 DEF RowInv, Known
<1>14. QED
  BY <1>8, <1>9, <1>10, <1>11, <1>12, <1>13 DEF IInv

LEMMA SpawnTaskInv ==
  ASSUME IInv, NEW a \in Ids, SpawnTask(a)
  PROVE  IInv'
<1>1. TypeOK /\ HandlerInv(a) /\ TaskInv(a) /\ handler[a] = "spawn"
  BY DEF IInv, SpawnTask
<1>2. Known(a) /\ task[a] = "none" /\ assessment[a].status = "queued"
  BY <1>1 DEF HandlerInv, TaskInv
<1>3. /\ request' = request /\ assessment' = assessment /\ raw' = raw
      /\ harmonized' = harmonized /\ clock' = clock /\ job' = job
  BY DEF SpawnTask, tables
<1>4. /\ handler'[a] = "queued" /\ task'[a] = "load"
      /\ \A b \in Ids \ {a} : handler'[b] = handler[b] /\ task'[b] = task[b]
  BY <1>1 DEF SpawnTask, TypeOK
<1>5. TypeOK'
  BY <1>1, <1>3 DEF SpawnTask, TypeOK, HandlerStates
<1>6. HandlerInv(a)'
  BY <1>2, <1>3, <1>4 DEF HandlerInv, Known
<1>7. TaskInv(a)'
  BY <1>2, <1>3, <1>4 DEF TaskInv, Known, Terminal
<1>8. \A b \in Ids \ {a} : HandlerInv(b)' /\ TaskInv(b)'
  BY <1>3, <1>4, SameAssessment
<1>9. ASSUME NEW j \in Jobs PROVE JobInv(j)'
  <2>1. CASE j[1] = a
    <3>1. job'[j].pc = "idle"
      BY <1>2, <1>3, <2>1 DEF IInv, JobInv
    <3>2. QED
      BY <3>1 DEF JobInv, Active
  <2>2. CASE j[1] # a
    <3>1. j[1] \in Ids \ {a}
      BY <2>2 DEF Jobs
    <3>2. QED
      BY <1>3, <1>4, <3>1, SameJob
  <2>3. QED
    BY <2>1, <2>2
<1>10. \A row \in raw' \cup harmonized' : RowInv(row)'
  BY <1>3 DEF IInv, RowInv, Known
<1>11. QED
  BY <1>5, <1>6, <1>7, <1>8, <1>9, <1>10 DEF IInv

\* The failing branch of run_assessment's first session, in which the record
\* is missing, is never taken: the task finds a queued record.
LEMMA LoadAssessmentInv ==
  ASSUME IInv, NEW a \in Ids, LoadAssessment(a)
  PROVE  IInv'
<1>1. TypeOK /\ HandlerInv(a) /\ TaskInv(a) /\ task[a] = "load"
  BY DEF IInv, LoadAssessment
<1>2. Known(a) /\ assessment[a].status = "queued" /\ assessment[a] \in AssessmentRow
  BY <1>1 DEF TaskInv, TypeOK, Known
<1>3. handler[a] = "queued"
  BY <1>1 DEF HandlerInv
<1>4. /\ handler' = handler /\ request' = request /\ raw' = raw
      /\ harmonized' = harmonized /\ clock' = clock
  BY DEF LoadAssessment
<1>5. PICK c \in Commit("task_db") :
        /\ assessment' = IF c.applied
                         THEN [assessment EXCEPT ![a].status = "running"]
                         ELSE assessment
        /\ task' = [task EXCEPT ![a] = IF c.ok THEN "gather" ELSE "lost"]
        /\ job' = IF c.ok
                  THEN [j \in Jobs |->
                          IF j[1] = a /\ j[2] \in DOMAIN assessment[a].assessors
                          THEN [NoJob EXCEPT !.pc = FirstStep(a)]
                          ELSE job[j]]
                  ELSE job
  BY <1>2 DEF LoadAssessment, StartRun, Known
<1>6. c.ok => c.applied
  BY CommitOk
<1>7. /\ [NoJob EXCEPT !.pc = FirstStep(a)] \in JobStates
      /\ [NoJob EXCEPT !.pc = FirstStep(a)].pc \in {"lookup", "assess"}
  BY DEF NoJob, JobStates, FirstStep
<1>8. [assessment[a] EXCEPT !.status = "running"] \in AssessmentRow
  BY <1>2 DEF AssessmentRow
<1>9. assessment'[a] = IF c.applied THEN [assessment[a] EXCEPT !.status = "running"]
                       ELSE assessment[a]
  BY <1>1, <1>5 DEF TypeOK
<1>10. /\ assessment'[a] \in AssessmentRow
       /\ assessment'[a].assessors = assessment[a].assessors
       /\ assessment'[a].status = IF c.applied THEN "running" ELSE "queued"
  BY <1>2, <1>8, <1>9 DEF AssessmentRow
<1>11. Known(a)'
  BY <1>10, NullAssumption DEF Known
<1>12. task'[a] = (IF c.ok THEN "gather" ELSE "lost")
       /\ \A b \in Ids \ {a} : task'[b] = task[b] /\ assessment'[b] = assessment[b]
  BY <1>1, <1>5 DEF TypeOK
<1>13. \A j \in Jobs : job'[j] = IF c.ok /\ j[1] = a /\ j[2] \in DOMAIN assessment[a].assessors
                                 THEN [NoJob EXCEPT !.pc = FirstStep(a)]
                                 ELSE job[j]
  BY <1>5
<1>14. TypeOK'
  <2>1. assessment' \in [Ids -> AssessmentRow \cup {Null}]
    BY <1>1, <1>5, <1>8 DEF TypeOK
  <2>2. job' \in [Jobs -> JobStates]
    BY <1>1, <1>5, <1>7 DEF TypeOK
  <2>3. task' \in [Ids -> {"none", "load", "gather", "ended", "lost"}]
    BY <1>1, <1>5 DEF TypeOK
  <2>4. QED
    BY <1>1, <1>4, <2>1, <2>2, <2>3 DEF TypeOK
<1>15. HandlerInv(a)'
  BY <1>3, <1>4, <1>11 DEF HandlerInv
<1>16. TaskInv(a)'
  <2>1. c.ok => \A j \in JobsOf(a)' : job'[j].pc \in Active
    <3>1. SUFFICES ASSUME c.ok, NEW j \in JobsOf(a)' PROVE job'[j].pc \in Active
      OBVIOUS
    <3>2. j \in Jobs /\ j[1] = a /\ j[2] \in DOMAIN assessment[a].assessors
      BY <1>2, <1>10, JobsOfKnown DEF JobsOf
    <3>3. QED
      BY <1>7, <1>13, <3>1, <3>2 DEF Active
  <2>2. ~ Terminal(a)'
    BY <1>10 DEF Terminal
  <2>3. QED
    BY <1>6, <1>10, <1>11, <1>12, <2>1, <2>2 DEF TaskInv
<1>17. \A b \in Ids \ {a} : HandlerInv(b)' /\ TaskInv(b)'
  BY <1>4, <1>12, <1>13, SameAssessment
<1>18. ASSUME NEW j \in Jobs PROVE JobInv(j)'
  <2>1. CASE j[1] # a
    <3>1. j[1] \in Ids \ {a}
      BY <2>1 DEF Jobs
    <3>2. job'[j] = job[j]
      BY <1>13, <2>1
    <3>3. QED
      BY <1>4, <1>12, <3>1, <3>2, SameJob
  <2>2. CASE j[1] = a /\ job'[j] # job[j]
    <3>1. c.ok /\ j[2] \in DOMAIN assessment[a].assessors
          /\ job'[j] = [NoJob EXCEPT !.pc = FirstStep(a)]
      BY <1>13, <2>2
    <3>2. job'[j].pc \in {"lookup", "assess"}
      BY <1>7, <3>1
    <3>3. QED
      BY <1>6, <1>10, <1>11, <1>12, <2>2, <3>1, <3>2 DEF JobInv
  <2>3. CASE j[1] = a /\ job'[j] = job[j]
    <3>1. JobInv(j)
      BY DEF IInv
    <3>2. job'[j].pc = "idle"
      BY <1>2, <2>3, <3>1 DEF JobInv
    <3>3. QED
      BY <3>2 DEF JobInv, Active
  <2>4. QED
    BY <2>1, <2>2, <2>3
<1>19. ASSUME NEW row \in raw' \cup harmonized' PROVE RowInv(row)'
  <2>1. RowInv(row) /\ row.assessment_id \in Ids
    BY <1>1, <1>4 DEF IInv, TypeOK, RawRows, HarmonizedRows
  <2>2. row.assessment_id # a
    BY <1>2, <2>1 DEF RowInv
  <2>3. QED
    BY <1>12, <2>1, <2>2 DEF RowInv, Known
<1>20. QED
  BY <1>14, <1>15, <1>16, <1>17, <1>18, <1>19 DEF IInv

LEMMA FinishAssessmentInv ==
  ASSUME IInv, NEW a \in Ids, FinishAssessment(a)
  PROVE  IInv'
<1>1. TypeOK /\ HandlerInv(a) /\ TaskInv(a) /\ task[a] = "gather" /\ Gathered(a)
  BY DEF IInv, FinishAssessment
<1>2. Known(a) /\ assessment[a].status = "running" /\ assessment[a] \in AssessmentRow
  BY <1>1 DEF TaskInv, TypeOK, Known
<1>3. handler[a] = "queued"
  BY <1>1 DEF HandlerInv
<1>4. /\ handler' = handler /\ request' = request /\ raw' = raw
      /\ harmonized' = harmonized /\ clock' = clock /\ job' = job
  BY DEF FinishAssessment
<1>5. PICK c \in Commit("task_db") :
        /\ assessment' = IF c.applied
                         THEN [assessment EXCEPT ![a].status = FinalStatus(a),
                                                 ![a].completed_at = TRUE]
                         ELSE assessment
        /\ task' = [task EXCEPT ![a] = IF c.ok THEN "ended" ELSE "lost"]
  BY DEF FinishAssessment
<1> DEFINE final == [assessment[a] EXCEPT !.status = FinalStatus(a), !.completed_at = TRUE]
<1>6. FinalStatus(a) \in {"completed", "completed_with_errors"}
  BY DEF FinalStatus
<1>7. /\ final \in AssessmentRow /\ final.status = FinalStatus(a)
      /\ final.assessors = assessment[a].assessors
  BY <1>2, <1>6 DEF AssessmentRow
<1>8. /\ assessment' = IF c.applied THEN [assessment EXCEPT ![a] = final] ELSE assessment
      /\ assessment'[a] = IF c.applied THEN final ELSE assessment[a]
  BY <1>1, <1>5 DEF TypeOK
<1> HIDE DEF final
<1>9. /\ assessment'[a] \in AssessmentRow
      /\ assessment'[a].assessors = assessment[a].assessors
      /\ assessment'[a].status = IF c.applied THEN FinalStatus(a) ELSE "running"
  BY <1>2, <1>7, <1>8
<1>10. Known(a)'
  BY <1>9, NullAssumption DEF Known
<1>11. /\ task'[a] \in {"ended", "lost"}
       /\ \A b \in Ids \ {a} : task'[b] = task[b] /\ assessment'[b] = assessment[b]
  BY <1>1, <1>5 DEF TypeOK
<1>12. TypeOK'
  <2>1. assessment' \in [Ids -> AssessmentRow \cup {Null}]
    BY <1>1, <1>7, <1>8 DEF TypeOK
  <2>2. task' \in [Ids -> {"none", "load", "gather", "ended", "lost"}]
    BY <1>1, <1>5 DEF TypeOK
  <2>3. QED
    BY <1>1, <1>4, <2>1, <2>2 DEF TypeOK
<1>13. HandlerInv(a)'
  BY <1>3, <1>4, <1>10 DEF HandlerInv
<1>14. JobsOf(a) \subseteq Jobs /\ JobsOf(a)' = JobsOf(a)
  BY <1>2, <1>9, JobsOfKnown DEF JobsOf
<1>15. TaskInv(a)'
  <2>1. \A j \in JobsOf(a)' : job'[j].pc \in {"completed", "failed"}
    BY <1>1, <1>4, <1>14 DEF Gathered
  <2>2. assessment'[a].status # "running" => c.applied
    BY <1>9
  <2>3. assessment'[a].status = "completed" =>
          \A i \in DOMAIN assessment'[a].assessors : Answered(a, i)'
    <3>1. SUFFICES ASSUME assessment'[a].status = "completed",
                          NEW i \in DOMAIN assessment[a].assessors
                   PROVE  Answered(a, i)'
      BY <1>9
    <3>2. <<a, i>> \in JobsOf(a)
      BY <3>1 DEF JobsOf
    <3>3. job[<<a, i>>].pc = "completed"
      BY <1>1, <1>9, <2>2, <3>1, <3>2 DEF FinalStatus, Gathered
    <3>4. JobInv(<<a, i>>)
      BY <1>14, <3>2 DEF IInv
    <3>5. Answered(a, i)
      BY <3>3, <3>4 DEF JobInv
    <3>6. QED
      BY <1>4, <3>5 DEF Answered
  <2>4. QED
    BY <1>10, <1>11, <2>1, <2>3 DEF TaskInv
<1>16. \A b \in Ids \ {a} : HandlerInv(b)' /\ TaskInv(b)'
  BY <1>4, <1>11, SameAssessment
<1>17. ASSUME NEW j \in Jobs PROVE JobInv(j)'
  <2>1. CASE j[1] # a
    <3>1. j[1] \in Ids \ {a}
      BY <2>1 DEF Jobs
    <3>2. QED
      BY <1>4, <1>11, <3>1, SameJob
  <2>2. CASE j[1] = a
    <3>1. JobInv(j)
      BY DEF IInv
    <3>2. Answered(j[1], j[2])' = Answered(j[1], j[2])
      BY <1>4 DEF Answered
    <3>3. job[j].pc # "idle" => j \in JobsOf(a)
      BY <2>2, <3>1 DEF JobInv, JobsOf, Jobs
    <3>4. job[j].pc \notin Active
      BY <1>1, <3>3 DEF Gathered, Active
    <3>5. assessment'[a].status # "queued"
      BY <1>6, <1>9
    <3>6. QED
      BY <1>4, <1>9, <1>10, <2>2, <3>1, <3>2, <3>4, <3>5 DEF JobInv, Active
  <2>3. QED
    BY <2>1, <2>2
<1>18. ASSUME NEW row \in raw' \cup harmonized' PROVE RowInv(row)'
  <2>1. RowInv(row) /\ row.assessment_id \in Ids
    BY <1>1, <1>4 DEF IInv, TypeOK, RawRows, HarmonizedRows
  <2>2. CASE row.assessment_id = a
    BY <1>6, <1>9, <1>10, <2>2 DEF RowInv
  <2>3. CASE row.assessment_id # a
    BY <1>11, <2>1, <2>3 DEF RowInv, Known
  <2>4. QED
    BY <2>2, <2>3
<1>19. QED
  BY <1>12, <1>13, <1>15, <1>16, <1>17, <1>18 DEF IInv

LEMMA CrashInv ==
  ASSUME IInv, Crash
  PROVE  IInv'
<1>1. TypeOK
  BY DEF IInv
<1>2. /\ request' = request /\ assessment' = assessment /\ raw' = raw
      /\ harmonized' = harmonized /\ clock' = clock
  BY DEF Crash, tables
<1>3. /\ \A a \in Ids : handler'[a] = IF HandlerBusy(a) THEN "error" ELSE handler[a]
      /\ \A a \in Ids : task'[a] = IF TaskBusy(a) THEN "lost" ELSE task[a]
      /\ \A j \in Jobs : job'[j] = IF job[j].pc \in {"idle", "completed", "failed", "lost"}
                                   THEN job[j] ELSE [NoJob EXCEPT !.pc = "lost"]
  BY DEF Crash
<1>4. [NoJob EXCEPT !.pc = "lost"] \in JobStates /\ [NoJob EXCEPT !.pc = "lost"].pc = "lost"
  BY DEF NoJob, JobStates
<1>5. TypeOK'
  <2>1. handler' \in [Ids -> HandlerStates]
    BY <1>1 DEF Crash, TypeOK, HandlerStates
  <2>2. task' \in [Ids -> {"none", "load", "gather", "ended", "lost"}]
    BY <1>1 DEF Crash, TypeOK
  <2>3. job' \in [Jobs -> JobStates]
    BY <1>1, <1>4 DEF Crash, TypeOK
  <2>4. QED
    BY <1>1, <1>2, <2>1, <2>2, <2>3 DEF TypeOK
<1>6. ASSUME NEW a \in Ids PROVE HandlerInv(a)' /\ TaskInv(a)'
  <2>1. HandlerInv(a) /\ TaskInv(a)
    BY DEF IInv
  <2>2. Known(a)' = Known(a) /\ Terminal(a)' = Terminal(a) /\ JobsOf(a)' = JobsOf(a)
    BY <1>2 DEF Known, Terminal, JobsOf
  <2>3. HandlerInv(a)'
    BY <1>2, <1>3, <2>1, <2>2 DEF HandlerInv, HandlerBusy, TaskBusy
  <2>4. \A i : Answered(a, i)' = Answered(a, i)
    BY <1>2 DEF Answered
  <2>5. Terminal(a) => \A j \in JobsOf(a) : job'[j].pc \in {"completed", "failed"}
    <3>1. SUFFICES ASSUME Terminal(a), NEW j \in JobsOf(a)
                   PROVE  job'[j].pc \in {"completed", "failed"}
      OBVIOUS
    <3>2. j \in Jobs
      BY <1>1, <3>1, JobsOfKnown DEF TypeOK, Terminal, Known
    <3>3. QED
      BY <1>3, <2>1, <3>1, <3>2 DEF TaskInv
  <2>6. task'[a] \in {"none", "ended", "lost"}
        /\ (task'[a] = "none" => task[a] = "none")
        /\ (task[a] \in {"ended", "lost"} => task'[a] = task[a])
        /\ (task'[a] # "none" => task[a] # "none")
    BY <1>1, <1>3 DEF TaskBusy, TypeOK
  <2>7. TaskInv(a)'
    BY <1>2, <2>1, <2>2, <2>4, <2>5, <2>6 DEF TaskInv
  <2>8. QED
    BY <2>3, <2>7
<1>7. ASSUME NEW j \in Jobs PROVE JobInv(j)'
  <2>1. JobInv(j)
    BY DEF IInv
  <2>2. Answered(j[1], j[2])' = Answered(j[1], j[2])
    BY <1>2 DEF Answered
  <2>3. job'[j].pc \notin Active
    BY <1>1, <1>3, <1>4 DEF Active, TypeOK, JobStates
  <2>4. job'[j].pc \in {"idle", "completed"} => job'[j] = job[j]
    BY <1>3, <1>4
  <2>5. job'[j].pc # "idle" => job[j].pc # "idle"
    BY <1>3
  <2>6. QED
    BY <1>2, <2>1, <2>2, <2>3, <2>4, <2>5 DEF JobInv, Known, Active
<1>8. \A row \in raw' \cup harmonized' : RowInv(row)'
  BY <1>2 DEF IInv, RowInv, Known
<1>9. QED
  BY <1>5, <1>6, <1>7, <1>8 DEF IInv

----------------------------------------------------------------------------
\* The theorems.

LEMMA InitInv == Init => IInv
<1>1. SUFFICES ASSUME Init PROVE IInv
  OBVIOUS
<1>2. NoJob \in JobStates /\ NoJob.pc = "idle"
  BY DEF NoJob, JobStates
<1>3. TypeOK
  BY <1>1, <1>2 DEF Init, TypeOK, HandlerStates
<1>4. \A a \in Ids : HandlerInv(a) /\ TaskInv(a)
  BY <1>1 DEF Init, HandlerInv, TaskInv, Known, Terminal
<1>5. \A j \in Jobs : JobInv(j)
  BY <1>1, <1>2 DEF Init, JobInv, Active
<1>6. QED
  BY <1>1, <1>3, <1>4, <1>5 DEF Init, IInv

LEMMA NextInv == IInv /\ [Next]_vars => IInv'
<1>1. SUFFICES ASSUME IInv, [Next]_vars PROVE IInv'
  OBVIOUS
<1>2. ASSUME NEW a \in Ids, NEW r \in Requests, ReceiveRequest(a, r) PROVE IInv'
  BY <1>1, <1>2, ReceiveRequestInv
<1>3. ASSUME NEW a \in Ids, HandlerStep(a) PROVE IInv'
  BY <1>1, <1>3, AssessOfflineInv, CreateAssessmentRecordInv, SpawnTaskInv DEF HandlerStep
<1>4. ASSUME NEW a \in Ids, TaskStep(a) PROVE IInv'
  BY <1>1, <1>4, LoadAssessmentInv, FinishAssessmentInv DEF TaskStep
<1>5. ASSUME NEW j \in Jobs, JobStep(j) PROVE IInv'
  BY <1>1, <1>5, SelectRawInv, SelectHarmonizedInv, LookupFailsInv, AssessInv,
     BeginStoreInv, StoreResultInv, StoreFailureInv, StoreExceptionInv DEF JobStep
<1>6. CASE Crash
  BY <1>1, <1>6, CrashInv
<1>7. CASE UNCHANGED vars
  <2>1. /\ handler' = handler /\ request' = request /\ assessment' = assessment
        /\ raw' = raw /\ harmonized' = harmonized /\ clock' = clock
        /\ task' = task /\ job' = job
    BY <1>7 DEF vars
  <2>2. TypeOK'
    BY <1>1, <2>1 DEF IInv, TypeOK
  <2>3. \A b \in Ids : HandlerInv(b)' /\ TaskInv(b)'
    BY <1>1, <2>1, SameAssessment
  <2>4. \A j \in Jobs : JobInv(j)'
    BY <1>1, <2>1, SameJob
  <2>5. \A row \in raw' \cup harmonized' : RowInv(row)'
    BY <1>1, <2>1 DEF IInv, RowInv, Known
  <2>6. QED
    BY <2>2, <2>3, <2>4, <2>5 DEF IInv
<1>8. QED
  BY <1>1, <1>2, <1>3, <1>4, <1>5, <1>6, <1>7 DEF Next

\* IInv, what handler, task and jobs know of each other, holds in every
\* reachable state, whatever crashes and whichever commits fail.
THEOREM InductiveInvariant == Spec => []IInv
BY InitInv, NextInv, PTL DEF Spec

\* The state keeps its shape; a stored record never lists the offline assessor.
THEOREM TypeCorrect == Spec => []TypeOK
<1>1. IInv => TypeOK
  BY DEF IInv
<1>2. QED
  BY <1>1, InductiveInvariant, PTL

\* An id that was handed out, or whose task runs, has its record.
THEOREM RecordsPrecedeAnswers == Spec => []AnsweredIsStored
<1>1. IInv => AnsweredIsStored
  BY DEF IInv, HandlerInv, TaskInv, AnsweredIsStored
<1>2. QED
  BY <1>1, InductiveInvariant, PTL

\* No row is visible under an assessment that still says "queued".
THEOREM StatusPrecedesRows == Spec => []StatusNeverLags
<1>1. IInv => StatusNeverLags
  BY DEF IInv, RowInv, StatusNeverLags, RawOf, HarmonizedOf
<1>2. QED
  BY <1>1, InductiveInvariant, PTL

\* "completed" means that each assessor's answer is stored, for any number of
\* assessments, assessors and faults.
THEOREM CompletionIsComplete == Spec => []CompletedIsComplete
<1>1. IInv => CompletedIsComplete
  BY DEF IInv, TaskInv, CompletedIsComplete
<1>2. QED
  BY <1>1, InductiveInvariant, PTL

----------------------------------------------------------------------------
\* The end of an assessment is final.

Frozen(a) ==
  /\ assessment'[a] = assessment[a]
  /\ {row \in raw' : row.assessment_id = a} = RawOf(a)
  /\ {row \in harmonized' : row.assessment_id = a} = HarmonizedOf(a)

LEMMA UntouchedTables ==
  ASSUME NEW a \in Ids, UNCHANGED tables
  PROVE  Frozen(a)
BY DEF Frozen, tables, RawOf, HarmonizedOf

\* The rows a job commits are not those of a finished assessment.
LEMMA StoringFrozen ==
  ASSUME IInv, NEW a \in Ids, Terminal(a), NEW j \in Jobs,
         StoreResult(j) \/ StoreFailure(j) \/ StoreException(j)
  PROVE  Frozen(a)
<1>1. job[j].pc \in {"store", "fail", "except"}
  BY DEF StoreResult, StoreFailure, StoreException
<1>2. j[1] # a
  <2>1. TaskInv(a)
    BY DEF IInv
  <2>2. QED
    BY <1>1, <2>1, ActiveJob DEF TaskInv, Active
<1>3. job[j].pc = "store" => job[j].raw \in Payloads
  BY DEF IInv, JobInv
<1>4. Failure \in Payloads
  BY DEF Payloads
<1>5. \A row \in raw' \ raw : row.assessment_id # a
  BY <1>1, <1>2, <1>3, <1>4, RawRowType DEF StoreResult, StoreFailure, StoreException
<1>6. \A row \in harmonized' \ harmonized : row.assessment_id # a
  BY <1>2, HarmonizedRowType DEF StoreResult, StoreFailure, StoreException
<1>7. /\ assessment' = assessment /\ raw \subseteq raw'
      /\ harmonized \subseteq harmonized'
  BY DEF StoreResult, StoreFailure, StoreException
<1>8. QED
  BY <1>5, <1>6, <1>7 DEF Frozen, RawOf, HarmonizedOf

LEMMA StepFrozen ==
  ASSUME IInv, NEW a \in Ids, Terminal(a), Next
  PROVE  Frozen(a)
<1>1. TypeOK /\ HandlerInv(a) /\ TaskInv(a)
  BY DEF IInv
<1>2. task[a] \in {"ended", "lost"} /\ handler[a] = "queued"
  BY <1>1 DEF TaskInv, HandlerInv
<1>3. ASSUME NEW b \in Ids, NEW r \in Requests, ReceiveRequest(b, r) PROVE Frozen(a)
  BY <1>3, UntouchedTables DEF ReceiveRequest
<1>4. ASSUME NEW b \in Ids, HandlerStep(b) PROVE Frozen(a)
  <2>1. CASE AssessOffline(b)
    BY <2>1, UntouchedTables DEF AssessOffline
  <2>2. CASE CreateAssessmentRecord(b)
    <3>1. b # a
      BY <1>2, <2>2 DEF CreateAssessmentRecord
    <3>2. assessment'[a] = assessment[a] /\ raw' = raw /\ harmonized' = harmonized
      BY <1>1, <2>2, <3>1 DEF CreateAssessmentRecord, TypeOK
    <3>3. QED
      BY <3>2 DEF Frozen, RawOf, HarmonizedOf
  <2>3. CASE SpawnTask(b)
    BY <2>3, UntouchedTables DEF SpawnTask
  <2>4. QED
    BY <1>4, <2>1, <2>2, <2>3 DEF HandlerStep
<1>5. ASSUME NEW b \in Ids, TaskStep(b) PROVE Frozen(a)
  <2>1. b # a
    BY <1>2, <1>5 DEF TaskStep, LoadAssessment, FinishAssessment
  <2>2. CASE LoadAssessment(b)
    <3>1. assessment'[a] = assessment[a] /\ raw' = raw /\ harmonized' = harmonized
      BY <1>1, <2>1, <2>2 DEF LoadAssessment, StartRun, TypeOK
    <3>2. QED
      BY <3>1 DEF Frozen, RawOf, HarmonizedOf
  <2>3. CASE FinishAssessment(b)
    <3>1. assessment'[a] = assessment[a] /\ raw' = raw /\ harmonized' = harmonized
      BY <1>1, <2>1, <2>3 DEF FinishAssessment, TypeOK
    <3>2. QED
      BY <3>1 DEF Frozen, RawOf, HarmonizedOf
  <2>4. QED
    BY <1>5, <2>2, <2>3 DEF TaskStep
<1>6. ASSUME NEW j \in Jobs, JobStep(j) PROVE Frozen(a)
  <2>1. CASE SelectRaw(j) \/ SelectHarmonized(j) \/ LookupFails(j) \/ Assess(j) \/ BeginStore(j)
    BY <2>1, UntouchedTables DEF SelectRaw, SelectHarmonized, LookupFails, Assess, BeginStore
  <2>2. CASE StoreResult(j) \/ StoreFailure(j) \/ StoreException(j)
    BY <2>2, StoringFrozen
  <2>3. QED
    BY <1>6, <2>1, <2>2 DEF JobStep
<1>7. CASE Crash
  BY <1>7, UntouchedTables DEF Crash
<1>8. QED
  BY <1>3, <1>4, <1>5, <1>6, <1>7 DEF Next

\* What a finished assessment shows never changes: no job outlives the gather,
\* so no answer and no failure row comes after the status.
THEOREM EndIsFinal == Spec => FrozenWhenTerminal
<1>1. IInv /\ [Next]_vars => [\A a \in Ids : Terminal(a) => Frozen(a)]_vars
  BY StepFrozen
<1>2. QED
  BY <1>1, InductiveInvariant, PTL DEF Spec, FrozenWhenTerminal, Frozen

----------------------------------------------------------------------------
\* Every step moves some coroutine on and none back.

\* How many steps a handler, a task and a job have left at most.
HandlerLeft(place) ==
  CASE place = "idle" -> 4 [] place = "offline" -> 3 [] place = "insert" -> 2
    [] place = "spawn" -> 1 [] OTHER -> 0

TaskLeft(place) ==
  CASE place = "none" -> 3 [] place = "load" -> 2 [] place = "gather" -> 1
    [] OTHER -> 0

JobLeft(s) ==
  CASE s.pc = "idle" -> 10 [] s.pc = "lookup" -> 9 [] s.pc = "match" -> 8
    [] s.pc = "assess" -> 7
    [] s.pc = "store" -> IF s.ts = 0 THEN 6 ELSE 5
    [] s.pc = "fail" -> IF s.ts = 0 THEN 4 ELSE 3
    [] s.pc = "except" -> IF s.ts = 0 THEN 2 ELSE 1
    [] OTHER -> 0

OthersKept(j) == \A k \in Jobs \ {j} : job'[k] = job[k]

HandlersOnward ==
  \A a \in Ids : handler'[a] # handler[a] => HandlerLeft(handler'[a]) < HandlerLeft(handler[a])

TasksOnward ==
  \A a \in Ids : task'[a] # task[a] => TaskLeft(task'[a]) < TaskLeft(task[a])

JobsOnward ==
  \A j \in Jobs : job'[j] # job[j] => JobLeft(job'[j]) < JobLeft(job[j])

Onward ==
  /\ <<handler', task', job'>> # <<handler, task, job>>
  /\ HandlersOnward /\ TasksOnward /\ JobsOnward

\* What a job at each place has left; an attempt to store has one less once its
\* transaction has begun.
LEMMA JobLeftNumbers ==
  ASSUME NEW s
  PROVE  /\ s.pc = "idle" => JobLeft(s) = 10
         /\ s.pc = "lookup" => JobLeft(s) = 9
         /\ s.pc = "match" => JobLeft(s) = 8
         /\ s.pc = "assess" => JobLeft(s) = 7
         /\ s.pc = "store" => JobLeft(s) = (IF s.ts = 0 THEN 6 ELSE 5)
         /\ s.pc = "fail" => JobLeft(s) = (IF s.ts = 0 THEN 4 ELSE 3)
         /\ s.pc = "except" => JobLeft(s) = (IF s.ts = 0 THEN 2 ELSE 1)
         /\ s.pc \in {"completed", "failed", "lost"} => JobLeft(s) = 0
BY DEF JobLeft

\* The steps of a job, seen from its place and its timestamp alone.
JobMove(old, new) ==
  \/ /\ old.pc \in {"lookup", "match", "assess"}
     /\ new.pc \in {"match", "assess", "store", "fail", "except"}
     /\ old.pc = "match" => new.pc # "match"
     /\ old.pc = "assess" => new.pc \notin {"match", "assess"}
  \/ old.pc \in {"store", "fail", "except"} /\ new.pc = old.pc /\ old.ts = 0 /\ new.ts # 0
  \/ old.pc \in {"store", "fail"} /\ old.ts # 0 /\ new.pc = "except"
  \/ old.pc \in {"store", "fail", "except"} /\ new.pc \in {"completed", "failed"}

LEMMA JobMoveLess ==
  ASSUME NEW old, NEW new, JobMove(old, new)
  PROVE  new # old /\ JobLeft(new) < JobLeft(old)
<1>1. CASE /\ old.pc \in {"lookup", "match", "assess"}
           /\ new.pc \in {"match", "assess", "store", "fail", "except"}
           /\ old.pc = "match" => new.pc # "match"
           /\ old.pc = "assess" => new.pc \notin {"match", "assess"}
  <2>1. JobLeft(old) \in {7, 8, 9}
    BY <1>1, JobLeftNumbers
  <2>2. new.pc \in {"store", "fail", "except"} => JobLeft(new) \in {1, 2, 3, 4, 5, 6}
    BY JobLeftNumbers
  <2>3. CASE new.pc \in {"store", "fail", "except"}
    BY <1>1, <2>1, <2>2, <2>3
  <2>4. CASE new.pc = "match"
    BY <1>1, <2>4, JobLeftNumbers
  <2>5. CASE new.pc = "assess"
    BY <1>1, <2>5, JobLeftNumbers
  <2>6. QED
    BY <1>1, <2>3, <2>4, <2>5
<1>2. CASE old.pc \in {"store", "fail", "except"} /\ new.pc = old.pc /\ old.ts = 0 /\ new.ts # 0
  BY <1>2, JobLeftNumbers
<1>3. CASE old.pc \in {"store", "fail"} /\ old.ts # 0 /\ new.pc = "except"
  BY <1>3, JobLeftNumbers
<1>4. CASE old.pc \in {"store", "fail", "except"} /\ new.pc \in {"completed", "failed"}
  <2>1. JobLeft(new) = 0
    BY <1>4, JobLeftNumbers
  <2>2. JobLeft(old) \in {1, 2, 3, 4, 5, 6}
    BY <1>4, JobLeftNumbers
  <2>3. QED
    BY <1>4, <2>1, <2>2
<1>5. QED
  BY <1>1, <1>2, <1>3, <1>4 DEF JobMove

LEMMA JobStepMoves ==
  ASSUME TypeOK, NEW j \in Jobs, JobStep(j)
  PROVE  JobMove(job[j], job'[j]) /\ OthersKept(j) /\ handler' = handler /\ task' = task
<1>1. job \in [Jobs -> JobStates] /\ clock \in Nat /\ clock + 1 # 0
  BY DEF TypeOK
<1>2. \A pc : [NoJob EXCEPT !.pc = pc].pc = pc
  BY DEF NoJob
<1>3. CASE SelectRaw(j)
  BY <1>1, <1>3 DEF SelectRaw, JobMove, OthersKept, JobStates
<1>4. CASE SelectHarmonized(j)
  <2>1. job[j].pc = "match" /\ handler' = handler /\ task' = task
    BY <1>4 DEF SelectHarmonized
  <2>2. CASE job' = [job EXCEPT ![j] = [NoJob EXCEPT !.pc = "assess"]]
    BY <1>1, <1>2, <2>1, <2>2 DEF JobMove, OthersKept
  <2>3. CASE \E row \in Matches(j) :
               job' = [job EXCEPT ![j] = [@ EXCEPT !.pc = "store", !.src = Null,
                                                   !.norm = row.norm]]
    BY <1>1, <2>1, <2>3 DEF JobMove, OthersKept, JobStates
  <2>4. QED
    BY <1>4, <2>2, <2>3 DEF SelectHarmonized
<1>5. CASE LookupFails(j)
  BY <1>1, <1>2, <1>5 DEF LookupFails, JobMove, OthersKept
<1>6. CASE Assess(j)
  <2>1. job[j].pc = "assess" /\ handler' = handler /\ task' = task
    BY <1>6 DEF Assess
  <2>2. OthersKept(j) /\ job'[j].pc \in {"store", "fail", "except"}
    <3>1. CASE job' = [job EXCEPT ![j] = [@ EXCEPT !.pc = "store", !.raw = j, !.norm = j]]
      BY <1>1, <3>1 DEF JobStates, OthersKept
    <3>2. CASE job' = [job EXCEPT ![j].pc = "fail"]
      BY <1>1, <3>2 DEF JobStates, OthersKept
    <3>3. CASE job' = [job EXCEPT ![j].pc = "except"]
      BY <1>1, <3>3 DEF JobStates, OthersKept
    <3>4. QED
      BY <1>6, <3>1, <3>2, <3>3 DEF Assess
  <2>3. QED
    BY <2>1, <2>2 DEF JobMove
<1>7. CASE BeginStore(j)
  BY <1>1, <1>7 DEF BeginStore, JobMove, OthersKept, JobStates
<1>8. CASE StoreResult(j)
  BY <1>1, <1>2, <1>8 DEF StoreResult, JobMove, OthersKept
<1>9. CASE StoreFailure(j)
  BY <1>1, <1>2, <1>9 DEF StoreFailure, JobMove, OthersKept
<1>10. CASE StoreException(j)
  BY <1>1, <1>2, <1>10 DEF StoreException, JobMove, OthersKept
<1>11. QED
  BY <1>3, <1>4, <1>5, <1>6, <1>7, <1>8, <1>9, <1>10 DEF JobStep

LEMMA JobStepOnward ==
  ASSUME TypeOK, NEW j \in Jobs, JobStep(j)
  PROVE  Onward
<1>1. /\ JobMove(job[j], job'[j]) /\ OthersKept(j)
      /\ handler' = handler /\ task' = task
  BY JobStepMoves
<1>2. job'[j] # job[j] /\ JobLeft(job'[j]) < JobLeft(job[j])
  BY <1>1, JobMoveLess
<1>3. QED
  BY <1>1, <1>2 DEF Onward, OthersKept, HandlersOnward, TasksOnward, JobsOnward

LEMMA HandlerStepOnward ==
  ASSUME IInv, NEW a \in Ids,
         HandlerStep(a) \/ (\E r \in Requests : ReceiveRequest(a, r))
  PROVE  Onward
<1>1. /\ handler \in [Ids -> HandlerStates]
      /\ task \in [Ids -> {"none", "load", "gather", "ended", "lost"}]
  BY DEF IInv, TypeOK
<1>2. CASE \E r \in Requests : ReceiveRequest(a, r)
  BY <1>1, <1>2
  DEF ReceiveRequest, Onward, HandlersOnward, TasksOnward, JobsOnward, HandlerLeft
<1>3. CASE AssessOffline(a)
  BY <1>1, <1>3
  DEF AssessOffline, Onward, HandlersOnward, TasksOnward, JobsOnward, HandlerLeft
<1>4. CASE CreateAssessmentRecord(a)
  <2>1. handler[a] = "insert" /\ task' = task /\ job' = job
    BY <1>4 DEF CreateAssessmentRecord
  <2>2. \E place \in {"spawn", "error"} : handler' = [handler EXCEPT ![a] = place]
    BY <1>4 DEF CreateAssessmentRecord
  <2>3. QED
    BY <1>1, <2>1, <2>2 DEF Onward, HandlersOnward, TasksOnward, JobsOnward, HandlerLeft
<1>5. CASE SpawnTask(a)
  <2>1. task[a] = "none"
    BY <1>5 DEF IInv, HandlerInv, SpawnTask
  <2>2. QED
    BY <1>1, <1>5, <2>1
    DEF SpawnTask, Onward, HandlersOnward, TasksOnward, JobsOnward, HandlerLeft, TaskLeft
<1>6. QED
  BY <1>2, <1>3, <1>4, <1>5 DEF HandlerStep

\* The jobs a task starts were idle: its record said "queued", and no job has
\* left its place under such a record.
LEMMA TaskStepOnward ==
  ASSUME IInv, NEW a \in Ids, TaskStep(a)
  PROVE  Onward
<1>1. /\ task \in [Ids -> {"none", "load", "gather", "ended", "lost"}]
      /\ job \in [Jobs -> JobStates]
      /\ TaskInv(a) /\ \A j \in Jobs : JobInv(j)
  BY DEF IInv, TypeOK
<1>2. CASE LoadAssessment(a)
  <2>1. task[a] = "load" /\ handler' = handler
    BY <1>2 DEF LoadAssessment
  <2>2. \E place \in {"gather", "lost", "ended"} : task' = [task EXCEPT ![a] = place]
    BY <1>2 DEF LoadAssessment, StartRun
  <2>3. task' # task /\ TasksOnward
    BY <1>1, <2>1, <2>2 DEF TasksOnward, TaskLeft
  <2>4. \A j \in Jobs : j[1] = a => job[j].pc = "idle"
    <3>1. Known(a) /\ assessment[a].status = "queued"
      BY <1>1, <2>1 DEF TaskInv
    <3>2. QED
      BY <1>1, <3>1 DEF JobInv
  <2>5. \A j \in Jobs : \/ job'[j] = job[j]
                        \/ j[1] = a /\ job'[j].pc \in {"lookup", "assess"}
    BY <1>1, <1>2 DEF LoadAssessment, StartRun, FirstStep, NoJob
  <2>6. JobsOnward
    BY <2>4, <2>5, JobLeftNumbers DEF JobsOnward
  <2>7. QED
    BY <2>1, <2>3, <2>6 DEF Onward, HandlersOnward
<1>3. CASE FinishAssessment(a)
  <2>1. task[a] = "gather" /\ handler' = handler /\ job' = job
    BY <1>3 DEF FinishAssessment
  <2>2. \E place \in {"lost", "ended"} : task' = [task EXCEPT ![a] = place]
    BY <1>3 DEF FinishAssessment
  <2>3. task' # task /\ TasksOnward
    BY <1>1, <2>1, <2>2 DEF TasksOnward, TaskLeft
  <2>4. QED
    BY <2>1, <2>3 DEF Onward, HandlersOnward, JobsOnward
<1>4. QED
  BY <1>2, <1>3 DEF TaskStep

LEMMA CrashOnward ==
  ASSUME TypeOK, Crash
  PROVE  Onward
<1>1. /\ handler \in [Ids -> HandlerStates]
      /\ task \in [Ids -> {"none", "load", "gather", "ended", "lost"}]
      /\ job \in [Jobs -> JobStates]
  BY DEF TypeOK
<1>2. HandlersOnward /\ (\A a \in Ids : HandlerBusy(a) => handler'[a] # handler[a])
  BY <1>1 DEF Crash, HandlerBusy, HandlersOnward, HandlerLeft
<1>3. TasksOnward /\ (\A a \in Ids : TaskBusy(a) => task'[a] # task[a])
  BY <1>1 DEF Crash, TaskBusy, TasksOnward, TaskLeft
<1>4. JobsOnward
  <2>1. SUFFICES ASSUME NEW j \in Jobs, job'[j] # job[j]
                 PROVE  JobLeft(job'[j]) < JobLeft(job[j])
    BY DEF JobsOnward
  <2>2. job[j].pc \in Active /\ job'[j].pc = "lost"
    BY <1>1, <2>1 DEF Crash, Active, JobStates, NoJob
  <2>3. JobLeft(job'[j]) = 0 /\ JobLeft(job[j]) \in 1 .. 9
    BY <2>2, JobLeftNumbers DEF Active
  <2>4. QED
    BY <2>3
<1>5. \E a \in Ids : HandlerBusy(a) \/ TaskBusy(a)
  BY DEF Crash
<1>6. QED
  BY <1>2, <1>3, <1>4, <1>5 DEF Onward

\* Every step moves a handler, a task or a job on and none back, under all
\* faults, so that the steps of an assessment are bounded.  A job passes its call,
\* the store of what came of it and the except clause in this order and each at
\* most once; that a failed store is followed by the store of the except clause
\* is a move on, and what it leaves is StoredAgainOnlyWhenUnclear.  No task starts
\* again what was started.
THEOREM StepsAreProgress == Spec => [][Onward]_vars
<1>1. IInv /\ [Next]_vars => [Onward]_vars
  <2>1. SUFFICES ASSUME IInv, Next PROVE Onward
    OBVIOUS
  <2>2. TypeOK
    BY <2>1 DEF IInv
  <2>3. CASE \E a \in Ids : \/ HandlerStep(a)
                            \/ \E r \in Requests : ReceiveRequest(a, r)
    BY <2>1, <2>3, HandlerStepOnward
  <2>4. CASE \E a \in Ids : TaskStep(a)
    BY <2>1, <2>4, TaskStepOnward
  <2>5. CASE \E j \in Jobs : JobStep(j)
    BY <2>2, <2>5, JobStepOnward
  <2>6. CASE Crash
    BY <2>2, <2>6, CrashOnward
  <2>7. QED
    BY <2>1, <2>3, <2>4, <2>5, <2>6 DEF Next
<1>2. QED
  BY <1>1, InductiveInvariant, PTL DEF Spec
=============================================================================
