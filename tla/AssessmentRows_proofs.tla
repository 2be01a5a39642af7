------------------------ MODULE AssessmentRows_proofs ------------------------
(***************************************************************************)
(* What the rows of a job say of each other and of its fate, while the      *)
(* database tells what became of a commit.                                  *)
(***************************************************************************)
EXTENDS AssessmentContract_proofs

\* Storing a row either works, or is refused and reported to be.
JobsTold == "lost_ack" \notin Faults \/ "job_db" \notin Faults

LEMMA JobCommitTells ==
  ASSUME JobsTold, NEW c \in Commit("job_db")
  PROVE  c.ok <=> c.applied
BY DEF JobsTold, Commit

----------------------------------------------------------------------------
\* The invariant: at most one raw row per job, which names its end.

PlaceInv(r) ==
  /\ r.row[1] \in Jobs /\ r.assessment_id = r.row[1][1]
  /\ r.row[1][2] \in DOMAIN assessment[r.assessment_id].assessors
  /\ r.assessor = assessment[r.assessment_id].assessors[r.row[1][2]]

FateInv(r) ==
  job[r.row[1]].pc = IF r.row[2] = "store" THEN "completed" ELSE "failed"

RowsInv ==
  /\ \A r \in raw : PlaceInv(r) /\ FateInv(r)
  /\ \A h \in harmonized : job[h.row].pc = "completed"
  /\ \A x, y \in raw : x.row[1] = y.row[1] => x = y
  /\ \A x, y \in harmonized : x.row = y.row => x = y

\* The rows a step of a job adds.
LEMMA RowsAdded ==
  ASSUME IInv, JobsTold, NEW j \in Jobs, JobStep(j)
  PROVE  \/ raw' = raw /\ harmonized' = harmonized
         \/ /\ StoreResult(j) /\ job'[j].pc = "completed"
            /\ raw' = raw \cup {RawRow(j, job[j].raw)}
            /\ harmonized' = harmonized \cup {HarmonizedRow(j)}
         \/ /\ job[j].pc \in {"fail", "except"} /\ job'[j].pc = "failed"
            /\ raw' = raw \cup {RawRow(j, Failure)} /\ harmonized' = harmonized
<1>1. job \in [Jobs -> JobStates]
  BY DEF IInv, TypeOK
<1>2. CASE SelectRaw(j) \/ SelectHarmonized(j) \/ LookupFails(j) \/ Assess(j) \/ BeginStore(j)
  BY <1>2 DEF SelectRaw, SelectHarmonized, LookupFails, Assess, BeginStore, tables
<1>3. CASE StoreResult(j)
  <2>1. PICK c \in Commit("job_db") :
          /\ raw' = IF c.applied THEN raw \cup {RawRow(j, job[j].raw)} ELSE raw
          /\ harmonized' = IF c.applied THEN harmonized \cup {HarmonizedRow(j)}
                           ELSE harmonized
          /\ job' = [job EXCEPT ![j] =
               [NoJob EXCEPT !.pc = IF c.ok THEN "completed" ELSE "except"]]
    BY <1>3 DEF StoreResult
  <2>2. CASE c.applied
    <3>1. job'[j] = [NoJob EXCEPT !.pc = "completed"]
      BY <1>1, <2>1, <2>2, JobCommitTells
    <3>2. job'[j].pc = "completed"
      BY <3>1 DEF NoJob
    <3>3. QED
      BY <1>3, <2>1, <2>2, <3>2
  <2>3. CASE ~ c.applied
    BY <2>1, <2>3
  <2>4. QED
    BY <2>2, <2>3
<1>4. CASE StoreFailure(j)
  <2>1. PICK c \in Commit("job_db") :
          /\ raw' = IF c.applied THEN raw \cup {RawRow(j, Failure)} ELSE raw
          /\ job' = [job EXCEPT ![j] =
               [NoJob EXCEPT !.pc = IF c.ok THEN "failed" ELSE "except"]]
    BY <1>4 DEF StoreFailure
  <2>2. job[j].pc = "fail" /\ harmonized' = harmonized
    BY <1>4 DEF StoreFailure
  <2>3. CASE c.applied
    <3>1. job'[j] = [NoJob EXCEPT !.pc = "failed"]
      BY <1>1, <2>1, <2>3, JobCommitTells
    <3>2. job'[j].pc = "failed"
      BY <3>1 DEF NoJob
    <3>3. QED
      BY <2>1, <2>2, <2>3, <3>2
  <2>4. CASE ~ c.applied
    BY <2>1, <2>2, <2>4
  <2>5. QED
    BY <2>3, <2>4
<1>5. CASE StoreException(j)
  <2>1. /\ job[j].pc = "except" /\ harmonized' = harmonized
        /\ raw' = raw \/ raw' = raw \cup {RawRow(j, Failure)}
        /\ job'[j] = [NoJob EXCEPT !.pc = "failed"]
    BY <1>1, <1>5 DEF StoreException
  <2>2. job'[j].pc = "failed"
    BY <2>1 DEF NoJob
  <2>3. QED
    BY <2>1, <2>2
<1>6. QED
  BY <1>2, <1>3, <1>4, <1>5 DEF JobStep

\* Rows are added by jobs only.
LEMMA JobsAddRows ==
  ASSUME Next
  PROVE  \/ raw' = raw /\ harmonized' = harmonized
         \/ \E j \in Jobs : JobStep(j)
BY DEF Next, HandlerStep, TaskStep, ReceiveRequest, AssessOffline, CreateAssessmentRecord,
       SpawnTask, LoadAssessment, FinishAssessment, Crash, tables

\* The rows that are there keep their place and their fate.
LEMMA OldRowsStay ==
  ASSUME IInv, RowsInv, Next
  PROVE  /\ \A r \in raw : PlaceInv(r)' /\ FateInv(r)'
         /\ \A h \in harmonized : job'[h.row].pc = "completed"
<1>1. ASSUME NEW r \in raw PROVE PlaceInv(r)' /\ FateInv(r)'
  <2>1. PlaceInv(r) /\ FateInv(r) /\ r.row[1] \in Jobs
    BY DEF RowsInv, PlaceInv
  <2>2. job'[r.row[1]] = job[r.row[1]]
    BY <2>1, DoneStaysDone DEF FateInv
  <2>3. Known(r.assessment_id) /\ r.assessment_id \in Ids
    BY DEF IInv, RowInv, TypeOK, RawRows
  <2>4. Kept(r.assessment_id)
    BY <2>3, RecordsKept
  <2>5. QED
    BY <2>1, <2>2, <2>3, <2>4 DEF PlaceInv, FateInv, Kept
<1>2. ASSUME NEW h \in harmonized PROVE job'[h.row].pc = "completed"
  BY KnownPlace, DoneStaysDone DEF RowsInv
<1>3. QED
  BY <1>1, <1>2

LEMMA RowsNext == IInv /\ RowsInv /\ JobsTold /\ [Next]_vars => RowsInv'
<1>1. SUFFICES ASSUME IInv, RowsInv, JobsTold, [Next]_vars PROVE RowsInv'
  OBVIOUS
<1>2. CASE UNCHANGED vars
  BY <1>1, <1>2 DEF vars, RowsInv, PlaceInv, FateInv
<1>3. CASE Next /\ raw' = raw /\ harmonized' = harmonized
  BY <1>1, <1>3, OldRowsStay DEF RowsInv
<1>4. ASSUME Next, NEW j \in Jobs, JobStep(j) PROVE RowsInv'
  <2>1. /\ assessment' = assessment /\ job[j].pc \in Active
        /\ \A r \in raw : r.row[1] # j
        /\ \A h \in harmonized : h.row # j
    BY <1>1, <1>4, OneJobMoves DEF RowsInv, FateInv, Active
  <2>2. j[2] \in DOMAIN assessment[j[1]].assessors
    BY <1>1, <2>1, ActiveJob
  <2>3. ASSUME NEW payload, NEW r, r = RawRow(j, payload),
               job'[j].pc = IF job[j].pc = "store" THEN "completed" ELSE "failed"
        PROVE  PlaceInv(r)' /\ FateInv(r)' /\ r.row[1] = j
    <3>1. /\ r.row = <<j, job[j].pc>> /\ r.assessment_id = j[1]
          /\ r.assessor = assessment[j[1]].assessors[j[2]]
      BY <2>3 DEF RawRow, Assessor
    <3>2. QED
      BY <2>1, <2>2, <2>3, <3>1 DEF PlaceInv, FateInv
  <2>4. CASE /\ StoreResult(j) /\ job'[j].pc = "completed"
             /\ raw' = raw \cup {RawRow(j, job[j].raw)}
             /\ harmonized' = harmonized \cup {HarmonizedRow(j)}
    <3>1. job[j].pc = "store" /\ HarmonizedRow(j).row = j
      BY <2>4 DEF StoreResult, HarmonizedRow
    <3>2. \A r \in raw' : r \in raw \/ r = RawRow(j, job[j].raw)
      BY <2>4
    <3>3. \A h \in harmonized' : h \in harmonized \/ h = HarmonizedRow(j)
      BY <2>4
    <3>4. \A r \in raw' : PlaceInv(r)' /\ FateInv(r)'
      BY <1>1, <1>4, <2>3, <2>4, <3>1, <3>2, OldRowsStay
    <3>5. \A h \in harmonized' : job'[h.row].pc = "completed"
      BY <1>1, <1>4, <2>4, <3>1, <3>3, OldRowsStay
    <3>6. RawRow(j, job[j].raw).row[1] = j
      BY DEF RawRow
    <3>7. QED
      BY <1>1, <2>1, <3>1, <3>2, <3>3, <3>4, <3>5, <3>6 DEF RowsInv
  <2>5. CASE /\ job[j].pc \in {"fail", "except"} /\ job'[j].pc = "failed"
             /\ raw' = raw \cup {RawRow(j, Failure)} /\ harmonized' = harmonized
    <3>1. \A r \in raw' : r \in raw \/ r = RawRow(j, Failure)
      BY <2>5
    <3>2. \A r \in raw' : PlaceInv(r)' /\ FateInv(r)'
      BY <1>1, <1>4, <2>3, <2>5, <3>1, OldRowsStay
    <3>3. RawRow(j, Failure).row[1] = j
      BY DEF RawRow
    <3>4. QED
      BY <1>1, <1>4, <2>1, <2>5, <3>1, <3>2, <3>3, OldRowsStay DEF RowsInv
  <2>6. QED
    BY <1>1, <1>3, <1>4, <2>4, <2>5, RowsAdded
<1>5. QED
  BY <1>1, <1>2, <1>3, <1>4, JobsAddRows

LEMMA RowsInvariant ==
  ASSUME JobsTold
  PROVE  Spec => []RowsInv
<1>1. Init => RowsInv
  BY DEF Init, RowsInv
<1>2. IInv /\ RowsInv /\ [Next]_vars => RowsInv'
  BY RowsNext
<1>3. QED
  BY <1>1, <1>2, InductiveInvariant, PTL DEF Spec

----------------------------------------------------------------------------
\* Every failure is stored, and the status says whether there is one.

FailuresInv == \A j \in Jobs :
  job[j].pc = "failed" => \E r \in raw : r.row[1] = j /\ r.row[2] # "store"

EndInv == \A a \in Ids :
  (Known(a) /\ assessment[a].status = "completed_with_errors") =>
    \E j \in JobsOf(a) : job[j].pc = "failed"

LEMMA FailuresNext ==
  ASSUME "job_db" \notin Faults
  PROVE  IInv /\ FailuresInv /\ [Next]_vars => FailuresInv'
<1>1. SUFFICES ASSUME IInv, FailuresInv, [Next]_vars, NEW j \in Jobs,
                      job'[j].pc = "failed"
               PROVE  \E r \in raw' : r.row[1] = j /\ r.row[2] # "store"
  BY DEF FailuresInv
<1>2. raw \subseteq raw'
  BY <1>1 DEF Next, HandlerStep, TaskStep, JobStep, ReceiveRequest, AssessOffline,
              CreateAssessmentRecord, SpawnTask, LoadAssessment, FinishAssessment,
              SelectRaw, SelectHarmonized, LookupFails, Assess, BeginStore, StoreResult,
              StoreFailure, StoreException, Crash, tables, vars
<1>3. CASE job'[j] = job[j]
  BY <1>1, <1>2, <1>3 DEF FailuresInv
<1>4. CASE StoreFailure(j) \/ StoreException(j)
  <2>1. job[j].pc \in {"fail", "except"}
    BY <1>4 DEF StoreFailure, StoreException
  <2>2. \A c \in Commit("job_db") : c.applied
    BY DEF Commit
  <2>3. raw' = raw \cup {RawRow(j, Failure)}
    BY <1>4, <2>2 DEF StoreFailure, StoreException
  <2>4. RawRow(j, Failure).row = <<j, job[j].pc>>
    BY DEF RawRow
  <2>5. QED
    BY <2>1, <2>3, <2>4
<1>5. ASSUME job'[j] # job[j], ~ StoreFailure(j), ~ StoreException(j) PROVE FALSE
  <2>1. job \in [Jobs -> JobStates]
    BY <1>1 DEF IInv, TypeOK
  <2>2. CASE JobStep(j)
    <3>1. CASE SelectRaw(j)
      <4>1. job'[j].pc \in {"assess", "match"}
        BY <2>1, <3>1 DEF SelectRaw, JobStates
      <4>2. QED
        BY <1>1, <4>1
    <3>2. CASE SelectHarmonized(j)
      <4>1. job'[j].pc \in {"assess", "store"}
        BY <2>1, <3>2 DEF SelectHarmonized, JobStates, NoJob
      <4>2. QED
        BY <1>1, <4>1
    <3>3. CASE LookupFails(j)
      <4>1. job'[j].pc = "except"
        BY <2>1, <3>3 DEF LookupFails, NoJob
      <4>2. QED
        BY <1>1, <4>1
    <3>4. CASE Assess(j)
      <4>1. job'[j].pc \in {"store", "fail", "except"}
        BY <2>1, <3>4 DEF Assess, JobStates
      <4>2. QED
        BY <1>1, <4>1
    <3>5. CASE BeginStore(j)
      <4>1. job'[j].pc \in {"store", "fail", "except"}
        BY <2>1, <3>5 DEF BeginStore, JobStates
      <4>2. QED
        BY <1>1, <4>1
    <3>6. CASE StoreResult(j)
      <4>1. job'[j].pc \in {"completed", "except"}
        BY <2>1, <3>6 DEF StoreResult, NoJob
      <4>2. QED
        BY <1>1, <4>1
    <3>7. QED
      BY <1>5, <2>2, <3>1, <3>2, <3>3, <3>4, <3>5, <3>6 DEF JobStep
  <2>3. ASSUME NEW k \in Jobs, JobStep(k), k # j PROVE FALSE
    BY <1>1, <1>5, <2>3, OneJobMoves
  <2>4. ASSUME NEW a \in Ids, LoadAssessment(a) PROVE FALSE
    <3>1. job'[j] = [NoJob EXCEPT !.pc = FirstStep(a)]
      BY <1>5, <2>4 DEF LoadAssessment, StartRun
    <3>2. job'[j].pc \in {"lookup", "assess"}
      BY <3>1 DEF NoJob, FirstStep
    <3>3. QED
      BY <1>1, <3>2
  <2>5. CASE Crash
    <3>1. job'[j] = [NoJob EXCEPT !.pc = "lost"]
      BY <1>5, <2>5 DEF Crash
    <3>2. job'[j].pc = "lost"
      BY <3>1 DEF NoJob
    <3>3. QED
      BY <1>1, <3>2
  <2>6. job' # job
    BY <1>5
  <2>7. QED
    BY <1>1, <2>2, <2>3, <2>4, <2>5, <2>6
    DEF Next, HandlerStep, TaskStep, ReceiveRequest, AssessOffline, CreateAssessmentRecord,
        SpawnTask, FinishAssessment, vars
<1>6. QED
  BY <1>3, <1>4, <1>5

LEMMA EndNext == IInv /\ EndInv /\ [Next]_vars => EndInv'
<1>1. SUFFICES ASSUME IInv, EndInv, [Next]_vars, NEW a \in Ids, Known(a)',
                      assessment'[a].status = "completed_with_errors"
               PROVE  \E j \in JobsOf(a)' : job'[j].pc = "failed"
  BY DEF EndInv
<1>2. CASE UNCHANGED vars
  BY <1>1, <1>2 DEF vars, EndInv, JobsOf, Known
<1>3. CASE Next /\ assessment'[a] = assessment[a]
  <2>1. PICK j \in JobsOf(a) : job[j].pc = "failed"
    BY <1>1, <1>3 DEF EndInv, Known
  <2>2. assessment[a] \in AssessmentRow
    BY <1>1, <1>3 DEF IInv, TypeOK, Known
  <2>3. j \in Jobs
    BY <2>2, JobsOfKnown
  <2>4. job'[j] = job[j] /\ JobsOf(a)' = JobsOf(a)
    BY <1>1, <1>3, <2>1, <2>3, DoneStaysDone DEF JobsOf
  <2>5. QED
    BY <2>1, <2>4
<1>4. ASSUME NEW b \in Ids, TaskStep(b), assessment'[a] # assessment[a]
      PROVE  \E j \in JobsOf(a)' : job'[j].pc = "failed"
  <2>1. b = a /\ Known(a) /\ Kept(a)
    BY <1>1, <1>4, TaskWrites
  <2>2. FinishAssessment(a) /\ FinalStatus(a) = "completed_with_errors"
    BY <1>1, <1>4, <2>1, TaskWrites DEF TaskStep
  <2>3. PICK j \in JobsOf(a) : job[j].pc = "failed"
    BY <2>2 DEF FinalStatus
  <2>4. JobsOf(a)' = JobsOf(a) /\ job' = job
    BY <2>1, <2>2 DEF JobsOf, Kept, FinishAssessment
  <2>5. QED
    BY <2>3, <2>4
<1>5. ASSUME NEW b \in Ids, HandlerStep(b), assessment'[a] # assessment[a] PROVE FALSE
  <2>1. /\ b = a /\ request[a] \in Requests /\ Accepted(request[a])
        /\ assessment'[a] = NewAssessment(request[a])
    BY <1>1, <1>5, HandlerWrites
  <2>2. assessment'[a].status = "queued"
    BY <2>1, NewAssessmentType
  <2>3. QED
    BY <1>1, <2>2
<1>6. ASSUME NEW j \in Jobs, JobStep(j) PROVE assessment' = assessment
  BY <1>1, <1>6, OneJobMoves
<1>7. QED
  BY <1>1, <1>2, <1>3, <1>4, <1>5, <1>6 DEF Next, ReceiveRequest, Crash, tables

\* While storing rows works, each assessor of a finished assessment has left an
\* answer or a failure, never both, and the status says which, with crashes,
\* failing task transactions and assessors named twice.
THEOREM ReportsAddUp ==
  ASSUME "job_db" \notin Faults
  PROVE  Spec => []ReportAddsUp
<1>1. JobsTold
  BY DEF JobsTold
<1>2. Init => FailuresInv /\ EndInv
  <2>1. SUFFICES ASSUME Init PROVE FailuresInv /\ EndInv
    OBVIOUS
  <2>2. \A j \in Jobs : job[j].pc = "idle"
    BY <2>1 DEF Init, NoJob
  <2>3. \A a \in Ids : ~ Known(a)
    BY <2>1 DEF Init, Known
  <2>4. QED
    BY <2>2, <2>3 DEF FailuresInv, EndInv
<1>3. ASSUME IInv, RowsInv, FailuresInv, EndInv, NEW a \in Ids, Terminal(a)
      PROVE  LET failed == {r.row[1][2] : r \in {x \in RawOf(a) : x.row[2] # "store"}}
                 listed == DOMAIN assessment[a].assessors
             IN /\ \A i \in listed : (i \in failed) # Answered(a, i)
                /\ (assessment[a].status = "completed") = (failed = {})
  <2> DEFINE failures == {x \in RawOf(a) : x.row[2] # "store"}
             failed == {r.row[1][2] : r \in failures}
             listed == DOMAIN assessment[a].assessors
  <2>1. /\ Known(a) /\ assessment[a] \in AssessmentRow
        /\ assessment[a].status \in {"completed", "completed_with_errors"}
        /\ JobsOf(a) \subseteq Jobs
    BY <1>3, JobsOfKnown DEF IInv, TypeOK, Terminal, Known
  <2>2. \A i \in listed : <<a, i>> \in Jobs /\ job[<<a, i>>].pc \in {"completed", "failed"}
    BY <1>3, <2>1 DEF IInv, TaskInv, JobsOf
  <2>3. ASSUME NEW r \in failures
        PROVE  r.row[1][2] \in listed /\ job[<<a, r.row[1][2]>>].pc = "failed"
    <3>1. r \in raw /\ r.assessment_id = a /\ r.row[2] # "store"
      BY DEF RawOf
    <3>2. r.row[1] \in Jobs /\ r.row[1][1] = a /\ r.row[1][2] \in listed
      BY <1>3, <3>1 DEF RowsInv, PlaceInv
    <3>3. r.row[1] = <<a, r.row[1][2]>>
      BY <3>2 DEF Jobs
    <3>4. QED
      BY <1>3, <3>1, <3>2, <3>3 DEF RowsInv, FateInv
  <2>4. ASSUME NEW i \in listed
        PROVE  i \in failed <=> job[<<a, i>>].pc = "failed"
    <3>1. i \in failed => job[<<a, i>>].pc = "failed"
      BY <2>3
    <3>2. ASSUME job[<<a, i>>].pc = "failed" PROVE i \in failed
      <4>1. PICK r \in raw : r.row[1] = <<a, i>> /\ r.row[2] # "store"
        BY <1>3, <2>2, <3>2 DEF FailuresInv
      <4>2. r \in RawOf(a)
        BY <1>3, <4>1 DEF RowsInv, PlaceInv, RawOf
      <4>3. QED
        BY <4>1, <4>2
    <3>3. QED
      BY <3>1, <3>2
  <2>5. ASSUME NEW i \in listed
        PROVE  Answered(a, i) <=> job[<<a, i>>].pc = "completed"
    <3>1. job[<<a, i>>].pc = "completed" => Answered(a, i)
      BY <1>3, <2>2 DEF IInv, JobInv
    <3>2. Answered(a, i) => job[<<a, i>>].pc = "completed"
      BY <1>3 DEF RowsInv, FateInv, Answered
    <3>3. QED
      BY <3>1, <3>2
  <2>6. ASSUME NEW i \in listed PROVE (i \in failed) # Answered(a, i)
    <3>1. i \in failed <=> ~ Answered(a, i)
      BY <2>2, <2>4, <2>5
    <3>2. Answered(a, i) \in BOOLEAN
      BY DEF Answered
    <3>3. QED
      BY <3>1, <3>2
  <2>7. assessment[a].status = "completed" <=> failed = {}
    <3>1. assessment[a].status = "completed" => \A i \in listed : Answered(a, i)
      BY <1>3, <2>1 DEF IInv, TaskInv
    <3>2. assessment[a].status = "completed" => failed = {}
      BY <2>3, <2>5, <3>1
    <3>3. ASSUME assessment[a].status = "completed_with_errors" PROVE failed # {}
      <4>1. PICK j \in JobsOf(a) : job[j].pc = "failed"
        BY <1>3, <2>1, <3>3 DEF EndInv
      <4>2. PICK i \in listed : j = <<a, i>>
        BY DEF JobsOf
      <4>3. i \in failed
        BY <2>4, <4>1, <4>2
      <4>4. QED
        BY <4>3
    <3>4. QED
      BY <2>1, <3>2, <3>3
  <2>8. QED
    BY <2>6, <2>7
<1>4. IInv /\ RowsInv /\ FailuresInv /\ EndInv => ReportAddsUp
  BY <1>3 DEF ReportAddsUp
<1>5. IInv /\ FailuresInv /\ [Next]_vars => FailuresInv'
  BY FailuresNext
<1>6. Spec => []RowsInv
  BY <1>1, RowsInvariant
<1>7. QED
  BY <1>2, <1>4, <1>5, <1>6, EndNext, InductiveInvariant, PTL DEF Spec

----------------------------------------------------------------------------
\* Requests that name no assessor twice.

NoRepeats ==
  \A r \in Requests : \A i, k \in DOMAIN Selected(r) :
    Selected(r)[i] = Selected(r)[k] => i = k

ListInv(a) ==
  Known(a) => \A i, k \in DOMAIN assessment[a].assessors :
                assessment[a].assessors[i] = assessment[a].assessors[k] => i = k

\* The raw row a job found is there, and what it stores is one answer.
MatchInv(j) ==
  /\ job[j].pc = "match" =>
       \E r \in raw : /\ r.assessment_id = job[j].src
                      /\ r.assessor = Assessor(j)
                      /\ r.raw = job[j].raw
  /\ job[j].pc = "store" => job[j].raw = job[j].norm

CopyInv ==
  /\ \A a \in Ids : ListInv(a)
  /\ RawMatchesNormalised
  /\ \A j \in Jobs : MatchInv(j)

LEMMA ListNext ==
  ASSUME NoRepeats, IInv, CopyInv, Next, NEW a \in Ids
  PROVE  ListInv(a)'
<1>1. ListInv(a) /\ Kept(a)
  BY RecordsKept DEF CopyInv
<1>2. CASE Known(a)
  BY <1>1, <1>2 DEF ListInv, Kept
<1>3. CASE assessment'[a] = assessment[a]
  BY <1>1, <1>3 DEF ListInv, Known
<1>4. ASSUME ~ Known(a), assessment'[a] # assessment[a] PROVE ListInv(a)'
  <2>1. ASSUME NEW b \in Ids, HandlerStep(b) PROVE ListInv(a)'
    <3>1. /\ request[a] \in Requests
          /\ assessment'[a] = NewAssessment(request[a])
      BY <1>4, <2>1, HandlerWrites
    <3>2. assessment'[a].assessors = Online(request[a])
      BY <3>1 DEF NewAssessment
    <3>3. \A i \in DOMAIN Online(request[a]) :
            i \in DOMAIN Selected(request[a])
              /\ Online(request[a])[i] = Selected(request[a])[i]
      BY DEF Online
    <3>4. QED
      BY <3>1, <3>2, <3>3 DEF ListInv, NoRepeats
  <2>2. ASSUME NEW b \in Ids, TaskStep(b) PROVE FALSE
    BY <1>4, <2>2, TaskWrites
  <2>3. ASSUME NEW j \in Jobs, JobStep(j) PROVE FALSE
    BY <1>4, <2>3, OneJobMoves
  <2>4. QED
    BY <1>4, <2>1, <2>2, <2>3 DEF Next, ReceiveRequest, Crash, tables
<1>5. QED
  BY <1>2, <1>3, <1>4

\* The raw row and the normalised row of a look-up are those of one job.
LEMMA SameAnswer ==
  ASSUME IInv, QuestionInv, RowsInv, CopyInv, NEW j \in Jobs, job[j].pc = "match",
         NEW h \in Matches(j)
  PROVE  job[j].raw = h.norm
<1>1. PICK r \in raw : /\ r.assessment_id = job[j].src /\ r.assessor = Assessor(j)
                       /\ r.raw = job[j].raw
  BY DEF CopyInv, MatchInv
<1>2. h \in harmonized /\ h.assessment_id = job[j].src /\ h.assessor = Assessor(j)
  BY DEF Matches
<1>3. /\ AnswerInv(h) /\ PlaceInv(r) /\ FateInv(r) /\ job[h.row].pc = "completed"
      /\ h.row \in Jobs /\ r.row[1] \in Jobs
  BY <1>2, KnownPlace DEF QuestionInv, RowsInv, PlaceInv
<1>4. r.row[1][1] = h.row[1] /\ ListInv(h.row[1]) /\ Known(h.row[1])
  BY <1>1, <1>2, <1>3, KnownPlace DEF AnswerInv, PlaceInv, CopyInv
<1>5. r.row[1][2] = h.row[2]
  BY <1>1, <1>2, <1>3, <1>4 DEF AnswerInv, PlaceInv, ListInv
<1>6. r.row[1] = h.row
  <2>1. \A x, y \in Ids \X Positions : x[1] = y[1] /\ x[2] = y[2] => x = y
    OBVIOUS
  <2>2. QED
    BY <1>3, <1>4, <1>5, <2>1 DEF Jobs
<1>7. PICK own \in raw : own.row = <<h.row, "store">> /\ own.raw = h.norm
  BY <1>2 DEF CopyInv, RawMatchesNormalised
<1>8. own = r
  BY <1>6, <1>7 DEF RowsInv
<1>9. QED
  BY <1>1, <1>7, <1>8

LEMMA MatchNext ==
  ASSUME IInv, QuestionInv, RowsInv, CopyInv, NEW j \in Jobs, JobStep(j)
  PROVE  MatchInv(j)'
<1>1. /\ job[j] \in JobStates /\ job \in [Jobs -> JobStates] /\ assessment' = assessment
  BY OneJobMoves DEF IInv, TypeOK
<1>2. CASE SelectRaw(j)
  <2>1. CASE job' = [job EXCEPT ![j].pc = "assess"]
    <3>1. job'[j].pc = "assess"
      BY <1>1, <2>1 DEF JobStates
    <3>2. QED
      BY <3>1 DEF MatchInv
  <2>2. ASSUME NEW row \in Candidates(j),
               job' = [job EXCEPT ![j] = [@ EXCEPT !.pc = "match",
                                                   !.src = row.assessment_id,
                                                   !.raw = row.raw]]
        PROVE  MatchInv(j)'
    <3>1. /\ row \in raw /\ row.assessor = Assessor(j) /\ raw' = raw
          /\ Assessor(j)' = Assessor(j)
      BY <1>1, <1>2 DEF Candidates, SameKey, Assessor, SelectRaw, tables
    <3>2. job'[j].pc = "match" /\ job'[j].src = row.assessment_id /\ job'[j].raw = row.raw
      BY <1>1, <2>2 DEF JobStates
    <3>3. QED
      BY <3>1, <3>2 DEF MatchInv
  <2>3. QED
    BY <1>2, <2>1, <2>2 DEF SelectRaw
<1>3. CASE SelectHarmonized(j)
  <2>1. CASE job' = [job EXCEPT ![j] = [NoJob EXCEPT !.pc = "assess"]]
    <3>1. job'[j].pc = "assess"
      BY <1>1, <2>1 DEF NoJob
    <3>2. QED
      BY <3>1 DEF MatchInv
  <2>2. ASSUME NEW row \in Matches(j),
               job' = [job EXCEPT ![j] = [@ EXCEPT !.pc = "store", !.src = Null,
                                                   !.norm = row.norm]]
        PROVE  MatchInv(j)'
    <3>1. job[j].raw = row.norm
      BY <1>3, SameAnswer DEF SelectHarmonized
    <3>2. job'[j].pc = "store" /\ job'[j].norm = row.norm /\ job'[j].raw = job[j].raw
      BY <1>1, <2>2 DEF JobStates
    <3>3. QED
      BY <3>1, <3>2 DEF MatchInv
  <2>3. QED
    BY <1>3, <2>1, <2>2 DEF SelectHarmonized
<1>4. CASE LookupFails(j) \/ StoreResult(j) \/ StoreFailure(j) \/ StoreException(j)
  <2>1. job'[j].pc \notin {"match", "store"}
    BY <1>1, <1>4 DEF LookupFails, StoreResult, StoreFailure, StoreException, NoJob
  <2>2. QED
    BY <2>1 DEF MatchInv
<1>5. CASE Assess(j)
  <2>1. CASE job' = [job EXCEPT ![j] = [@ EXCEPT !.pc = "store", !.raw = j, !.norm = j]]
    <3>1. job'[j].pc = "store" /\ job'[j].norm = j /\ job'[j].raw = j
      BY <1>1, <2>1 DEF JobStates
    <3>2. QED
      BY <3>1 DEF MatchInv
  <2>2. ASSUME NEW pc \in {"fail", "except"}, job' = [job EXCEPT ![j].pc = pc]
        PROVE  MatchInv(j)'
    <3>1. job'[j].pc = pc
      BY <1>1, <2>2 DEF JobStates
    <3>2. QED
      BY <2>2, <3>1 DEF MatchInv
  <2>3. QED
    BY <1>5, <2>1, <2>2 DEF Assess
<1>6. CASE BeginStore(j)
  <2>1. /\ job'[j].pc = job[j].pc /\ job'[j].raw = job[j].raw /\ job'[j].norm = job[j].norm
        /\ job[j].pc \in {"store", "fail", "except"}
    BY <1>1, <1>6 DEF BeginStore, JobStates
  <2>2. MatchInv(j)
    BY DEF CopyInv
  <2>3. QED
    BY <2>1, <2>2 DEF MatchInv
<1>7. QED
  BY <1>2, <1>3, <1>4, <1>5, <1>6 DEF JobStep

LEMMA CopyNext ==
  ASSUME NoRepeats, JobsTold
  PROVE  IInv /\ QuestionInv /\ RowsInv /\ CopyInv /\ [Next]_vars => CopyInv'
<1>1. SUFFICES ASSUME IInv, QuestionInv, RowsInv, CopyInv, [Next]_vars PROVE CopyInv'
  OBVIOUS
<1>2. CASE UNCHANGED vars
  BY <1>1, <1>2 DEF vars, CopyInv, ListInv, RawMatchesNormalised, MatchInv, Assessor, Known
<1>3. CASE Next
  <2>1. \A a \in Ids : ListInv(a)'
    BY <1>1, <1>3, ListNext
  <2>2. raw \subseteq raw'
    BY <1>1, <1>3, JobsAddRows, RowsAdded
  <2>3. RawMatchesNormalised'
    <3>1. CASE harmonized' = harmonized
      BY <1>1, <2>2, <3>1 DEF CopyInv, RawMatchesNormalised
    <3>2. ASSUME NEW j \in Jobs, JobStep(j), harmonized' # harmonized
          PROVE  RawMatchesNormalised'
      <4>1. /\ StoreResult(j) /\ raw' = raw \cup {RawRow(j, job[j].raw)}
            /\ harmonized' = harmonized \cup {HarmonizedRow(j)}
        BY <1>1, <3>2, RowsAdded
      <4>2. job[j].pc = "store" /\ job[j].raw = job[j].norm
        BY <1>1, <4>1 DEF StoreResult, CopyInv, MatchInv
      <4>3. /\ RawRow(j, job[j].raw).row = <<j, "store">>
            /\ RawRow(j, job[j].raw).raw = job[j].norm
            /\ HarmonizedRow(j).row = j /\ HarmonizedRow(j).norm = job[j].norm
        BY <4>2 DEF RawRow, HarmonizedRow
      <4>4. QED
        BY <1>1, <4>1, <4>3 DEF CopyInv, RawMatchesNormalised
    <3>3. QED
      BY <1>3, <3>1, <3>2, JobsAddRows
  <2>4. ASSUME NEW j \in Jobs PROVE MatchInv(j)'
    <3>1. CASE JobStep(j)
      BY <1>1, <3>1, MatchNext
    <3>2. CASE job'[j] = job[j]
      <4>1. MatchInv(j) /\ JobInv(j) /\ j[1] \in Ids
        BY <1>1 DEF CopyInv, IInv, Jobs
      <4>2. job[j].pc = "match" => Assessor(j)' = Assessor(j)
        BY <1>1, <1>3, <4>1, RecordsKept DEF JobInv, Kept, Assessor
      <4>3. QED
        BY <2>2, <3>2, <4>1, <4>2 DEF MatchInv
    <3>3. ASSUME job'[j] # job[j], ~ JobStep(j) PROVE MatchInv(j)'
      <4>1. job' # job
        BY <3>3
      <4>2. ASSUME NEW k \in Jobs, JobStep(k) PROVE FALSE
        BY <1>1, <3>3, <4>2, OneJobMoves
      <4>3. ASSUME NEW a \in Ids, LoadAssessment(a)
            PROVE  job'[j].pc \in {"lookup", "assess"}
        <5>1. job'[j] = [NoJob EXCEPT !.pc = FirstStep(a)]
          BY <3>3, <4>3 DEF LoadAssessment, StartRun
        <5>2. QED
          BY <5>1 DEF NoJob, FirstStep
      <4>4. Crash => job'[j].pc = "lost"
        BY <3>3 DEF Crash, NoJob
      <4>5. job'[j].pc \notin {"match", "store"}
        BY <1>3, <4>1, <4>2, <4>3, <4>4
        DEF Next, HandlerStep, TaskStep, ReceiveRequest, AssessOffline,
            CreateAssessmentRecord, SpawnTask, FinishAssessment
      <4>6. QED
        BY <4>5 DEF MatchInv
    <3>4. QED
      BY <3>1, <3>2, <3>3
  <2>5. QED
    BY <2>1, <2>3, <2>4 DEF CopyInv
<1>4. QED
  BY <1>1, <1>2, <1>3

LEMMA CopyInit == Init => CopyInv
<1>1. SUFFICES ASSUME Init PROVE CopyInv
  OBVIOUS
<1>2. \A j \in Jobs : job[j].pc = "idle"
  BY <1>1 DEF Init, NoJob
<1>3. (\A a \in Ids : ~ Known(a)) /\ harmonized = {}
  BY <1>1 DEF Init, Known
<1>4. QED
  BY <1>2, <1>3 DEF CopyInv, ListInv, MatchInv, RawMatchesNormalised

\* The raw and the normalised row of an answer tell the same answer, although a
\* look-up reads them in two statements, as long as no assessor is named twice
\* and the database tells what became of a job's commit.
THEOREM RowsTellTheSame ==
  ASSUME NoRepeats, JobsTold
  PROVE  Spec => []RawMatchesNormalised
<1>1. CopyInv => RawMatchesNormalised
  BY DEF CopyInv
<1>2. IInv /\ QuestionInv /\ RowsInv /\ CopyInv /\ [Next]_vars => CopyInv'
  BY CopyNext
<1>3. Spec => []RowsInv
  BY RowsInvariant
<1>4. QED
  BY <1>1, <1>2, <1>3, CopyInit, InductiveInvariant, QuestionsAreKept, PTL DEF Spec

\* Each assessor has one raw and one normalised row at most, which is what
\* scalar_one_or_none takes for granted, under the same conditions.
THEOREM OneRowEach ==
  ASSUME NoRepeats, JobsTold
  PROVE  Spec => []OneRowPerAssessor
<1>1. ASSUME IInv, QuestionInv, RowsInv, CopyInv, NEW a \in Ids
      PROVE  /\ \A x, y \in RawOf(a) : x.assessor = y.assessor => x = y
             /\ \A x, y \in HarmonizedOf(a) : x.assessor = y.assessor => x = y
  <2>1. \A x, y \in Ids \X Positions : x[1] = y[1] /\ x[2] = y[2] => x = y
    OBVIOUS
  <2>2. ASSUME NEW x \in RawOf(a), NEW y \in RawOf(a), x.assessor = y.assessor
        PROVE  x = y
    <3>1. /\ x \in raw /\ y \in raw /\ x.assessment_id = a /\ y.assessment_id = a
          /\ PlaceInv(x) /\ PlaceInv(y) /\ Known(a) /\ ListInv(a)
      BY <1>1 DEF RawOf, RowsInv, IInv, RowInv, CopyInv
    <3>2. x.row[1][2] = y.row[1][2] /\ x.row[1][1] = y.row[1][1]
      BY <2>2, <3>1 DEF PlaceInv, ListInv
    <3>3. x.row[1] = y.row[1]
      BY <2>1, <3>1, <3>2 DEF PlaceInv, Jobs
    <3>4. QED
      BY <1>1, <3>1, <3>3 DEF RowsInv
  <2>3. ASSUME NEW x \in HarmonizedOf(a), NEW y \in HarmonizedOf(a),
               x.assessor = y.assessor
        PROVE  x = y
    <3>1. /\ x \in harmonized /\ y \in harmonized
          /\ x.assessment_id = a /\ y.assessment_id = a
          /\ AnswerInv(x) /\ AnswerInv(y)
      BY <1>1 DEF HarmonizedOf, QuestionInv
    <3>2. Known(a) /\ ListInv(a) /\ x.row \in Jobs /\ y.row \in Jobs
      BY <1>1, <3>1, KnownPlace DEF CopyInv
    <3>3. ASSUME NEW h, AnswerInv(h), h.assessment_id = a
          PROVE  /\ h.row[1] = a /\ h.row[2] \in DOMAIN assessment[a].assessors
                 /\ h.assessor = assessment[a].assessors[h.row[2]]
      BY <3>3 DEF AnswerInv
    <3>4. /\ x.row[1] = a /\ y.row[1] = a
          /\ x.row[2] \in DOMAIN assessment[a].assessors
          /\ y.row[2] \in DOMAIN assessment[a].assessors
          /\ assessment[a].assessors[x.row[2]] = assessment[a].assessors[y.row[2]]
      BY <2>3, <3>1, <3>3
    <3>5. x.row[2] = y.row[2]
      BY <3>2, <3>4 DEF ListInv
    <3>6. x.row = y.row
      BY <2>1, <3>2, <3>4, <3>5 DEF Jobs
    <3>7. QED
      BY <1>1, <3>1, <3>6 DEF RowsInv
  <2>4. QED
    BY <2>2, <2>3
<1>2. IInv /\ QuestionInv /\ RowsInv /\ CopyInv => OneRowPerAssessor
  BY <1>1 DEF OneRowPerAssessor
<1>3. IInv /\ QuestionInv /\ RowsInv /\ CopyInv /\ [Next]_vars => CopyInv'
  BY CopyNext
<1>4. Spec => []RowsInv
  BY RowsInvariant
<1>5. QED
  BY <1>2, <1>3, <1>4, CopyInit, InductiveInvariant, QuestionsAreKept, PTL DEF Spec

----------------------------------------------------------------------------
\* Second rows, with every fault: where a job is once an attempt has left a row,
\* and that the except clause comes later than what it repairs.

Behind(attempt, pc) ==
  \/ attempt = "store" /\ pc = "completed"
  \/ attempt # "store" /\ pc = "failed"
  \/ attempt # "except" /\ "lost_ack" \in Faults /\ pc \in {"except", "failed", "lost"}

AttemptInv(r) ==
  /\ r.row[1] \in Jobs /\ r.assessment_id = r.row[1][1]
  /\ Behind(r.row[2], job[r.row[1]].pc)
  /\ r.timestamp <= clock
  /\ (job[r.row[1]].pc = "except" /\ job[r.row[1]].ts # 0) =>
       r.timestamp < job[r.row[1]].ts

AttemptsInv ==
  /\ \A j \in Jobs : job[j].ts <= clock
  /\ \A r \in raw : AttemptInv(r)
  /\ StoredAgainOnlyWhenUnclear

\* Rows have the shape that TypeOK gives them.
LEMMA RawRowShape ==
  ASSUME IInv, NEW r \in raw
  PROVE  /\ r.row[1] \in Jobs /\ r.row[2] \in {"store", "fail", "except"}
         /\ r.assessment_id \in Ids /\ Known(r.assessment_id)
         /\ assessment[r.assessment_id].status # "queued"
         /\ r.timestamp \in Nat
BY DEF IInv, TypeOK, RawRows, RowInv

\* What an attempt to store leaves.
LEMMA AttemptLeaves ==
  ASSUME IInv, NEW j \in Jobs, StoreResult(j) \/ StoreFailure(j) \/ StoreException(j)
  PROVE  /\ clock' = clock /\ assessment' = assessment
         /\ job[j].pc \in {"store", "fail", "except"} /\ job[j].ts # 0 /\ job'[j].ts = 0
         /\ job[j].pc = "except" => job'[j].pc = "failed"
         /\ \/ raw' = raw
            \/ /\ Behind(job[j].pc, job'[j].pc)
               /\ \E payload : raw' = raw \cup {RawRow(j, payload)}
<1>1. job \in [Jobs -> JobStates]
  BY DEF IInv, TypeOK
<1>2. \A c \in Commit("job_db") : c.applied /\ ~ c.ok => "lost_ack" \in Faults
  BY DEF Commit
<1>3. /\ clock' = clock /\ assessment' = assessment
      /\ job[j].pc \in {"store", "fail", "except"} /\ job[j].ts # 0
  BY DEF StoreResult, StoreFailure, StoreException
<1>4. CASE StoreResult(j)
  <2>1. PICK c \in Commit("job_db") :
          /\ raw' = IF c.applied THEN raw \cup {RawRow(j, job[j].raw)} ELSE raw
          /\ job'[j] = [NoJob EXCEPT !.pc = IF c.ok THEN "completed" ELSE "except"]
    BY <1>1, <1>4 DEF StoreResult
  <2>2. job'[j].ts = 0 /\ job'[j].pc = IF c.ok THEN "completed" ELSE "except"
    BY <2>1 DEF NoJob
  <2>3. job[j].pc = "store"
    BY <1>4 DEF StoreResult
  <2>4. c.applied => Behind(job[j].pc, job'[j].pc)
    BY <1>2, <2>2, <2>3 DEF Behind
  <2>5. QED
    BY <1>3, <2>1, <2>2, <2>3, <2>4
<1>5. CASE StoreFailure(j)
  <2>1. PICK c \in Commit("job_db") :
          /\ raw' = IF c.applied THEN raw \cup {RawRow(j, Failure)} ELSE raw
          /\ job'[j] = [NoJob EXCEPT !.pc = IF c.ok THEN "failed" ELSE "except"]
    BY <1>1, <1>5 DEF StoreFailure
  <2>2. job'[j].ts = 0 /\ job'[j].pc = IF c.ok THEN "failed" ELSE "except"
    BY <2>1 DEF NoJob
  <2>3. job[j].pc = "fail"
    BY <1>5 DEF StoreFailure
  <2>4. c.applied => Behind(job[j].pc, job'[j].pc)
    BY <1>2, <2>2, <2>3 DEF Behind
  <2>5. QED
    BY <1>3, <2>1, <2>2, <2>3, <2>4
<1>6. CASE StoreException(j)
  <2>1. /\ job[j].pc = "except"
        /\ raw' = raw \/ raw' = raw \cup {RawRow(j, Failure)}
        /\ job'[j] = [NoJob EXCEPT !.pc = "failed"]
    BY <1>1, <1>6 DEF StoreException
  <2>2. job'[j].ts = 0 /\ job'[j].pc = "failed"
    BY <2>1 DEF NoJob
  <2>3. Behind(job[j].pc, job'[j].pc)
    BY <2>1, <2>2 DEF Behind
  <2>4. QED
    BY <1>3, <2>1, <2>2, <2>3
<1>7. QED
  BY <1>4, <1>5, <1>6

\* The other steps of a job add no row; the except clause begins its own.
LEMMA QuietStepTimes ==
  ASSUME IInv, NEW j \in Jobs,
         \/ SelectRaw(j) \/ SelectHarmonized(j) \/ LookupFails(j) \/ Assess(j)
         \/ BeginStore(j)
  PROVE  /\ raw' = raw /\ assessment' = assessment
         /\ clock' \in {clock, clock + 1}
         /\ job'[j].ts \in {0, job[j].ts, clock'}
         /\ job[j].pc = "except" => /\ job'[j].pc = "except"
                                    /\ clock' = clock + 1 /\ job'[j].ts = clock + 1
<1>1. job \in [Jobs -> JobStates] /\ job[j] \in JobStates
  BY DEF IInv, TypeOK
<1>2. CASE SelectRaw(j)
  <2>1. job[j].pc = "lookup" /\ raw' = raw /\ assessment' = assessment /\ clock' = clock
    BY <1>2 DEF SelectRaw, tables
  <2>2. job'[j].ts = job[j].ts
    BY <1>1, <1>2 DEF SelectRaw, JobStates
  <2>3. QED
    BY <2>1, <2>2
<1>3. CASE SelectHarmonized(j)
  <2>1. job[j].pc = "match" /\ raw' = raw /\ assessment' = assessment /\ clock' = clock
    BY <1>3 DEF SelectHarmonized, tables
  <2>2. job'[j].ts \in {0, job[j].ts}
    <3>1. \/ job'[j] = [NoJob EXCEPT !.pc = "assess"]
          \/ \E row \in Matches(j) :
               job'[j] = [job[j] EXCEPT !.pc = "store", !.src = Null, !.norm = row.norm]
      BY <1>1, <1>3 DEF SelectHarmonized
    <3>2. CASE job'[j] = [NoJob EXCEPT !.pc = "assess"]
      BY <3>2 DEF NoJob
    <3>3. ASSUME NEW row \in Matches(j),
                 job'[j] = [job[j] EXCEPT !.pc = "store", !.src = Null, !.norm = row.norm]
          PROVE  job'[j].ts = job[j].ts
      BY <1>1, <3>3 DEF JobStates
    <3>4. QED
      BY <3>1, <3>2, <3>3
  <2>3. QED
    BY <2>1, <2>2
<1>4. CASE LookupFails(j)
  <2>1. /\ job[j].pc # "except" /\ raw' = raw /\ assessment' = assessment
        /\ clock' = clock /\ job'[j] = [NoJob EXCEPT !.pc = "except"]
    BY <1>1, <1>4 DEF LookupFails, tables
  <2>2. job'[j].ts = 0
    BY <2>1 DEF NoJob
  <2>3. QED
    BY <2>1, <2>2
<1>5. CASE Assess(j)
  <2>1. job[j].pc = "assess" /\ raw' = raw /\ assessment' = assessment /\ clock' = clock
    BY <1>5 DEF Assess, tables
  <2>2. job'[j].ts = job[j].ts
    BY <1>1, <1>5 DEF Assess, JobStates
  <2>3. QED
    BY <2>1, <2>2
<1>6. CASE BeginStore(j)
  <2>1. /\ raw' = raw /\ assessment' = assessment /\ clock' = clock + 1
        /\ job' = [job EXCEPT ![j].ts = clock + 1]
    BY <1>6 DEF BeginStore, tables
  <2>2. job'[j].ts = clock + 1 /\ job'[j].pc = job[j].pc
    BY <1>1, <2>1 DEF JobStates
  <2>3. QED
    BY <2>1, <2>2
<1>7. QED
  BY <1>2, <1>3, <1>4, <1>5, <1>6

\* The rows of other jobs, and what is stored, after a step of job j.
LEMMA OtherAttemptsStay ==
  ASSUME IInv, AttemptsInv, NEW j \in Jobs, JobStep(j), clock' \in {clock, clock + 1},
         NEW r \in raw, r.row[1] # j
  PROVE  AttemptInv(r)'
<1>1. AttemptInv(r) /\ r.row[1] \in Jobs
  BY DEF AttemptsInv, AttemptInv
<1>2. job'[r.row[1]] = job[r.row[1]]
  BY <1>1, OneJobMoves
<1>3. r.timestamp \in Nat /\ clock \in Nat
  BY RawRowShape DEF IInv, TypeOK
<1>4. r.timestamp <= clock'
  BY <1>1, <1>3 DEF AttemptInv
<1>5. QED
  BY <1>1, <1>2, <1>4 DEF AttemptInv

\* A job that is still running and has left a row is in its except clause.
LEMMA RunningAgain ==
  ASSUME IInv, AttemptsInv, NEW j \in Jobs, job[j].pc \in Active,
         NEW r \in raw, r.row[1] = j
  PROVE  /\ job[j].pc = "except" /\ r.row[2] # "except" /\ "lost_ack" \in Faults
         /\ r.timestamp \in Nat /\ r.timestamp <= clock
         /\ job[j].ts # 0 => r.timestamp < job[j].ts
<1>1. AttemptInv(r)
  BY DEF AttemptsInv
<1>2. QED
  BY <1>1, RawRowShape DEF AttemptInv, Behind, Active

LEMMA JobStepAttempts ==
  ASSUME IInv, AttemptsInv, NEW j \in Jobs, JobStep(j)
  PROVE  AttemptsInv'
<1>1. /\ assessment' = assessment /\ \A k \in Jobs \ {j} : job'[k] = job[k]
      /\ job[j].pc \in Active /\ Known(j[1]) /\ j[1] \in Ids
  BY OneJobMoves
<1>2. /\ clock \in Nat /\ \A k \in Jobs : job[k].ts \in Nat /\ job[k].ts <= clock
  BY DEF IInv, TypeOK, JobStates, AttemptsInv
<1>3. assessment[j[1]].status = "running"
  BY <1>1, ActiveJob
<1>4. CASE \/ SelectRaw(j) \/ SelectHarmonized(j) \/ LookupFails(j) \/ Assess(j)
           \/ BeginStore(j)
  <2>1. /\ raw' = raw /\ clock' \in {clock, clock + 1}
        /\ job'[j].ts \in {0, job[j].ts, clock'}
        /\ job[j].pc = "except" => /\ job'[j].pc = "except"
                                   /\ clock' = clock + 1 /\ job'[j].ts = clock + 1
    BY <1>4, QuietStepTimes
  <2>2. ASSUME NEW k \in Jobs PROVE job'[k].ts <= clock'
    <3>1. CASE k = j
      BY <1>2, <2>1, <3>1
    <3>2. CASE k # j
      BY <1>1, <1>2, <2>1, <3>2
    <3>3. QED
      BY <3>1, <3>2
  <2>3. ASSUME NEW r \in raw PROVE AttemptInv(r)'
    <3>1. CASE r.row[1] # j
      BY <2>1, <3>1, OtherAttemptsStay
    <3>2. CASE r.row[1] = j
      <4>1. /\ job[j].pc = "except" /\ r.row[2] # "except" /\ "lost_ack" \in Faults
            /\ r.timestamp \in Nat /\ r.timestamp <= clock
        BY <1>1, <3>2, RunningAgain
      <4>2. /\ job'[j].pc = "except" /\ clock' = clock + 1 /\ job'[j].ts = clock + 1
        BY <2>1, <4>1
      <4>3. r.timestamp <= clock' /\ r.timestamp < job'[j].ts
        BY <1>2, <4>1, <4>2
      <4>4. AttemptInv(r)
        BY DEF AttemptsInv
      <4>5. QED
        BY <3>2, <4>1, <4>2, <4>3, <4>4 DEF AttemptInv, Behind
    <3>3. QED
      BY <3>1, <3>2
  <2>4. QED
    BY <1>1, <2>1, <2>2, <2>3 DEF AttemptsInv, StoredAgainOnlyWhenUnclear
<1>5. CASE StoreResult(j) \/ StoreFailure(j) \/ StoreException(j)
  <2>1. /\ clock' = clock
        /\ job[j].pc \in {"store", "fail", "except"} /\ job[j].ts # 0 /\ job'[j].ts = 0
        /\ job[j].pc = "except" => job'[j].pc = "failed"
        /\ \/ raw' = raw
           \/ /\ Behind(job[j].pc, job'[j].pc)
              /\ \E payload : raw' = raw \cup {RawRow(j, payload)}
    BY <1>5, AttemptLeaves
  <2>2. ASSUME NEW k \in Jobs PROVE job'[k].ts <= clock'
    <3>1. CASE k = j
      BY <1>2, <2>1, <3>1
    <3>2. CASE k # j
      BY <1>1, <1>2, <2>1, <3>2
    <3>3. QED
      BY <3>1, <3>2
  <2>3. ASSUME NEW r \in raw PROVE AttemptInv(r)'
    <3>1. CASE r.row[1] # j
      BY <2>1, <3>1, OtherAttemptsStay
    <3>2. CASE r.row[1] = j
      <4>1. /\ job[j].pc = "except" /\ r.row[2] # "except" /\ "lost_ack" \in Faults
        BY <1>1, <3>2, RunningAgain
      <4>2. job'[j].pc = "failed"
        BY <2>1, <4>1
      <4>3. AttemptInv(r)
        BY DEF AttemptsInv
      <4>4. QED
        BY <2>1, <3>2, <4>1, <4>2, <4>3 DEF AttemptInv, Behind
    <3>3. QED
      BY <3>1, <3>2
  <2>4. CASE raw' = raw
    BY <1>1, <2>1, <2>2, <2>3, <2>4 DEF AttemptsInv, StoredAgainOnlyWhenUnclear
  <2>5. ASSUME NEW payload, NEW new, new = RawRow(j, payload), raw' = raw \cup {new},
               Behind(job[j].pc, job'[j].pc)
        PROVE  AttemptsInv'
    <3>1. /\ new.row = <<j, job[j].pc>> /\ new.row[1] = j /\ new.row[2] = job[j].pc
          /\ new.assessment_id = j[1] /\ new.timestamp = job[j].ts
      BY <2>5 DEF RawRow
    <3>2. \A r \in raw' : r \in raw \/ r = new
      BY <2>5
    <3>3. AttemptInv(new)'
      BY <1>2, <2>1, <2>5, <3>1 DEF AttemptInv, Behind
    <3>4. \A r \in raw' : AttemptInv(r)'
      BY <2>3, <3>2, <3>3
    <3>5. ASSUME NEW r \in raw, r.row[1] = j
          PROVE  /\ "lost_ack" \in Faults /\ r.row[2] # new.row[2]
                 /\ new.row[2] = "except" /\ r.row[2] # "except"
                 /\ r.timestamp < new.timestamp
      BY <1>1, <2>1, <3>1, <3>5, RunningAgain
    <3>6. ASSUME NEW x \in raw', NEW y \in raw', x.row[1] = y.row[1], x # y
          PROVE  /\ "lost_ack" \in Faults
                 /\ x.row[2] # y.row[2]
                 /\ "except" \in {x.row[2], y.row[2]}
                 /\ x.row[2] = "except" => y.timestamp < x.timestamp
      <4>1. CASE x \in raw /\ y \in raw
        BY <3>6, <4>1 DEF AttemptsInv, StoredAgainOnlyWhenUnclear
      <4>2. CASE x \in raw /\ y = new
        BY <3>1, <3>5, <3>6, <4>2
      <4>3. CASE x = new /\ y \in raw
        BY <3>1, <3>5, <3>6, <4>3
      <4>4. QED
        BY <3>2, <3>6, <4>1, <4>2, <4>3
    <3>7. ASSUME NEW r \in raw', r.row[2] # "store"
          PROVE  assessment'[r.assessment_id].status # "completed"
      <4>1. CASE r \in raw
        BY <1>1, <3>7, <4>1 DEF AttemptsInv, StoredAgainOnlyWhenUnclear
      <4>2. CASE r = new
        BY <1>1, <1>3, <3>1, <4>2
      <4>3. QED
        BY <3>2, <4>1, <4>2
    <3>8. StoredAgainOnlyWhenUnclear'
      BY <3>6, <3>7 DEF StoredAgainOnlyWhenUnclear
    <3>9. QED
      BY <2>2, <3>4, <3>8 DEF AttemptsInv
  <2>6. QED
    BY <2>1, <2>4, <2>5
<1>6. QED
  BY <1>4, <1>5 DEF JobStep

\* The steps of handlers and tasks, and a crash, leave the rows and the time
\* alone; a job with a row is not started again, and one that is in its except
\* clause can only be lost.
LEMMA OtherStepsAttempts ==
  ASSUME IInv, AttemptsInv, Next, raw' = raw, clock' = clock,
         \A j \in Jobs : ~ JobStep(j)
  PROVE  AttemptsInv'
<1>1. job \in [Jobs -> JobStates] /\ clock \in Nat
  BY DEF IInv, TypeOK
<1>2. ASSUME NEW j \in Jobs
      PROVE  \/ job'[j] = job[j]
             \/ /\ job'[j].ts = 0
                /\ \/ assessment[j[1]].status = "queued"
                   \/ job[j].pc \in Active /\ job'[j].pc = "lost"
  <2>1. CASE job' = job
    BY <2>1
  <2>2. ASSUME NEW a \in Ids, LoadAssessment(a), job'[j] # job[j]
        PROVE  job'[j].ts = 0 /\ assessment[j[1]].status = "queued"
    <3>1. j[1] = a /\ job'[j] = [NoJob EXCEPT !.pc = FirstStep(a)] /\ assessment[a] # Null
      BY <2>2 DEF LoadAssessment, StartRun
    <3>2. TaskInv(a) /\ task[a] = "load"
      BY <2>2 DEF IInv, LoadAssessment
    <3>3. QED
      BY <3>1, <3>2 DEF TaskInv, Known, NoJob
  <2>3. CASE Crash
    <3>1. CASE job[j].pc \in {"idle", "completed", "failed", "lost"}
      BY <2>3, <3>1 DEF Crash
    <3>2. CASE job[j].pc \notin {"idle", "completed", "failed", "lost"}
      <4>1. job'[j] = [NoJob EXCEPT !.pc = "lost"]
        BY <2>3, <3>2 DEF Crash
      <4>2. job'[j].ts = 0 /\ job'[j].pc = "lost"
        BY <4>1 DEF NoJob
      <4>3. job[j].pc \in Active
        BY <1>1, <3>2 DEF JobStates, Active
      <4>4. QED
        BY <4>2, <4>3
    <3>3. QED
      BY <3>1, <3>2
  <2>4. QED
    BY <2>1, <2>2, <2>3
    DEF Next, HandlerStep, TaskStep, ReceiveRequest, AssessOffline, CreateAssessmentRecord,
        SpawnTask, FinishAssessment
<1>3. ASSUME NEW j \in Jobs PROVE job'[j].ts <= clock'
  BY <1>1, <1>2 DEF AttemptsInv
<1>4. ASSUME NEW r \in raw PROVE AttemptInv(r)'
  <2>1. AttemptInv(r) /\ r.row[1] \in Jobs /\ assessment[r.row[1][1]].status # "queued"
    BY RawRowShape DEF AttemptsInv, AttemptInv
  <2>2. CASE job'[r.row[1]] = job[r.row[1]]
    BY <2>1, <2>2 DEF AttemptInv
  <2>3. CASE job[r.row[1]].pc \in Active /\ job'[r.row[1]].pc = "lost"
    <3>1. r.row[2] # "except" /\ "lost_ack" \in Faults
      BY <2>1, <2>3, RunningAgain
    <3>2. QED
      BY <2>1, <2>3, <3>1 DEF AttemptInv, Behind
  <2>4. QED
    BY <1>2, <2>1, <2>2, <2>3
<1>5. ASSUME NEW r \in raw, r.row[2] # "store"
      PROVE  assessment'[r.assessment_id].status # "completed"
  <2> DEFINE a == r.assessment_id
             j == r.row[1]
  <2>1. /\ a \in Ids /\ Known(a) /\ j \in Jobs /\ a = j[1] /\ AttemptInv(r)
        /\ assessment[a].status # "completed"
    BY <1>5, RawRowShape DEF AttemptsInv, AttemptInv, StoredAgainOnlyWhenUnclear
  <2> HIDE DEF a, j
  <2>2. ASSUME NEW b \in Ids, HandlerStep(b) PROVE assessment'[a] = assessment[a]
    BY <2>1, <2>2, HandlerWrites
  <2>3. ASSUME NEW b \in Ids, TaskStep(b) PROVE assessment'[a].status # "completed"
    <3>1. CASE b # a \/ assessment' = assessment
      BY <2>1, <2>3, <3>1, TaskWrites
    <3>2. CASE b = a /\ LoadAssessment(a) /\ assessment' # assessment
      BY <2>1, <2>3, <3>2, TaskWrites
    <3>3. CASE b = a /\ FinishAssessment(a) /\ assessment' # assessment
      <4>1. assessment'[a].status = FinalStatus(a) /\ Gathered(a)
        BY <2>1, <2>3, <3>3, TaskWrites DEF FinishAssessment
      <4>2. job[j].pc # "idle" /\ job[j].pc # "completed"
        BY <1>5, <2>1 DEF AttemptInv, Behind, j
      <4>3. j[2] \in DOMAIN assessment[a].assessors /\ j = <<a, j[2]>>
        BY <2>1, <4>2 DEF IInv, JobInv, Jobs
      <4>4. j \in JobsOf(a)
        BY <4>3 DEF JobsOf
      <4>5. job[j].pc = "failed"
        BY <4>1, <4>2, <4>4 DEF Gathered
      <4>6. QED
        BY <4>1, <4>4, <4>5 DEF FinalStatus
    <3>4. QED
      BY <2>3, <3>1, <3>2, <3>3 DEF TaskStep
  <2>4. ASSUME Crash \/ \E b \in Ids, q \in Requests : ReceiveRequest(b, q)
        PROVE  assessment'[a].status # "completed"
    BY <2>1, <2>4 DEF Crash, ReceiveRequest, tables
  <2>5. assessment'[a].status # "completed"
    BY <2>1, <2>2, <2>3, <2>4 DEF Next
  <2>6. QED
    BY <2>5 DEF a
<1>6. StoredAgainOnlyWhenUnclear'
  BY <1>5 DEF AttemptsInv, StoredAgainOnlyWhenUnclear
<1>7. QED
  BY <1>3, <1>4, <1>6 DEF AttemptsInv

LEMMA AttemptsNext == IInv /\ AttemptsInv /\ [Next]_vars => AttemptsInv'
<1>1. SUFFICES ASSUME IInv, AttemptsInv, [Next]_vars PROVE AttemptsInv'
  OBVIOUS
<1>2. CASE UNCHANGED vars
  BY <1>1, <1>2 DEF vars, AttemptsInv, AttemptInv, StoredAgainOnlyWhenUnclear
<1>3. CASE Next /\ \E j \in Jobs : JobStep(j)
  BY <1>1, <1>3, JobStepAttempts
<1>4. CASE Next /\ ~ \E j \in Jobs : JobStep(j)
  <2>1. raw' = raw /\ clock' = clock
    BY <1>4 DEF Next, HandlerStep, TaskStep, ReceiveRequest, AssessOffline,
                CreateAssessmentRecord, SpawnTask, LoadAssessment, FinishAssessment,
                Crash, tables
  <2>2. QED
    BY <1>1, <1>4, <2>1, OtherStepsAttempts
<1>5. QED
  BY <1>1, <1>2, <1>3, <1>4

\* With any faults, an attempt to store leaves one row at most; a second row is
\* the later failure of the except clause after a lost acknowledgement, and no
\* failure stands under "completed".
THEOREM SecondRowsAreFailures == Spec => []StoredAgainOnlyWhenUnclear
<1>1. Init => AttemptsInv
  BY DEF Init, AttemptsInv, StoredAgainOnlyWhenUnclear, NoJob
<1>2. AttemptsInv => StoredAgainOnlyWhenUnclear
  BY DEF AttemptsInv
<1>3. QED
  BY <1>1, <1>2, AttemptsNext, InductiveInvariant, PTL DEF Spec
=============================================================================
