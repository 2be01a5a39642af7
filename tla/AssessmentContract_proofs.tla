--------------------- MODULE AssessmentContract_proofs ---------------------
(***************************************************************************)
(* Where the stored answers come from, and that Assessments implements      *)
(* AssessmentContract, for every value of the constants.                    *)
(***************************************************************************)
EXTENDS Assessments_proofs

----------------------------------------------------------------------------
\* The invariant: rows and jobs name the question they answer.

\* A normalised row belongs to its place, and its contents answer its question.
AnswerInv(h) ==
  /\ h.assessment_id = h.row[1]
  /\ h.row[2] \in DOMAIN assessment[h.row[1]].assessors
  /\ h.doi = assessment[h.row[1]].pid
  /\ h.mode = assessment[h.row[1]].mode
  /\ h.assessor = assessment[h.row[1]].assessors[h.row[2]]
  /\ Known(h.norm[1])
  /\ SameQuestion(h.row[1], h.row[2], h.norm[1], h.norm[2])
  /\ ~ assessment[h.row[1]].cached => h.norm = h.row

KeyInv(r) ==
  /\ r.doi = assessment[r.assessment_id].pid
  /\ r.mode = assessment[r.assessment_id].mode

\* What a job found in the cache so far is about its own question.
HeldInv(j) ==
  /\ job[j].pc \in {"lookup", "match"} => assessment[j[1]].cached
  /\ job[j].pc = "match" =>
       /\ Known(job[j].src)
       /\ assessment[job[j].src].pid = assessment[j[1]].pid
       /\ assessment[job[j].src].mode = assessment[j[1]].mode
  /\ job[j].pc = "store" =>
       /\ Known(job[j].norm[1])
       /\ SameQuestion(j[1], j[2], job[j].norm[1], job[j].norm[2])
       /\ ~ assessment[j[1]].cached => job[j].norm = j

QuestionInv ==
  /\ \A h \in harmonized : AnswerInv(h)
  /\ \A r \in raw : KeyInv(r)
  /\ \A j \in Jobs : HeldInv(j)

\* What a record says of the question never changes.
Kept(a) ==
  Known(a) => /\ Known(a)'
              /\ assessment'[a].pid = assessment[a].pid
              /\ assessment'[a].mode = assessment[a].mode
              /\ assessment'[a].assessors = assessment[a].assessors
              /\ assessment'[a].cached = assessment[a].cached

\* A record with another status, or an end, is a record of the same question.
Updated(new, row, s) ==
  /\ new \in AssessmentRow /\ new # Null
  /\ new.pid = row.pid /\ new.mode = row.mode
  /\ new.assessors = row.assessors /\ new.cached = row.cached
  /\ new.status = s

LEMMA SameQuestionRow ==
  ASSUME NEW row \in AssessmentRow,
         NEW s \in {"queued", "running", "completed", "completed_with_errors"}
  PROVE  /\ Updated([row EXCEPT !.status = s], row, s)
         /\ Updated([row EXCEPT !.status = s, !.completed_at = TRUE], row, s)
<1> DEFINE new == [row EXCEPT !.status = s]
           end == [row EXCEPT !.status = s, !.completed_at = TRUE]
<1>1. new \in AssessmentRow /\ end \in AssessmentRow
  BY DEF AssessmentRow
<1>2. new # Null /\ end # Null
  BY <1>1, NullAssumption
<1>3. QED
  BY <1>1, <1>2 DEF Updated, AssessmentRow

\* What the first and the last transaction of a task do to its record.
LEMMA TaskWrites ==
  ASSUME IInv, NEW a \in Ids, TaskStep(a)
  PROVE  /\ \A b \in Ids \ {a} : assessment'[b] = assessment[b]
         /\ \/ assessment' = assessment
            \/ Known(a) /\ Known(a)' /\ Kept(a)
         /\ LoadAssessment(a) =>
              (assessment' = assessment \/ assessment'[a].status = "running")
         /\ FinishAssessment(a) =>
              (assessment' = assessment \/ assessment'[a].status = FinalStatus(a))
<1>1. TypeOK /\ TaskInv(a)
  BY DEF IInv
<1>2. task[a] \in {"load", "gather"}
  BY DEF TaskStep, LoadAssessment, FinishAssessment
<1>3. Known(a) /\ assessment[a] \in AssessmentRow /\ a \in DOMAIN assessment
  BY <1>1, <1>2 DEF TypeOK, TaskInv, Known
<1>4. CASE assessment' = assessment
  BY <1>1, <1>3, <1>4 DEF Kept, Known
<1>5. CASE LoadAssessment(a) /\ assessment' = [assessment EXCEPT ![a].status = "running"]
  <2>1. /\ \A b \in Ids \ {a} : assessment'[b] = assessment[b]
        /\ assessment'[a] = [assessment[a] EXCEPT !.status = "running"]
    BY <1>1, <1>3, <1>5 DEF TypeOK
  <2>2. Updated(assessment'[a], assessment[a], "running")
    BY <1>3, <2>1, SameQuestionRow
  <2>3. ~ FinishAssessment(a)
    BY <1>5 DEF LoadAssessment, FinishAssessment
  <2>4. QED
    BY <1>3, <2>1, <2>2, <2>3 DEF Updated, Kept, Known
<1>6. CASE /\ FinishAssessment(a)
           /\ assessment' = [assessment EXCEPT ![a].status = FinalStatus(a),
                                               ![a].completed_at = TRUE]
  <2>1. FinalStatus(a) \in {"completed", "completed_with_errors"}
    BY DEF FinalStatus
  <2>2. /\ \A b \in Ids \ {a} : assessment'[b] = assessment[b]
        /\ assessment'[a] = [assessment[a] EXCEPT !.status = FinalStatus(a),
                                                  !.completed_at = TRUE]
    BY <1>1, <1>3, <1>6 DEF TypeOK
  <2>3. Updated(assessment'[a], assessment[a], FinalStatus(a))
    BY <1>3, <2>1, <2>2, SameQuestionRow
  <2>4. ~ LoadAssessment(a)
    BY <1>6 DEF LoadAssessment, FinishAssessment
  <2>5. QED
    BY <1>3, <2>2, <2>3, <2>4 DEF Updated, Kept, Known
<1>7. QED
  BY <1>4, <1>5, <1>6 DEF TaskStep, LoadAssessment, StartRun, FinishAssessment

\* The insert of a handler is the first its id is written.
LEMMA HandlerWrites ==
  ASSUME IInv, NEW a \in Ids, HandlerStep(a)
  PROVE  \/ assessment' = assessment
         \/ /\ ~ Known(a) /\ request[a] \in Requests
            /\ Accepted(request[a]) /\ DOMAIN Online(request[a]) # {}
            /\ assessment' = [assessment EXCEPT ![a] = NewAssessment(request[a])]
            /\ assessment'[a] = NewAssessment(request[a])
            /\ \A b \in Ids \ {a} : assessment'[b] = assessment[b]
<1>1. TypeOK /\ HandlerInv(a)
  BY DEF IInv
<1>2. CASE AssessOffline(a) \/ SpawnTask(a)
  BY <1>2 DEF AssessOffline, SpawnTask, tables
<1>3. CASE CreateAssessmentRecord(a)
  <2>1. /\ ~ Known(a) /\ request[a] \in Requests
        /\ Accepted(request[a]) /\ DOMAIN Online(request[a]) # {}
    BY <1>1, <1>3 DEF HandlerInv, CreateAssessmentRecord
  <2>2. \/ assessment' = assessment
        \/ assessment' = [assessment EXCEPT ![a] = NewAssessment(request[a])]
    BY <1>3 DEF CreateAssessmentRecord
  <2>3. QED
    BY <1>1, <2>1, <2>2 DEF TypeOK
<1>4. QED
  BY <1>2, <1>3 DEF HandlerStep

\* Of every other step, the records are the same.
LEMMA RecordsKept ==
  ASSUME IInv, Next, NEW b \in Ids
  PROVE  Kept(b)
<1>1. CASE assessment' = assessment
  BY <1>1 DEF Kept, Known
<1>2. ASSUME NEW a \in Ids, HandlerStep(a) PROVE Kept(b)
  <2>1. CASE assessment' = assessment
    BY <1>1, <2>1
  <2>2. CASE ~ Known(a) /\ \A c \in Ids \ {a} : assessment'[c] = assessment[c]
    BY <2>2 DEF Kept, Known
  <2>3. QED
    BY <1>2, <2>1, <2>2, HandlerWrites
<1>3. ASSUME NEW a \in Ids, TaskStep(a) PROVE Kept(b)
  <2>1. CASE b = a
    BY <1>1, <1>3, <2>1, TaskWrites
  <2>2. CASE b # a
    BY <1>3, <2>2, TaskWrites DEF Kept, Known
  <2>3. QED
    BY <2>1, <2>2
<1>4. ASSUME NEW a \in Ids, NEW r \in Requests, ReceiveRequest(a, r) PROVE Kept(b)
  BY <1>1, <1>4 DEF ReceiveRequest, tables
<1>5. ASSUME NEW j \in Jobs, JobStep(j) PROVE Kept(b)
  BY <1>1, <1>5 DEF JobStep, SelectRaw, SelectHarmonized, LookupFails, Assess, BeginStore,
                    StoreResult, StoreFailure, StoreException, tables
<1>6. CASE Crash
  BY <1>1, <1>6 DEF Crash, tables
<1>7. QED
  BY <1>2, <1>3, <1>4, <1>5, <1>6 DEF Next

----------------------------------------------------------------------------
\* The invariant is kept.

\* A known record answers the same question after a step, and so does what
\* refers to known records only.
LEMMA KnownPlace ==
  ASSUME IInv, NEW h \in harmonized
  PROVE  /\ h.row \in Jobs /\ h.row[1] \in Ids /\ h.assessment_id \in Ids
         /\ h.norm \in Jobs /\ h.norm[1] \in Ids
         /\ Known(h.assessment_id)
BY DEF IInv, TypeOK, HarmonizedRows, RowInv, Jobs

\* What a step must show of the rows and jobs it changes.
LEMMA QuestionFrame ==
  ASSUME IInv, QuestionInv, \A b \in Ids : Kept(b),
         \A h \in harmonized' : h \in harmonized \/ AnswerInv(h)',
         \A r \in raw' : r \in raw \/ KeyInv(r)',
         \A j \in Jobs : job'[j] = job[j] \/ HeldInv(j)'
  PROVE  QuestionInv'
<1>1. ASSUME NEW h \in harmonized PROVE AnswerInv(h)'
  <2>1. AnswerInv(h)
    BY DEF QuestionInv
  <2>2. Known(h.row[1]) /\ Known(h.norm[1]) /\ h.row[1] \in Ids /\ h.norm[1] \in Ids
    BY <2>1, KnownPlace DEF AnswerInv
  <2>3. QED
    BY <2>1, <2>2 DEF AnswerInv, SameQuestion, Kept
<1>2. ASSUME NEW r \in raw PROVE KeyInv(r)'
  <2>1. KeyInv(r) /\ Known(r.assessment_id) /\ r.assessment_id \in Ids
    BY DEF QuestionInv, IInv, TypeOK, RawRows, RowInv
  <2>2. QED
    BY <2>1 DEF KeyInv, Kept
<1>3. ASSUME NEW j \in Jobs, job'[j] = job[j] PROVE HeldInv(j)'
  <2>1. HeldInv(j) /\ JobInv(j) /\ j[1] \in Ids
    BY DEF QuestionInv, IInv, Jobs
  <2>2. job[j].pc # "idle" => Known(j[1])
    BY <2>1 DEF JobInv
  <2>3. job[j].pc = "match" => job[j].src \in Ids
    BY <2>1 DEF JobInv
  <2>4. job[j].pc = "store" => job[j].norm[1] \in Ids
    BY <2>1 DEF JobInv, Jobs
  <2>5. job'[j].pc \in {"lookup", "match"} => assessment'[j[1]].cached
    BY <1>3, <2>1, <2>2 DEF HeldInv, Kept
  <2>6. ASSUME job[j].pc = "match"
        PROVE  /\ Known(job[j].src)'
               /\ assessment'[job[j].src].pid = assessment'[j[1]].pid
               /\ assessment'[job[j].src].mode = assessment'[j[1]].mode
    BY <1>3, <2>1, <2>2, <2>3, <2>6 DEF HeldInv, Kept
  <2>7. ASSUME job[j].pc = "store"
        PROVE  /\ Known(job[j].norm[1])'
               /\ SameQuestion(j[1], j[2], job[j].norm[1], job[j].norm[2])'
               /\ ~ assessment'[j[1]].cached => job[j].norm = j
    <3>1. /\ Known(job[j].norm[1])
          /\ SameQuestion(j[1], j[2], job[j].norm[1], job[j].norm[2])
          /\ ~ assessment[j[1]].cached => job[j].norm = j
      BY <2>1, <2>7 DEF HeldInv
    <3>2. Kept(j[1]) /\ Kept(job[j].norm[1]) /\ Known(j[1])
      BY <2>1, <2>2, <2>4, <2>7
    <3>3. QED
      BY <1>3, <3>1, <3>2 DEF SameQuestion, Kept
  <2>8. QED
    BY <1>3, <2>5, <2>6, <2>7 DEF HeldInv, Known, SameQuestion
<1>4. QED
  BY <1>1, <1>2, <1>3 DEF QuestionInv

\* The job whose step it is; the others are as they were.
LEMMA OneJobMoves ==
  ASSUME IInv, NEW j \in Jobs, JobStep(j)
  PROVE  /\ assessment' = assessment
         /\ \A k \in Jobs \ {j} : job'[k] = job[k]
         /\ job[j] \in JobStates /\ job[j].pc \in Active
         /\ Known(j[1]) /\ j[1] \in Ids
<1>1. job \in [Jobs -> JobStates]
  BY DEF IInv, TypeOK
<1>2. job[j].pc \in Active
  BY DEF JobStep, SelectRaw, SelectHarmonized, LookupFails, Assess, BeginStore,
         StoreResult, StoreFailure, StoreException, Active
<1>3. \A k \in Jobs \ {j} : job'[k] = job[k]
  BY <1>1 DEF JobStep, SelectRaw, SelectHarmonized, LookupFails, Assess, BeginStore,
              StoreResult, StoreFailure, StoreException
<1>4. assessment' = assessment
  BY DEF JobStep, SelectRaw, SelectHarmonized, LookupFails, Assess, BeginStore,
         StoreResult, StoreFailure, StoreException, tables
<1>5. assessment[j[1]] \in AssessmentRow /\ j[1] \in Ids
  BY <1>2, ActiveJob
<1>6. QED
  BY <1>1, <1>2, <1>3, <1>4, <1>5, NullAssumption DEF Known

\* A look-up keeps to the key: the row it takes is of the same pid and mode.
LEMMA SelectRawHolds ==
  ASSUME IInv, QuestionInv, NEW j \in Jobs, SelectRaw(j)
  PROVE  HeldInv(j)'
<1>1. /\ job[j] \in JobStates /\ job \in [Jobs -> JobStates] /\ job[j].pc = "lookup"
      /\ assessment' = assessment
  BY DEF IInv, TypeOK, SelectRaw, tables
<1>2. CASE job' = [job EXCEPT ![j].pc = "assess"]
  <2>1. job'[j].pc = "assess"
    BY <1>1, <1>2 DEF JobStates
  <2>2. QED
    BY <2>1 DEF HeldInv
<1>3. ASSUME NEW row \in Candidates(j),
             job' = [job EXCEPT ![j] = [@ EXCEPT !.pc = "match",
                                                 !.src = row.assessment_id,
                                                 !.raw = row.raw]]
      PROVE  HeldInv(j)'
  <2>1. row \in raw /\ row.doi = assessment[j[1]].pid /\ row.mode = assessment[j[1]].mode
    BY DEF Candidates, SameKey
  <2>2. KeyInv(row) /\ Known(row.assessment_id)
    BY <2>1 DEF QuestionInv, IInv, RowInv
  <2>3. assessment[j[1]].cached
    BY <1>1 DEF QuestionInv, HeldInv
  <2>4. job'[j].pc = "match" /\ job'[j].src = row.assessment_id
    BY <1>1, <1>3 DEF JobStates
  <2>5. QED
    BY <1>1, <2>1, <2>2, <2>3, <2>4 DEF HeldInv, KeyInv, Known
<1>4. QED
  BY <1>2, <1>3 DEF SelectRaw

\* The normalised row found is one of the same assessor, hence its contents
\* answer the same question.
LEMMA SelectHarmonizedHolds ==
  ASSUME IInv, QuestionInv, NEW j \in Jobs, SelectHarmonized(j)
  PROVE  HeldInv(j)'
<1>1. /\ job[j] \in JobStates /\ job \in [Jobs -> JobStates] /\ job[j].pc = "match"
      /\ assessment' = assessment
  BY DEF IInv, TypeOK, SelectHarmonized, tables
<1>2. CASE job' = [job EXCEPT ![j] = [NoJob EXCEPT !.pc = "assess"]]
  <2>1. job'[j].pc = "assess"
    BY <1>1, <1>2 DEF NoJob
  <2>2. QED
    BY <2>1 DEF HeldInv
<1>3. ASSUME NEW row \in Matches(j),
             job' = [job EXCEPT ![j] = [@ EXCEPT !.pc = "store", !.src = Null,
                                                 !.norm = row.norm]]
      PROVE  HeldInv(j)'
  <2>1. row \in harmonized /\ row.assessment_id = job[j].src /\ row.assessor = Assessor(j)
    BY DEF Matches
  <2>2. AnswerInv(row)
    BY <2>1 DEF QuestionInv
  <2>3. /\ assessment[j[1]].cached
        /\ assessment[job[j].src].pid = assessment[j[1]].pid
        /\ assessment[job[j].src].mode = assessment[j[1]].mode
    BY <1>1 DEF QuestionInv, HeldInv
  <2>4. SameQuestion(j[1], j[2], row.norm[1], row.norm[2]) /\ Known(row.norm[1])
    BY <2>1, <2>2, <2>3 DEF AnswerInv, SameQuestion, Assessor
  <2>5. job'[j].pc = "store" /\ job'[j].norm = row.norm
    BY <1>1, <1>3 DEF JobStates
  <2>6. QED
    BY <1>1, <2>3, <2>4, <2>5 DEF HeldInv, SameQuestion, Known
<1>4. QED
  BY <1>2, <1>3 DEF SelectHarmonized

\* An assessor that was asked answers the question of its own place.
LEMMA OtherJobStepsHold ==
  ASSUME IInv, QuestionInv, NEW j \in Jobs,
         LookupFails(j) \/ Assess(j) \/ BeginStore(j)
           \/ StoreResult(j) \/ StoreFailure(j) \/ StoreException(j)
  PROVE  HeldInv(j)'
<1>1. /\ job[j] \in JobStates /\ job \in [Jobs -> JobStates]
      /\ assessment' = assessment /\ Known(j[1])
  BY OneJobMoves DEF IInv, TypeOK, JobStep
<1>2. CASE LookupFails(j) \/ StoreResult(j) \/ StoreFailure(j) \/ StoreException(j)
  <2>1. job'[j].pc \notin {"lookup", "match", "store"}
    BY <1>1, <1>2 DEF LookupFails, StoreResult, StoreFailure, StoreException, NoJob
  <2>2. QED
    BY <2>1 DEF HeldInv
<1>3. CASE Assess(j)
  <2>1. CASE job' = [job EXCEPT ![j] = [@ EXCEPT !.pc = "store", !.raw = j, !.norm = j]]
    <3>1. job'[j].pc = "store" /\ job'[j].norm = j
      BY <1>1, <2>1 DEF JobStates
    <3>2. QED
      BY <1>1, <3>1 DEF HeldInv, SameQuestion, Known
  <2>2. ASSUME NEW pc \in {"fail", "except"}, job' = [job EXCEPT ![j].pc = pc]
        PROVE  HeldInv(j)'
    <3>1. job'[j].pc = pc
      BY <1>1, <2>2 DEF JobStates
    <3>2. QED
      BY <2>2, <3>1 DEF HeldInv
  <2>3. QED
    BY <1>3, <2>1, <2>2 DEF Assess
<1>4. CASE BeginStore(j)
  <2>1. job'[j].pc = job[j].pc /\ job'[j].norm = job[j].norm
        /\ job[j].pc \in {"store", "fail", "except"}
    BY <1>1, <1>4 DEF BeginStore, JobStates
  <2>2. HeldInv(j)
    BY DEF QuestionInv
  <2>3. QED
    BY <1>1, <2>1, <2>2 DEF HeldInv, SameQuestion, Known
<1>5. QED
  BY <1>2, <1>3, <1>4

\* The rows a job stores are about its own question.
LEMMA NewRowsHold ==
  ASSUME IInv, QuestionInv, NEW j \in Jobs, JobStep(j)
  PROVE  /\ \A h \in harmonized' : h \in harmonized \/ AnswerInv(h)'
         /\ \A r \in raw' : r \in raw \/ KeyInv(r)'
<1>1. /\ assessment' = assessment /\ Known(j[1]) /\ job[j].pc \in Active
  BY OneJobMoves
<1>2. j[2] \in DOMAIN assessment[j[1]].assessors
  BY <1>1, ActiveJob
<1>3. ASSUME NEW payload, NEW r, r = RawRow(j, payload) PROVE KeyInv(r)'
  BY <1>1, <1>3 DEF KeyInv, RawRow
<1>4. ASSUME job[j].pc = "store", NEW h, h = HarmonizedRow(j) PROVE AnswerInv(h)'
  <2>1. HeldInv(j)
    BY DEF QuestionInv
  <2>2. /\ h.row = j /\ h.assessment_id = j[1] /\ h.doi = assessment[j[1]].pid
        /\ h.mode = assessment[j[1]].mode /\ h.norm = job[j].norm
        /\ h.assessor = assessment[j[1]].assessors[j[2]]
    BY <1>4 DEF HarmonizedRow, Assessor
  <2>3. AnswerInv(h)
    BY <1>1, <1>2, <1>4, <2>1, <2>2 DEF AnswerInv, HeldInv
  <2>4. QED
    BY <1>1, <2>3 DEF AnswerInv, SameQuestion, Known
<1>5. CASE StoreResult(j)
  <2>1. /\ \A h \in harmonized' : h \in harmonized \/ h = HarmonizedRow(j)
        /\ \A r \in raw' : r \in raw \/ r = RawRow(j, job[j].raw)
        /\ job[j].pc = "store"
    BY <1>5 DEF StoreResult
  <2>2. ASSUME NEW h \in harmonized' PROVE h \in harmonized \/ AnswerInv(h)'
    BY <1>4, <2>1
  <2>3. ASSUME NEW r \in raw' PROVE r \in raw \/ KeyInv(r)'
    BY <1>3, <2>1
  <2>4. QED
    BY <2>2, <2>3
<1>6. CASE StoreFailure(j) \/ StoreException(j)
  <2>1. harmonized' = harmonized /\ \A r \in raw' : r \in raw \/ r = RawRow(j, Failure)
    BY <1>6 DEF StoreFailure, StoreException
  <2>2. ASSUME NEW r \in raw' PROVE r \in raw \/ KeyInv(r)'
    BY <1>3, <2>1
  <2>3. QED
    BY <2>1, <2>2
<1>7. CASE SelectRaw(j) \/ SelectHarmonized(j) \/ LookupFails(j) \/ Assess(j) \/ BeginStore(j)
  BY <1>7 DEF SelectRaw, SelectHarmonized, LookupFails, Assess, BeginStore, tables
<1>8. QED
  BY <1>5, <1>6, <1>7 DEF JobStep

LEMMA QuestionNext == IInv /\ QuestionInv /\ [Next]_vars => QuestionInv'
<1>1. SUFFICES ASSUME IInv, QuestionInv, [Next]_vars PROVE QuestionInv'
  OBVIOUS
<1>2. CASE UNCHANGED vars
  BY <1>1, <1>2 DEF vars, QuestionInv, AnswerInv, KeyInv, HeldInv, SameQuestion, Known
<1>3. ASSUME Next, raw' = raw, harmonized' = harmonized,
             \A j \in Jobs : job'[j] = job[j] \/ HeldInv(j)'
      PROVE  QuestionInv'
  BY <1>1, <1>3, QuestionFrame, RecordsKept
<1>4. ASSUME NEW a \in Ids, NEW r \in Requests, ReceiveRequest(a, r) PROVE QuestionInv'
  BY <1>3, <1>4 DEF ReceiveRequest, tables, Next
<1>5. ASSUME NEW a \in Ids, HandlerStep(a) PROVE QuestionInv'
  <2>1. Next /\ raw' = raw /\ harmonized' = harmonized /\ job' = job
    BY <1>5 DEF HandlerStep, AssessOffline, CreateAssessmentRecord, SpawnTask, tables, Next
  <2>2. QED
    BY <1>3, <2>1
<1>6. ASSUME NEW a \in Ids, TaskStep(a) PROVE QuestionInv'
  <2>1. Next /\ raw' = raw /\ harmonized' = harmonized
    BY <1>6 DEF TaskStep, LoadAssessment, FinishAssessment, Next
  <2>2. CASE job' = job
    BY <1>3, <2>1, <2>2
  <2>3. CASE /\ LoadAssessment(a) /\ Known(a)
             /\ job' = [j \in Jobs |->
                          IF j[1] = a /\ j[2] \in DOMAIN assessment[a].assessors
                          THEN [NoJob EXCEPT !.pc = FirstStep(a)]
                          ELSE job[j]]
    <3>1. ASSUME NEW j \in Jobs, job'[j] # job[j] PROVE HeldInv(j)'
      <4>1. j[1] = a /\ job'[j] = [NoJob EXCEPT !.pc = FirstStep(a)]
        BY <2>3, <3>1
      <4>2. job'[j].pc = FirstStep(a)
        BY <4>1 DEF NoJob
      <4>3. Kept(a)
        BY <1>1, <2>1, RecordsKept
      <4>4. QED
        BY <2>3, <4>1, <4>2, <4>3 DEF HeldInv, FirstStep, Kept
    <3>2. QED
      BY <1>3, <2>1, <3>1
  <2>4. QED
    BY <1>6, <2>2, <2>3 DEF TaskStep, LoadAssessment, StartRun, FinishAssessment, Known
<1>7. ASSUME NEW j \in Jobs, JobStep(j) PROVE QuestionInv'
  <2>1. Next
    BY <1>7 DEF Next
  <2>2. HeldInv(j)'
    BY <1>1, <1>7, SelectRawHolds, SelectHarmonizedHolds, OtherJobStepsHold DEF JobStep
  <2>3. QED
    BY <1>1, <1>7, <2>1, <2>2, OneJobMoves, NewRowsHold, RecordsKept, QuestionFrame
<1>8. CASE Crash
  <2>1. Next /\ raw' = raw /\ harmonized' = harmonized
    BY <1>8 DEF Crash, tables, Next
  <2>2. ASSUME NEW j \in Jobs, job'[j] # job[j] PROVE HeldInv(j)'
    <3>1. job'[j] = [NoJob EXCEPT !.pc = "lost"]
      BY <1>8, <2>2 DEF Crash
    <3>2. job'[j].pc = "lost"
      BY <3>1 DEF NoJob
    <3>3. QED
      BY <3>2 DEF HeldInv
  <2>3. QED
    BY <1>3, <2>1, <2>2
<1>9. QED
  BY <1>1, <1>2, <1>4, <1>5, <1>6, <1>7, <1>8 DEF Next

\* What rows and jobs say of the question they answer is true.
THEOREM QuestionsAreKept == Spec => []QuestionInv
<1>1. Init => QuestionInv
  BY DEF Init, QuestionInv, HeldInv, NoJob
<1>2. QED
  BY <1>1, QuestionNext, InductiveInvariant, PTL DEF Spec

\* However often an answer was copied, and whatever was committed between the
\* two statements of a look-up, it was given by the same assessor to the same
\* pid in the same mode; without "cached" it is the request's own.
THEOREM AnswersAreOwn == Spec => []Provenance
<1>1. QuestionInv => Provenance
  BY DEF QuestionInv, AnswerInv, Provenance
<1>2. QED
  BY <1>1, QuestionsAreKept, PTL

----------------------------------------------------------------------------
\* An answer that is stored was said to be, unless an acknowledgement is lost.

StoredOnce ==
  "lost_ack" \notin Faults =>
    \A h \in harmonized : job[h.row].pc = "completed"

\* A commit that cannot lose its acknowledgement tells what it did.
LEMMA CommitTells ==
  ASSUME NEW where, NEW c \in Commit(where), "lost_ack" \notin Faults
  PROVE  c.ok <=> c.applied
BY DEF Commit

\* A job that is done is not started again: its assessment is not queued.
LEMMA DoneStaysDone ==
  ASSUME IInv, Next, NEW j \in Jobs, job[j].pc \in {"completed", "failed"}
  PROVE  job'[j] = job[j]
<1>1. job \in [Jobs -> JobStates] /\ Known(j[1]) /\ j[1] \in Ids
      /\ assessment[j[1]].status # "queued"
  BY DEF IInv, TypeOK, JobInv, Jobs
<1>2. ASSUME NEW a \in Ids, LoadAssessment(a) PROVE job'[j] = job[j]
  <2>1. TaskInv(a) /\ task[a] = "load"
    BY <1>2 DEF IInv, LoadAssessment
  <2>2. j[1] # a
    BY <1>1, <2>1 DEF TaskInv
  <2>3. QED
    BY <1>2, <2>2 DEF LoadAssessment, StartRun
<1>3. ASSUME NEW k \in Jobs, JobStep(k) PROVE job'[j] = job[j]
  BY <1>3, OneJobMoves DEF Active
<1>4. CASE Crash
  BY <1>4 DEF Crash
<1>5. CASE job' = job
  BY <1>5
<1>6. QED
  BY <1>2, <1>3, <1>4, <1>5
  DEF Next, HandlerStep, TaskStep, ReceiveRequest, AssessOffline, CreateAssessmentRecord,
      SpawnTask, FinishAssessment

\* Only StoreResult adds normalised rows, one at a time.
LEMMA OnlyResultsAreAdded ==
  ASSUME Next
  PROVE  \/ harmonized' = harmonized
         \/ \E j \in Jobs : StoreResult(j)
BY DEF Next, HandlerStep, TaskStep, JobStep, ReceiveRequest, AssessOffline,
       CreateAssessmentRecord, SpawnTask, LoadAssessment, FinishAssessment, SelectRaw,
       SelectHarmonized, LookupFails, Assess, BeginStore, StoreFailure, StoreException,
       Crash, tables

LEMMA StoredOnceNext == IInv /\ StoredOnce /\ [Next]_vars => StoredOnce'
<1>1. SUFFICES ASSUME IInv, StoredOnce, [Next]_vars, "lost_ack" \notin Faults,
                      NEW h \in harmonized'
               PROVE  job'[h.row].pc = "completed"
  BY DEF StoredOnce
<1>2. CASE UNCHANGED vars
  BY <1>1, <1>2 DEF vars, StoredOnce
<1>3. CASE Next /\ h \in harmonized
  BY <1>1, <1>3, DoneStaysDone, KnownPlace DEF StoredOnce
<1>4. ASSUME Next, h \notin harmonized, NEW j \in Jobs, StoreResult(j)
      PROVE  job'[h.row].pc = "completed"
  <2>1. job \in [Jobs -> JobStates]
    BY <1>1 DEF IInv, TypeOK
  <2>2. PICK c \in Commit("job_db") :
          /\ harmonized' = IF c.applied THEN harmonized \cup {HarmonizedRow(j)}
                           ELSE harmonized
          /\ job' = [job EXCEPT ![j] =
               [NoJob EXCEPT !.pc = IF c.ok THEN "completed" ELSE "except"]]
    BY <1>4 DEF StoreResult
  <2>3. c.applied /\ h = HarmonizedRow(j)
    BY <1>1, <1>4, <2>2
  <2>4. c.ok
    BY <1>1, <2>3, CommitTells
  <2>5. h.row = j /\ job'[j] = [NoJob EXCEPT !.pc = "completed"]
    BY <2>1, <2>2, <2>3, <2>4 DEF HarmonizedRow
  <2>6. QED
    BY <2>5 DEF NoJob
<1>5. QED
  BY <1>1, <1>2, <1>3, <1>4, OnlyResultsAreAdded

----------------------------------------------------------------------------
\* The refinement: what a client sees of one assessment.

StatusSeen(a) == IF Known(a) THEN assessment[a].status ELSE "absent"
WantedSeen(a) == IF Known(a) THEN DOMAIN assessment[a].assessors ELSE {}
AnsweredSeen(a) == {h.row[2] : h \in HarmonizedOf(a)}

Unseen(a) ==
  /\ StatusSeen(a)' = StatusSeen(a)
  /\ WantedSeen(a)' = WantedSeen(a)
  /\ AnsweredSeen(a)' = AnsweredSeen(a)

LEMMA NothingSeen ==
  ASSUME \A a \in Ids : Unseen(a)
  PROVE  UNCHANGED Contract!cvars
BY DEF Unseen, StatusSeen, WantedSeen, AnsweredSeen, Contract!cvars

LEMMA AcceptSeen ==
  ASSUME NEW a \in Ids, NEW places \in SUBSET Positions, places # {},
         \A b \in Ids \ {a} : Unseen(b),
         StatusSeen(a) = "absent", StatusSeen(a)' = "queued", WantedSeen(a)' = places,
         AnsweredSeen(a)' = AnsweredSeen(a)
  PROVE  Contract!Next
<1>1. Contract!Accept(a, places)
  BY DEF Unseen, StatusSeen, WantedSeen, AnsweredSeen, Contract!Accept
<1>2. QED
  BY <1>1 DEF Contract!Next

LEMMA StartSeen ==
  ASSUME NEW a \in Ids, \A b \in Ids \ {a} : Unseen(b),
         StatusSeen(a) = "queued", StatusSeen(a)' = "running",
         WantedSeen(a)' = WantedSeen(a), AnsweredSeen(a)' = AnsweredSeen(a)
  PROVE  Contract!Next
<1>1. Contract!Start(a)
  BY DEF Unseen, StatusSeen, WantedSeen, AnsweredSeen, Contract!Start
<1>2. QED
  BY <1>1 DEF Contract!Next

LEMMA AnswerSeen ==
  ASSUME NEW a \in Ids, NEW i \in Positions, \A b \in Ids \ {a} : Unseen(b),
         StatusSeen(a) = "running", StatusSeen(a)' = "running",
         WantedSeen(a)' = WantedSeen(a), i \in WantedSeen(a) \ AnsweredSeen(a),
         AnsweredSeen(a)' = AnsweredSeen(a) \cup {i}
  PROVE  Contract!Next
<1>1. Contract!Answer(a, i)
  BY DEF Unseen, StatusSeen, WantedSeen, AnsweredSeen, Contract!Answer
<1>2. QED
  BY <1>1 DEF Contract!Next

LEMMA FinishSeen ==
  ASSUME NEW a \in Ids, \A b \in Ids \ {a} : Unseen(b),
         StatusSeen(a) = "running", WantedSeen(a)' = WantedSeen(a),
         AnsweredSeen(a)' = AnsweredSeen(a),
         \/ StatusSeen(a)' = "completed" /\ AnsweredSeen(a) = WantedSeen(a)
         \/ /\ StatusSeen(a)' = "completed_with_errors"
            /\ AnsweredSeen(a) # WantedSeen(a) \/ "lost_ack" \in Faults
  PROVE  Contract!Next
<1>1. Contract!Finish(a)
  BY DEF Unseen, StatusSeen, WantedSeen, AnsweredSeen, Contract!Finish
<1>2. QED
  BY <1>1 DEF Contract!Next

\* A record that keeps its question, while no normalised row is added.
LEMMA KeptUnseen ==
  ASSUME NEW b \in Ids, assessment'[b] = assessment[b], harmonized' = harmonized
  PROVE  Unseen(b)
BY DEF Unseen, StatusSeen, WantedSeen, AnsweredSeen, HarmonizedOf, Known

\* The answers seen of an assessment are places of its list.
LEMMA AnsweredIsWanted ==
  ASSUME IInv, QuestionInv, NEW a \in Ids, NEW h \in HarmonizedOf(a)
  PROVE  h.row = <<a, h.row[2]>> /\ h.row[2] \in WantedSeen(a)
<1>1. h \in harmonized /\ h.assessment_id = a /\ AnswerInv(h)
  BY DEF HarmonizedOf, QuestionInv
<1>2. h.row \in Jobs /\ h.row[1] = a /\ Known(a)
  BY <1>1, KnownPlace DEF AnswerInv
<1>3. h.row = <<a, h.row[2]>>
  <2> DEFINE row == h.row
  <2>1. row \in Ids \X Positions /\ row[1] = a
    BY <1>2 DEF Jobs
  <2>2. row = <<row[1], row[2]>>
    BY <2>1
  <2>3. QED
    BY <2>1, <2>2
<1>4. h.row[2] \in DOMAIN assessment[a].assessors
  BY <1>1, <1>2 DEF AnswerInv
<1>5. QED
  BY <1>2, <1>3, <1>4 DEF WantedSeen

LEMMA HandlerStepSeen ==
  ASSUME IInv, NEW a \in Ids, HandlerStep(a)
  PROVE  Contract!Next \/ UNCHANGED Contract!cvars
<1>1. harmonized' = harmonized
  BY DEF HandlerStep, AssessOffline, CreateAssessmentRecord, SpawnTask, tables
<1>2. CASE assessment' = assessment
  BY <1>1, <1>2, KeptUnseen, NothingSeen
<1>3. CASE /\ ~ Known(a) /\ request[a] \in Requests
           /\ Accepted(request[a]) /\ DOMAIN Online(request[a]) # {}
           /\ assessment'[a] = NewAssessment(request[a])
           /\ \A b \in Ids \ {a} : assessment'[b] = assessment[b]
  <2> DEFINE places == DOMAIN Online(request[a])
  <2>1. places \in SUBSET Positions
    BY <1>3, SelectedPositions DEF Online
  <2>2. StatusSeen(a) = "absent" /\ AnsweredSeen(a)' = AnsweredSeen(a)
    BY <1>1, <1>3 DEF StatusSeen, AnsweredSeen, HarmonizedOf
  <2>3. StatusSeen(a)' = "queued" /\ WantedSeen(a)' = places
    BY <1>3, NewAssessmentType DEF StatusSeen, WantedSeen, Known, NewAssessment
  <2>4. \A b \in Ids \ {a} : Unseen(b)
    BY <1>1, <1>3, KeptUnseen
  <2>5. QED
    BY <1>3, <2>1, <2>2, <2>3, <2>4, AcceptSeen
<1>4. QED
  BY <1>2, <1>3, HandlerWrites

\* The end of a task says what is stored: FinalStatus looks at the jobs, the
\* client at the rows.
LEMMA FinalStatusSeen ==
  ASSUME IInv, QuestionInv, StoredOnce, NEW a \in Ids, Known(a), Gathered(a)
  PROVE  \/ FinalStatus(a) = "completed" /\ AnsweredSeen(a) = WantedSeen(a)
         \/ /\ FinalStatus(a) = "completed_with_errors"
            /\ AnsweredSeen(a) # WantedSeen(a) \/ "lost_ack" \in Faults
<1>1. assessment[a] \in AssessmentRow /\ JobsOf(a) \subseteq Jobs
  BY JobsOfKnown DEF IInv, TypeOK, Known
<1>2. CASE \E j \in JobsOf(a) : job[j].pc = "failed"
  <2>1. PICK i \in DOMAIN assessment[a].assessors : job[<<a, i>>].pc = "failed"
    BY <1>2 DEF JobsOf
  <2>2. FinalStatus(a) = "completed_with_errors" /\ i \in WantedSeen(a)
    BY <1>2 DEF FinalStatus, WantedSeen
  <2>3. ASSUME "lost_ack" \notin Faults, NEW h \in HarmonizedOf(a), h.row[2] = i
        PROVE  FALSE
    <3>1. h.row = <<a, i>> /\ h \in harmonized
      BY <2>3, AnsweredIsWanted DEF HarmonizedOf
    <3>2. job[<<a, i>>].pc = "completed"
      BY <2>3, <3>1 DEF StoredOnce
    <3>3. QED
      BY <2>1, <3>2
  <2>4. "lost_ack" \notin Faults => i \notin AnsweredSeen(a)
    BY <2>3 DEF AnsweredSeen
  <2>5. QED
    BY <2>2, <2>4
<1>3. CASE ~ \E j \in JobsOf(a) : job[j].pc = "failed"
  <2>1. FinalStatus(a) = "completed"
    BY <1>3 DEF FinalStatus
  <2>2. ASSUME NEW i \in WantedSeen(a) PROVE i \in AnsweredSeen(a)
    <3>1. <<a, i>> \in JobsOf(a)
      BY DEF JobsOf, WantedSeen
    <3>2. job[<<a, i>>].pc = "completed" /\ JobInv(<<a, i>>)
      BY <1>1, <1>3, <3>1 DEF Gathered, IInv
    <3>3. PICK h \in harmonized : h.row = <<a, i>>
      BY <3>2 DEF JobInv, Answered
    <3>4. h \in HarmonizedOf(a) /\ h.row[2] = i
      BY <3>3 DEF HarmonizedOf, QuestionInv, AnswerInv
    <3>5. QED
      BY <3>4 DEF AnsweredSeen
  <2>3. AnsweredSeen(a) \subseteq WantedSeen(a)
    BY AnsweredIsWanted DEF AnsweredSeen
  <2>4. QED
    BY <2>1, <2>2, <2>3
<1>4. QED
  BY <1>2, <1>3

LEMMA TaskStepSeen ==
  ASSUME IInv, QuestionInv, StoredOnce, NEW a \in Ids, TaskStep(a)
  PROVE  Contract!Next \/ UNCHANGED Contract!cvars
<1>1. harmonized' = harmonized /\ TaskInv(a)
  BY DEF TaskStep, LoadAssessment, FinishAssessment, IInv
<1>2. \A b \in Ids \ {a} : Unseen(b)
  BY <1>1, TaskWrites, KeptUnseen
<1>3. CASE assessment' = assessment
  BY <1>1, <1>3, KeptUnseen, NothingSeen
<1>4. CASE assessment' # assessment
  <2>1. Known(a) /\ Known(a)' /\ Kept(a)
    BY <1>4, TaskWrites
  <2>2. WantedSeen(a)' = WantedSeen(a) /\ AnsweredSeen(a)' = AnsweredSeen(a)
    BY <1>1, <2>1 DEF Kept, WantedSeen, AnsweredSeen, HarmonizedOf
  <2>3. CASE LoadAssessment(a)
    <3>1. StatusSeen(a) = "queued" /\ StatusSeen(a)' = "running"
      BY <1>1, <1>4, <2>1, <2>3, TaskWrites DEF TaskInv, LoadAssessment, StatusSeen
    <3>2. QED
      BY <1>2, <2>2, <3>1, StartSeen
  <2>4. CASE FinishAssessment(a)
    <3>1. StatusSeen(a) = "running" /\ StatusSeen(a)' = FinalStatus(a)
      BY <1>1, <1>4, <2>1, <2>4, TaskWrites DEF TaskInv, FinishAssessment, StatusSeen
    <3>2. Gathered(a)
      BY <2>4 DEF FinishAssessment
    <3>3. QED
      BY <1>2, <2>1, <2>2, <3>1, <3>2, FinalStatusSeen, FinishSeen
  <2>5. QED
    BY <2>3, <2>4 DEF TaskStep
<1>5. QED
  BY <1>3, <1>4

LEMMA StoreResultSeen ==
  ASSUME IInv, NEW j \in Jobs, StoreResult(j)
  PROVE  Contract!Next \/ UNCHANGED Contract!cvars
<1>1. assessment' = assessment /\ job[j].pc = "store"
  BY DEF StoreResult
<1>2. /\ j[1] \in Ids /\ j[2] \in Positions /\ Known(j[1])
      /\ assessment[j[1]].status = "running" /\ j[2] \in DOMAIN assessment[j[1]].assessors
  BY <1>1, ActiveJob, NullAssumption DEF Active, Known
<1>3. CASE harmonized' = harmonized
  BY <1>1, <1>3, KeptUnseen, NothingSeen
<1>4. CASE harmonized' = harmonized \cup {HarmonizedRow(j)}
  <2>1. HarmonizedRow(j).assessment_id = j[1] /\ HarmonizedRow(j).row = j
    BY DEF HarmonizedRow
  <2>2. /\ \A b \in Ids \ {j[1]} : HarmonizedOf(b)' = HarmonizedOf(b)
        /\ HarmonizedOf(j[1])' = HarmonizedOf(j[1]) \cup {HarmonizedRow(j)}
    BY <1>4, <2>1 DEF HarmonizedOf
  <2>3. \A b \in Ids : StatusSeen(b)' = StatusSeen(b) /\ WantedSeen(b)' = WantedSeen(b)
    BY <1>1 DEF StatusSeen, WantedSeen, Known
  <2>4. AnsweredSeen(j[1])' = AnsweredSeen(j[1]) \cup {j[2]}
    BY <2>1, <2>2 DEF AnsweredSeen
  <2>5. \A b \in Ids \ {j[1]} : Unseen(b)
    BY <2>2, <2>3 DEF Unseen, AnsweredSeen
  <2>6. StatusSeen(j[1]) = "running" /\ j[2] \in WantedSeen(j[1])
    BY <1>2 DEF StatusSeen, WantedSeen
  <2>7. CASE j[2] \in AnsweredSeen(j[1])
    <3>1. Unseen(j[1])
      BY <1>2, <2>3, <2>4, <2>7 DEF Unseen
    <3>2. QED
      BY <2>5, <3>1, NothingSeen
  <2>8. CASE j[2] \notin AnsweredSeen(j[1])
    BY <1>2, <2>3, <2>4, <2>5, <2>6, <2>8, AnswerSeen
  <2>9. QED
    BY <2>7, <2>8
<1>5. QED
  BY <1>3, <1>4 DEF StoreResult

LEMMA StepSeen ==
  ASSUME IInv, QuestionInv, StoredOnce, [Next]_vars
  PROVE  Contract!Next \/ UNCHANGED Contract!cvars
<1>1. CASE assessment' = assessment /\ harmonized' = harmonized
  BY <1>1, KeptUnseen, NothingSeen
<1>2. ASSUME NEW j \in Jobs, JobStep(j)
      PROVE  Contract!Next \/ UNCHANGED Contract!cvars
  <2>1. CASE StoreResult(j)
    BY <2>1, StoreResultSeen
  <2>2. CASE ~ StoreResult(j)
    BY <1>1, <1>2, <2>2
    DEF JobStep, SelectRaw, SelectHarmonized, LookupFails, Assess, BeginStore,
        StoreFailure, StoreException, tables
  <2>3. QED
    BY <2>1, <2>2
<1>3. ASSUME NEW a \in Ids, NEW r \in Requests, ReceiveRequest(a, r)
      PROVE  Contract!Next \/ UNCHANGED Contract!cvars
  BY <1>1, <1>3 DEF ReceiveRequest, tables
<1>4. CASE Crash
  BY <1>1, <1>4 DEF Crash, tables
<1>5. CASE UNCHANGED vars
  BY <1>1, <1>5 DEF vars
<1>6. QED
  BY <1>2, <1>3, <1>4, <1>5, HandlerStepSeen, TaskStepSeen DEF Next

\* The program keeps its promise to the clients: whatever is shown of an
\* assessment goes from absent to queued to running to one final status, its
\* answers arrive one by one while it runs and are never withdrawn, and it ends
\* with errors only when an answer is missing or an acknowledgement can be lost.
THEOREM ImplementsContract == Spec => ContractSpec
<1>1. Init => Contract!Init
  BY DEF Init, Contract!Init, Known, HarmonizedOf
<1>2. Init => StoredOnce
  BY DEF Init, StoredOnce
<1>3. IInv /\ QuestionInv /\ StoredOnce /\ [Next]_vars => [Contract!Next]_(Contract!cvars)
  BY StepSeen
<1>4. QED
  BY <1>1, <1>2, <1>3, StoredOnceNext, InductiveInvariant, QuestionsAreKept, PTL
  DEF Spec, ContractSpec, Contract!Spec
=============================================================================
