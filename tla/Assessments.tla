---------------------------- MODULE Assessments ----------------------------
(***************************************************************************)
(* The life of an assessment: the POST handler create_assessment, the      *)
(* background task run_assessment it spawns, the run_assessor coroutines    *)
(* the task gathers, and the three PostgreSQL tables they share.            *)
(*                                                                          *)
(* One step is what one coroutine does between two awaits, or one           *)
(* statement or commit of the database.  Handlers, tasks and jobs           *)
(* interleave at every await.                                               *)
(*                                                                          *)
(* What an assessor answers is abstracted to the job whose call was         *)
(* answered, so that the rows tell where their contents come from.          *)
(***************************************************************************)
EXTENDS Naturals, Sequences

CONSTANTS
  Ids,        \* assessment ids, one uuid4 per request
  Positions,  \* places in a list of assessors
  Names,      \* what clients may write in a list of assessors
  Plugins,    \* the enabled plugins in the order of config/assessors.yaml
  Offline,    \* the id of the plugin whose results are returned, not stored
  Tokens,     \* the pieces a pid is made of
  Prefixes,   \* the tokens normalize_pid removes
  Modes,      \* AssessmentMode
  Requests,   \* the request bodies clients send
  Faults,     \* what may go wrong beside an assessor that fails
  Failure,    \* the raw payload {"status": "failed", "error": ...}
  Null        \* no value

FaultKinds == {"crash", "task_db", "job_db", "lost_ack"}

\* An assessment request: pid <<>> is an absent pid, assessors <<>> an absent
\* or empty list, metadata says whether metadata was sent.
RequestBody ==
  [pid : Seq(Tokens), mode : Modes, cached : BOOLEAN,
   assessors : Seq(Names), metadata : BOOLEAN]

ASSUME ConstantsAssumption ==
  /\ Positions \subseteq Nat
  /\ Plugins \in Seq(Names)
  /\ DOMAIN Plugins \subseteq Positions
  /\ Prefixes \subseteq Tokens
  /\ Requests \subseteq RequestBody
  /\ \A r \in Requests : DOMAIN r.assessors \subseteq Positions
  /\ Faults \subseteq FaultKinds
  /\ Null \notin Ids
  /\ Failure \notin (Ids \X Positions)
  /\ Null \notin (Ids \X Positions) \cup {Failure}

VARIABLES
  handler,     \* where the request handler of an id is
  request,     \* the body it was sent
  assessment,  \* table assessments
  raw,         \* table raw_assessments
  harmonized,  \* table harmonized_assessments
  clock,       \* the transaction timestamps PostgreSQL has given out
  task,        \* where run_assessment(id) is
  job          \* where run_assessor is, for each place of the list

vars == <<handler, request, assessment, raw, harmonized, clock, task, job>>
tables == <<assessment, raw, harmonized>>

Jobs == Ids \X Positions

----------------------------------------------------------------------------
\* The checks of create_assessment.

PluginIds == {Plugins[i] : i \in DOMAIN Plugins}

\* Without a list, every plugin the request has the input for.  A list is kept
\* as a function of the places it had, so that dropping an entry moves none.
Selected(r) ==
  IF r.assessors # <<>> THEN r.assessors
  ELSE [i \in {k \in DOMAIN Plugins : IF Plugins[k] = Offline
                                      THEN r.metadata ELSE r.pid # <<>>}
          |-> Plugins[i]]

WantsOffline(r) == \E i \in DOMAIN Selected(r) : Selected(r)[i] = Offline

Online(r) ==
  [i \in {k \in DOMAIN Selected(r) : Selected(r)[k] # Offline} |-> Selected(r)[i]]

Accepted(r) ==
  /\ \A i \in DOMAIN Selected(r) : Selected(r)[i] \in PluginIds
  /\ DOMAIN Selected(r) # {}
  /\ WantsOffline(r) => r.metadata
  /\ DOMAIN Online(r) # {} => r.pid # <<>>

\* One prefix is removed, the first that matches: a pid that carries two keeps
\* the second.
NormalizePid(pid) ==
  IF pid # <<>> /\ Head(pid) \in Prefixes THEN Tail(pid) ELSE pid

\* Slip: the offline assessor stays in the stored list.
NewAssessmentKeepsOffline(r) ==
  [pid |-> NormalizePid(r.pid), mode |-> r.mode, assessors |-> Selected(r),
   cached |-> r.cached, status |-> "queued", completed_at |-> FALSE]

NewAssessment(r) ==
  [pid |-> NormalizePid(r.pid), mode |-> r.mode, assessors |-> Online(r),
   cached |-> r.cached, status |-> "queued", completed_at |-> FALSE]

----------------------------------------------------------------------------
\* Commits.  A commit that reports an error may have been applied, when the
\* connection is lost before the acknowledgement arrives.

Commit(where) ==
  {[applied |-> TRUE, ok |-> TRUE]}
    \cup {[applied |-> FALSE, ok |-> FALSE] : f \in {where} \cap Faults}
    \cup {[applied |-> TRUE, ok |-> FALSE] :
            f \in IF where \in Faults THEN {"lost_ack"} \cap Faults ELSE {}}

----------------------------------------------------------------------------
NoJob == [pc |-> "idle", src |-> Null, raw |-> Null, norm |-> Null, ts |-> 0]

Init ==
  /\ handler = [a \in Ids |-> "idle"]
  /\ request = [a \in Ids |-> Null]
  /\ assessment = [a \in Ids |-> Null]
  /\ raw = {}
  /\ harmonized = {}
  /\ clock = 0
  /\ task = [a \in Ids |-> "none"]
  /\ job = [j \in Jobs |-> NoJob]

\* create_assessment up to its first await.
ReceiveRequest(a, r) ==
  /\ handler[a] = "idle"
  /\ request' = [request EXCEPT ![a] = r]
  /\ handler' = [handler EXCEPT ![a] =
       IF ~ Accepted(r) THEN "rejected"
       ELSE IF WantsOffline(r) THEN "offline" ELSE "insert"]
  /\ UNCHANGED <<tables, clock, task, job>>

\* The offline assessor answers, or raises and the handler with it.
AssessOffline(a) ==
  /\ handler[a] = "offline"
  /\ \E next \in {"error", IF DOMAIN Online(request[a]) = {} THEN "completed"
                           ELSE "insert"} :
       handler' = [handler EXCEPT ![a] = next]
  /\ UNCHANGED <<request, tables, clock, task, job>>

\* Slip: the error of the insert is not raised.
CreateAssessmentRecordUnchecked(a) ==
  /\ handler[a] = "insert"
  /\ \E c \in Commit("task_db") :
       assessment' = IF c.applied
                     THEN [assessment EXCEPT ![a] = NewAssessment(request[a])]
                     ELSE assessment
  /\ handler' = [handler EXCEPT ![a] = "spawn"]
  /\ UNCHANGED <<request, raw, harmonized, clock, task, job>>

CreateAssessmentRecord(a) ==
  /\ handler[a] = "insert"
  /\ \E c \in Commit("task_db") :
       /\ assessment' = IF c.applied
                        THEN [assessment EXCEPT ![a] = NewAssessment(request[a])]
                        ELSE assessment
       /\ handler' = [handler EXCEPT ![a] = IF c.ok THEN "spawn" ELSE "error"]
  /\ UNCHANGED <<request, raw, harmonized, clock, task, job>>

\* asyncio.create_task, and the response with the id and status "queued".
SpawnTask(a) ==
  /\ handler[a] = "spawn"
  /\ handler' = [handler EXCEPT ![a] = "queued"]
  /\ task' = [task EXCEPT ![a] = "load"]
  /\ UNCHANGED <<request, tables, clock, job>>

----------------------------------------------------------------------------
\* run_assessment: the first session, the gather and the last session.

FirstStep(a) == IF assessment[a].cached THEN "lookup" ELSE "assess"

\* Slip: the jobs start before the status is committed.
StartRunUncommitted(a) ==
  \E c \in Commit("task_db") :
    /\ assessment' = IF c.applied
                     THEN [assessment EXCEPT ![a].status = "running"]
                     ELSE assessment
    /\ task' = [task EXCEPT ![a] = "gather"]
    /\ job' = [j \in Jobs |->
                  IF j[1] = a /\ j[2] \in DOMAIN assessment[a].assessors
                  THEN [NoJob EXCEPT !.pc = FirstStep(a)]
                  ELSE job[j]]

StartRun(a) ==
  \E c \in Commit("task_db") :
    /\ assessment' = IF c.applied
                     THEN [assessment EXCEPT ![a].status = "running"]
                     ELSE assessment
    /\ task' = [task EXCEPT ![a] = IF c.ok THEN "gather" ELSE "lost"]
    /\ job' = IF c.ok
              THEN [j \in Jobs |->
                      IF j[1] = a /\ j[2] \in DOMAIN assessment[a].assessors
                      THEN [NoJob EXCEPT !.pc = FirstStep(a)]
                      ELSE job[j]]
              ELSE job

LoadAssessment(a) ==
  /\ task[a] = "load"
  /\ IF assessment[a] = Null
     THEN /\ task' = [task EXCEPT ![a] = "ended"]
          /\ UNCHANGED <<assessment, job>>
     ELSE StartRun(a)
  /\ UNCHANGED <<handler, request, raw, harmonized, clock>>

JobsOf(a) == {<<a, i>> : i \in DOMAIN assessment[a].assessors}

\* Slip: the task goes on with the first answer.
GatheredFirst(a) == \E j \in JobsOf(a) : job[j].pc \in {"completed", "failed"}

Gathered(a) == \A j \in JobsOf(a) : job[j].pc \in {"completed", "failed"}

\* Slip: errors only when every assessor failed.
FinalStatusAll(a) ==
  IF \A j \in JobsOf(a) : job[j].pc = "failed" THEN "completed_with_errors"
  ELSE "completed"

FinalStatus(a) ==
  IF \E j \in JobsOf(a) : job[j].pc = "failed" THEN "completed_with_errors"
  ELSE "completed"

FinishAssessment(a) ==
  /\ task[a] = "gather"
  /\ Gathered(a)
  /\ \E c \in Commit("task_db") :
       /\ assessment' = IF c.applied
                        THEN [assessment EXCEPT ![a].status = FinalStatus(a),
                                                ![a].completed_at = TRUE]
                        ELSE assessment
       /\ task' = [task EXCEPT ![a] = IF c.ok THEN "ended" ELSE "lost"]
  /\ UNCHANGED <<handler, request, raw, harmonized, clock, job>>

----------------------------------------------------------------------------
\* run_assessor.  Its pid, mode and assessor are those of the record, which
\* run_assessment read once and nothing changes.

Assessor(j) == assessment[j[1]].assessors[j[2]]

\* Slip: the cache is not told the modes apart.
SameKeyAnyMode(row, j) ==
  /\ row.doi = assessment[j[1]].pid
  /\ row.assessor = Assessor(j)

SameKey(row, j) ==
  /\ row.doi = assessment[j[1]].pid
  /\ row.mode = assessment[j[1]].mode
  /\ row.assessor = Assessor(j)

Candidates(j) == {row \in raw : SameKey(row, j)}

\* get_assessment_result, first statement: the latest raw row of the key.
SelectRaw(j) ==
  /\ job[j].pc = "lookup"
  /\ \/ /\ Candidates(j) = {}
        /\ job' = [job EXCEPT ![j].pc = "assess"]
     \/ \E row \in Candidates(j) :
          /\ \A other \in Candidates(j) : other.timestamp <= row.timestamp
          /\ job' = [job EXCEPT ![j] = [@ EXCEPT !.pc = "match",
                                                 !.src = row.assessment_id,
                                                 !.raw = row.raw]]
  /\ UNCHANGED <<handler, request, tables, clock, task>>

\* Slip: the normalised row is looked up by its key, not by the assessment.
MatchesByKey(j) == {row \in harmonized : SameKey(row, j)}

Matches(j) == {row \in harmonized : /\ row.assessment_id = job[j].src
                                    /\ row.assessor = Assessor(j)}

\* Second statement: any harmonized row of that assessment and assessor.  The
\* raw row of a failed attempt has none, and is a miss.
SelectHarmonized(j) ==
  /\ job[j].pc = "match"
  /\ \/ /\ Matches(j) = {}
        /\ job' = [job EXCEPT ![j] = [NoJob EXCEPT !.pc = "assess"]]
     \/ \E row \in Matches(j) :
          job' = [job EXCEPT ![j] = [@ EXCEPT !.pc = "store", !.src = Null,
                                              !.norm = row.norm]]
  /\ UNCHANGED <<handler, request, tables, clock, task>>

LookupFails(j) ==
  /\ "job_db" \in Faults
  /\ job[j].pc \in {"lookup", "match"}
  /\ job' = [job EXCEPT ![j] = [NoJob EXCEPT !.pc = "except"]]
  /\ UNCHANGED <<handler, request, tables, clock, task>>

\* The call of the assessor ends: with a result, with status "failed", or with
\* an exception.  A result the tables refuse (no version, no normalised form)
\* raises too, before anything is stored.
Assess(j) ==
  /\ job[j].pc = "assess"
  /\ \/ job' = [job EXCEPT ![j] = [@ EXCEPT !.pc = "store", !.raw = j, !.norm = j]]
     \/ job' = [job EXCEPT ![j].pc = "fail"]
     \/ job' = [job EXCEPT ![j].pc = "except"]
  /\ UNCHANGED <<handler, request, tables, clock, task>>

----------------------------------------------------------------------------
\* store_assessment_result and store_assessment_failure.  The rows carry the
\* time their transaction began, and are visible once it commits.

BeginStore(j) ==
  /\ job[j].pc \in {"store", "fail", "except"}
  /\ job[j].ts = 0
  /\ clock' = clock + 1
  /\ job' = [job EXCEPT ![j].ts = clock + 1]
  /\ UNCHANGED <<handler, request, tables, task>>

RawRow(j, payload) ==
  [row |-> <<j, job[j].pc>>, assessment_id |-> j[1], doi |-> assessment[j[1]].pid,
   mode |-> assessment[j[1]].mode, assessor |-> Assessor(j), raw |-> payload,
   timestamp |-> job[j].ts]

HarmonizedRow(j) ==
  [row |-> j, assessment_id |-> j[1], doi |-> assessment[j[1]].pid,
   mode |-> assessment[j[1]].mode, assessor |-> Assessor(j), norm |-> job[j].norm]

\* Slip: the two rows are not committed together.
StoreResultHalf(j) ==
  /\ job[j].pc = "store"
  /\ job[j].ts # 0
  /\ \E c \in Commit("job_db") :
       /\ raw' = raw
       /\ harmonized' = IF c.applied THEN harmonized \cup {HarmonizedRow(j)}
                        ELSE harmonized
       /\ job' = [job EXCEPT ![j] =
            [NoJob EXCEPT !.pc = IF c.ok THEN "completed" ELSE "except"]]
  /\ UNCHANGED <<handler, request, assessment, clock, task>>

\* Slip: a stored result falls through to the except clause.
StoreResultFallsThrough(j) ==
  /\ job[j].pc = "store"
  /\ job[j].ts # 0
  /\ raw' = raw \cup {RawRow(j, job[j].raw)}
  /\ harmonized' = harmonized \cup {HarmonizedRow(j)}
  /\ job' = [job EXCEPT ![j] = [NoJob EXCEPT !.pc = "except"]]
  /\ UNCHANGED <<handler, request, assessment, clock, task>>

\* Slip: a commit that reports an error is tried again.
StoreResultRetried(j) ==
  /\ job[j].pc = "store"
  /\ job[j].ts # 0
  /\ \E c \in Commit("job_db") :
       /\ raw' = IF c.applied THEN raw \cup {RawRow(j, job[j].raw)} ELSE raw
       /\ harmonized' = IF c.applied THEN harmonized \cup {HarmonizedRow(j)}
                        ELSE harmonized
       /\ job' = [job EXCEPT ![j] =
            IF c.ok THEN [NoJob EXCEPT !.pc = "completed"] ELSE [@ EXCEPT !.ts = 0]]
  /\ UNCHANGED <<handler, request, assessment, clock, task>>

\* Both rows in one transaction.  An error leads to the except clause.
StoreResult(j) ==
  /\ job[j].pc = "store"
  /\ job[j].ts # 0
  /\ \E c \in Commit("job_db") :
       /\ raw' = IF c.applied THEN raw \cup {RawRow(j, job[j].raw)} ELSE raw
       /\ harmonized' = IF c.applied THEN harmonized \cup {HarmonizedRow(j)}
                        ELSE harmonized
       /\ job' = [job EXCEPT ![j] =
            [NoJob EXCEPT !.pc = IF c.ok THEN "completed" ELSE "except"]]
  /\ UNCHANGED <<handler, request, assessment, clock, task>>

\* A failure the assessor reported.  An error here leads to the except clause
\* as well, which stores the failure once more.
StoreFailure(j) ==
  /\ job[j].pc = "fail"
  /\ job[j].ts # 0
  /\ \E c \in Commit("job_db") :
       /\ raw' = IF c.applied THEN raw \cup {RawRow(j, Failure)} ELSE raw
       /\ job' = [job EXCEPT ![j] =
            [NoJob EXCEPT !.pc = IF c.ok THEN "failed" ELSE "except"]]
  /\ UNCHANGED <<handler, request, assessment, harmonized, clock, task>>

\* Slip: the except clause only logs.
StoreExceptionLogged(j) ==
  /\ job[j].pc = "except"
  /\ job[j].ts # 0
  /\ job' = [job EXCEPT ![j] = [NoJob EXCEPT !.pc = "failed"]]
  /\ UNCHANGED <<handler, request, tables, clock, task>>

\* Slip: an error in the except clause ends the coroutine without an answer.
StoreExceptionRaises(j) ==
  /\ job[j].pc = "except"
  /\ job[j].ts # 0
  /\ \E c \in Commit("job_db") :
       /\ raw' = IF c.applied THEN raw \cup {RawRow(j, Failure)} ELSE raw
       /\ job' = [job EXCEPT ![j] =
            [NoJob EXCEPT !.pc = IF c.ok THEN "failed" ELSE "lost"]]
  /\ UNCHANGED <<handler, request, assessment, harmonized, clock, task>>

\* The except clause: an error while storing is logged and dropped.
StoreException(j) ==
  /\ job[j].pc = "except"
  /\ job[j].ts # 0
  /\ \E c \in Commit("job_db") :
       raw' = IF c.applied THEN raw \cup {RawRow(j, Failure)} ELSE raw
  /\ job' = [job EXCEPT ![j] = [NoJob EXCEPT !.pc = "failed"]]
  /\ UNCHANGED <<handler, request, assessment, harmonized, clock, task>>

----------------------------------------------------------------------------
\* The process stops and is started again: coroutines are gone, open
\* transactions roll back, the tables stay.  Nothing looks for unfinished
\* assessments at start-up.

HandlerBusy(a) == handler[a] \in {"offline", "insert", "spawn"}
TaskBusy(a) == task[a] \in {"load", "gather"}

Crash ==
  /\ "crash" \in Faults
  /\ \E a \in Ids : HandlerBusy(a) \/ TaskBusy(a)
  /\ handler' = [a \in Ids |-> IF HandlerBusy(a) THEN "error" ELSE handler[a]]
  /\ task' = [a \in Ids |-> IF TaskBusy(a) THEN "lost" ELSE task[a]]
  /\ job' = [j \in Jobs |->
               IF job[j].pc \in {"idle", "completed", "failed", "lost"} THEN job[j]
               ELSE [NoJob EXCEPT !.pc = "lost"]]
  /\ UNCHANGED <<request, tables, clock>>

----------------------------------------------------------------------------
HandlerStep(a) == AssessOffline(a) \/ CreateAssessmentRecord(a) \/ SpawnTask(a)

TaskStep(a) == LoadAssessment(a) \/ FinishAssessment(a)

JobStep(j) ==
  \/ SelectRaw(j) \/ SelectHarmonized(j) \/ LookupFails(j) \/ Assess(j)
  \/ BeginStore(j) \/ StoreResult(j) \/ StoreFailure(j) \/ StoreException(j)

Next ==
  \/ \E a \in Ids : \/ \E r \in Requests : ReceiveRequest(a, r)
                    \/ HandlerStep(a)
                    \/ TaskStep(a)
  \/ \E j \in Jobs : JobStep(j)
  \/ Crash

Spec == Init /\ [][Next]_vars

\* The event loop runs every ready coroutine, the database answers every
\* statement, and the HTTP clients of the plugins give up on a service that has
\* been silent for 180 seconds; one that goes on sending for ever is left out.
Fairness ==
  /\ \A a \in Ids : WF_vars(HandlerStep(a)) /\ WF_vars(TaskStep(a))
  /\ \A j \in Jobs : WF_vars(JobStep(j))

FairSpec == Spec /\ Fairness

----------------------------------------------------------------------------
\* Types.

PartialList(names) == UNION {[D -> names] : D \in SUBSET Positions}

Payloads == Jobs \cup {Failure}

AssessmentRow ==
  [pid : Seq(Tokens), mode : Modes, assessors : PartialList(PluginIds \ {Offline}),
   cached : BOOLEAN, completed_at : BOOLEAN,
   status : {"queued", "running", "completed", "completed_with_errors"}]

ASSUME NullAssumption == Null \notin AssessmentRow

RawRows ==
  [row : Jobs \X {"store", "fail", "except"}, assessment_id : Ids,
   doi : Seq(Tokens), mode : Modes, assessor : PluginIds \ {Offline},
   raw : Payloads, timestamp : Nat]

HarmonizedRows ==
  [row : Jobs, assessment_id : Ids, doi : Seq(Tokens), mode : Modes,
   assessor : PluginIds \ {Offline}, norm : Jobs]

JobStates ==
  [pc : {"idle", "lookup", "match", "assess", "store", "fail", "except",
         "completed", "failed", "lost"},
   src : Ids \cup {Null}, raw : Payloads \cup {Null}, norm : Jobs \cup {Null},
   ts : Nat]

HandlerStates == {"idle", "rejected", "offline", "insert", "spawn", "queued",
                  "completed", "error"}

\* The shape of the state.  The record of an assessment never lists the
\* offline assessor, whose results are not stored.
TypeOK ==
  /\ handler \in [Ids -> HandlerStates]
  /\ request \in [Ids -> Requests \cup {Null}]
  /\ assessment \in [Ids -> AssessmentRow \cup {Null}]
  /\ raw \subseteq RawRows
  /\ harmonized \subseteq HarmonizedRows
  /\ clock \in Nat
  /\ task \in [Ids -> {"none", "load", "gather", "ended", "lost"}]
  /\ job \in [Jobs -> JobStates]

----------------------------------------------------------------------------
\* What a client may rely on.

Known(a) == assessment[a] # Null

Terminal(a) ==
  Known(a) /\ assessment[a].status \in {"completed", "completed_with_errors"}

RawOf(a) == {row \in raw : row.assessment_id = a}
HarmonizedOf(a) == {row \in harmonized : row.assessment_id = a}

\* The answer for place i of a is stored: a normalised and a raw row.
Answered(a, i) ==
  /\ \E h \in harmonized : h.row = <<a, i>>
  /\ \E r \in raw : r.row = <<<<a, i>>, "store">>

\* An id handed to a client can be read back at once, and the task never finds
\* its record missing: create_assessment awaits the insert before it spawns
\* run_assessment and answers.
AnsweredIsStored ==
  \A a \in Ids : (handler[a] = "queued" \/ task[a] # "none") => Known(a)

\* No row is visible under an assessment that still says "queued":
\* run_assessment commits "running" before it calls an assessor.
StatusNeverLags ==
  \A a \in Ids : (Known(a) /\ assessment[a].status = "queued") =>
                    RawOf(a) = {} /\ HarmonizedOf(a) = {}

\* "completed" is said only when every assessor of the list has its answer
\* stored, raw and normalised, whatever fails on the way.
CompletedIsComplete ==
  \A a \in Ids :
    (Known(a) /\ assessment[a].status = "completed") =>
      \A i \in DOMAIN assessment[a].assessors : Answered(a, i)

\* While storing works, each assessor of a finished assessment has left either
\* an answer or the raw row of its failure, never both, and the status says
\* which: what the tests of assessor failures expect of the raw endpoint.
ReportAddsUp ==
  \A a \in Ids : Terminal(a) =>
    LET failed == {r.row[1][2] : r \in {x \in RawOf(a) : x.row[2] # "store"}}
        listed == DOMAIN assessment[a].assessors
    IN /\ \A i \in listed : (i \in failed) # Answered(a, i)
       /\ (assessment[a].status = "completed") = (failed = {})

SameQuestion(a, i, b, k) ==
  /\ assessment[a].pid = assessment[b].pid
  /\ assessment[a].mode = assessment[b].mode
  /\ assessment[a].assessors[i] = assessment[b].assessors[k]

\* A stored answer, copied from the cache however often, was given by the same
\* assessor to the same pid in the same mode; without "cached" in the request
\* it is the request's own.
Provenance ==
  \A h \in harmonized :
    LET a == h.row[1]
        i == h.row[2]
    IN /\ SameQuestion(a, i, h.norm[1], h.norm[2])
       /\ ~ assessment[a].cached => h.norm = h.row

\* The raw and the normalised row of an answer tell the same answer, although
\* the cache reads them in two statements between which others commit.  (A
\* lost acknowledgement, or an assessor named twice, can break this.)
RawMatchesNormalised ==
  \A h \in harmonized : \E r \in raw : /\ r.row = <<h.row, "store">>
                                     /\ r.raw = h.norm

\* What a finished assessment shows never changes again: no late answer, no
\* failure row after the fact, no second end.
FrozenWhenTerminal ==
  [][\A a \in Ids : Terminal(a) =>
        /\ assessment'[a] = assessment[a]
        /\ {row \in raw' : row.assessment_id = a} = RawOf(a)
        /\ {row \in harmonized' : row.assessment_id = a} = HarmonizedOf(a)]_vars

\* An attempt to store is not repeated, and a job leaves a second raw row only
\* when the acknowledgement of the first was lost: then run_assessor went on to
\* its except clause and stored a failure, with a later timestamp, beside the
\* answer or the failure that was there.  An answer and a reported failure never
\* meet, nor does a failure stand under an assessment that is "completed".
StoredAgainOnlyWhenUnclear ==
  /\ \A x, y \in raw : (x.row[1] = y.row[1] /\ x # y) =>
       /\ "lost_ack" \in Faults
       /\ x.row[2] # y.row[2]
       /\ "except" \in {x.row[2], y.row[2]}
       /\ x.row[2] = "except" => y.timestamp < x.timestamp
  /\ \A r \in raw :
       r.row[2] # "store" => assessment[r.assessment_id].status # "completed"

\* Each assessor has at most one raw and one normalised row per assessment, as
\* get_result_for_assessor takes for granted (scalar_one_or_none).
OneRowPerAssessor ==
  \A a \in Ids :
    /\ \A x, y \in RawOf(a) : x.assessor = y.assessor => x = y
    /\ \A x, y \in HarmonizedOf(a) : x.assessor = y.assessor => x = y

\* A queued assessment ends, whatever its assessors and their rows meet, unless
\* its task is lost: the process stopped, or one of the task's own two
\* transactions failed, after which the code does not try again.
QueuedTerminates ==
  \A a \in Ids : (handler[a] = "queued") ~> (Terminal(a) \/ task[a] = "lost")

----------------------------------------------------------------------------
\* The inductive invariant: what handler, task and jobs of one assessment know
\* of each other.

Active == {"lookup", "match", "assess", "store", "fail", "except"}

HandlerInv(a) ==
  /\ handler[a] \in {"offline", "insert", "spawn"} =>
       request[a] \in Requests /\ Accepted(request[a])
  /\ handler[a] \in {"insert", "spawn"} => DOMAIN Online(request[a]) # {}
  /\ handler[a] \in {"idle", "rejected", "offline", "insert", "completed"} => ~ Known(a)
  /\ handler[a] \in {"spawn", "queued"} => Known(a)
  /\ handler[a] # "queued" => task[a] = "none"

TaskInv(a) ==
  /\ task[a] # "none" => Known(a)
  /\ (Known(a) /\ task[a] \in {"none", "load"}) => assessment[a].status = "queued"
  /\ task[a] = "gather" => /\ assessment[a].status = "running"
                           /\ \A j \in JobsOf(a) :
                                job[j].pc \in Active \cup {"completed", "failed"}
  /\ Terminal(a) => /\ task[a] \in {"ended", "lost"}
                    /\ \A j \in JobsOf(a) : job[j].pc \in {"completed", "failed"}
  /\ (Known(a) /\ assessment[a].status = "completed") =>
       \A i \in DOMAIN assessment[a].assessors : Answered(a, i)

JobInv(j) ==
  /\ job[j].pc # "idle" => /\ Known(j[1])
                           /\ j[2] \in DOMAIN assessment[j[1]].assessors
                           /\ assessment[j[1]].status # "queued"
  /\ job[j].pc \in Active => task[j[1]] = "gather"
  /\ job[j].pc \in {"match", "store"} => job[j].raw \in Payloads
  /\ job[j].pc = "match" => job[j].src \in Ids
  /\ job[j].pc = "store" => job[j].norm \in Jobs
  /\ job[j].pc = "completed" => Answered(j[1], j[2])

RowInv(row) ==
  /\ Known(row.assessment_id)
  /\ assessment[row.assessment_id].status # "queued"

\* The invariant the proofs are about: it implies AnsweredIsStored,
\* StatusNeverLags and CompletedIsComplete, which run_assessment keeps only
\* because of the order of its commits.
IInv ==
  /\ TypeOK
  /\ \A a \in Ids : HandlerInv(a) /\ TaskInv(a)
  /\ \A j \in Jobs : JobInv(j)
  /\ \A row \in raw \cup harmonized : RowInv(row)

----------------------------------------------------------------------------
\* The promise to the clients, as an abstract specification.
Contract == INSTANCE AssessmentContract WITH
  Places <- Positions,
  Unclear <- "lost_ack" \in Faults,
  status <- [a \in Ids |-> IF Known(a) THEN assessment[a].status ELSE "absent"],
  wanted <- [a \in Ids |-> IF Known(a) THEN DOMAIN assessment[a].assessors ELSE {}],
  answered <- [a \in Ids |-> {h.row[2] : h \in HarmonizedOf(a)}]

ContractSpec == Contract!Spec
=============================================================================
