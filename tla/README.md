# Formal models of the FAIR assessment proxy

TLA+ modules for `fair-assessment-proxy`, a FastAPI service that asks FAIR
assessors (F-UJI, FAIR Champion, and a local offline assessor) about a data set,
keeps what they answer in PostgreSQL, and reports it as a grid of FAIR
principles. Paths below are relative to `src/src/fair_assessment_proxy/` unless
they say otherwise.

## The system

| Component | State it keeps | Operations | What is hard |
|---|---|---|---|
| Assessment lifecycle (`api/assessments.py` 1-447, `models.py`) | tables `assessments`, `raw_assessments`, `harmonized_assessments`; one asyncio task per assessment, one coroutine per assessor | `create_assessment`, `run_assessment`, `run_assessor`, `get_assessment_result` (the cache), `store_assessment_result`, `store_assessment_failure` | tasks interleave at every await; the process may stop; commits fail, or fail after they were applied |
| Assessment reads (`api/assessments.py` 450-753) | one session per request | `latest`, by id, results, result of an assessor, raw, listing | several statements with a snapshot each, beside tasks that commit |
| Metadata retrieval (`retrieval.py`, `api/retrieval.py`) | `RateLimiter.windows`, a semaphore | `GET /retrieve`: count, take a slot, look up, request, follow, read | time, windows, slots on error paths, DNS that changes its answer, silent hosts |
| Reporting (`reporting.py`) | none | `cells_for`, `combine`, `scores_for`, `serialize_result` | rules with an order; rounding; derived cells |
| Plugins (`plugins/fair_champion.py`, `plugins/fuji.py`) | none | `assess` (HTTP), `normalize`, `serialize_guidance` | aggregation of outcomes, defaults for what is missing, the same answer read in two ways at two times |
| Offline assessor (`offline.py`) | none | `assess_metadata` in a thread | answers inside the request, never stored; decides only part of the metrics |
| Database session (`db.py`) | the connections of the engine's pool | `async with` a session | as many connections as the pool has, more coroutines that want one |
| Tokens (`security.py`), loader and configuration, constant endpoints, wiring, `update_env_file_with_assessor_versions.py` | nonces, settings | | not modelled, see the end |

A POST inserts a record ("queued"), spawns a task and answers with the id. The
task commits "running", starts one coroutine per assessor, waits for all of them
and commits "completed" or "completed_with_errors". A coroutine may take its
answer from an earlier assessment with the same pid, mode and assessor
(`cached`), and stores a raw and a normalised row; a failure is stored as a raw
row only. The coroutines share nothing but the tables. Readers see the tables
while this goes on. What plugins normalise is stored in the columns that
`reporting.py` reads; a report takes its guidance from the raw rows again. All
sessions take their connections from one pool. Retrieval is apart from all this,
and hands documents to clients who may send them back as metadata.

## Modules

**`Assessments`** has one step for what a coroutine does between two awaits, or
for one statement or commit. `handler`, `task` and `job` are the places of
`create_assessment`, `run_assessment(id)` and `run_assessor` (one for each place
of the list); `assessment`, `raw` and `harmonized` are the tables; `clock` gives
out the transaction timestamps of `func.now()`.

| Action | Code |
|---|---|
| `ReceiveRequest` | `create_assessment` to its first await, all the 400s |
| `AssessOffline` | the call of the offline assessor |
| `CreateAssessmentRecord` | `create_assessment_record` |
| `SpawnTask` | `asyncio.create_task` and the answer "queued" |
| `LoadAssessment` (`StartRun`) | first session of `run_assessment`, start of the gather |
| `SelectRaw`, `SelectHarmonized`, `LookupFails` | the two statements of `get_assessment_result`, and their errors |
| `Assess` | the plugin's call: a result, status "failed", an exception |
| `BeginStore` | the transaction of a store function begins and has its timestamp |
| `StoreResult`, `StoreFailure`, `StoreException` | the three commits, the last in the except clause |
| `FinishAssessment` | end of the gather and the last session |
| `Crash` | the process stops; coroutines are gone, tables stay |

What an assessor answers is abstracted to the job `<<id, place>>` whose call was
answered. A row therefore tells where its contents come from through any number
of cached copies. Pids are sequences of tokens, so that `NormalizePid` really
removes one prefix. `Faults` selects what may go wrong: the process (`crash`),
the transactions of the handler and the task (`task_db`), those of the jobs
(`job_db`), and commits that are applied although they report an error
(`lost_ack`).

**`AssessmentContract`** is the promise without tables and tasks: an id is
accepted with the places to be answered, starts, gets answers one by one, and
ends once, "completed" exactly when all are there. `Assessments` implements it
through the refinement `Contract` (status and list of the record, answered =
places with a normalised row), checked as `ContractSpec`.

**`PooledAssessments`** puts the same coroutines on a pool of `PoolSize`
connections. A session takes one at its first statement (`TakeConnection`) and
gives it back where its `async with` ends: `InsertSession` in the handler,
`FirstSession` and `LastSession` in the task, `LookupSession` (which returns from
three places) and `StoreSession` in a job. A coroutine that finds none waits. The
pool's own limit of that wait, 30 seconds, is left out: no property needs it.
Readers are left out too, they hold one connection and wait for nobody.

**`AssessmentReads`** extends `Assessments` with clients: `Ask`, then
`ReadRecord`, `ReadHarmonized` and `ReadRaw` as the kind of request has them, or
`ReadList` for the listing. A session holds what was read; the status in an
answer is the one the first statement saw, since the object is not refreshed.
`created_at` is the time a transaction began (`BeginInsert`), so that records may
appear in another order than that of `created_at`. `held` is what the client
knew when it asked, `told` what it was told is completed.

**`Retrieval`** models `GET /retrieve`. Time is kept as ages that `Tick`
advances, so the state space is finite without a bound on time. `Count` is
`RateLimiter.check`; `Arrive` takes a slot without an await between look and
take; `Resolve`, `Follow`, `Respond` and `ReadBody` are the loop of `_follow`;
`Expire` is `asyncio.timeout`. `recent` and `contacted` are history variables.
A body that cannot be read is a 502, except where `json.loads` raises
`RecursionError`, which nobody converts. The limiter's window is fixed at its first
request and not a sliding one: within one period it lets through up to
`2 * Limit - 1` requests (`LessThanTwoWindows`), not the `Limit` that the repository's
README names (`AtMostLimitPerPeriod`).

**`Reports`** models the pure part as functions: `CombineOutcomes` and
`ChampionRow`, `OutcomeFromPercent` and `FujiRow`, then `CellsFor`, `Score`,
`Overall`, `Serialize` and the consensus. Inputs are all initial states; two
steps store and report. `Worst` is the reference definition of an aggregate.
`Sums` has the sum of a function over a finite set, for scores, points and the
requests of a window.

**`Guidance`** extends `Reports` with the raw answers: spellings of outcomes in
FAIR Champion's two forms, points and `test_status` of F-UJI's metrics. Cells and
entries are read from different places of an answer, and the model lets these differ
as the code does. In the older form a test has how its execution ended, what the search
for an outcome finds (`found`, for the cell) and its `prov:value` (`value`, for the
entry). `test_results` may be null, which `normalize` takes for the older form and
`guidance_for`, which asks for the key only, for an algorithm. A test may be one of a
parent cell. A metric of F-UJI may have no numeric score (`scored`), and is then shown
as its `test_status` says. They go
to the cells when an answer arrives (`NormalizeAnswers`: `ParseOutcome`,
`CellPercent`) and to the guidance when a report is read
(`GetResultsWithGuidance`: `ChampionGuidance`, `OutcomeOf`), by other rules.
`AssessMetadata` is the offline assessor, from the same points where LOAF can
decide them.

`MCAssessments`, `MCPooledAssessments`, `MCAssessmentReads`, `MCRetrieval`,
`MCReports` and `MCGuidance` instantiate them; the modules named `..._proofs`
hold the theorems. A definition with the comment
"Slip:" stands before the one it varies. It is a plausible mistake in that
piece of code which one of the properties finds, kept to show that the property
can fail; no specification uses it.

## Runs

| Run | Question | Size |
|---|---|---|
| `assessments_faults` | Under every fault: answered ids are stored, the status never lags, completed is complete, an end is final, which second rows there may be, the contract | 940 000 states |
| `assessments_exact` | While rows can be stored, with crashes and failing task transactions: one answer or one failure for each assessor, raw and normalised rows agree, `IInv` | 300 000 |
| `assessments_keys` | Where answers come from through chains of copies, with keys that differ little | 120 000 |
| `pooled_live` | With every fault and one connection for all, no one who holds it waits, and a queued assessment ends unless its task is lost | 65 000 |
| `reads_safety` | What a client sees between the commits: whole reports, the latest, the list | 580 000 |
| `reads_repeated` | violation, see below | |
| `retrieval_slots` | Slots, window, addresses, redirects, and that every retrieval ends | 78 000 |
| `retrieval_window` | violation, see below | |
| `retrieval_answers` | violation, see below | |
| `reports_grid` | Outcomes, cells, scores, consensus | 560 000 |
| `guidance_grid` | Cells and guidance of the same answers, and the offline assessor beside F-UJI | 221 000 |
| `reports_errors` | violation, see below | |

**Bounds.** `MaxJobs` (a constraint on what is asked in all) and the set of ids
bound the assessments. Two assessments with two assessors each, or three with
one, hold the smallest cases of what can interfere: two jobs of one assessment
around one gather; a reader of the cache between the two commits of a writer; a
copy of a copy (three ids). Requests are a few bodies with all the ways to be
refused, a second spelling, and a pid with two prefixes. Ids are symmetric in
the safety runs and not in the liveness runs. In `Retrieval`, `Limit` is 2,
`Period` 3 (long enough for the end of one window and the start of the next),
`Timeout` 2, two slots for three handlers, and two redirects; ages are capped at
`Period`, where a window has expired. One client suffices: clients share nothing but
the slots, which are the handlers'. `Reports` takes a principle with a derived
cell and one with a single cell, nine sets of outcomes of tests so that each rule
of `combine_outcomes` decides one, and the percentages that matter. Scores are
in tenths; Python's rounding of exact halves is not modelled. `PoolSize` is 1, the
size at which waiting is worst, with two assessments and two assessors in all.
`Guidance` has two tests of one cell, a test without a cell and one of a parent
cell; two metrics in one cell, one without points, and a metric of a parent cell;
the `test_status` takes all three values and one that is none of them. The
metrics of one cell vary at a time, and FAIR Champion's answer apart from them, since
the two services meet only in the consensus, for which `reports_grid` varies both.
`EvidenceAssumption` is about types, but for two things: in the older form, where the cell
is read from the name of a test, none is of a derived cell, and a cell has
fewer than 200 points in all, so that a whole percentage is 0 or 100 only when it is
exact. `reads_safety` has requests of one mode, and filters
its lists by one thing at a time (`OneFilter`); that a list misses nothing of
the mode it asks for is in the theorem `ListsAreWhole`.
`GridAssumption` bounds the grid: the cells of a principle times one more than the
number of principles are fewer than 1000 (in the code 4 times 5), so that a single
cell is not lost when a score in tenths is averaged and rounded again.

**Deadlock** is not checked in the assessment runs, where every request of the
small set may have been answered, nor in the report runs, which end with the
report. It is checked in the retrieval runs.

**Fairness.** `PooledAssessments!PooledFairness` is weak fairness of each handler,
task and job, and of each coroutine that waits for a connection: the event loop
runs every coroutine that is ready, PostgreSQL answers, a connection that stays
free is given to one who waits, and the plugins' clients give up on a service
that is silent for 180 seconds (`plugins/fair_champion.py:360`,
`plugins/fuji.py:148`; the timeout is one of each read, so a service that never
stops sending is assumed away). The run has every fault. What `QueuedTerminates`
excepts is in its statement: after a crash, or an error in one of the task's own
two transactions, an assessment does stay queued or running for ever, since
nothing retries or scans for it at start-up. The theorem `StepsAreProgress` is the safety half
of this: every step, also one that fails, uses up some of the bounded number of
steps its coroutine has, so that no loop of errors can take the place of an end. It
does not say that nothing is tried twice: after a failed store of a failure the except
clause stores it once more.
`Retrieval!FairSpec` assumes only
that the clock runs and that timers that went off are served, nothing of DNS and
other hosts.

**Limits that the runs name.** `RawMatchesNormalised`, `ReportAddsUp` and
`OneRowPerAssessor` are claimed while storing rows works. After a lost
acknowledgement a failure row stands beside the result, and a later look-up may
pair the failure's raw row with that result. `CompletedIsComplete`, `FrozenWhenTerminal`
and the contract hold even then, and `StoredAgainOnlyWhenUnclear` says which second
rows there may be: a failure of the except clause, later than what was stored before,
and never under "completed". `ListHasHeldIds` is about the spelling of a
request: a pid with two prefixes is not listed under the one its own record
shows, which is normalised once more.

`NoContradiction` and `NotPassedIsExplained` are claimed where entry and cell are read
from evidence that agrees (`SameEvidence`), and of cells that are not derived. The code
does show a "pass" beside a failed cell, or a failure beside a pass, when the evidence
does not:
- a metric of F-UJI without a numeric score is shown as `test_status` says
  (`plugins/fuji.py:29-35`), while its cell comes from the percentage; so is one that
  F-UJI calls "fail" although it earned points, or had none to earn;
- a test in the older form whose `prov:value` is not what the search for an outcome
  finds, or one that failed and has a `prov:value` all the same
  (`plugins/fair_champion.py:258-261`);
- a FAIR Champion test of a parent cell, which is listed beside a cell it does not
  count in.

With `test_results: null` the cells come from the older form and the entries, which have
no outcome, from the list of the algorithm; then only `NotPassedIsExplained` is not
claimed. Each of these is in the model and in the run; without its exception the run
finds a violation. No document of the repository promises the agreement, so none of
them is listed as a violation.

**Violations.**
- `reads_repeated`: a list that names an assessor twice leaves two rows, and
  `get_result_for_assessor`, which asserts that there is one at most
  (`scalar_one_or_none`, `api/assessments.py:593` and `:608`), raises.
- `retrieval_answers`: the repository's `README.md:94-96` names 400, 502 and 429;
  a redirect with no or an unparsable `Location`, or a host name that cannot be
  encoded, is answered with 500; so is a body nested too deeply for `json.loads`.
- `retrieval_window`: the repository's `README.md:98` says that a client can make 10
  requests per minute. A client that makes one, nine more at the end of that minute and
  ten right after it gets 19 through within a minute, since the window starts anew.
- `reports_errors`: the docstring of `combine_outcomes` says error is for tests
  that all had one; an error among indeterminate outcomes gives error too.

## Proofs

The theorems hold for every set of ids, plugins, requests, clients and handlers,
every size of the pool and every number of slots, and, unless an assumption is
named, for every choice of faults. They use the named assumptions of the modules:
`ConstantsAssumption` (the lists have their places in `Positions`; `Null` and
`Failure` are no ids, jobs or answers; finite sets where something is counted),
`NullAssumption` and `ReadAssumption` (`Null` is no record, no kind of question and
no status), `PoolAssumption` (a pool has a connection), and for the reports
`GridAssumption` and `EvidenceAssumption` (see the bounds). Every invariant and
every action property of the runs that pass is stated by a theorem.

**`Assessments_proofs`**: `InductiveInvariant` (`Spec => []IInv`); `TypeCorrect`,
`RecordsPrecedeAnswers`, `StatusPrecedesRows` and `CompletionIsComplete` follow
from it; `EndIsFinal` (`FrozenWhenTerminal`) and `StepsAreProgress` (every step moves a
handler, a task or a job on and none back, to places that have no cycle) use it. `CompletedIsComplete` is not
inductive: that the last commit says "completed" truly depends on where the jobs
are, that depends on the task that waits for them, and that on the status of the
record. `IInv` says this in four parts: `HandlerInv` (a record exists exactly
from the commit of the insert, and a task only once the handler has answered),
`TaskInv` (task and status go together; a gather waits only for jobs that run or
have an answer; an ended assessment has no job at work), `JobInv` (a job belongs
to a gathering task; a completed job has its rows stored) and `RowInv` (rows
belong to a started record). The proof has a lemma for each action, and under
each a step for each part it can disturb; `EndIsFinal` uses that a job that
stores is active, hence its task gathers, hence its assessment has not ended.
`StepsAreProgress` looks at a step of a job through its place and its timestamp only
(`JobMove`); that a task which starts its jobs moves none of them back needs the
invariant: a record still says "queued" then, and under such a record all jobs are
idle.

**`AssessmentContract_proofs`**: `QuestionsAreKept` and `AnswersAreOwn`
(`Provenance`). `QuestionInv` follows an answer through the cache: a row carries
the pid, mode and assessor of its place, what a job holds between the two
statements is of the record it found, and what it is about to store answers its
own question; a record never changes its question. `ImplementsContract` (`Spec =>
ContractSpec`) shows that each step is seen as one of the contract or as none:
`AcceptSeen`, `StartSeen`, `AnswerSeen` and `FinishSeen`, and for the rest that
nothing is seen. An answer is seen once, because a stored place is that of a job
that is done (`StoredOnce`), unless an acknowledgement was lost, when the contract
allows it again.

**`AssessmentRows_proofs`**: `ReportsAddUp` (`ReportAddsUp`), assuming that storing
rows works (`"job_db" \notin Faults`); `RowsTellTheSame` (`RawMatchesNormalised`)
and `OneRowEach` (`OneRowPerAssessor`), assuming that no request names an
assessor twice (`NoRepeats`) and that a job's commit tells what it did
(`JobsTold`). `SecondRowsAreFailures`
(`StoredAgainOnlyWhenUnclear`) needs neither: `AttemptsInv` says of each job which of its
three attempts to store are behind it, that every raw row of the job is of one of these,
and that the attempt at work began later. `RowsInv` ties each row to its job and that job's end;
`FailuresInv` and `EndInv` tie failures to rows and to the status; `CopyInv` says
that the raw row found first and the normalised row found second are those of
one answer, because no other row of that assessor is in that assessment.

**`PooledAssessments_proofs`**: `PoolOnlyDelays` (`PooledSpec => Spec`, so that all
of the above holds with a pool) and `NobodyWaitsHolding` (`NobodyHoldsAndWaits`).

**`AssessmentReads_proofs`**: `ReadersOnlyRead` (`ReadSpec => Spec`),
`EndedReportsAreWhole` and `EndedRawListsAreWhole`: `ReadInv` carries through a
session that the status it read as ended still is; from then on the rows are
frozen, so those read later are all. `LatestIsLatest` (`LatestIsNoOlder`) and
`HeldIdsAnswer` (`HeldIdsAreFound`): `ClientsInv` keeps what a client holds. Records
it was answered stay, with their pid and `created_at`; of the records of a pid
there is a newest (`NewestExists`); what it was told is completed is.
`ReadersFindOne` (`OneOrNone`) and `GuidanceIsOfTheRow` (`GuidanceFitsRow`) hold
under `NoRepeats` and `JobsTold`; `ShownInv` keeps where the rows of a session come
from. `ListsAreWhole` (`ListHasHeldIds`): the inserts that began are finitely many and
have different times, hence a list in the order of `created_at` exists
(`RankExists`) and has every record the query finds; `ListingInv` keeps
it as it was told while later records appear. `ReadsAreTyped` (`ReadTypeOK`) assumes
finitely many ids, as uuid4 values are; without it there would be no bound on
`created_at`.

**`Sums_proofs`**: what the sum over a finite set is when an element is added, how it
grows with the set and with the function, when it is zero and what bounds it. The
library's induction theorems are of no use here (see below), so each lemma takes
a smallest set for which it fails (`SmallestSet`, from `LeastNumber`) and finds a
smaller one.

**`Retrieval_proofs`**: `RetrievalIsTyped` (`TypeOK`), `NoSlotIsLost`
(`SlotsAddUp`), `PublicOnly` (`OnlyPublicContacted`), `WaitingSuffices`
(`RetryAfterSuffices`). `TypeOK` and `SlotsAddUp` are inductive together: a step
of a call that keeps running, or did not run, leaves the slots alone, and one
that starts or ends moves one. `WindowsAreLimited` (`LessThanTwoWindows`) relates
the window of a client to the history of its requests (`WindowFits`): those since
the window opened are at most its count, and those before it are what is left of the
window before, whose first request, and so at least one, is too old to be
counted.

**`Reports_proofs`**: `ConsensusTakesTheWorst`, `ParentsAreDerived`,
`ChampionIsStrict`, `CountsAreOnce`, `ColumnsAreFilled` (`NoNullColumn`) and
`RoundingIsHonest` (`ExtremesAreExact`), from an invariant that rows and report are
computed from what was measured (`RInv`), and from lemmas that `CombineOutcomes` and
`Combine` give what `Worst` defines, for every set of outcomes. The last is about
means of sums: under `GridAssumption` a score that is not 100 or 0 stays that far
from it that rounding twice does not reach it. Of `Guidance`:
`EntriesDoNotContradict` (`NoContradiction`), `FailuresAreExplained`
(`NotPassedIsExplained`), on the condition `SameEvidence`, and `OfflineAndFujiAgree`
(`OfflineAgreesWithFuji`), for all answers. `GInv` says that outcomes and percentages are those the
raw answers stand for; the lemmas follow both ways of an answer, to the cell
(`FujiCellShown`, `ChampionCellShown`, `OfflineCellShown`) and to the entries
(`FujiEntries`, `ChampionEntries`, `OfflineEntries`). `GuidanceKeepsReports`: what is
proved of reports holds of those with guidance.

**Only model-checked**: the two liveness properties, `QueuedTerminates` and
`EveryRetrievalEnds`, which need `ENABLED` and fairness, out of the prover's reach,
and the four violations. Induction over data is out of reach too, as the
library's theorems for it take an operator: where it was needed, for sums
and for ordering a finite set, a smallest counterexample does the same.

## Not modelled

- `update_assessment_status`, `get_db` and F-UJI's `_normalize`, which nothing calls.
- The wording of guidance, messages and errors, and fields that are only copied.
- How an outcome is found inside a nested answer of FAIR Champion: what each of the two
  searches of the older form finds is a value of its own.
- Answers with other JSON types than the plugins expect (a `test_results` that is a list,
  say): normalising them, or the report, raises.
- The size and media type of a retrieved body and the rules of which addresses
  are public: constants and a classification without state.
- LOAF and the assessor services: external, seen as a call that answers, reports
  a failure or raises.
- Tokens (`security.py`): they share no state with the rest, and what they must
  withstand is a matter of a security review.
- Loader and configuration (read once at start-up; their result is `Plugins`),
  endpoints that answer constants, the wiring of the application, and the
  deployment's `update_env_file_with_assessor_versions.py`.

## Plan

What is left: the readers as users of the pool in `PooledAssessments`, so that
`NobodyHoldsAndWaits` covers their connections too; the bound on the steps of an
assessment as a number (`StepsAreProgress` gives one for each coroutine; their sum
over the jobs is one of `Sums`); and the guidance beside the reads of
`AssessmentReads` in one model, if either gets state of its own.
