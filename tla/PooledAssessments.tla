------------------------- MODULE PooledAssessments -------------------------
(***************************************************************************)
(* Assessments over the connection pool of the engine in db.py.  A session  *)
(* takes a connection at its first statement and gives it back when its     *)
(* "async with" ends; when none is free the coroutine waits.  The pool's    *)
(* own time limit for that wait is left out: nothing here needs it.         *)
(* The requests that only read are left out as well; they hold one          *)
(* connection and wait for nobody.                                          *)
(***************************************************************************)
EXTENDS Assessments, FiniteSets

CONSTANT PoolSize  \* pool_size and max_overflow together

ASSUME PoolAssumption == PoolSize \in Nat \ {0}

VARIABLE holding  \* the coroutines that have a connection

pooledVars == <<vars, holding>>

HandlerOf(a) == <<"handler", a>>
TaskOf(a) == <<"task", a>>
JobOf(j) == <<"job", j>>

Coroutines ==
  {HandlerOf(a) : a \in Ids} \cup {TaskOf(a) : a \in Ids} \cup {JobOf(j) : j \in Jobs}

\* The coroutines that are about to open a session, or are in one.
HandlerInSession(a) == handler[a] = "insert"
TaskInSession(a) == task[a] = "load" \/ (task[a] = "gather" /\ Gathered(a))
JobInSession(j) == job[j].pc \in {"lookup", "match", "store", "fail", "except"}

InSession(x) ==
  \/ \E a \in Ids : x = HandlerOf(a) /\ HandlerInSession(a)
  \/ \E a \in Ids : x = TaskOf(a) /\ TaskInSession(a)
  \/ \E j \in Jobs : x = JobOf(j) /\ JobInSession(j)

----------------------------------------------------------------------------
PooledInit == Init /\ holding = {}

TakeConnection(x) ==
  /\ InSession(x)
  /\ x \notin holding
  /\ Cardinality(holding) < PoolSize
  /\ holding' = holding \cup {x}
  /\ UNCHANGED vars

GoesOn(x) == x \in holding /\ UNCHANGED holding
GivesBack(x) == x \in holding /\ holding' = holding \ {x}

InsertSession(a) == CreateAssessmentRecord(a) /\ GivesBack(HandlerOf(a))

\* Slip: the assessors are gathered inside the first session.
FirstSessionOpen(a) == LoadAssessment(a) /\ GoesOn(TaskOf(a))

\* The first session of run_assessment ends before the gather.
FirstSession(a) == LoadAssessment(a) /\ GivesBack(TaskOf(a))

LastSession(a) == FinishAssessment(a) /\ GivesBack(TaskOf(a))

\* Slip: a miss leaves the session of the look-up open.
LookupSessionKept(j) ==
  \/ SelectRaw(j) /\ GoesOn(JobOf(j))
  \/ SelectHarmonized(j) /\ IF job'[j].pc = "assess" THEN GoesOn(JobOf(j))
                            ELSE GivesBack(JobOf(j))
  \/ LookupFails(j) /\ GivesBack(JobOf(j))

\* get_assessment_result returns from inside its session, at a miss as well.
LookupSession(j) ==
  \/ SelectRaw(j) /\ IF job'[j].pc = "match" THEN GoesOn(JobOf(j))
                     ELSE GivesBack(JobOf(j))
  \/ SelectHarmonized(j) /\ GivesBack(JobOf(j))
  \/ LookupFails(j) /\ GivesBack(JobOf(j))

StoreSession(j) ==
  \/ BeginStore(j) /\ GoesOn(JobOf(j))
  \/ (StoreResult(j) \/ StoreFailure(j) \/ StoreException(j)) /\ GivesBack(JobOf(j))

PooledCrash == Crash /\ holding' = {}

PooledHandlerStep(a) ==
  \/ (AssessOffline(a) \/ SpawnTask(a)) /\ UNCHANGED holding
  \/ InsertSession(a)

PooledTaskStep(a) == FirstSession(a) \/ LastSession(a)

PooledJobStep(j) ==
  \/ Assess(j) /\ UNCHANGED holding
  \/ LookupSession(j)
  \/ StoreSession(j)

PooledNext ==
  \/ \E a \in Ids : \/ \E r \in Requests : ReceiveRequest(a, r) /\ UNCHANGED holding
                    \/ PooledHandlerStep(a)
                    \/ PooledTaskStep(a)
  \/ \E j \in Jobs : PooledJobStep(j)
  \/ \E x \in Coroutines : TakeConnection(x)
  \/ PooledCrash

PooledSpec == PooledInit /\ [][PooledNext]_pooledVars

\* As in Assessments; and a connection that stays free is given to a coroutine
\* that waits for one.
PooledFairness ==
  /\ \A a \in Ids : WF_pooledVars(PooledHandlerStep(a)) /\ WF_pooledVars(PooledTaskStep(a))
  /\ \A j \in Jobs : WF_pooledVars(PooledJobStep(j))
  /\ \A x \in Coroutines : WF_pooledVars(TakeConnection(x))

PooledFairSpec == PooledSpec /\ PooledFairness

----------------------------------------------------------------------------
\* A connection is held by a coroutine whose next step is a statement or a
\* commit: never while an assessor is asked, which may take minutes, never by a
\* task that waits for its assessors, and by nobody who has ended.  However
\* small the pool, no one who holds a connection waits for one who wants one.
NobodyHoldsAndWaits == \A x \in holding : InSession(x)
=============================================================================
