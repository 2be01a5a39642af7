---------------------- MODULE PooledAssessments_proofs ----------------------
(***************************************************************************)
(* Proofs about PooledAssessments: the pool only delays what Assessments    *)
(* does, and nobody waits while holding a connection, for every size of     *)
(* the pool.                                                                *)
(***************************************************************************)
EXTENDS PooledAssessments, Assessments_proofs

----------------------------------------------------------------------------
\* The pool delays and changes nothing else.

LEMMA PooledStepIsStep == [PooledNext]_pooledVars => [Next]_vars
<1>1. SUFFICES ASSUME [PooledNext]_pooledVars PROVE [Next]_vars
  OBVIOUS
<1>2. ASSUME NEW a \in Ids, NEW r \in Requests, ReceiveRequest(a, r) PROVE Next
  BY <1>2 DEF Next
<1>3. ASSUME NEW a \in Ids, PooledHandlerStep(a) PROVE Next
  BY <1>3 DEF PooledHandlerStep, InsertSession, HandlerStep, Next
<1>4. ASSUME NEW a \in Ids, PooledTaskStep(a) PROVE Next
  BY <1>4 DEF PooledTaskStep, FirstSession, LastSession, TaskStep, Next
<1>5. ASSUME NEW j \in Jobs, PooledJobStep(j) PROVE Next
  BY <1>5 DEF PooledJobStep, LookupSession, StoreSession, JobStep, Next
<1>6. ASSUME NEW x \in Coroutines, TakeConnection(x) PROVE UNCHANGED vars
  BY <1>6 DEF TakeConnection
<1>7. CASE PooledCrash
  BY <1>7 DEF PooledCrash, Next
<1>8. CASE UNCHANGED pooledVars
  BY <1>8 DEF pooledVars
<1>9. QED
  BY <1>1, <1>2, <1>3, <1>4, <1>5, <1>6, <1>7, <1>8 DEF PooledNext

\* Whatever the size of the pool, what the coroutines do is what they may do
\* with connections for everyone: all safety properties of Assessments hold.
THEOREM PoolOnlyDelays == PooledSpec => Spec
<1>1. PooledInit => Init
  BY DEF PooledInit
<1>2. QED
  BY <1>1, PooledStepIsStep, PTL DEF PooledSpec, Spec

----------------------------------------------------------------------------
\* Who holds a connection keeps its place in a session while others move.

LEMMA HolderKinds ==
  /\ \A a \in Ids : InSession(HandlerOf(a)) => HandlerInSession(a)
  /\ \A a \in Ids : InSession(TaskOf(a)) => TaskInSession(a)
  /\ \A j \in Jobs : InSession(JobOf(j)) => JobInSession(j)
<1>1. \A x, y : HandlerOf(x) # TaskOf(y) /\ HandlerOf(x) # JobOf(y) /\ TaskOf(x) # JobOf(y)
  BY DEF HandlerOf, TaskOf, JobOf
<1>2. \A x, y : /\ HandlerOf(x) = HandlerOf(y) => x = y
                /\ TaskOf(x) = TaskOf(y) => x = y
                /\ JobOf(x) = JobOf(y) => x = y
  BY DEF HandlerOf, TaskOf, JobOf
<1>3. ASSUME NEW a \in Ids, InSession(HandlerOf(a)) PROVE HandlerInSession(a)
  <2>1. PICK b \in Ids : HandlerOf(a) = HandlerOf(b) /\ HandlerInSession(b)
    BY <1>1, <1>3 DEF InSession
  <2>2. QED
    BY <1>2, <2>1
<1>4. ASSUME NEW a \in Ids, InSession(TaskOf(a)) PROVE TaskInSession(a)
  <2>1. PICK b \in Ids : TaskOf(a) = TaskOf(b) /\ TaskInSession(b)
    BY <1>1, <1>4 DEF InSession
  <2>2. QED
    BY <1>2, <2>1
<1>5. ASSUME NEW j \in Jobs, InSession(JobOf(j)) PROVE JobInSession(j)
  <2>1. PICK k \in Jobs : JobOf(j) = JobOf(k) /\ JobInSession(k)
    BY <1>1, <1>5 DEF InSession
  <2>2. QED
    BY <1>2, <2>1
<1>6. QED
  BY <1>3, <1>4, <1>5

\* A step moves those in M only; the others in a session stay in it.
LEMMA OthersStay ==
  ASSUME NobodyHoldsAndWaits, NEW M, holding' \subseteq holding \cup M,
         \A a \in Ids : (HandlerOf(a) \in holding \ M /\ HandlerInSession(a))
                           => HandlerInSession(a)',
         \A a \in Ids : (TaskOf(a) \in holding \ M /\ TaskInSession(a))
                           => TaskInSession(a)',
         \A j \in Jobs : (JobOf(j) \in holding \ M /\ JobInSession(j))
                           => JobInSession(j)',
         \A x \in M \cap holding' : InSession(x)'
  PROVE  NobodyHoldsAndWaits'
<1>1. SUFFICES ASSUME NEW x \in holding', x \notin M PROVE InSession(x)'
  BY DEF NobodyHoldsAndWaits
<1>2. x \in holding \ M /\ InSession(x)
  BY <1>1 DEF NobodyHoldsAndWaits
<1>3. QED
  BY <1>2 DEF InSession

\* A step of a job: the other coroutines do not notice.
LEMMA JobMoves ==
  ASSUME IInv, NobodyHoldsAndWaits, NEW j \in Jobs, job[j].pc \in Active,
         \A k \in Jobs \ {j} : job'[k] = job[k],
         UNCHANGED <<handler, assessment, task>>,
         holding' \subseteq holding,
         JobOf(j) \in holding' => JobInSession(j)'
  PROVE  NobodyHoldsAndWaits'
<1>1. \A a \in Ids : HandlerInSession(a) => HandlerInSession(a)'
  BY DEF HandlerInSession
<1>2. ASSUME NEW a \in Ids, TaskInSession(a) PROVE TaskInSession(a)'
  <2>1. CASE task[a] = "load"
    BY <2>1 DEF TaskInSession
  <2>2. CASE task[a] = "gather" /\ Gathered(a)
    <3>1. JobsOf(a) \subseteq Jobs
      BY <2>2, JobsOfKnown DEF IInv, TypeOK, TaskInv, Known
    <3>2. j \notin JobsOf(a)
      BY <2>2 DEF Gathered, Active
    <3>3. Gathered(a)'
      BY <2>2, <3>1, <3>2 DEF Gathered, JobsOf
    <3>4. QED
      BY <2>2, <3>3 DEF TaskInSession
  <2>3. QED
    BY <1>2, <2>1, <2>2 DEF TaskInSession
<1>3. \A k \in Jobs \ {j} : JobInSession(k) => JobInSession(k)'
  BY DEF JobInSession
<1>4. \A x \in {JobOf(j)} \cap holding' : InSession(x)'
  BY DEF InSession
<1>5. \A k \in Jobs : JobOf(k) \in holding \ {JobOf(j)} => k # j
  OBVIOUS
<1> DEFINE M == {JobOf(j)}
<1>6. QED
  BY <1>1, <1>2, <1>3, <1>4, <1>5, OthersStay

LEMMA JobStepKeeps ==
  ASSUME IInv, NobodyHoldsAndWaits, NEW j \in Jobs, PooledJobStep(j)
  PROVE  NobodyHoldsAndWaits'
<1>1. job[j] \in JobStates /\ job \in [Jobs -> JobStates]
  BY DEF IInv, TypeOK
<1>2. CASE Assess(j) /\ UNCHANGED holding
  <2>1. JobOf(j) \notin holding
    BY <1>2, HolderKinds DEF NobodyHoldsAndWaits, Assess, JobInSession
  <2>2. QED
    BY <1>1, <1>2, <2>1, JobMoves DEF Assess, Active, tables
<1>3. CASE LookupSession(j)
  <2>1. /\ job[j].pc \in Active
        /\ \A k \in Jobs \ {j} : job'[k] = job[k]
        /\ UNCHANGED <<handler, assessment, task>>
    BY <1>1, <1>3 DEF LookupSession, SelectRaw, SelectHarmonized, LookupFails, Active, tables
  <2>2. holding' \subseteq holding
    BY <1>3 DEF LookupSession, GoesOn, GivesBack
  <2>3. JobOf(j) \in holding' => JobInSession(j)'
    BY <1>3 DEF LookupSession, GoesOn, GivesBack, JobInSession
  <2>4. QED
    BY <2>1, <2>2, <2>3, JobMoves
<1>4. CASE StoreSession(j)
  <2>1. /\ job[j].pc \in Active
        /\ \A k \in Jobs \ {j} : job'[k] = job[k]
        /\ UNCHANGED <<handler, assessment, task>>
    BY <1>1, <1>4
       DEF StoreSession, BeginStore, StoreResult, StoreFailure, StoreException, Active, tables
  <2>2. holding' \subseteq holding
    BY <1>4 DEF StoreSession, GoesOn, GivesBack
  <2>3. CASE BeginStore(j)
    <3>1. job'[j].pc = job[j].pc
      BY <1>1, <2>3 DEF BeginStore, JobStates
    <3>2. JobInSession(j)'
      BY <2>3, <3>1 DEF BeginStore, JobInSession
    <3>3. QED
      BY <2>1, <2>2, <3>2, JobMoves
  <2>4. CASE JobOf(j) \notin holding'
    BY <2>1, <2>2, <2>4, JobMoves
  <2>5. QED
    BY <1>4, <2>3, <2>4 DEF StoreSession, GivesBack
<1>5. QED
  BY <1>2, <1>3, <1>4 DEF PooledJobStep

\* The actions of the handler: no task of the id is at work yet.
LEMMA HandlerMoves ==
  ASSUME IInv, NobodyHoldsAndWaits, NEW a \in Ids, task[a] = "none",
         \A b \in Ids \ {a} : /\ handler'[b] = handler[b] /\ task'[b] = task[b]
                              /\ assessment'[b] = assessment[b],
         UNCHANGED job,
         holding' \subseteq holding,
         HandlerOf(a) \notin holding'
  PROVE  NobodyHoldsAndWaits'
<1>1. \A b \in Ids \ {a} : HandlerInSession(b) => HandlerInSession(b)'
  BY DEF HandlerInSession
<1>2. \A b \in Ids : TaskInSession(b) => b # a
  BY DEF TaskInSession
<1>3. \A b \in Ids \ {a} : TaskInSession(b) => TaskInSession(b)'
  BY DEF TaskInSession, Gathered, JobsOf
<1>4. \A k \in Jobs : JobInSession(k) => JobInSession(k)'
  BY DEF JobInSession
<1>5. \A b \in Ids : HandlerOf(b) \in holding \ {HandlerOf(a)} => b # a
  OBVIOUS
<1> DEFINE M == {HandlerOf(a)}
<1>6. QED
  BY <1>1, <1>2, <1>3, <1>4, <1>5, OthersStay

LEMMA HandlerStepKeeps ==
  ASSUME IInv, NobodyHoldsAndWaits, NEW a \in Ids,
         \/ \E r \in Requests : ReceiveRequest(a, r) /\ UNCHANGED holding
         \/ PooledHandlerStep(a)
  PROVE  NobodyHoldsAndWaits'
<1>1. TypeOK /\ HandlerInv(a)
  BY DEF IInv
<1>2. \A b \in Ids \ {a} : /\ handler'[b] = handler[b] /\ task'[b] = task[b]
                           /\ assessment'[b] = assessment[b]
  BY <1>1 DEF TypeOK, ReceiveRequest, PooledHandlerStep, InsertSession, AssessOffline,
              SpawnTask, CreateAssessmentRecord, tables
<1>3. handler[a] # "queued" /\ UNCHANGED job
  BY DEF ReceiveRequest, PooledHandlerStep, InsertSession, AssessOffline, SpawnTask,
         CreateAssessmentRecord
<1>4. task[a] = "none"
  BY <1>1, <1>3 DEF HandlerInv
<1>5. holding' \subseteq holding
  BY DEF PooledHandlerStep, InsertSession, GivesBack
<1>6. HandlerOf(a) \notin holding'
  <2>1. CASE InsertSession(a)
    BY <2>1 DEF InsertSession, GivesBack
  <2>2. CASE handler[a] # "insert" /\ UNCHANGED holding
    BY <2>2, HolderKinds DEF NobodyHoldsAndWaits, HandlerInSession
  <2>3. QED
    BY <2>1, <2>2 DEF ReceiveRequest, PooledHandlerStep, AssessOffline, SpawnTask
<1>7. QED
  BY <1>2, <1>3, <1>4, <1>5, <1>6, HandlerMoves

\* The two sessions of a task: its jobs are not at work.
LEMMA TaskStepKeeps ==
  ASSUME IInv, NobodyHoldsAndWaits, NEW a \in Ids, PooledTaskStep(a)
  PROVE  NobodyHoldsAndWaits'
<1>1. TypeOK /\ TaskInv(a)
  BY DEF IInv
<1>2. LoadAssessment(a) \/ FinishAssessment(a)
  BY DEF PooledTaskStep, FirstSession, LastSession
<1>3. holding' \subseteq holding /\ TaskOf(a) \notin holding' /\ UNCHANGED handler
  BY DEF PooledTaskStep, FirstSession, LastSession, GivesBack, LoadAssessment,
         FinishAssessment
<1>4. \A b \in Ids \ {a} : task'[b] = task[b] /\ assessment'[b] = assessment[b]
  BY <1>1, <1>2 DEF TypeOK, LoadAssessment, StartRun, FinishAssessment
<1>5. \A k \in Jobs : k[1] # a => job'[k] = job[k]
  BY <1>1, <1>2 DEF TypeOK, LoadAssessment, StartRun, FinishAssessment
<1>6. \A b \in Ids : HandlerInSession(b) => HandlerInSession(b)'
  BY <1>3 DEF HandlerInSession
<1>7. ASSUME NEW b \in Ids \ {a}, TaskInSession(b) PROVE TaskInSession(b)'
  <2>1. CASE task[b] = "load"
    BY <1>4, <2>1 DEF TaskInSession
  <2>2. CASE task[b] = "gather" /\ Gathered(b)
    <3>1. JobsOf(b) \subseteq Jobs /\ \A k \in JobsOf(b) : k[1] = b
      BY <2>2, JobsOfKnown DEF IInv, TypeOK, TaskInv, Known, JobsOf
    <3>2. QED
      BY <1>4, <1>5, <2>2, <3>1 DEF TaskInSession, Gathered, JobsOf
  <2>3. QED
    BY <1>7, <2>1, <2>2 DEF TaskInSession
<1>8. ASSUME NEW k \in Jobs, JobInSession(k) PROVE JobInSession(k)'
  <2>1. job[k].pc \in Active
    BY <1>8 DEF JobInSession, Active
  <2>2. CASE k[1] # a
    BY <1>5, <1>8, <2>2 DEF JobInSession
  <2>3. CASE k[1] = a
    <3>1. task[a] = "gather"
      BY <2>1, <2>3, ActiveJob
    <3>2. FinishAssessment(a)
      BY <1>2, <3>1 DEF LoadAssessment
    <3>3. QED
      BY <1>8, <3>2 DEF FinishAssessment, JobInSession
  <2>4. QED
    BY <2>2, <2>3
<1>9. \A b \in Ids : TaskOf(b) \in holding \ {TaskOf(a)} => b # a
  OBVIOUS
<1> DEFINE M == {TaskOf(a)}
<1>10. QED
  BY <1>3, <1>6, <1>7, <1>8, <1>9, OthersStay

LEMMA PooledNextKeeps ==
  IInv /\ NobodyHoldsAndWaits /\ [PooledNext]_pooledVars => NobodyHoldsAndWaits'
<1>1. SUFFICES ASSUME IInv, NobodyHoldsAndWaits, [PooledNext]_pooledVars
               PROVE  NobodyHoldsAndWaits'
  OBVIOUS
<1>2. ASSUME NEW x \in Coroutines, TakeConnection(x) PROVE NobodyHoldsAndWaits'
  <2>1. \A y : InSession(y)' = InSession(y)
    BY <1>2 DEF TakeConnection, vars, InSession, HandlerInSession, TaskInSession,
                JobInSession, Gathered, JobsOf
  <2>2. QED
    BY <1>1, <1>2, <2>1 DEF TakeConnection, NobodyHoldsAndWaits
<1>3. CASE PooledCrash
  BY <1>3 DEF PooledCrash, NobodyHoldsAndWaits
<1>4. CASE UNCHANGED pooledVars
  BY <1>1, <1>4 DEF pooledVars, vars, NobodyHoldsAndWaits, InSession, HandlerInSession,
                    TaskInSession, JobInSession, Gathered, JobsOf
<1>5. QED
  BY <1>1, <1>2, <1>3, <1>4, HandlerStepKeeps, TaskStepKeeps, JobStepKeeps DEF PooledNext

\* Nobody holds a connection while it waits for an assessor, for its own
\* coroutines or for a connection, whatever the size of the pool: the waits for
\* the pool cannot form a circle.
THEOREM NobodyWaitsHolding == PooledSpec => []NobodyHoldsAndWaits
<1>1. PooledInit => NobodyHoldsAndWaits
  BY DEF PooledInit, NobodyHoldsAndWaits
<1>2. PooledSpec => []IInv
  BY PoolOnlyDelays, InductiveInvariant, PTL
<1>3. QED
  BY <1>1, <1>2, PooledNextKeeps, PTL DEF PooledSpec
=============================================================================
