-------------------------- MODULE AssessmentReads --------------------------
(***************************************************************************)
(* The clients that read an assessment while it runs: the GET handlers of   *)
(* api/assessments.py beside the handlers and tasks of Assessments.         *)
(*                                                                          *)
(* A handler reads in one session, statement by statement.  PostgreSQL      *)
(* gives each statement its own snapshot of what is committed, so other     *)
(* coroutines may commit between two of them; the status in the answer is   *)
(* the one the first statement saw.                                         *)
(***************************************************************************)
EXTENDS Assessments, FiniteSets

CONSTANT Clients

VARIABLES
  created,  \* the created_at of the record of an id, in order; 0 before it
  session,  \* what the GET handler of a client has read so far
  told      \* the ids a client was told are "completed"

readVars == <<created, session, told>>
allVars == <<vars, readVars>>

\* get_results, get_result_for_assessor, get_assessment_by_id,
\* get_latest_assessment, get_raw_assessment and get_assessments.
Kinds == {"results", "assessor", "by_id", "latest", "raw", "list"}
ByPid == {"latest", "list"}

ASSUME ReadAssumption ==
  Null \notin Kinds \cup {"queued", "running", "completed", "completed_with_errors"}

NoSession == [pc |-> "answered", kind |-> Null, id |-> Null, held |-> {},
              assessor |-> Null, mode |-> Null, status |-> Null,
              rows |-> {}, raws |-> {}, ids |-> <<>>]

Over(c) == session[c].pc \in {"answered", "not_found", "error"}

ReadInit ==
  /\ Init
  /\ created = [a \in Ids |-> 0]
  /\ session = [c \in Clients |-> NoSession]
  /\ told = [c \in Clients |-> {}]

----------------------------------------------------------------------------
\* created_at is the time at which the transaction of the insert began; the
\* record is visible once it is committed, so that records may appear in
\* another order than that of created_at.

Begun == {a \in Ids : created[a] # 0}

BeginInsert(a) ==
  /\ handler[a] = "insert"
  /\ created[a] = 0
  /\ created' = [created EXCEPT ![a] = Cardinality(Begun) + 1]
  /\ UNCHANGED <<vars, session, told>>

HandlerStepTimed(a) ==
  /\ handler[a] = "insert" => created[a] # 0
  /\ HandlerStep(a)
  /\ UNCHANGED readVars

----------------------------------------------------------------------------
\* A client asks about an id, or about the pid of a request as it was spelled
\* there; the ids it holds are those a POST has answered.
Ask(c, kind, a, assessor, mode) ==
  /\ Over(c)
  /\ kind \in ByPid => request[a] # Null
  /\ kind = "assessor" => assessor # Null
  /\ kind \notin {"assessor", "list"} => assessor = Null
  /\ kind # "list" => mode = Null
  /\ session' = [session EXCEPT ![c] =
       [NoSession EXCEPT !.pc = IF kind = "list" THEN "list" ELSE "record",
                         !.kind = kind, !.id = a,
                         !.held = {b \in Ids : handler[b] = "queued"},
                         !.assessor = assessor, !.mode = mode]]
  /\ UNCHANGED <<vars, created, told>>

\* Slip: the status is read again after the rows.
AnswerRefreshed(c, s) ==
  /\ session' = [session EXCEPT ![c] =
       [s EXCEPT !.pc = "answered",
                 !.status = IF @ = Null THEN @ ELSE assessment[s.id].status]]
  /\ UNCHANGED <<created, told>>

\* The answer is given with what was read; the client remembers a "completed".
Answer(c, s) ==
  /\ session' = [session EXCEPT ![c] = [s EXCEPT !.pc = "answered"]]
  /\ told' = IF s.status = "completed" THEN [told EXCEPT ![c] = @ \cup {s.id}]
             ELSE told
  /\ UNCHANGED created

Continue(c, s, pc) ==
  /\ session' = [session EXCEPT ![c] = [s EXCEPT !.pc = pc]]
  /\ UNCHANGED <<created, told>>

\* Slip: the pid is compared as the client spelled it.
OfPidSpelled(c) ==
  {a \in Ids : assessment[a] # Null /\ assessment[a].pid = request[session[c].id].pid}

OfPid(c) ==
  {a \in Ids : /\ assessment[a] # Null
               /\ assessment[a].pid = NormalizePid(request[session[c].id].pid)}

\* Slip: the oldest comes first.
NamedOldest(c) ==
  IF session[c].kind = "latest"
  THEN {a \in OfPid(c) : \A b \in OfPid(c) : created[a] <= created[b]}
  ELSE {a \in {session[c].id} : assessment[a] # Null}

\* The record named by the id; for "latest", the newest of the pid.
Named(c) ==
  IF session[c].kind = "latest"
  THEN {a \in OfPid(c) : \A b \in OfPid(c) : created[b] <= created[a]}
  ELSE {a \in {session[c].id} : assessment[a] # Null}

\* Slip: the status is left out of what the session keeps.
ReadRecordBare(c) ==
  /\ session[c].pc = "record"
  /\ \/ Named(c) = {} /\ Continue(c, session[c], "not_found")
     \/ \E a \in Named(c) :
          Continue(c, [session[c] EXCEPT !.id = a],
                   IF session[c].kind = "raw" THEN "raws" ELSE "rows")
  /\ UNCHANGED vars

ReadRecord(c) ==
  /\ session[c].pc = "record"
  /\ \/ Named(c) = {} /\ Continue(c, session[c], "not_found")
     \/ \E a \in Named(c) :
          Continue(c, [session[c] EXCEPT !.id = a, !.status = assessment[a].status],
                   IF session[c].kind = "raw" THEN "raws" ELSE "rows")
  /\ UNCHANGED vars

Read(table, c) ==
  {row \in table : /\ row.assessment_id = session[c].id
                   /\ session[c].assessor \in {Null, row.assessor}}

\* scalar_one_or_none: no row is a 404, more than one raises.
AfterRows(kind, n) ==
  IF kind = "assessor" /\ n = 0 THEN "not_found"
  ELSE IF kind = "assessor" /\ n > 1 THEN "error" ELSE "raws"

ReadHarmonized(c) ==
  /\ session[c].pc = "rows"
  /\ LET s == [session[c] EXCEPT !.rows = Read(harmonized, c)]
     IN IF s.kind \in {"by_id", "latest"} THEN Answer(c, s)
        ELSE Continue(c, s, AfterRows(s.kind, Cardinality(s.rows)))
  /\ UNCHANGED vars

ReadRaw(c) ==
  /\ session[c].pc = "raws"
  /\ LET s == [session[c] EXCEPT !.raws = Read(raw, c)]
     IN IF s.kind = "assessor" /\ Cardinality(s.raws) > 1
        THEN Continue(c, s, "error")
        ELSE Answer(c, s)
  /\ UNCHANGED vars

\* get_assessments: one statement, and a filter on its rows.
Listed(c) ==
  {a \in OfPid(c) :
     /\ session[c].mode \in {Null, assessment[a].mode}
     /\ session[c].assessor # Null =>
          \E i \in DOMAIN assessment[a].assessors :
            assessment[a].assessors[i] = session[c].assessor}

NewestFirst(ids) ==
  CHOOSE s \in [1 .. Cardinality(ids) -> ids] :
    \A i, k \in DOMAIN s : i < k => created[s[k]] < created[s[i]]

ReadList(c) ==
  /\ session[c].pc = "list"
  /\ Answer(c, [session[c] EXCEPT !.ids = NewestFirst(Listed(c))])
  /\ UNCHANGED vars

\* The process that dies takes the sessions with it.
ReadCrash ==
  /\ Crash
  /\ session' = [c \in Clients |-> IF Over(c) THEN session[c] ELSE NoSession]
  /\ UNCHANGED <<created, told>>

ReadStep(c) == ReadRecord(c) \/ ReadHarmonized(c) \/ ReadRaw(c) \/ ReadList(c)

ReadNext ==
  \/ \E a \in Ids : \/ \E r \in Requests : ReceiveRequest(a, r) /\ UNCHANGED readVars
                    \/ BeginInsert(a)
                    \/ HandlerStepTimed(a)
                    \/ TaskStep(a) /\ UNCHANGED readVars
  \/ \E j \in Jobs : JobStep(j) /\ UNCHANGED readVars
  \/ ReadCrash
  \/ \E c \in Clients, kind \in Kinds, a \in Ids,
        x \in (PluginIds \ {Offline}) \cup {Null}, mode \in Modes \cup {Null} :
       Ask(c, kind, a, x, mode)
  \/ \E c \in Clients : ReadStep(c)

ReadSpec == ReadInit /\ [][ReadNext]_allVars

----------------------------------------------------------------------------
\* The shape of a session; an answer is given for a record that was found.
ReadTypeOK ==
  /\ created \in [Ids -> 0 .. Cardinality(Ids)]
  /\ told \in [Clients -> SUBSET Ids]
  /\ \A c \in Clients :
       /\ session[c].pc \in {"record", "rows", "raws", "list", "answered", "not_found", "error"}
       /\ session[c].kind \in Kinds \cup {Null}
       /\ session[c].id \in Ids \cup {Null}
       /\ session[c].held \subseteq Ids
       /\ session[c].assessor \in PluginIds \cup {Null}
       /\ session[c].mode \in Modes \cup {Null}
       /\ session[c].ids \in Seq(Ids)
       /\ session[c].rows \subseteq HarmonizedRows
       /\ session[c].raws \subseteq RawRows
       /\ session[c].pc \in {"rows", "raws"} => session[c].status # Null

Told(c, kinds) == session[c].pc = "answered" /\ session[c].kind \in kinds

\* A report that says the assessment is over shows all there will ever be: the
\* record is read before the rows, and the rows are committed before the record.
EndedReportIsWhole ==
  \A c \in Clients :
    (Told(c, {"results", "by_id", "latest"})
       /\ session[c].status \in {"completed", "completed_with_errors"}) =>
      session[c].rows = HarmonizedOf(session[c].id)

\* The same of the raw answers and failures.
EndedRawsAreWhole ==
  \A c \in Clients :
    (Told(c, {"raw"})
       /\ session[c].status \in {"completed", "completed_with_errors"}) =>
      session[c].raws = RawOf(session[c].id)

\* Every normalised row of a report has the raw answer it was made from beside
\* it, so the guidance taken from the raw answer is about the row's outcomes.
GuidanceFitsRow ==
  \A c \in Clients :
    Told(c, {"results", "assessor"}) =>
      \A h \in session[c].rows :
        /\ \E r \in session[c].raws : r.assessor = h.assessor
        /\ \A r \in session[c].raws : r.assessor = h.assessor => r.raw = h.norm

\* A client is never told 404 for an id it holds, nor for an assessor of an
\* assessment it was told is completed.
HeldIdsAreFound ==
  \A c \in Clients : (session[c].pc = "not_found" /\ session[c].id \in session[c].held) =>
    /\ session[c].kind = "assessor"
    /\ session[c].id \in told[c] =>
         \A i \in DOMAIN assessment[session[c].id].assessors :
           assessment[session[c].id].assessors[i] # session[c].assessor

\* get_result_for_assessor finds one row or none, as its scalar_one_or_none
\* asserts: it never raises MultipleResultsFound.
OneOrNone == \A c \in Clients : session[c].pc # "error"

\* The latest assessment of a pid is no older than any of that pid whose id was
\* answered before the question, whatever is being inserted meanwhile.
LatestIsNoOlder ==
  \A c \in Clients : Told(c, {"latest"}) =>
    \A b \in session[c].held :
      assessment[b].pid = assessment[session[c].id].pid =>
        created[b] <= created[session[c].id]

\* A list of a pid, however the client spells it, has every assessment of the
\* requests with that spelling that was answered before the question and that
\* the filters ask for, the newest first.
ListHasHeldIds ==
  \A c \in Clients : Told(c, {"list"}) =>
    LET s == session[c]
        ordered == \A i, k \in DOMAIN s.ids : i < k => created[s.ids[k]] < created[s.ids[i]]
        wanted(b) == /\ request[b].pid = request[s.id].pid
                     /\ s.mode \in {Null, request[b].mode}
                     /\ s.assessor = Null \/ \E i \in DOMAIN Online(request[b]) :
                                                Online(request[b])[i] = s.assessor
    IN ordered /\ \A b \in s.held : wanted(b) => \E i \in DOMAIN s.ids : s.ids[i] = b
=============================================================================
