------------------------ MODULE AssessmentReads_proofs ------------------------
(***************************************************************************)
(* Readers take nothing from what is proved of Assessments.  A report that  *)
(* says the assessment is over is whole; a client finds the assessments     *)
(* whose ids it holds, the latest of a pid, the list of a pid in order, and *)
(* one row of an assessor at most, with the raw answer it was made from.    *)
(***************************************************************************)
EXTENDS AssessmentReads, AssessmentRows_proofs, Sums_proofs

\* Every step beside readers is one of Assessments, or changes none of its
\* variables.
LEMMA ReadStepIsStep == [ReadNext]_allVars => [Next]_vars
<1>1. SUFFICES ASSUME [ReadNext]_allVars PROVE [Next]_vars
  OBVIOUS
<1>2. CASE UNCHANGED allVars
  BY <1>2 DEF allVars
<1>3. ASSUME NEW c \in Clients, ReadStep(c) PROVE [Next]_vars
  BY <1>3 DEF ReadStep, ReadRecord, ReadHarmonized, ReadRaw, ReadList
<1>4. ASSUME NEW c \in Clients, NEW kind \in Kinds, NEW a \in Ids,
             NEW x \in (PluginIds \ {Offline}) \cup {Null}, NEW mode \in Modes \cup {Null},
             Ask(c, kind, a, x, mode)
      PROVE  [Next]_vars
  BY <1>4 DEF Ask
<1>5. ASSUME NEW a \in Ids, BeginInsert(a) PROVE [Next]_vars
  BY <1>5 DEF BeginInsert
<1>6. ASSUME NEW a \in Ids, HandlerStepTimed(a) \/ TaskStep(a) PROVE Next
  BY <1>6 DEF HandlerStepTimed, Next
<1>7. ASSUME NEW a \in Ids, NEW r \in Requests, ReceiveRequest(a, r) PROVE Next
  BY <1>7 DEF Next
<1>8. ASSUME NEW j \in Jobs, JobStep(j) PROVE Next
  BY <1>8 DEF Next
<1>9. CASE ReadCrash
  BY <1>9 DEF ReadCrash, Next
<1>10. QED
  BY <1>1, <1>2, <1>3, <1>4, <1>5, <1>6, <1>7, <1>8, <1>9 DEF ReadNext

\* What is proved of Assessments holds while clients read.
THEOREM ReadersOnlyRead == ReadSpec => Spec
<1>1. ReadInit => Init
  BY DEF ReadInit
<1>2. QED
  BY <1>1, ReadStepIsStep, PTL DEF ReadSpec, Spec

----------------------------------------------------------------------------
\* The invariant of a session.

Fields == {"pc", "kind", "id", "held", "assessor", "mode", "status", "rows", "raws", "ids"}

Ended(c) == session[c].status \in {"completed", "completed_with_errors"}

\* The record was read, and the session will answer, or has, with its status.
StatusRead(c) ==
  \/ session[c].pc \in {"rows", "raws"}
  \/ Told(c, {"results", "by_id", "latest", "raw"})

\* The rows were read of a session that shows them.
RowsRead(c) ==
  \/ session[c].pc = "raws" /\ session[c].kind = "results"
  \/ Told(c, {"results", "by_id", "latest"})

SessionInv(c) ==
  /\ session[c].pc = "record" =>
       session[c].id \in Ids /\ session[c].kind \in Kinds \ {"list"}
  /\ session[c].pc = "list" => session[c].kind = "list"
  /\ session[c].pc = "rows" =>
       session[c].kind \in {"results", "assessor", "by_id", "latest"}
  /\ session[c].pc = "raws" => session[c].kind \in {"results", "assessor", "raw"}
  /\ session[c].kind \notin {"assessor", "list"} => session[c].assessor = Null
  /\ (StatusRead(c) /\ Ended(c)) => session[c].id \in Ids /\ Terminal(session[c].id)
  /\ (RowsRead(c) /\ Ended(c)) => session[c].rows = HarmonizedOf(session[c].id)
  /\ (Told(c, {"raw"}) /\ Ended(c)) => session[c].raws = RawOf(session[c].id)

ReadInv ==
  /\ DOMAIN session = Clients
  /\ \A c \in Clients : DOMAIN session[c] = Fields /\ SessionInv(c)

\* A session that did not move shows what it showed: its assessment is frozen.
LEMMA SessionStays ==
  ASSUME IInv, [Next]_vars, ReadInv, NEW c \in Clients, session'[c] = session[c]
  PROVE  SessionInv(c)'
<1>1. SessionInv(c)
  BY DEF ReadInv
<1>2. ASSUME NEW a \in Ids, Terminal(a)
      PROVE  Terminal(a)' /\ HarmonizedOf(a)' = HarmonizedOf(a) /\ RawOf(a)' = RawOf(a)
  <2>1. CASE Next
    BY <1>2, <2>1, StepFrozen DEF Frozen, Terminal, Known, HarmonizedOf, RawOf
  <2>2. CASE UNCHANGED vars
    BY <1>2, <2>2 DEF vars, Terminal, Known, HarmonizedOf, RawOf
  <2>3. QED
    BY <2>1, <2>2
<1>3. /\ StatusRead(c)' <=> StatusRead(c)
      /\ RowsRead(c)' <=> RowsRead(c)
      /\ Told(c, {"raw"})' <=> Told(c, {"raw"})
      /\ Ended(c)' <=> Ended(c)
  BY DEF StatusRead, RowsRead, Told, Ended
<1>4. (RowsRead(c) \/ Told(c, {"raw"})) => StatusRead(c)
  BY DEF RowsRead, StatusRead, Told
<1>5. ((StatusRead(c) /\ Ended(c)) =>
         session[c].id \in Ids /\ Terminal(session[c].id))'
  BY <1>1, <1>2, <1>3 DEF SessionInv
<1>6. ((RowsRead(c) /\ Ended(c)) => session[c].rows = HarmonizedOf(session[c].id))'
  BY <1>1, <1>2, <1>3, <1>4 DEF SessionInv
<1>7. ((Told(c, {"raw"}) /\ Ended(c)) => session[c].raws = RawOf(session[c].id))'
  BY <1>1, <1>2, <1>3, <1>4 DEF SessionInv
<1>8. /\ (session[c].pc = "record" =>
            session[c].id \in Ids /\ session[c].kind \in Kinds \ {"list"})'
      /\ (session[c].pc = "list" => session[c].kind = "list")'
      /\ (session[c].pc = "rows" =>
            session[c].kind \in {"results", "assessor", "by_id", "latest"})'
      /\ (session[c].pc = "raws" => session[c].kind \in {"results", "assessor", "raw"})'
      /\ (session[c].kind \notin {"assessor", "list"} => session[c].assessor = Null)'
  BY <1>1 DEF SessionInv
<1>9. QED
  BY <1>5, <1>6, <1>7, <1>8 DEF SessionInv

\* A session that goes on, or answers, with what s holds.
GoesOn(c, s, pc) ==
  /\ DOMAIN session' = Clients /\ DOMAIN session'[c] = Fields
  /\ session'[c].pc = pc
  /\ session'[c].kind = s.kind /\ session'[c].id = s.id
  /\ session'[c].assessor = s.assessor /\ session'[c].status = s.status
  /\ session'[c].rows = s.rows /\ session'[c].raws = s.raws
  /\ session'[c].held = s.held
  /\ session'[c].mode = s.mode /\ session'[c].ids = s.ids
  /\ \A d \in Clients \ {c} : session'[d] = session[d]

LEMMA SessionWritten ==
  ASSUME ReadInv, NEW c \in Clients, NEW s, DOMAIN s = Fields, NEW pc,
         session' = [session EXCEPT ![c] = [s EXCEPT !.pc = pc]]
  PROVE  GoesOn(c, s, pc)
<1>1. DOMAIN session = Clients
  BY DEF ReadInv
<1>2. session'[c] = [s EXCEPT !.pc = pc] /\ DOMAIN session' = Clients
      /\ \A d \in Clients \ {c} : session'[d] = session[d]
  BY <1>1
<1>3. QED
  BY <1>2 DEF GoesOn, Fields

LEMMA AskHolds ==
  ASSUME ReadInv, NEW c \in Clients, NEW kind \in Kinds, NEW a \in Ids,
         NEW x \in (PluginIds \ {Offline}) \cup {Null}, NEW mode \in Modes \cup {Null},
         Ask(c, kind, a, x, mode)
  PROVE  /\ DOMAIN session' = Clients /\ DOMAIN session'[c] = Fields /\ SessionInv(c)'
         /\ \A d \in Clients \ {c} : session'[d] = session[d]
<1> DEFINE pc == IF kind = "list" THEN "list" ELSE "record"
           s == [NoSession EXCEPT !.pc = pc, !.kind = kind, !.id = a,
                                  !.held = {b \in Ids : handler[b] = "queued"},
                                  !.assessor = x, !.mode = mode]
<1>1. DOMAIN session = Clients
  BY DEF ReadInv
<1>2. session' = [session EXCEPT ![c] = s]
  BY DEF Ask
<1>3. /\ DOMAIN session' = Clients /\ session'[c] = s
      /\ \A d \in Clients \ {c} : session'[d] = session[d]
  BY <1>1, <1>2
<1>4. DOMAIN s = Fields /\ s.pc = pc /\ s.kind = kind /\ s.id = a /\ s.assessor = x
  BY DEF NoSession, Fields
<1>5. kind \notin {"assessor", "list"} => x = Null
  BY DEF Ask
<1>6. session'[c].pc \notin {"rows", "raws", "answered"}
  BY <1>3, <1>4
<1>7. ~ StatusRead(c)' /\ ~ RowsRead(c)' /\ ~ Told(c, {"raw"})'
  BY <1>6 DEF StatusRead, RowsRead, Told
<1>8. SessionInv(c)'
  BY <1>3, <1>4, <1>5, <1>6, <1>7 DEF SessionInv
<1>9. QED
  BY <1>3, <1>4, <1>8

\* What a step of a session must show.
StepHolds(c) ==
  /\ DOMAIN session' = Clients /\ DOMAIN session'[c] = Fields /\ SessionInv(c)'
  /\ \A d \in Clients \ {c} : session'[d] = session[d]

\* A session that ends without an answer shows nothing.
LEMMA NotAnswered ==
  ASSUME ReadInv, NEW c \in Clients, NEW s, NEW pc \in {"not_found", "error"},
         GoesOn(c, s, pc), s.kind \notin {"assessor", "list"} => s.assessor = Null
  PROVE  StepHolds(c)
<1>1. session'[c].pc = pc
  BY DEF GoesOn
<1>2. ~ StatusRead(c)' /\ ~ RowsRead(c)' /\ ~ Told(c, {"raw"})'
  BY <1>1 DEF StatusRead, RowsRead, Told
<1>3. QED
  BY <1>1, <1>2 DEF StepHolds, SessionInv, GoesOn

LEMMA ReadRecordHolds ==
  ASSUME ReadInv, NEW c \in Clients, ReadRecord(c)
  PROVE  StepHolds(c)
<1>1. /\ SessionInv(c) /\ DOMAIN session[c] = Fields /\ session[c].pc = "record"
      /\ session[c].id \in Ids /\ session[c].kind # "list" /\ UNCHANGED vars
  BY DEF ReadInv, ReadRecord, SessionInv
<1>2. session[c].kind \notin {"assessor", "list"} => session[c].assessor = Null
  BY <1>1 DEF SessionInv
<1>3. CASE Continue(c, session[c], "not_found")
  <2>1. GoesOn(c, session[c], "not_found")
    BY <1>1, <1>3, SessionWritten DEF Continue
  <2>2. QED
    BY <1>2, <2>1, NotAnswered
<1>4. ASSUME NEW a \in Named(c),
             Continue(c, [session[c] EXCEPT !.id = a, !.status = assessment[a].status],
                      IF session[c].kind = "raw" THEN "raws" ELSE "rows")
      PROVE  StepHolds(c)
  <2> DEFINE s == [session[c] EXCEPT !.id = a, !.status = assessment[a].status]
             pc == IF session[c].kind = "raw" THEN "raws" ELSE "rows"
  <2>1. a \in Ids /\ Known(a)
    BY <1>1 DEF Named, OfPid, Known
  <2>2. /\ DOMAIN s = Fields /\ s.id = a /\ s.status = assessment[a].status
        /\ s.kind = session[c].kind /\ s.assessor = session[c].assessor
    BY <1>1 DEF Fields
  <2>3. GoesOn(c, s, pc)
    BY <1>4, <2>2, SessionWritten DEF Continue
  <2>4. /\ session'[c].pc = pc /\ session'[c].id = a
        /\ session'[c].kind = session[c].kind /\ session'[c].assessor = session[c].assessor
        /\ session'[c].status = assessment[a].status
    BY <2>2, <2>3 DEF GoesOn
  <2>5. Ended(c)' => Terminal(a)'
    BY <1>1, <2>1, <2>4 DEF Ended, Terminal, Known, vars
  <2>6. ~ Told(c, {"raw"})' /\ ~ RowsRead(c)'
    BY <2>4 DEF Told, RowsRead
  <2>7. pc = "rows" => session[c].kind \in {"results", "assessor", "by_id", "latest"}
    <3>1. session[c].kind \in Kinds
      BY <1>1 DEF SessionInv
    <3>2. QED
      BY <1>1, <3>1 DEF Kinds
  <2>8. SessionInv(c)'
    BY <1>1, <1>2, <2>1, <2>4, <2>5, <2>6, <2>7 DEF SessionInv, Terminal, Known
  <2>9. QED
    BY <2>3, <2>8 DEF StepHolds, GoesOn
<1>5. QED
  BY <1>3, <1>4 DEF ReadRecord

\* Without an assessor in the question, all rows of the assessment are read.
LEMMA ReadsAll ==
  ASSUME NEW c \in Clients, session[c].assessor = Null
  PROVE  /\ Read(harmonized, c) = HarmonizedOf(session[c].id)
         /\ Read(raw, c) = RawOf(session[c].id)
BY DEF Read, HarmonizedOf, RawOf

LEMMA ReadHarmonizedHolds ==
  ASSUME ReadInv, NEW c \in Clients, ReadHarmonized(c)
  PROVE  StepHolds(c)
<1> DEFINE s == [session[c] EXCEPT !.rows = Read(harmonized, c)]
           a == session[c].id
<1>1. /\ SessionInv(c) /\ DOMAIN session[c] = Fields /\ session[c].pc = "rows"
      /\ session[c].kind \in {"results", "assessor", "by_id", "latest"} /\ UNCHANGED vars
  BY DEF ReadInv, ReadHarmonized, SessionInv
<1>2. session[c].kind \notin {"assessor", "list"} => session[c].assessor = Null
  BY <1>1 DEF SessionInv
<1>3. Ended(c) => a \in Ids /\ Terminal(a)
  BY <1>1 DEF SessionInv, StatusRead
<1>4. /\ DOMAIN s = Fields /\ s.rows = Read(harmonized, c) /\ s.id = a
      /\ s.kind = session[c].kind /\ s.assessor = session[c].assessor
      /\ s.status = session[c].status
  BY <1>1 DEF Fields
<1>5. ASSUME NEW pc \in {"answered", "raws"}, GoesOn(c, s, pc),
             pc = "answered" => session[c].kind \in {"by_id", "latest"},
             pc = "raws" => session[c].kind \in {"results", "assessor"}
      PROVE  StepHolds(c)
  <2>1. /\ session'[c].pc = pc /\ session'[c].id = a
        /\ session'[c].kind = session[c].kind /\ session'[c].assessor = session[c].assessor
        /\ session'[c].status = session[c].status /\ session'[c].rows = Read(harmonized, c)
    BY <1>4, <1>5 DEF GoesOn
  <2>2. Ended(c)' => a \in Ids /\ Terminal(a) /\ Terminal(a)'
    BY <1>1, <1>3, <2>1 DEF Ended, Terminal, Known, vars
  <2>3. session[c].kind # "assessor" => Read(harmonized, c) = HarmonizedOf(a)
    BY <1>1, <1>2, ReadsAll
  <2>4. HarmonizedOf(a)' = {row \in harmonized : row.assessment_id = a}
    BY <1>1, <2>1 DEF HarmonizedOf, vars
  <2>5. RowsRead(c)' => session[c].kind # "assessor"
    BY <1>5, <2>1 DEF RowsRead, Told
  <2>6. ~ Told(c, {"raw"})'
    BY <1>5, <2>1 DEF Told
  <2>7. (RowsRead(c) /\ Ended(c) => session[c].rows = HarmonizedOf(session[c].id))'
    BY <1>1, <2>1, <2>3, <2>5 DEF HarmonizedOf, vars
  <2>8. (StatusRead(c) /\ Ended(c) => session[c].id \in Ids /\ Terminal(session[c].id))'
    BY <2>1, <2>2 DEF Terminal, Known
  <2>9. SessionInv(c)'
    BY <1>2, <1>5, <2>1, <2>6, <2>7, <2>8 DEF SessionInv
  <2>10. QED
    BY <1>5, <2>9 DEF StepHolds, GoesOn
<1>6. CASE session[c].kind \in {"by_id", "latest"}
  <2>1. Answer(c, s)
    BY <1>4, <1>6 DEF ReadHarmonized
  <2>2. GoesOn(c, s, "answered")
    BY <1>4, <2>1, SessionWritten DEF Answer
  <2>3. QED
    BY <1>5, <1>6, <2>2
<1>7. CASE session[c].kind \in {"results", "assessor"}
  <2> DEFINE pc == AfterRows(s.kind, Cardinality(s.rows))
  <2>1. Continue(c, s, pc)
    BY <1>4, <1>7 DEF ReadHarmonized
  <2>2. GoesOn(c, s, pc)
    BY <1>4, <2>1, SessionWritten DEF Continue
  <2>3. pc \in {"raws", "not_found", "error"}
    BY DEF AfterRows
  <2>4. CASE pc = "raws"
    BY <1>5, <1>7, <2>2, <2>4
  <2>5. CASE pc \in {"not_found", "error"}
    BY <1>2, <1>4, <2>2, <2>5, NotAnswered
  <2>6. QED
    BY <2>3, <2>4, <2>5
<1>8. QED
  BY <1>1, <1>6, <1>7

LEMMA ReadRawHolds ==
  ASSUME ReadInv, NEW c \in Clients, ReadRaw(c)
  PROVE  StepHolds(c)
<1> DEFINE s == [session[c] EXCEPT !.raws = Read(raw, c)]
           a == session[c].id
<1>1. /\ SessionInv(c) /\ DOMAIN session[c] = Fields /\ session[c].pc = "raws"
      /\ session[c].kind \in {"results", "assessor", "raw"} /\ UNCHANGED vars
  BY DEF ReadInv, ReadRaw, SessionInv
<1>2. session[c].kind \notin {"assessor", "list"} => session[c].assessor = Null
  BY <1>1 DEF SessionInv
<1>3. /\ Ended(c) => a \in Ids /\ Terminal(a)
      /\ (Ended(c) /\ session[c].kind = "results") => session[c].rows = HarmonizedOf(a)
  BY <1>1 DEF SessionInv, StatusRead, RowsRead
<1>4. /\ DOMAIN s = Fields /\ s.raws = Read(raw, c) /\ s.id = a
      /\ s.kind = session[c].kind /\ s.assessor = session[c].assessor
      /\ s.status = session[c].status /\ s.rows = session[c].rows
  BY <1>1 DEF Fields
<1>5. CASE Continue(c, s, "error")
  <2>1. GoesOn(c, s, "error")
    BY <1>4, <1>5, SessionWritten DEF Continue
  <2>2. QED
    BY <1>2, <1>4, <2>1, NotAnswered
<1>6. CASE Answer(c, s)
  <2>1. GoesOn(c, s, "answered")
    BY <1>4, <1>6, SessionWritten DEF Answer
  <2>2. /\ session'[c].pc = "answered" /\ session'[c].id = a
        /\ session'[c].kind = session[c].kind /\ session'[c].assessor = session[c].assessor
        /\ session'[c].status = session[c].status /\ session'[c].rows = session[c].rows
        /\ session'[c].raws = Read(raw, c)
    BY <1>4, <2>1 DEF GoesOn
  <2>3. Ended(c)' => a \in Ids /\ Terminal(a)'
    BY <1>1, <1>3, <2>2 DEF Ended, Terminal, Known, vars
  <2>4. RowsRead(c)' => session[c].kind = "results"
    BY <1>1, <2>2 DEF RowsRead, Told
  <2>5. (RowsRead(c) /\ Ended(c) => session[c].rows = HarmonizedOf(session[c].id))'
    BY <1>1, <1>3, <2>2, <2>4 DEF HarmonizedOf, Ended, vars
  <2>6. Told(c, {"raw"})' => Read(raw, c) = RawOf(a)
    BY <1>2, <2>2, ReadsAll DEF Told
  <2>7. (Told(c, {"raw"}) /\ Ended(c) => session[c].raws = RawOf(session[c].id))'
    BY <1>1, <2>2, <2>6 DEF RawOf, vars
  <2>8. (StatusRead(c) /\ Ended(c) => session[c].id \in Ids /\ Terminal(session[c].id))'
    BY <2>2, <2>3 DEF Terminal, Known
  <2>9. SessionInv(c)'
    BY <1>2, <2>2, <2>5, <2>7, <2>8 DEF SessionInv
  <2>10. QED
    BY <2>1, <2>9 DEF StepHolds, GoesOn
<1>7. QED
  BY <1>5, <1>6 DEF ReadRaw

LEMMA ReadListHolds ==
  ASSUME ReadInv, NEW c \in Clients, ReadList(c)
  PROVE  StepHolds(c)
<1> DEFINE s == [session[c] EXCEPT !.ids = NewestFirst(Listed(c))]
<1>1. DOMAIN session[c] = Fields /\ session[c].kind = "list"
  BY DEF ReadInv, ReadList, SessionInv
<1>2. DOMAIN s = Fields /\ s.kind = "list"
  BY <1>1 DEF Fields
<1>3. GoesOn(c, s, "answered")
  BY <1>2, SessionWritten DEF ReadList, Answer
<1>4. session'[c].pc = "answered" /\ session'[c].kind = "list"
  BY <1>2, <1>3 DEF GoesOn
<1>5. ~ StatusRead(c)' /\ ~ RowsRead(c)' /\ ~ Told(c, {"raw"})'
  BY <1>4 DEF StatusRead, RowsRead, Told
<1>6. SessionInv(c)'
  BY <1>4, <1>5 DEF SessionInv
<1>7. QED
  BY <1>3, <1>6 DEF StepHolds, GoesOn

\* A client without a session was told nothing.
LEMMA ReadInvInit == ReadInit => ReadInv
<1>1. SUFFICES ASSUME ReadInit, NEW c \in Clients
               PROVE  DOMAIN session[c] = Fields /\ SessionInv(c)
  BY DEF ReadInit, ReadInv
<1>2. /\ session[c].pc = "answered" /\ session[c].kind = Null
      /\ session[c].assessor = Null /\ DOMAIN session[c] = Fields
  BY <1>1 DEF ReadInit, NoSession, Fields
<1>3. ~ StatusRead(c) /\ ~ RowsRead(c) /\ ~ Told(c, {"raw"})
  BY <1>2, ReadAssumption DEF StatusRead, RowsRead, Told, Kinds
<1>4. QED
  BY <1>2, <1>3 DEF SessionInv

LEMMA ReadInvNext == IInv /\ ReadInv /\ [ReadNext]_allVars => ReadInv'
<1>1. SUFFICES ASSUME IInv, ReadInv, [ReadNext]_allVars PROVE ReadInv'
  OBVIOUS
<1>2. [Next]_vars
  BY <1>1, ReadStepIsStep
<1>3. \A c \in Clients : session'[c] = session[c] => SessionInv(c)'
  BY <1>1, <1>2, SessionStays
<1>4. CASE session' = session
  BY <1>1, <1>3, <1>4 DEF ReadInv
<1>5. ASSUME NEW c \in Clients, StepHolds(c) PROVE ReadInv'
  BY <1>1, <1>3, <1>5 DEF StepHolds, ReadInv
<1>6. CASE ReadCrash
  <2>1. DOMAIN session' = Clients
    BY <1>6 DEF ReadCrash
  <2>2. ASSUME NEW c \in Clients PROVE DOMAIN session'[c] = Fields /\ SessionInv(c)'
    <3>1. session'[c] = session[c] \/ session'[c] = NoSession
      BY <1>6 DEF ReadCrash
    <3>2. CASE session'[c] = session[c]
      BY <1>1, <1>3, <3>2 DEF ReadInv
    <3>3. CASE session'[c] = NoSession
      <4>1. /\ session'[c].pc = "answered" /\ session'[c].kind = Null
            /\ session'[c].assessor = Null /\ DOMAIN session'[c] = Fields
        BY <3>3 DEF NoSession, Fields
      <4>2. ~ StatusRead(c)' /\ ~ RowsRead(c)' /\ ~ Told(c, {"raw"})'
        BY <4>1, ReadAssumption DEF StatusRead, RowsRead, Told, Kinds
      <4>3. QED
        BY <4>1, <4>2 DEF SessionInv
    <3>4. QED
      BY <3>1, <3>2, <3>3
  <2>3. QED
    BY <2>1, <2>2 DEF ReadInv
<1>7. ASSUME NEW c \in Clients, ReadStep(c) PROVE ReadInv'
  BY <1>1, <1>5, <1>7, ReadRecordHolds, ReadHarmonizedHolds, ReadRawHolds, ReadListHolds
  DEF ReadStep
<1>8. ASSUME NEW c \in Clients, NEW kind \in Kinds, NEW a \in Ids,
             NEW x \in (PluginIds \ {Offline}) \cup {Null}, NEW mode \in Modes \cup {Null},
             Ask(c, kind, a, x, mode)
      PROVE  ReadInv'
  BY <1>1, <1>5, <1>8, AskHolds DEF StepHolds
<1>9. QED
  BY <1>1, <1>4, <1>6, <1>7, <1>8
  DEF ReadNext, BeginInsert, HandlerStepTimed, readVars, allVars

LEMMA ReadInvariant == ReadSpec => []ReadInv
BY ReadInvInit, ReadInvNext, ReadersOnlyRead, InductiveInvariant, PTL DEF ReadSpec

\* A report that says the assessment is over shows all that is ever stored of
\* it, whatever was committed between its statements.
THEOREM EndedReportsAreWhole == ReadSpec => []EndedReportIsWhole
<1>1. ReadInv => EndedReportIsWhole
  BY DEF ReadInv, SessionInv, RowsRead, Ended, EndedReportIsWhole
<1>2. QED
  BY <1>1, ReadInvariant, PTL

\* The same of the raw answers and failures.
THEOREM EndedRawListsAreWhole == ReadSpec => []EndedRawsAreWhole
<1>1. ReadInv => EndedRawsAreWhole
  BY DEF ReadInv, SessionInv, Ended, EndedRawsAreWhole
<1>2. QED
  BY <1>1, ReadInvariant, PTL

----------------------------------------------------------------------------
\* How a session moves.

\* The question stays the same, and so do the other sessions.
Moved(c, pc) ==
  /\ session'[c].pc = pc
  /\ session'[c].kind = session[c].kind /\ session'[c].held = session[c].held
  /\ session'[c].assessor = session[c].assessor /\ session'[c].mode = session[c].mode
  /\ \A d \in Clients \ {c} : session'[d] = session[d]

\* The session answers, and the client may learn of an end.
Learned(c) ==
  \/ told' = told
  \/ /\ session[c].status = "completed"
     /\ told' = [told EXCEPT ![c] = @ \cup {session[c].id}]

LEMMA RecordMoves ==
  ASSUME ReadInv, NEW c \in Clients, ReadRecord(c)
  PROVE  /\ UNCHANGED <<vars, created, told>> /\ session[c].pc = "record"
         /\ session'[c].rows = session[c].rows /\ session'[c].raws = session[c].raws
         /\ session'[c].ids = session[c].ids
         /\ \/ Named(c) = {} /\ Moved(c, "not_found") /\ session'[c].id = session[c].id
            \/ \E a \in Named(c) :
                 /\ Moved(c, IF session[c].kind = "raw" THEN "raws" ELSE "rows")
                 /\ session'[c].id = a /\ session'[c].status = assessment[a].status
<1>1. DOMAIN session[c] = Fields
  BY DEF ReadInv
<1>2. UNCHANGED <<vars, created, told>> /\ session[c].pc = "record"
  BY DEF ReadRecord, Continue
<1>3. ASSUME Continue(c, session[c], "not_found")
      PROVE  /\ Moved(c, "not_found") /\ session'[c].id = session[c].id
             /\ session'[c].rows = session[c].rows /\ session'[c].raws = session[c].raws
             /\ session'[c].ids = session[c].ids
  <2>1. GoesOn(c, session[c], "not_found")
    BY <1>1, <1>3, SessionWritten DEF Continue
  <2>2. QED
    BY <2>1 DEF GoesOn, Moved
<1>4. ASSUME NEW a \in Named(c),
             Continue(c, [session[c] EXCEPT !.id = a, !.status = assessment[a].status],
                      IF session[c].kind = "raw" THEN "raws" ELSE "rows")
      PROVE  /\ Moved(c, IF session[c].kind = "raw" THEN "raws" ELSE "rows")
             /\ session'[c].id = a /\ session'[c].status = assessment[a].status
             /\ session'[c].rows = session[c].rows /\ session'[c].raws = session[c].raws
             /\ session'[c].ids = session[c].ids
  <2> DEFINE s == [session[c] EXCEPT !.id = a, !.status = assessment[a].status]
             pc == IF session[c].kind = "raw" THEN "raws" ELSE "rows"
  <2>1. /\ DOMAIN s = Fields /\ s.id = a /\ s.status = assessment[a].status
        /\ s.kind = session[c].kind /\ s.held = session[c].held
        /\ s.assessor = session[c].assessor /\ s.mode = session[c].mode
        /\ s.rows = session[c].rows /\ s.raws = session[c].raws /\ s.ids = session[c].ids
    BY <1>1 DEF Fields
  <2>2. GoesOn(c, s, pc)
    BY <1>4, <2>1, SessionWritten DEF Continue
  <2>3. QED
    BY <2>1, <2>2 DEF GoesOn, Moved
<1>5. QED
  BY <1>2, <1>3, <1>4 DEF ReadRecord

LEMMA HarmonizedMoves ==
  ASSUME ReadInv, NEW c \in Clients, ReadHarmonized(c)
  PROVE  /\ UNCHANGED <<vars, created>> /\ session[c].pc = "rows"
         /\ session'[c].id = session[c].id /\ session'[c].status = session[c].status
         /\ session'[c].rows = Read(harmonized, c)
         /\ session'[c].raws = session[c].raws /\ session'[c].ids = session[c].ids
         /\ \/ session[c].kind \in {"by_id", "latest"} /\ Moved(c, "answered") /\ Learned(c)
            \/ /\ session[c].kind \notin {"by_id", "latest"} /\ told' = told
               /\ Moved(c, AfterRows(session[c].kind, Cardinality(Read(harmonized, c))))
<1> DEFINE s == [session[c] EXCEPT !.rows = Read(harmonized, c)]
<1>1. /\ DOMAIN s = Fields /\ s.rows = Read(harmonized, c) /\ s.id = session[c].id
      /\ s.kind = session[c].kind /\ s.held = session[c].held
      /\ s.assessor = session[c].assessor /\ s.status = session[c].status
      /\ s.mode = session[c].mode
      /\ s.raws = session[c].raws /\ s.ids = session[c].ids
  BY DEF ReadInv, Fields
<1>2. UNCHANGED <<vars, created>> /\ session[c].pc = "rows"
  BY DEF ReadHarmonized, Answer, Continue
<1>3. CASE s.kind \in {"by_id", "latest"}
  <2>1. Answer(c, s)
    BY <1>3 DEF ReadHarmonized
  <2>2. GoesOn(c, s, "answered") /\ Learned(c)
    BY <1>1, <2>1, SessionWritten DEF Answer, Learned
  <2>3. QED
    BY <1>1, <1>2, <1>3, <2>2 DEF GoesOn, Moved
<1>4. CASE s.kind \notin {"by_id", "latest"}
  <2> DEFINE pc == AfterRows(s.kind, Cardinality(s.rows))
  <2>1. Continue(c, s, pc)
    BY <1>4 DEF ReadHarmonized
  <2>2. GoesOn(c, s, pc) /\ told' = told
    BY <1>1, <2>1, SessionWritten DEF Continue
  <2>3. pc = AfterRows(session[c].kind, Cardinality(Read(harmonized, c)))
    BY <1>1
  <2>4. QED
    BY <1>1, <1>2, <1>4, <2>2, <2>3 DEF GoesOn, Moved
<1>5. QED
  BY <1>3, <1>4

LEMMA RawMoves ==
  ASSUME ReadInv, NEW c \in Clients, ReadRaw(c)
  PROVE  /\ UNCHANGED <<vars, created>> /\ session[c].pc = "raws"
         /\ session'[c].id = session[c].id /\ session'[c].status = session[c].status
         /\ session'[c].rows = session[c].rows /\ session'[c].raws = Read(raw, c)
         /\ session'[c].ids = session[c].ids
         /\ \/ /\ session[c].kind = "assessor" /\ Cardinality(Read(raw, c)) > 1
               /\ Moved(c, "error") /\ told' = told
            \/ Moved(c, "answered") /\ Learned(c)
<1> DEFINE s == [session[c] EXCEPT !.raws = Read(raw, c)]
<1>1. /\ DOMAIN s = Fields /\ s.raws = Read(raw, c) /\ s.id = session[c].id
      /\ s.kind = session[c].kind /\ s.held = session[c].held
      /\ s.assessor = session[c].assessor /\ s.status = session[c].status
      /\ s.rows = session[c].rows /\ s.mode = session[c].mode
      /\ s.ids = session[c].ids
  BY DEF ReadInv, Fields
<1>2. UNCHANGED <<vars, created>> /\ session[c].pc = "raws"
  BY DEF ReadRaw, Answer, Continue
<1>3. CASE s.kind = "assessor" /\ Cardinality(s.raws) > 1
  <2>1. Continue(c, s, "error")
    BY <1>3 DEF ReadRaw
  <2>2. GoesOn(c, s, "error") /\ told' = told
    BY <1>1, <2>1, SessionWritten DEF Continue
  <2>3. QED
    BY <1>1, <1>2, <1>3, <2>2 DEF GoesOn, Moved
<1>4. CASE ~ (s.kind = "assessor" /\ Cardinality(s.raws) > 1)
  <2>1. Answer(c, s)
    BY <1>4 DEF ReadRaw
  <2>2. GoesOn(c, s, "answered") /\ Learned(c)
    BY <1>1, <2>1, SessionWritten DEF Answer, Learned
  <2>3. QED
    BY <1>1, <1>2, <2>2 DEF GoesOn, Moved
<1>5. QED
  BY <1>3, <1>4

LEMMA ListMoves ==
  ASSUME ReadInv, NEW c \in Clients, ReadList(c)
  PROVE  /\ UNCHANGED <<vars, created>> /\ session[c].pc = "list"
         /\ session[c].kind = "list" /\ Moved(c, "answered") /\ Learned(c)
         /\ session'[c].id = session[c].id
         /\ session'[c].ids = NewestFirst(Listed(c))
         /\ session'[c].rows = session[c].rows /\ session'[c].raws = session[c].raws
<1> DEFINE s == [session[c] EXCEPT !.ids = NewestFirst(Listed(c))]
<1>1. session[c].pc = "list" /\ session[c].kind = "list" /\ UNCHANGED <<vars, created>>
  BY DEF ReadInv, SessionInv, ReadList, Answer
<1>2. /\ DOMAIN s = Fields /\ s.kind = session[c].kind /\ s.held = session[c].held
      /\ s.assessor = session[c].assessor /\ s.status = session[c].status
      /\ s.id = session[c].id /\ s.mode = session[c].mode
      /\ s.ids = NewestFirst(Listed(c))
      /\ s.rows = session[c].rows /\ s.raws = session[c].raws
  BY DEF ReadInv, Fields
<1>3. GoesOn(c, s, "answered") /\ Learned(c)
  BY <1>2, SessionWritten DEF ReadList, Answer, Learned
<1>4. QED
  BY <1>1, <1>2, <1>3 DEF GoesOn, Moved

\* A new question, of an id that was answered or a pid as it was spelled.
LEMMA AskMoves ==
  ASSUME ReadInv, NEW c \in Clients, NEW kind \in Kinds, NEW a \in Ids,
         NEW x \in (PluginIds \ {Offline}) \cup {Null}, NEW mode \in Modes \cup {Null},
         Ask(c, kind, a, x, mode)
  PROVE  /\ UNCHANGED <<vars, created, told>>
         /\ session'[c].pc = (IF kind = "list" THEN "list" ELSE "record")
         /\ session'[c].kind = kind /\ session'[c].id = a
         /\ session'[c].held = {b \in Ids : handler[b] = "queued"}
         /\ session'[c].assessor = x /\ session'[c].status = Null
         /\ session'[c].mode = mode /\ session'[c].ids = <<>>
         /\ session'[c].rows = {} /\ session'[c].raws = {}
         /\ kind = "assessor" => x # Null
         /\ kind \in ByPid => request[a] # Null
         /\ \A d \in Clients \ {c} : session'[d] = session[d]
<1> DEFINE s == [NoSession EXCEPT !.pc = IF kind = "list" THEN "list" ELSE "record",
                                  !.kind = kind, !.id = a,
                                  !.held = {b \in Ids : handler[b] = "queued"},
                                  !.assessor = x, !.mode = mode]
<1>1. DOMAIN session = Clients /\ session' = [session EXCEPT ![c] = s]
  BY DEF ReadInv, Ask
<1>2. session'[c] = s /\ \A d \in Clients \ {c} : session'[d] = session[d]
  BY <1>1
<1>3. /\ s.pc = (IF kind = "list" THEN "list" ELSE "record") /\ s.kind = kind /\ s.id = a
      /\ s.held = {b \in Ids : handler[b] = "queued"} /\ s.assessor = x /\ s.status = Null
      /\ s.mode = mode /\ s.ids = <<>> /\ s.rows = {} /\ s.raws = {}
  BY DEF NoSession
<1>4. QED
  BY <1>2, <1>3 DEF Ask

----------------------------------------------------------------------------
\* The records a client knows of.

\* A record is about its request.
Asked(a) ==
  /\ assessment[a].pid = NormalizePid(request[a].pid)
  /\ assessment[a].mode = request[a].mode
  /\ assessment[a].assessors = Online(request[a])

\* A record has the time its insert began, and no other record has that time.
RecordedInv ==
  /\ created \in [Ids -> Nat]
  /\ IsFiniteSet(Begun)
  /\ IsFiniteSet(harmonized)
  /\ \A a, b \in Begun : created[a] = created[b] => a = b
  /\ \A a \in Ids : created[a] <= Cardinality(Begun)
  /\ \A a \in Ids : handler[a] = "idle" => request[a] = Null
  /\ \A a \in Ids : Known(a) => created[a] # 0 /\ Asked(a)

\* Of the records of a pid there is a newest.
SamePid(a, b) == Known(a) /\ assessment[a].pid = assessment[b].pid

NewestOf(a, b) ==
  a \in Ids /\ SamePid(a, b) /\ \A d \in Ids : SamePid(d, b) => created[d] <= created[a]

NewestExists == \A b \in Ids : Known(b) => \E a \in Ids : NewestOf(a, b)

\* What a client holds of a record stays true.
Lasts(b) ==
  Known(b) => /\ Known(b)'
              /\ assessment'[b].pid = assessment[b].pid
              /\ assessment'[b].mode = assessment[b].mode
              /\ assessment'[b].assessors = assessment[b].assessors
              /\ created'[b] = created[b]
              /\ assessment[b].status = "completed" => assessment'[b].status = "completed"

LEMMA RecordLasts ==
  ASSUME IInv, RecordedInv, [ReadNext]_allVars, NEW b \in Ids
  PROVE  Lasts(b)
<1>1. [Next]_vars
  BY ReadStepIsStep
<1>2. Known(b) => created'[b] = created[b]
  <2>1. CASE created' = created
    BY <2>1
  <2>2. ASSUME NEW a \in Ids, BeginInsert(a) PROVE Known(b) => created'[b] = created[b]
    BY <2>2 DEF BeginInsert, RecordedInv
  <2>3. QED
    BY <2>1, <2>2
    DEF ReadNext, HandlerStepTimed, ReadCrash, Ask, ReadStep, ReadRecord, ReadHarmonized,
        ReadRaw, ReadList, Answer, Continue, readVars, allVars
<1>3. CASE Next
  <2>1. Kept(b)
    BY <1>3, RecordsKept
  <2>2. Known(b) /\ assessment[b].status = "completed" => assessment'[b] = assessment[b]
    BY <1>3, StepFrozen DEF Frozen, Terminal
  <2>3. QED
    BY <1>2, <2>1, <2>2 DEF Kept, Lasts
<1>4. CASE UNCHANGED vars
  BY <1>2, <1>4 DEF vars, Lasts, Known
<1>5. QED
  BY <1>1, <1>3, <1>4

\* A request is received once.
LEMMA RequestStays ==
  ASSUME TypeOK, [Next]_vars, NEW b \in Ids, handler[b] # "idle"
  PROVE  handler'[b] # "idle" /\ request'[b] = request[b]
<1>1. ASSUME NEW a \in Ids, NEW r \in Requests, ReceiveRequest(a, r)
      PROVE  handler'[b] = handler[b] /\ request'[b] = request[b]
  <2>1. a # b
    BY <1>1 DEF ReceiveRequest
  <2>2. QED
    BY <1>1, <2>1 DEF ReceiveRequest, TypeOK
<1>2. ASSUME NEW a \in Ids, HandlerStep(a)
      PROVE  handler'[b] # "idle" /\ request' = request
  <2>1. request' = request
    BY <1>2 DEF HandlerStep, AssessOffline, CreateAssessmentRecord, SpawnTask
  <2>2. PICK h \in {"error", "completed", "insert", "spawn", "queued"} :
          handler' = [handler EXCEPT ![a] = h]
    BY <1>2 DEF HandlerStep, AssessOffline, CreateAssessmentRecord, SpawnTask
  <2>3. QED
    BY <2>1, <2>2 DEF TypeOK
<1>3. CASE Crash
  BY <1>3 DEF Crash, TypeOK
<1>4. QED
  BY <1>1, <1>2, <1>3
  DEF Next, TaskStep, LoadAssessment, FinishAssessment, JobStep, SelectRaw,
      SelectHarmonized, LookupFails, Assess, BeginStore, StoreResult, StoreFailure,
      StoreException, vars

\* A handler without a request has not begun.
LEMMA IdleStays ==
  ASSUME TypeOK, RecordedInv, [Next]_vars, NEW a \in Ids, handler'[a] = "idle"
  PROVE  request'[a] = Null
<1>1. handler[a] = "idle" => request[a] = Null
  BY DEF RecordedInv
<1>2. ASSUME NEW b \in Ids, NEW r \in Requests, ReceiveRequest(b, r)
      PROVE  handler[a] = "idle" /\ request'[a] = request[a]
  <2>1. /\ handler' = [handler EXCEPT ![b] = IF ~ Accepted(r) THEN "rejected"
                          ELSE IF WantsOffline(r) THEN "offline" ELSE "insert"]
        /\ request' = [request EXCEPT ![b] = r]
    BY <1>2 DEF ReceiveRequest
  <2>2. a # b
    BY <2>1 DEF TypeOK
  <2>3. QED
    BY <2>1, <2>2 DEF TypeOK
<1>3. ASSUME NEW b \in Ids, HandlerStep(b)
      PROVE  handler[a] = "idle" /\ request'[a] = request[a]
  <2>1. request' = request
    BY <1>3 DEF HandlerStep, AssessOffline, CreateAssessmentRecord, SpawnTask
  <2>2. PICK h \in {"error", "completed", "insert", "spawn", "queued"} :
          handler' = [handler EXCEPT ![b] = h]
    BY <1>3 DEF HandlerStep, AssessOffline, CreateAssessmentRecord, SpawnTask
  <2>3. QED
    BY <2>1, <2>2 DEF TypeOK
<1>4. CASE handler' = handler /\ request' = request
  BY <1>1, <1>4
<1>5. CASE Crash
  BY <1>1, <1>5 DEF Crash, TypeOK, HandlerBusy
<1>6. QED
  BY <1>1, <1>2, <1>3, <1>4, <1>5
  DEF Next, TaskStep, LoadAssessment, FinishAssessment, JobStep, SelectRaw,
      SelectHarmonized, LookupFails, Assess, BeginStore, StoreResult, StoreFailure,
      StoreException, vars

\* One row at most is added by a step.
LEMMA RowsStayFinite ==
  ASSUME IsFiniteSet(harmonized), [Next]_vars
  PROVE  IsFiniteSet(harmonized')
<1>1. \A x : IsFiniteSet(harmonized \cup {x})
  BY FS_AddElement
<1>2. CASE harmonized' = harmonized
  BY <1>2
<1>3. ASSUME NEW j \in Jobs, StoreResult(j) PROVE IsFiniteSet(harmonized')
  <2>1. harmonized' = harmonized \/ harmonized' = harmonized \cup {HarmonizedRow(j)}
    BY <1>3 DEF StoreResult
  <2>2. QED
    BY <1>1, <1>2, <2>1
<1>4. CASE UNCHANGED vars
  BY <1>2, <1>4 DEF vars
<1>5. QED
  BY <1>2, <1>3, <1>4, OnlyResultsAreAdded

\* What is said of the times.
TimesHold(times, begun) ==
  /\ times \in [Ids -> Nat] /\ IsFiniteSet(begun)
  /\ \A a, b \in begun : times[a] = times[b] => a = b
  /\ \A a \in Ids : times[a] <= Cardinality(begun)

LEMMA TimesNext ==
  ASSUME RecordedInv, [ReadNext]_allVars
  PROVE  TimesHold(created', Begun')
<1>1. TimesHold(created, Begun)
  BY DEF RecordedInv, TimesHold
<1>2. CASE created' = created
  BY <1>1, <1>2 DEF Begun
<1>3. ASSUME NEW a \in Ids, BeginInsert(a) PROVE TimesHold(created', Begun')
  <2> DEFINE n == Cardinality(Begun)
  <2>1. /\ n \in Nat /\ IsFiniteSet(Begun \cup {a})
        /\ a \notin Begun => Cardinality(Begun \cup {a}) = n + 1
    BY <1>1, FS_CardinalityType, FS_AddElement DEF TimesHold
  <2>2. /\ created' = [created EXCEPT ![a] = n + 1] /\ created[a] = 0
    BY <1>3 DEF BeginInsert
  <2> HIDE DEF n
  <2>3. /\ created' \in [Ids -> Nat] /\ created'[a] = n + 1
        /\ \A b \in Ids \ {a} : created'[b] = created[b]
    BY <1>1, <2>1, <2>2 DEF TimesHold
  <2>4. Begun' = Begun \cup {a} /\ a \notin Begun
    BY <2>1, <2>2, <2>3 DEF Begun
  <2>5. Cardinality(Begun') = n + 1 /\ IsFiniteSet(Begun')
    BY <2>1, <2>4
  <2>6. \A b \in Ids : created[b] \in Nat /\ created[b] <= n
    BY <1>1 DEF TimesHold, n
  <2>7. \A b \in Ids : created'[b] <= n + 1
    BY <2>1, <2>3, <2>6
  <2>8. ASSUME NEW b \in Begun', NEW d \in Begun', created'[b] = created'[d]
        PROVE  b = d
    <3>1. b \in Ids /\ d \in Ids
      BY DEF Begun
    <3>2. b # a => b \in Begun /\ created'[b] <= n
      BY <2>3, <2>4, <2>6, <3>1
    <3>3. d # a => d \in Begun /\ created'[d] <= n
      BY <2>3, <2>4, <2>6, <3>1
    <3>4. CASE b # a /\ d # a
      BY <1>1, <2>3, <2>8, <3>1, <3>2, <3>3, <3>4 DEF TimesHold
    <3>5. CASE b = a /\ d # a
      BY <2>1, <2>3, <2>8, <3>1, <3>3, <3>5
    <3>6. CASE b # a /\ d = a
      BY <2>1, <2>3, <2>8, <3>1, <3>2, <3>6
    <3>7. QED
      BY <3>4, <3>5, <3>6
  <2>9. QED
    BY <2>3, <2>5, <2>7, <2>8 DEF TimesHold
<1>4. QED
  BY <1>2, <1>3
  DEF ReadNext, HandlerStepTimed, ReadCrash, Ask, ReadStep, ReadRecord, ReadHarmonized,
      ReadRaw, ReadList, Answer, Continue, readVars, allVars

LEMMA RecordedNext ==
  IInv /\ RecordedInv /\ [ReadNext]_allVars => RecordedInv'
<1>1. SUFFICES ASSUME IInv, RecordedInv, [ReadNext]_allVars PROVE RecordedInv'
  OBVIOUS
<1>2. [Next]_vars
  BY <1>1, ReadStepIsStep
<1>3. /\ created' \in [Ids -> Nat] /\ IsFiniteSet(Begun')
      /\ \A a, b \in Begun' : created'[a] = created'[b] => a = b
      /\ \A a \in Ids : created'[a] <= Cardinality(Begun')
  BY <1>1, TimesNext DEF RecordedInv, TimesHold
<1>4. IsFiniteSet(harmonized')
  BY <1>1, <1>2, RowsStayFinite DEF RecordedInv
<1>5. ASSUME NEW a \in Ids, Known(a)'
      PROVE  created'[a] # 0 /\ Asked(a)'
  <2>1. CASE Known(a)
    <3>1. Lasts(a) /\ Asked(a) /\ created[a] # 0
      BY <1>1, <2>1, RecordLasts DEF RecordedInv
    <3>2. request'[a] = request[a]
      BY <1>1, <1>2, <2>1, RequestStays DEF IInv, HandlerInv
    <3>3. QED
      BY <2>1, <3>1, <3>2 DEF Lasts, Asked
  <2>2. CASE ~ Known(a)
    <3>1. assessment'[a] # assessment[a]
      BY <1>5, <2>2 DEF Known
    <3>2. PICK b \in Ids : HandlerStepTimed(b) \/ TaskStep(b)
      BY <1>1, <3>1
      DEF ReadNext, ReceiveRequest, BeginInsert, JobStep, SelectRaw, SelectHarmonized,
          LookupFails, Assess, BeginStore, StoreResult, StoreFailure, StoreException,
          ReadCrash, Crash, Ask, ReadStep, ReadRecord, ReadHarmonized, ReadRaw, ReadList,
          tables, vars, allVars
    <3>3. CASE TaskStep(b)
      BY <1>1, <1>5, <2>2, <3>1, <3>3, TaskWrites DEF Known, Updated
    <3>4. CASE HandlerStepTimed(b)
      <4>1. HandlerStep(b) /\ created' = created
        BY <3>4 DEF HandlerStepTimed, readVars
      <4>2. a = b /\ assessment'[a] = NewAssessment(request[a])
        BY <1>1, <3>1, <4>1, HandlerWrites
      <4>3. CreateAssessmentRecord(b)
        BY <3>1, <4>1 DEF HandlerStep, AssessOffline, SpawnTask, tables
      <4>4. created'[a] # 0 /\ request' = request
        BY <3>4, <4>1, <4>2, <4>3 DEF HandlerStepTimed, CreateAssessmentRecord
      <4>5. QED
        BY <4>2, <4>4 DEF NewAssessment, Asked
    <3>5. QED
      BY <3>2, <3>3, <3>4
  <2>3. QED
    BY <2>1, <2>2
<1>6. \A a \in Ids : handler'[a] = "idle" => request'[a] = Null
  BY <1>1, <1>2, IdleStays DEF IInv
<1>7. QED
  BY <1>3, <1>4, <1>5, <1>6 DEF RecordedInv

\* The records of a step: those there were, and one at most that is new.
LEMMA NewestNext ==
  IInv /\ RecordedInv /\ NewestExists /\ [ReadNext]_allVars => NewestExists'
<1>1. SUFFICES ASSUME IInv, RecordedInv, NewestExists, [ReadNext]_allVars,
                      NEW b \in Ids, Known(b)'
               PROVE  \E a \in Ids : NewestOf(a, b)'
  BY DEF NewestExists
<1>2. \A a \in Ids : Lasts(a)
  BY <1>1, RecordLasts
<1>3. created' \in [Ids -> Nat]
  BY <1>1, RecordedNext DEF RecordedInv
<1>4. ASSUME \A d \in Ids : SamePid(d, b)' => Known(d)
      PROVE  \E a \in Ids : NewestOf(a, b)'
  <2>1. Known(b)
    BY <1>1, <1>4 DEF SamePid
  <2>2. PICK a \in Ids : NewestOf(a, b)
    BY <1>1, <2>1 DEF NewestExists
  <2>3. NewestOf(a, b)'
    BY <1>2, <1>4, <2>1, <2>2 DEF NewestOf, SamePid, Lasts
  <2>4. QED
    BY <2>3
<1>5. ASSUME NEW n \in Ids, ~ Known(n), SamePid(n, b)',
             \A d \in Ids \ {n} : SamePid(d, b)' => Known(d)
      PROVE  \E a \in Ids : NewestOf(a, b)'
  <2>1. CASE \A d \in Ids \ {n} : ~ SamePid(d, b)'
    <3>1. NewestOf(n, b)'
      BY <1>3, <1>5, <2>1 DEF NewestOf
    <3>2. QED
      BY <3>1
  <2>2. ASSUME NEW e \in Ids \ {n}, SamePid(e, b)'
        PROVE  \E a \in Ids : NewestOf(a, b)'
    <3>1. Known(e)
      BY <1>5, <2>2
    <3>2. PICK m \in Ids : NewestOf(m, e)
      BY <1>1, <3>1 DEF NewestExists
    <3>3. /\ SamePid(m, b)'
          /\ \A d \in Ids \ {n} : SamePid(d, b)' => created'[d] <= created'[m]
      BY <1>2, <1>5, <2>2, <3>1, <3>2 DEF NewestOf, SamePid, Lasts
    <3>4. CASE created'[n] <= created'[m]
      BY <3>3, <3>4 DEF NewestOf
    <3>5. CASE created'[m] <= created'[n]
      <4>1. \A d \in Ids : SamePid(d, b)' => created'[d] <= created'[n]
        BY <1>3, <3>3, <3>5
      <4>2. QED
        BY <1>5, <4>1 DEF NewestOf
    <3>6. QED
      BY <1>3, <3>4, <3>5
  <2>3. QED
    BY <2>1, <2>2
<1>6. ASSUME NEW n \in Ids, ~ Known(n), \A d \in Ids \ {n} : assessment'[d] = assessment[d]
      PROVE  \E a \in Ids : NewestOf(a, b)'
  BY <1>4, <1>5, <1>6 DEF SamePid, Known
<1>7. [Next]_vars
  BY <1>1, ReadStepIsStep
<1>8. CASE assessment' = assessment
  BY <1>4, <1>8 DEF SamePid, Known
<1>9. ASSUME NEW a \in Ids, HandlerStep(a) PROVE \E d \in Ids : NewestOf(d, b)'
  BY <1>1, <1>6, <1>8, <1>9, HandlerWrites
<1>10. ASSUME NEW a \in Ids, TaskStep(a) PROVE \E d \in Ids : NewestOf(d, b)'
  BY <1>1, <1>4, <1>8, <1>10, TaskWrites DEF SamePid, Known
<1>11. QED
  BY <1>7, <1>8, <1>9, <1>10
  DEF Next, ReceiveRequest, JobStep, SelectRaw, SelectHarmonized, LookupFails, Assess,
      BeginStore, StoreResult, StoreFailure, StoreException, Crash, tables, vars

----------------------------------------------------------------------------
\* What a session found.

\* The record that was read is there, and a "completed" was true.
NamedInv(c) ==
  /\ session[c].id \in Ids /\ Known(session[c].id)
  /\ session[c].status = "completed" => assessment[session[c].id].status = "completed"

ToldInv(c) ==
  \A a \in told[c] : a \in Ids /\ Known(a) /\ assessment[a].status = "completed"

NewestInv(c) ==
  /\ session[c].id \in Ids /\ Known(session[c].id)
  /\ \A b \in session[c].held :
       assessment[b].pid = assessment[session[c].id].pid =>
         created[b] <= created[session[c].id]

\* A 404 is about an id the client does not hold, or an assessor without rows.
MissedInv(c) ==
  session[c].id \in session[c].held =>
    /\ session[c].kind = "assessor"
    /\ session[c].id \in told[c] =>
         \A i \in DOMAIN assessment[session[c].id].assessors :
           assessment[session[c].id].assessors[i] # session[c].assessor

FoundInv(c) ==
  /\ \A b \in session[c].held : b \in Ids /\ Known(b)
  /\ session[c].kind = "assessor" => session[c].assessor # Null
  /\ session[c].pc = "list" => session[c].status = Null
  /\ session[c].pc \in {"rows", "raws"} => NamedInv(c)
  /\ (session[c].kind = "latest" /\ session[c].pc \in {"rows", "answered"}) => NewestInv(c)
  /\ session[c].pc = "not_found" => MissedInv(c)

ClientsInv ==
  /\ RecordedInv /\ NewestExists
  /\ DOMAIN told = Clients
  /\ \A c \in Clients : ToldInv(c) /\ FoundInv(c)

LEMMA FoundStays ==
  ASSUME IInv, ClientsInv, NEW c \in Clients, \A b \in Ids : Lasts(b),
         session'[c] = session[c], told'[c] = told[c]
  PROVE  FoundInv(c)'
<1>1. ToldInv(c) /\ FoundInv(c)
  BY DEF ClientsInv
<1>2. NamedInv(c) => NamedInv(c)'
  BY DEF NamedInv, Lasts
<1>3. NewestInv(c) => NewestInv(c)'
  BY <1>1 DEF NewestInv, FoundInv, Lasts
<1>4. MissedInv(c) => MissedInv(c)'
  BY <1>1 DEF MissedInv, ToldInv, Lasts
<1>5. (\A b \in session[c].held : b \in Ids /\ Known(b))'
  BY <1>1 DEF FoundInv, Lasts
<1>6. QED
  BY <1>1, <1>2, <1>3, <1>4, <1>5 DEF FoundInv

LEMMA ToldStays ==
  ASSUME ClientsInv, NEW c \in Clients, \A b \in Ids : Lasts(b), told'[c] = told[c]
  PROVE  ToldInv(c)'
BY DEF ClientsInv, ToldInv, Lasts

\* What a step of a session must show.
FoundHolds(c) ==
  /\ DOMAIN told' = Clients /\ ToldInv(c)' /\ FoundInv(c)'
  /\ \A d \in Clients \ {c} : session'[d] = session[d] /\ told'[d] = told[d]

\* A "completed" a client learns of was true of the record it read.
LEMMA LearnedIsTrue ==
  ASSUME ClientsInv, NEW c \in Clients, UNCHANGED vars, Learned(c),
         session[c].status = "completed" => NamedInv(c)
  PROVE  /\ DOMAIN told' = Clients /\ ToldInv(c)'
         /\ \A d \in Clients \ {c} : told'[d] = told[d]
<1>1. DOMAIN told = Clients /\ ToldInv(c)
  BY DEF ClientsInv
<1>2. CASE told' = told
  BY <1>1, <1>2 DEF ToldInv, Known, vars
<1>3. CASE /\ session[c].status = "completed"
           /\ told' = [told EXCEPT ![c] = @ \cup {session[c].id}]
  <2>1. /\ DOMAIN told' = Clients /\ told'[c] = told[c] \cup {session[c].id}
        /\ \A d \in Clients \ {c} : told'[d] = told[d]
    BY <1>1, <1>3
  <2>2. NamedInv(c)
    BY <1>3
  <2>3. ToldInv(c)'
    BY <1>1, <1>3, <2>1, <2>2 DEF ToldInv, NamedInv, Known, vars
  <2>4. QED
    BY <2>1, <2>3
<1>4. QED
  BY <1>2, <1>3 DEF Learned

LEMMA AskFinds ==
  ASSUME IInv, ReadInv, ClientsInv, NEW c \in Clients, NEW kind \in Kinds, NEW a \in Ids,
         NEW x \in (PluginIds \ {Offline}) \cup {Null}, NEW mode \in Modes \cup {Null},
         Ask(c, kind, a, x, mode)
  PROVE  FoundHolds(c)
<1>1. /\ UNCHANGED <<vars, created, told>>
      /\ session'[c].pc \in {"list", "record"}
      /\ session'[c].kind = kind /\ session'[c].assessor = x
      /\ session'[c].held = {b \in Ids : handler[b] = "queued"}
      /\ session'[c].status = Null
      /\ kind = "assessor" => x # Null
      /\ \A d \in Clients \ {c} : session'[d] = session[d]
  BY AskMoves
<1>2. \A b \in Ids : handler[b] = "queued" => Known(b)
  BY DEF IInv, HandlerInv
<1>3. FoundInv(c)'
  <2>1. (\A b \in session[c].held : b \in Ids /\ Known(b))'
    BY <1>1, <1>2 DEF Known, vars
  <2>2. session'[c].pc \notin {"rows", "raws", "answered", "not_found"}
    BY <1>1
  <2>3. /\ (session[c].kind = "assessor" => session[c].assessor # Null)'
        /\ (session[c].pc = "list" => session[c].status = Null)'
    BY <1>1
  <2>4. /\ (session[c].pc \in {"rows", "raws"} => NamedInv(c))'
        /\ (session[c].kind = "latest" /\ session[c].pc \in {"rows", "answered"}
              => NewestInv(c))'
        /\ (session[c].pc = "not_found" => MissedInv(c))'
    BY <2>2
  <2>5. QED
    BY <2>1, <2>3, <2>4 DEF FoundInv
<1>4. ToldInv(c)' /\ DOMAIN told' = Clients
  BY <1>1 DEF ClientsInv, ToldInv, Known, vars
<1>5. QED
  BY <1>1, <1>3, <1>4 DEF FoundHolds

LEMMA RecordFinds ==
  ASSUME IInv, ReadInv, ClientsInv, NEW c \in Clients, ReadRecord(c)
  PROVE  FoundHolds(c)
<1>1. UNCHANGED <<vars, created, told>> /\ session[c].pc = "record"
  BY RecordMoves
<1>2. ToldInv(c)' /\ DOMAIN told' = Clients
  BY <1>1 DEF ClientsInv, ToldInv, Known, vars
<1>3. FoundInv(c) /\ session[c].id \in Ids
  BY <1>1 DEF ClientsInv, ReadInv, SessionInv
<1>4. (\A b \in session[c].held : b \in Ids /\ Known(b))
  BY <1>3 DEF FoundInv
<1>5. ASSUME Named(c) = {}, Moved(c, "not_found"), session'[c].id = session[c].id
      PROVE  FoundInv(c)'
  <2>1. session[c].id \notin session[c].held
    <3>1. SUFFICES ASSUME Known(session[c].id) PROVE FALSE
      BY <1>4
    <3>2. session[c].kind = "latest"
      BY <1>3, <1>5, <3>1 DEF Named, Known
    <3>3. session[c].id \in OfPid(c)
      BY <1>3, <3>1 DEF OfPid, Known, ClientsInv, RecordedInv, Asked
    <3>4. PICK a \in OfPid(c) : \A b \in OfPid(c) : created[b] <= created[a]
      BY <3>3 DEF ClientsInv, NewestExists, NewestOf, SamePid, OfPid, Known
    <3>5. QED
      BY <1>5, <3>2, <3>4 DEF Named
  <2>2. MissedInv(c)'
    BY <1>5, <2>1 DEF MissedInv, Moved
  <2>3. QED
    BY <1>1, <1>3, <1>4, <1>5, <2>2 DEF FoundInv, Moved, Known, vars
<1>6. ASSUME NEW a \in Named(c),
             Moved(c, IF session[c].kind = "raw" THEN "raws" ELSE "rows"),
             session'[c].id = a, session'[c].status = assessment[a].status
      PROVE  FoundInv(c)'
  <2>1. a \in Ids /\ Known(a)
    BY <1>3, <1>6 DEF Named, OfPid, Known
  <2>2. NamedInv(c)'
    BY <1>1, <1>6, <2>1 DEF NamedInv, Known, vars
  <2>3. session[c].kind = "latest" => NewestInv(c)'
    <3>1. SUFFICES ASSUME session[c].kind = "latest", NEW b \in session[c].held,
                          assessment[b].pid = assessment[a].pid
                   PROVE  created[b] <= created[a]
      BY <1>1, <1>6, <2>1 DEF NewestInv, Moved, Known, vars
    <3>2. a \in OfPid(c) /\ \A d \in OfPid(c) : created[d] <= created[a]
      BY <1>6, <3>1 DEF Named
    <3>3. b \in OfPid(c)
      BY <1>4, <3>1, <3>2 DEF OfPid, Known
    <3>4. QED
      BY <3>2, <3>3
  <2>4. session'[c].pc \in {"rows", "raws"}
    BY <1>6 DEF Moved
  <2>5. QED
    BY <1>1, <1>3, <1>4, <1>6, <2>2, <2>3, <2>4 DEF FoundInv, Moved, Known, vars
<1>7. FoundInv(c)'
  BY <1>5, <1>6, RecordMoves
<1>8. \A d \in Clients \ {c} : session'[d] = session[d] /\ told'[d] = told[d]
  BY <1>1, RecordMoves DEF Moved
<1>9. QED
  BY <1>2, <1>7, <1>8 DEF FoundHolds

LEMMA HarmonizedFinds ==
  ASSUME IInv, QuestionInv, ReadInv, ClientsInv, NEW c \in Clients, ReadHarmonized(c)
  PROVE  FoundHolds(c)
<1> DEFINE id == session[c].id
<1>1. /\ UNCHANGED <<vars, created>> /\ session[c].pc = "rows"
      /\ session'[c].id = id /\ session'[c].status = session[c].status
  BY HarmonizedMoves
<1>2. FoundInv(c) /\ NamedInv(c) /\ ToldInv(c)
  BY <1>1 DEF ClientsInv, FoundInv
<1>3. CASE session[c].kind \in {"by_id", "latest"} /\ Moved(c, "answered") /\ Learned(c)
  <2>1. /\ DOMAIN told' = Clients /\ ToldInv(c)'
        /\ \A d \in Clients \ {c} : told'[d] = told[d]
    BY <1>1, <1>2, <1>3, LearnedIsTrue
  <2>2. session[c].kind = "latest" => NewestInv(c)'
    BY <1>1, <1>2, <1>3 DEF FoundInv, NewestInv, Moved, Known, vars
  <2>3. FoundInv(c)'
    BY <1>1, <1>2, <1>3, <2>2 DEF FoundInv, Moved, Known, vars
  <2>4. QED
    BY <1>3, <2>1, <2>3 DEF FoundHolds, Moved
<1>4. CASE /\ session[c].kind \notin {"by_id", "latest"} /\ told' = told
           /\ Moved(c, AfterRows(session[c].kind, Cardinality(Read(harmonized, c))))
  <2> DEFINE pc == AfterRows(session[c].kind, Cardinality(Read(harmonized, c)))
  <2>1. session'[c].pc = pc /\ pc \in {"not_found", "error", "raws"}
    BY <1>4 DEF Moved, AfterRows
  <2>2. NamedInv(c)'
    BY <1>1, <1>2 DEF NamedInv, Known, vars
  <2>3. ASSUME pc = "not_found" PROVE MissedInv(c)'
    <3>1. session[c].kind = "assessor" /\ Cardinality(Read(harmonized, c)) = 0
      BY <2>3 DEF AfterRows
    <3>2. Read(harmonized, c) = {}
      <4>1. IsFiniteSet(Read(harmonized, c))
        BY FS_Subset DEF Read, ClientsInv, RecordedInv
      <4>2. QED
        BY <3>1, <4>1, FS_EmptySet
    <3>3. ASSUME id \in told[c], NEW i \in DOMAIN assessment[id].assessors
          PROVE  assessment[id].assessors[i] # session[c].assessor
      <4>1. id \in Ids /\ Known(id) /\ assessment[id].status = "completed"
        BY <1>2, <3>3 DEF ToldInv
      <4>2. Answered(id, i)
        BY <3>3, <4>1 DEF IInv, TaskInv
      <4>3. PICK h \in harmonized : h.row = <<id, i>>
        BY <4>2 DEF Answered
      <4>4. h.assessment_id = id /\ h.assessor = assessment[id].assessors[i]
        BY <4>3 DEF QuestionInv, AnswerInv
      <4>5. QED
        BY <3>2, <4>3, <4>4 DEF Read
    <3>4. QED
      BY <1>1, <1>4, <3>1, <3>3 DEF MissedInv, Moved, vars
  <2>4. FoundInv(c)'
    BY <1>1, <1>2, <1>4, <2>1, <2>2, <2>3 DEF FoundInv, Moved, Known, vars
  <2>5. ToldInv(c)' /\ DOMAIN told' = Clients
    BY <1>1, <1>2, <1>4 DEF ClientsInv, ToldInv, Known, vars
  <2>6. QED
    BY <1>4, <2>4, <2>5 DEF FoundHolds, Moved
<1>5. QED
  BY <1>3, <1>4, HarmonizedMoves

LEMMA RawFinds ==
  ASSUME IInv, ReadInv, ClientsInv, NEW c \in Clients, ReadRaw(c)
  PROVE  FoundHolds(c)
<1>1. /\ UNCHANGED <<vars, created>> /\ session[c].pc = "raws"
      /\ session'[c].id = session[c].id /\ session'[c].status = session[c].status
  BY RawMoves
<1>2. FoundInv(c) /\ NamedInv(c) /\ session[c].kind # "latest"
  BY <1>1 DEF ClientsInv, FoundInv, ReadInv, SessionInv
<1>3. PICK pc \in {"answered", "error"} : Moved(c, pc) /\ Learned(c)
  BY RawMoves DEF Learned
<1>4. /\ DOMAIN told' = Clients /\ ToldInv(c)'
      /\ \A d \in Clients \ {c} : told'[d] = told[d]
  BY <1>1, <1>2, <1>3, LearnedIsTrue
<1>5. FoundInv(c)'
  BY <1>1, <1>2, <1>3 DEF FoundInv, Moved, Known, vars
<1>6. QED
  BY <1>3, <1>4, <1>5 DEF FoundHolds, Moved

LEMMA ListFinds ==
  ASSUME IInv, ReadInv, ClientsInv, NEW c \in Clients, ReadList(c)
  PROVE  FoundHolds(c)
<1>1. /\ UNCHANGED <<vars, created>> /\ session[c].pc = "list"
      /\ session[c].kind = "list" /\ Moved(c, "answered") /\ Learned(c)
  BY ListMoves
<1>2. FoundInv(c) /\ session[c].status # "completed"
  BY <1>1, ReadAssumption DEF ClientsInv, FoundInv
<1>3. /\ DOMAIN told' = Clients /\ ToldInv(c)'
      /\ \A d \in Clients \ {c} : told'[d] = told[d]
  BY <1>1, <1>2, LearnedIsTrue
<1>4. FoundInv(c)'
  BY <1>1, <1>2 DEF FoundInv, Moved, Known, vars
<1>5. QED
  BY <1>1, <1>3, <1>4 DEF FoundHolds, Moved

LEMMA ClientsInit == ReadInit => ClientsInv
<1>1. SUFFICES ASSUME ReadInit PROVE ClientsInv
  OBVIOUS
<1>2. \A a \in Ids : ~ Known(a)
  BY <1>1 DEF ReadInit, Init, Known
<1>3. RecordedInv
  <2>1. created \in [Ids -> Nat] /\ Begun = {} /\ harmonized = {}
    BY <1>1 DEF ReadInit, Init, Begun
  <2>2. /\ \A a \in Ids : created[a] = 0 /\ request[a] = Null
        /\ Cardinality(Begun) = 0
    BY <1>1, <2>1, FS_EmptySet DEF ReadInit, Init
  <2>3. QED
    BY <1>2, <2>1, <2>2, FS_EmptySet DEF RecordedInv
<1>4. NewestExists
  BY <1>2 DEF NewestExists
<1>5. ASSUME NEW c \in Clients PROVE ToldInv(c) /\ FoundInv(c)
  <2>1. session[c] = NoSession /\ told[c] = {}
    BY <1>1 DEF ReadInit
  <2>2. session[c].pc = "answered" /\ session[c].kind = Null /\ session[c].held = {}
    BY <2>1 DEF NoSession
  <2>3. QED
    BY <2>1, <2>2, ReadAssumption DEF ToldInv, FoundInv, Kinds
<1>6. QED
  BY <1>1, <1>3, <1>4, <1>5 DEF ReadInit, ClientsInv

LEMMA ClientsNext ==
  IInv /\ QuestionInv /\ ReadInv /\ ClientsInv /\ [ReadNext]_allVars => ClientsInv'
<1>1. SUFFICES ASSUME IInv, QuestionInv, ReadInv, ClientsInv, [ReadNext]_allVars
               PROVE  ClientsInv'
  OBVIOUS
<1>2. RecordedInv' /\ NewestExists'
  BY <1>1, RecordedNext, NewestNext DEF ClientsInv
<1>3. \A b \in Ids : Lasts(b)
  BY <1>1, RecordLasts DEF ClientsInv
<1>4. ASSUME NEW c \in Clients, session'[c] = session[c], told'[c] = told[c]
      PROVE  ToldInv(c)' /\ FoundInv(c)'
  BY <1>1, <1>3, <1>4, FoundStays, ToldStays
<1>5. CASE session' = session /\ told' = told
  BY <1>1, <1>2, <1>4, <1>5 DEF ClientsInv
<1>6. ASSUME NEW c \in Clients, FoundHolds(c) PROVE ClientsInv'
  BY <1>2, <1>4, <1>6 DEF FoundHolds, ClientsInv
<1>7. ASSUME NEW c \in Clients, ReadStep(c) PROVE ClientsInv'
  BY <1>1, <1>6, <1>7, RecordFinds, HarmonizedFinds, RawFinds, ListFinds DEF ReadStep
<1>8. ASSUME NEW c \in Clients, NEW kind \in Kinds, NEW a \in Ids,
             NEW x \in (PluginIds \ {Offline}) \cup {Null}, NEW mode \in Modes \cup {Null},
             Ask(c, kind, a, x, mode)
      PROVE  ClientsInv'
  BY <1>1, <1>6, <1>8, AskFinds
<1>9. CASE ReadCrash
  <2>1. told' = told /\ DOMAIN told = Clients
    BY <1>1, <1>9 DEF ReadCrash, ClientsInv
  <2>2. ASSUME NEW c \in Clients PROVE ToldInv(c)' /\ FoundInv(c)'
    <3>1. CASE session'[c] = session[c]
      BY <1>4, <2>1, <3>1
    <3>2. CASE session'[c] = NoSession
      <4>1. session'[c].pc = "answered" /\ session'[c].kind = Null /\ session'[c].held = {}
        BY <3>2 DEF NoSession
      <4>2. FoundInv(c)'
        BY <4>1, ReadAssumption DEF FoundInv, Kinds
      <4>3. ToldInv(c)'
        BY <1>1, <1>3, <2>1, ToldStays
      <4>4. QED
        BY <4>2, <4>3
    <3>3. QED
      BY <1>9, <3>1, <3>2 DEF ReadCrash
  <2>3. QED
    BY <1>2, <2>1, <2>2 DEF ClientsInv
<1>10. QED
  BY <1>1, <1>5, <1>7, <1>8, <1>9
  DEF ReadNext, BeginInsert, HandlerStepTimed, readVars, allVars

LEMMA ClientsInvariant == ReadSpec => []ClientsInv
BY ClientsInit, ClientsNext, ReadInvariant, ReadersOnlyRead, InductiveInvariant,
   QuestionsAreKept, PTL DEF ReadSpec

\* The latest assessment of a pid is no older than any of that pid the client
\* was answered before it asked, whatever is inserted meanwhile and in whatever
\* order the records appear.
THEOREM LatestIsLatest == ReadSpec => []LatestIsNoOlder
<1>1. ClientsInv => LatestIsNoOlder
  BY DEF ClientsInv, FoundInv, NewestInv, LatestIsNoOlder, Told
<1>2. QED
  BY <1>1, ClientsInvariant, PTL

\* No 404 for an id that was answered, nor for an assessor of an assessment the
\* client was told is completed.
THEOREM HeldIdsAnswer == ReadSpec => []HeldIdsAreFound
<1>1. ClientsInv => HeldIdsAreFound
  BY DEF ClientsInv, FoundInv, MissedInv, HeldIdsAreFound
<1>2. QED
  BY <1>1, ClientsInvariant, PTL

----------------------------------------------------------------------------
\* The rows a session shows.

\* Rows that were read are rows of the question, and stay.
RowsOf(c) ==
  \A h \in session[c].rows :
    /\ h \in harmonized /\ h.assessment_id = session[c].id
    /\ session[c].assessor \in {Null, h.assessor}

Fits(c) ==
  \A h \in session[c].rows :
    /\ \E r \in session[c].raws : r.assessor = h.assessor
    /\ \A r \in session[c].raws : r.assessor = h.assessor => r.raw = h.norm

ShownInv(c) ==
  /\ session[c].pc # "error"
  /\ session[c].pc = "raws" /\ session[c].kind # "raw" => RowsOf(c)
  /\ Told(c, {"results", "assessor"}) => Fits(c)

\* What is known of the rows of the tables.
RowsAgree ==
  IInv /\ QuestionInv /\ RowsInv /\ RawMatchesNormalised /\ OneRowPerAssessor

\* A normalised row has its raw row beside it.
LEMMA RawBeside ==
  ASSUME RowsAgree, NEW h \in harmonized
  PROVE  /\ \E r \in raw : /\ r.assessment_id = h.assessment_id
                          /\ r.assessor = h.assessor /\ r.raw = h.norm
         /\ \A r \in raw : (r.assessment_id = h.assessment_id /\ r.assessor = h.assessor)
                             => r.raw = h.norm
<1>1. PICK own \in raw : own.row = <<h.row, "store">> /\ own.raw = h.norm
  BY DEF RowsAgree, RawMatchesNormalised
<1>2. PlaceInv(own) /\ AnswerInv(h) /\ h.row \in Jobs /\ h.assessment_id \in Ids
  BY KnownPlace DEF RowsAgree, RowsInv, QuestionInv
<1>3. own.row[1] = h.row
  BY <1>1
<1>4. own.assessment_id = h.assessment_id /\ own.assessor = h.assessor
  BY <1>2, <1>3 DEF PlaceInv, AnswerInv
<1>5. ASSUME NEW r \in raw, r.assessment_id = h.assessment_id, r.assessor = h.assessor
      PROVE  r = own
  BY <1>2, <1>4, <1>5 DEF RowsAgree, OneRowPerAssessor, RawOf
<1>6. QED
  BY <1>1, <1>4, <1>5

\* A set whose members are all the same has one of them at most.
LEMMA NotTwo ==
  ASSUME NEW S, \A x, y \in S : x = y
  PROVE  ~ Cardinality(S) > 1
<1>1. CASE S = {}
  BY <1>1, FS_EmptySet
<1>2. ASSUME NEW x \in S PROVE ~ Cardinality(S) > 1
  <2>1. S = {x}
    BY <1>2
  <2>2. QED
    BY <2>1, FS_Singleton
<1>3. QED
  BY <1>1, <1>2

LEMMA HarmonizedShows ==
  ASSUME RowsAgree, ReadInv, NEW c \in Clients, FoundInv(c), ReadHarmonized(c)
  PROVE  ShownInv(c)'
<1>1. /\ UNCHANGED <<vars, created>> /\ session[c].pc = "rows"
      /\ session'[c].id = session[c].id /\ session'[c].rows = Read(harmonized, c)
  BY HarmonizedMoves
<1>2. CASE session[c].kind \in {"by_id", "latest"} /\ Moved(c, "answered")
  BY <1>2 DEF ShownInv, Moved, Told
<1>3. CASE Moved(c, AfterRows(session[c].kind, Cardinality(Read(harmonized, c))))
  <2> DEFINE pc == AfterRows(session[c].kind, Cardinality(Read(harmonized, c)))
  <2>1. session'[c].pc = pc /\ session'[c].assessor = session[c].assessor
    BY <1>3 DEF Moved
  <2>2. RowsOf(c)'
    BY <1>1, <2>1 DEF RowsOf, Read, vars
  <2>3. pc # "error"
    <3>1. SUFFICES ASSUME session[c].kind = "assessor"
                   PROVE  ~ Cardinality(Read(harmonized, c)) > 1
      BY DEF AfterRows
    <3>2. session[c].assessor # Null /\ session[c].id \in Ids
      BY <1>1, <3>1 DEF FoundInv, NamedInv
    <3>3. \A x, y \in Read(harmonized, c) : x = y
      BY <3>2 DEF Read, RowsAgree, OneRowPerAssessor, HarmonizedOf
    <3>4. QED
      BY <3>3, NotTwo
  <2>4. pc # "answered"
    BY DEF AfterRows
  <2>5. QED
    BY <2>1, <2>2, <2>3, <2>4 DEF ShownInv, Told
<1>4. QED
  BY <1>2, <1>3, HarmonizedMoves

LEMMA RawShows ==
  ASSUME RowsAgree, ReadInv, NEW c \in Clients, FoundInv(c), ShownInv(c), ReadRaw(c)
  PROVE  ShownInv(c)'
<1>1. /\ UNCHANGED <<vars, created>> /\ session[c].pc = "raws"
      /\ session'[c].id = session[c].id /\ session'[c].rows = session[c].rows
      /\ session'[c].raws = Read(raw, c)
  BY RawMoves
<1>2. ~ (session[c].kind = "assessor" /\ Cardinality(Read(raw, c)) > 1)
  <2>1. SUFFICES ASSUME session[c].kind = "assessor"
                 PROVE  ~ Cardinality(Read(raw, c)) > 1
    OBVIOUS
  <2>2. session[c].assessor # Null /\ session[c].id \in Ids
    BY <1>1, <2>1 DEF FoundInv, NamedInv
  <2>3. \A x, y \in Read(raw, c) : x = y
    BY <2>2 DEF Read, RowsAgree, OneRowPerAssessor, RawOf
  <2>4. QED
    BY <2>3, NotTwo
<1>3. Moved(c, "answered")
  BY <1>2, RawMoves
<1>4. ASSUME session[c].kind # "raw" PROVE Fits(c)'
  <2>1. SUFFICES ASSUME NEW h \in session[c].rows
                 PROVE  /\ \E r \in Read(raw, c) : r.assessor = h.assessor
                        /\ \A r \in Read(raw, c) : r.assessor = h.assessor => r.raw = h.norm
    BY <1>1 DEF Fits
  <2>2. /\ h \in harmonized /\ h.assessment_id = session[c].id
        /\ session[c].assessor \in {Null, h.assessor}
    BY <1>1, <1>4, <2>1 DEF ShownInv, RowsOf
  <2>3. QED
    BY <2>2, RawBeside DEF Read
<1>5. QED
  BY <1>3, <1>4 DEF ShownInv, Moved, Told

LEMMA ShownNext ==
  /\ RowsAgree /\ ReadInv /\ ClientsInv /\ (\A c \in Clients : ShownInv(c))
  /\ [ReadNext]_allVars
  => \A c \in Clients : ShownInv(c)'
<1>1. SUFFICES ASSUME RowsAgree, ReadInv, ClientsInv, \A c \in Clients : ShownInv(c),
                      [ReadNext]_allVars, NEW c \in Clients
               PROVE  ShownInv(c)'
  OBVIOUS
<1>2. FoundInv(c) /\ ShownInv(c)
  BY <1>1 DEF ClientsInv
<1>3. CASE session'[c] = session[c]
  <2>1. harmonized \subseteq harmonized'
    BY <1>1, ReadStepIsStep, OnlyResultsAreAdded DEF StoreResult, vars
  <2>2. RowsOf(c) => RowsOf(c)'
    BY <1>3, <2>1 DEF RowsOf
  <2>3. Fits(c) => Fits(c)'
    BY <1>3 DEF Fits
  <2>4. QED
    BY <1>2, <1>3, <2>2, <2>3 DEF ShownInv, Told
<1>4. CASE ReadRecord(c)
  <2>1. PICK pc \in {"not_found", "raws", "rows"} :
          Moved(c, pc) /\ (pc = "raws" => session[c].kind = "raw")
    BY <1>1, <1>4, RecordMoves
  <2>2. QED
    BY <2>1 DEF ShownInv, Moved, Told
<1>5. CASE ReadHarmonized(c)
  BY <1>1, <1>2, <1>5, HarmonizedShows
<1>6. CASE ReadRaw(c)
  BY <1>1, <1>2, <1>6, RawShows
<1>7. CASE ReadList(c)
  BY <1>1, <1>7, ListMoves DEF ShownInv, Moved, Told
<1>8. ASSUME NEW kind \in Kinds, NEW a \in Ids,
             NEW x \in (PluginIds \ {Offline}) \cup {Null}, NEW mode \in Modes \cup {Null},
             Ask(c, kind, a, x, mode)
      PROVE  ShownInv(c)'
  BY <1>1, <1>8, AskMoves DEF ShownInv, Told
<1>9. ASSUME session'[c] = NoSession PROVE ShownInv(c)'
  <2>1. session'[c].pc = "answered" /\ session'[c].kind = Null
    BY <1>9 DEF NoSession
  <2>2. QED
    BY <2>1, ReadAssumption DEF ShownInv, Told, Kinds
<1>10. ASSUME NEW d \in Clients \ {c}, ReadStep(d) PROVE session'[c] = session[c]
  BY <1>1, <1>10, RecordMoves, HarmonizedMoves, RawMoves, ListMoves DEF ReadStep, Moved
<1>11. ASSUME NEW d \in Clients \ {c}, NEW kind \in Kinds, NEW a \in Ids,
              NEW x \in (PluginIds \ {Offline}) \cup {Null}, NEW mode \in Modes \cup {Null},
              Ask(d, kind, a, x, mode)
       PROVE  session'[c] = session[c]
  BY <1>1, <1>11, AskMoves
<1>12. ASSUME NEW d \in Clients, ReadStep(d) PROVE ShownInv(c)'
  BY <1>3, <1>4, <1>5, <1>6, <1>7, <1>10, <1>12 DEF ReadStep
<1>13. ASSUME NEW d \in Clients, NEW kind \in Kinds, NEW a \in Ids,
              NEW x \in (PluginIds \ {Offline}) \cup {Null}, NEW mode \in Modes \cup {Null},
              Ask(d, kind, a, x, mode)
       PROVE  ShownInv(c)'
  BY <1>3, <1>8, <1>11, <1>13
<1>14. CASE ReadCrash
  BY <1>3, <1>9, <1>14 DEF ReadCrash
<1>15. CASE session' = session
  BY <1>3, <1>15
<1>16. QED
  BY <1>1, <1>12, <1>13, <1>14, <1>15
  DEF ReadNext, BeginInsert, HandlerStepTimed, readVars, allVars

ShownAlways == \A c \in Clients : ShownInv(c)

LEMMA ShownInvariant ==
  ASSUME NoRepeats, JobsTold
  PROVE  ReadSpec => []ShownAlways
<1>1. ReadInit => ShownAlways
  <2>1. SUFFICES ASSUME ReadInit, NEW c \in Clients PROVE ShownInv(c)
    BY DEF ShownAlways
  <2>2. session[c].pc = "answered" /\ session[c].kind = Null
    BY <2>1 DEF ReadInit, NoSession
  <2>3. QED
    BY <2>2, ReadAssumption DEF ShownInv, Told, Kinds
<1>2. RowsAgree /\ ReadInv /\ ClientsInv /\ ShownAlways /\ [ReadNext]_allVars => ShownAlways'
  BY ShownNext DEF ShownAlways
<1>3. Spec => []RowsAgree
  <2>1. Spec => []RowsInv
    BY RowsInvariant
  <2>2. Spec => []RawMatchesNormalised
    BY RowsTellTheSame
  <2>3. Spec => []OneRowPerAssessor
    BY OneRowEach
  <2>4. QED
    BY <2>1, <2>2, <2>3, InductiveInvariant, QuestionsAreKept, PTL DEF RowsAgree
<1>4. QED
  BY <1>1, <1>2, <1>3, ReadersOnlyRead, ReadInvariant, ClientsInvariant, PTL DEF ReadSpec

\* A reader finds one row of an assessor or none, as scalar_one_or_none takes for
\* granted, if no request names an assessor twice and no commit of a job loses
\* its acknowledgement.
THEOREM ReadersFindOne ==
  ASSUME NoRepeats, JobsTold
  PROVE  ReadSpec => []OneOrNone
<1>1. ShownAlways => OneOrNone
  BY DEF ShownAlways, ShownInv, OneOrNone
<1>2. ReadSpec => []ShownAlways
  BY ShownInvariant
<1>3. QED
  BY <1>1, <1>2, PTL

\* Under the same conditions every normalised row in an answer has the raw answer
\* it was made from beside it, although two statements read them.
THEOREM GuidanceIsOfTheRow ==
  ASSUME NoRepeats, JobsTold
  PROVE  ReadSpec => []GuidanceFitsRow
<1>1. ShownAlways => GuidanceFitsRow
  BY DEF ShownAlways, ShownInv, Fits, GuidanceFitsRow
<1>2. ReadSpec => []ShownAlways
  BY ShownInvariant
<1>3. QED
  BY <1>1, <1>2, PTL

----------------------------------------------------------------------------
\* Lists in the order of a number.

Decreasing(f, s) == \A i, k \in DOMAIN s : i < k => f[s[k]] < f[s[i]]

Ranks(f, S) == {s \in [1 .. Cardinality(S) -> S] : Decreasing(f, s)}

Distinct(f, S) ==
  /\ \A x \in S : f[x] \in Nat
  /\ \A x, y \in S : f[x] = f[y] => x = y

\* Put last, the least makes the list of the others one of all.
LEMMA RankLast ==
  ASSUME NEW f, NEW S, IsFiniteSet(S), Distinct(f, S), NEW x \in S,
         \A y \in S : f[x] <= f[y], Ranks(f, S \ {x}) # {}
  PROVE  Ranks(f, S) # {}
<1> DEFINE n == Cardinality(S)
<1>1. n \in Nat /\ n # 0 /\ Cardinality(S \ {x}) = n - 1
  BY FS_CardinalityType, FS_EmptySet, FS_RemoveElement
<1>2. PICK s \in [1 .. n - 1 -> S \ {x}] : Decreasing(f, s)
  BY <1>1 DEF Ranks
<1> HIDE DEF n
<1> DEFINE t == [i \in 1 .. n |-> IF i < n THEN s[i] ELSE x]
<1>3. t \in [1 .. n -> S]
  BY <1>1, <1>2
<1>4. ASSUME NEW i \in 1 .. n, NEW k \in 1 .. n, i < k PROVE f[t[k]] < f[t[i]]
  <2>1. i \in 1 .. n - 1 /\ t[i] = s[i] /\ s[i] \in S \ {x}
    BY <1>1, <1>2, <1>4
  <2>2. CASE k < n
    <3>1. k \in 1 .. n - 1 /\ t[k] = s[k]
      BY <1>1, <2>2
    <3>2. QED
      BY <1>2, <1>4, <2>1, <3>1 DEF Decreasing
  <2>3. CASE k = n
    <3>1. t[k] = x /\ f[x] <= f[s[i]] /\ f[x] # f[s[i]]
      BY <1>1, <2>1, <2>3 DEF Distinct
    <3>2. f[x] \in Nat /\ f[s[i]] \in Nat
      BY <2>1 DEF Distinct
    <3>3. QED
      BY <2>1, <3>1, <3>2
  <2>4. QED
    BY <1>1, <2>2, <2>3
<1>5. Decreasing(f, t)
  <2>1. DOMAIN t = 1 .. n
    OBVIOUS
  <2> HIDE DEF t
  <2>2. QED
    BY <1>4, <2>1 DEF Decreasing
<1>6. t \in Ranks(f, S)
  BY <1>3, <1>5 DEF Ranks, n
<1>7. QED
  BY <1>6

LEMMA RankExists ==
  ASSUME NEW f, NEW S, IsFiniteSet(S), Distinct(f, S)
  PROVE  Ranks(f, S) # {}
<1> DEFINE Bad == {R \in SUBSET S : Ranks(f, R) = {}}
<1>1. SUFFICES ASSUME Bad # {} PROVE FALSE
  OBVIOUS
<1>2. \A R \in Bad : IsFiniteSet(R)
  BY FS_Subset
<1> HIDE DEF Bad
<1>3. PICK R \in Bad : \A Q \in Bad : Cardinality(R) <= Cardinality(Q)
  BY <1>1, <1>2, SmallestSet
<1>4. R \in SUBSET S /\ Ranks(f, R) = {} /\ IsFiniteSet(R) /\ Distinct(f, R)
  BY <1>2, <1>3 DEF Bad, Distinct
<1>5. CASE R = {}
  <2>1. Cardinality(R) = 0
    BY <1>5, FS_EmptySet
  <2>2. << >> \in [1 .. 0 -> R] /\ Decreasing(f, << >>)
    BY DEF Decreasing
  <2>3. << >> \in Ranks(f, R)
    BY <2>1, <2>2 DEF Ranks
  <2>4. QED
    BY <1>4, <2>3
<1>6. CASE R # {}
  <2> DEFINE T == {f[y] : y \in R}
  <2>1. T \subseteq Nat /\ T # {}
    BY <1>4, <1>6 DEF Distinct
  <2>2. PICK m \in T : \A n \in T : m <= n
    BY <2>1, LeastNumber
  <2>3. PICK x \in R : f[x] = m
    OBVIOUS
  <2>4. \A y \in R : f[x] <= f[y]
    BY <2>2, <2>3
  <2>5. R \ {x} \in SUBSET S /\ Cardinality(R \ {x}) = Cardinality(R) - 1
        /\ Cardinality(R) \in Nat
    BY <1>4, <2>3, FS_RemoveElement, FS_CardinalityType
  <2>6. R \ {x} \notin Bad
    BY <1>3, <2>5
  <2>7. Ranks(f, R \ {x}) # {}
    BY <2>5, <2>6 DEF Bad
  <2>8. Ranks(f, R) # {}
    BY <1>4, <2>4, <2>7, RankLast
  <2>9. QED
    BY <1>4, <2>8
<1>7. QED
  BY <1>5, <1>6

\* Such a list has every member.
LEMMA RankIsWhole ==
  ASSUME NEW f, NEW S, IsFiniteSet(S), Distinct(f, S), NEW s \in Ranks(f, S)
  PROVE  \A x \in S : \E i \in DOMAIN s : s[i] = x
<1> DEFINE n == Cardinality(S)
<1>1. n \in Nat /\ s \in [1 .. n -> S] /\ Decreasing(f, s)
  BY FS_CardinalityType DEF Ranks
<1>2. Cardinality(1 .. n) = n
  BY <1>1, FS_Interval
<1> HIDE DEF n
<1>3. ASSUME NEW i \in 1 .. n, NEW k \in 1 .. n, s[i] = s[k] PROVE i = k
  <2>1. f[s[i]] \in Nat
    BY <1>1 DEF Distinct
  <2>2. ~ i < k /\ ~ k < i
    BY <1>1, <1>3, <2>1 DEF Decreasing
  <2>3. QED
    BY <1>1, <2>2
<1>4. s \in Injection(1 .. n, S)
  BY <1>1, <1>3 DEF Injection, IsInjective
<1>5. s \in Surjection(1 .. n, S)
  BY <1>2, <1>4, FS_Injection DEF n
<1>6. QED
  BY <1>1, <1>5 DEF Surjection

\* The order of the list is one that exists, and the list has every record.
LEMMA NewestFirstRanks ==
  ASSUME NEW S, IsFiniteSet(S), Distinct(created, S)
  PROVE  NewestFirst(S) \in Ranks(created, S)
<1>1. Ranks(created, S) # {}
  BY RankExists
<1>2. \E s \in [1 .. Cardinality(S) -> S] :
        \A i, k \in DOMAIN s : i < k => created[s[k]] < created[s[i]]
  BY <1>1 DEF Ranks, Decreasing
<1>3. QED
  BY <1>2 DEF NewestFirst, Ranks, Decreasing

----------------------------------------------------------------------------
\* What a list shows.

Wanted(c, b) ==
  /\ request[b].pid = request[session[c].id].pid
  /\ session[c].mode \in {Null, request[b].mode}
  /\ session[c].assessor = Null \/ \E i \in DOMAIN Online(request[b]) :
                                     Online(request[b])[i] = session[c].assessor

\* A pid as it was spelled is one of a request that was received.
Spelled(c) == session[c].id \in Ids /\ handler[session[c].id] # "idle"

Listing(c) ==
  /\ \A i \in DOMAIN session[c].ids : session[c].ids[i] \in Begun
  /\ Decreasing(created, session[c].ids)
  /\ \A b \in session[c].held : Wanted(c, b) =>
       \E i \in DOMAIN session[c].ids : session[c].ids[i] = b

ListingInv(c) ==
  /\ session[c].pc = "list" => Spelled(c)
  /\ Told(c, {"list"}) => Spelled(c) /\ Listing(c)

LEMMA TimesLast ==
  ASSUME RecordedInv, [ReadNext]_allVars, NEW a \in Begun
  PROVE  a \in Begun' /\ created'[a] = created[a]
<1>1. ASSUME NEW b \in Ids, BeginInsert(b) PROVE created'[a] = created[a]
  BY <1>1 DEF BeginInsert, RecordedInv, Begun
<1>2. created'[a] = created[a]
  BY <1>1
  DEF ReadNext, HandlerStepTimed, ReadCrash, Ask, ReadStep, ReadRecord, ReadHarmonized,
      ReadRaw, ReadList, Answer, Continue, readVars, allVars
<1>3. QED
  BY <1>2 DEF Begun

\* The list a client was shown keeps its order, and the requests do not change.
LEMMA ListStays ==
  ASSUME IInv, ClientsInv, NEW c \in Clients, ListingInv(c), [ReadNext]_allVars,
         session'[c] = session[c]
  PROVE  ListingInv(c)'
<1>1. RecordedInv /\ TypeOK /\ [Next]_vars /\ FoundInv(c)
  BY ReadStepIsStep DEF ClientsInv, IInv
<1>2. ASSUME NEW b \in Ids, handler[b] # "idle"
      PROVE  handler'[b] # "idle" /\ request'[b] = request[b]
  BY <1>1, <1>2, RequestStays
<1>3. Spelled(c) => Spelled(c)'
  BY <1>2 DEF Spelled
<1>4. ASSUME Spelled(c), Listing(c) PROVE Listing(c)'
  <2>1. \A i \in DOMAIN session[c].ids :
          /\ session[c].ids[i] \in Begun'
          /\ created'[session[c].ids[i]] = created[session[c].ids[i]]
    BY <1>1, <1>4, TimesLast DEF Listing
  <2>2. Decreasing(created, session[c].ids)'
    BY <1>4, <2>1 DEF Listing, Decreasing
  <2>3. ASSUME NEW b \in session[c].held
        PROVE  Wanted(c, b)' => Wanted(c, b)
    <3>1. b \in Ids /\ handler[b] # "idle"
      BY <1>1 DEF FoundInv, IInv, HandlerInv
    <3>2. request'[b] = request[b] /\ request'[session[c].id] = request[session[c].id]
      BY <1>2, <1>4, <3>1 DEF Spelled
    <3>3. QED
      BY <3>2 DEF Wanted
  <2>4. QED
    BY <1>4, <2>1, <2>2, <2>3 DEF Listing
<1>5. QED
  BY <1>3, <1>4 DEF ListingInv, Told

\* The list is made of the records there are, and those answered are there.
LEMMA ListIsMade ==
  ASSUME IInv, ReadInv, ClientsInv, NEW c \in Clients, ListingInv(c), ReadList(c)
  PROVE  ListingInv(c)'
<1> DEFINE S == Listed(c)
           ids == NewestFirst(S)
<1>1. /\ UNCHANGED <<vars, created>> /\ session[c].pc = "list"
      /\ session'[c].pc = "answered" /\ session'[c].held = session[c].held
      /\ session'[c].assessor = session[c].assessor /\ session'[c].mode = session[c].mode
      /\ session'[c].id = session[c].id /\ session'[c].ids = ids
  BY ListMoves DEF Moved
<1>2. RecordedInv /\ FoundInv(c) /\ Spelled(c)
  BY <1>1 DEF ClientsInv, ListingInv
<1>3. S \subseteq Begun /\ \A b \in Begun : created[b] \in Nat
  BY <1>2 DEF Listed, OfPid, RecordedInv, Known, Begun
<1>4. IsFiniteSet(S) /\ Distinct(created, S)
  BY <1>2, <1>3, FS_Subset DEF RecordedInv, Distinct
<1>5. ids \in Ranks(created, S)
  BY <1>4, NewestFirstRanks
<1>6. \A x \in S : \E i \in DOMAIN ids : ids[i] = x
  BY <1>4, <1>5, RankIsWhole
<1>7. (\A i \in DOMAIN ids : ids[i] \in Begun) /\ Decreasing(created, ids)
  BY <1>3, <1>5 DEF Ranks
<1>8. ASSUME NEW b \in session[c].held, Wanted(c, b) PROVE b \in S
  <2>1. b \in Ids /\ Known(b)
    BY <1>2 DEF FoundInv
  <2>2. Asked(b)
    BY <1>2, <2>1 DEF RecordedInv
  <2>3. b \in OfPid(c)
    BY <1>8, <2>1, <2>2 DEF OfPid, Wanted, Asked, Known
  <2>4. QED
    BY <1>8, <2>2, <2>3 DEF Listed, Wanted, Asked
<1> HIDE DEF S, ids
<1>9. Listing(c)'
  <2>1. (\A i \in DOMAIN session[c].ids : session[c].ids[i] \in Begun)'
    BY <1>1, <1>7 DEF Begun
  <2>2. Decreasing(created, session[c].ids)'
    BY <1>1, <1>7 DEF Decreasing
  <2>3. ASSUME NEW b \in session'[c].held, Wanted(c, b)' PROVE Wanted(c, b)
    BY <1>1, <2>3 DEF Wanted, vars
  <2>4. QED
    BY <1>1, <1>6, <1>8, <2>1, <2>2, <2>3 DEF Listing
<1>10. Spelled(c)'
  BY <1>1, <1>2 DEF Spelled, vars
<1>11. QED
  BY <1>1, <1>9, <1>10 DEF ListingInv

ListsInv == \A c \in Clients : ListingInv(c)

LEMMA ListsNext ==
  IInv /\ ReadInv /\ ClientsInv /\ ListsInv /\ [ReadNext]_allVars => ListsInv'
<1>1. SUFFICES ASSUME IInv, ReadInv, ClientsInv, ListsInv, [ReadNext]_allVars,
                      NEW c \in Clients
               PROVE  ListingInv(c)'
  BY DEF ListsInv
<1>2. ListingInv(c)
  BY <1>1 DEF ListsInv
<1>3. CASE session'[c] = session[c]
  BY <1>1, <1>2, <1>3, ListStays
<1>4. CASE ReadRecord(c)
  <2>1. PICK pc \in {"not_found", "raws", "rows"} : Moved(c, pc)
    BY <1>1, <1>4, RecordMoves
  <2>2. QED
    BY <2>1 DEF ListingInv, Moved, Told
<1>5. CASE ReadHarmonized(c)
  <2>1. session[c].pc = "rows"
    BY <1>1, <1>5, HarmonizedMoves
  <2>2. session[c].kind # "list"
    BY <1>1, <2>1 DEF ReadInv, SessionInv
  <2>3. PICK pc \in {"answered", "not_found", "error", "raws"} : Moved(c, pc)
    BY <1>1, <1>5, HarmonizedMoves DEF AfterRows
  <2>4. QED
    BY <2>2, <2>3 DEF ListingInv, Moved, Told
<1>6. CASE ReadRaw(c)
  <2>1. session[c].pc = "raws"
    BY <1>1, <1>6, RawMoves
  <2>2. session[c].kind # "list"
    BY <1>1, <2>1 DEF ReadInv, SessionInv
  <2>3. PICK pc \in {"answered", "error"} : Moved(c, pc)
    BY <1>1, <1>6, RawMoves
  <2>4. QED
    BY <2>2, <2>3 DEF ListingInv, Moved, Told
<1>7. CASE ReadList(c)
  BY <1>1, <1>2, <1>7, ListIsMade
<1>8. ASSUME NEW kind \in Kinds, NEW a \in Ids,
             NEW x \in (PluginIds \ {Offline}) \cup {Null}, NEW mode \in Modes \cup {Null},
             Ask(c, kind, a, x, mode)
      PROVE  ListingInv(c)'
  <2>1. /\ UNCHANGED <<vars, created, told>>
        /\ session'[c].pc = (IF kind = "list" THEN "list" ELSE "record")
        /\ session'[c].kind = kind /\ session'[c].id = a
        /\ kind \in ByPid => request[a] # Null
    <3>1. ReadInv
      BY <1>1
    <3>2. QED
      BY <1>8, <3>1, AskMoves, SMTT(30)
  <2>2. kind = "list" => handler[a] # "idle"
    BY <1>1, <2>1 DEF ClientsInv, RecordedInv, ByPid
  <2>3. QED
    BY <2>1, <2>2 DEF ListingInv, Told, Spelled, vars
<1>9. ASSUME session'[c] = NoSession PROVE ListingInv(c)'
  <2>1. session'[c].pc = "answered" /\ session'[c].kind = Null
    BY <1>9 DEF NoSession
  <2>2. QED
    BY <2>1, ReadAssumption DEF ListingInv, Told, Kinds
<1>10. ASSUME NEW d \in Clients \ {c}, ReadStep(d) PROVE session'[c] = session[c]
  BY <1>1, <1>10, RecordMoves, HarmonizedMoves, RawMoves, ListMoves DEF ReadStep, Moved
<1>11. ASSUME NEW d \in Clients \ {c}, NEW kind \in Kinds, NEW a \in Ids,
              NEW x \in (PluginIds \ {Offline}) \cup {Null}, NEW mode \in Modes \cup {Null},
              Ask(d, kind, a, x, mode)
       PROVE  session'[c] = session[c]
  BY <1>1, <1>11, AskMoves
<1>12. ASSUME NEW d \in Clients, ReadStep(d) PROVE ListingInv(c)'
  BY <1>3, <1>4, <1>5, <1>6, <1>7, <1>10, <1>12 DEF ReadStep
<1>13. ASSUME NEW d \in Clients, NEW kind \in Kinds, NEW a \in Ids,
              NEW x \in (PluginIds \ {Offline}) \cup {Null}, NEW mode \in Modes \cup {Null},
              Ask(d, kind, a, x, mode)
       PROVE  ListingInv(c)'
  BY <1>3, <1>8, <1>11, <1>13
<1>14. CASE ReadCrash
  BY <1>3, <1>9, <1>14 DEF ReadCrash
<1>15. CASE session' = session
  BY <1>3, <1>15
<1>16. QED
  BY <1>1, <1>12, <1>13, <1>14, <1>15
  DEF ReadNext, BeginInsert, HandlerStepTimed, readVars, allVars

LEMMA ListsInvariant == ReadSpec => []ListsInv
<1>1. ReadInit => ListsInv
  <2>1. SUFFICES ASSUME ReadInit, NEW c \in Clients PROVE ListingInv(c)
    BY DEF ListsInv
  <2>2. session[c].pc = "answered" /\ session[c].kind = Null
    BY <2>1 DEF ReadInit, NoSession
  <2>3. QED
    BY <2>2, ReadAssumption DEF ListingInv, Told, Kinds
<1>2. QED
  BY <1>1, ListsNext, ReadersOnlyRead, InductiveInvariant, ReadInvariant,
     ClientsInvariant, PTL DEF ReadSpec

\* A list of a pid is in order, the newest first, and has every assessment that
\* was answered before the question, was asked for with that spelling of the pid
\* and passes the filters, in whatever order the records appeared.
THEOREM ListsAreWhole == ReadSpec => []ListHasHeldIds
<1>1. ListsInv => ListHasHeldIds
  BY DEF ListsInv, ListingInv, Listing, Wanted, Decreasing, ListHasHeldIds
<1>2. QED
  BY <1>1, ListsInvariant, PTL

----------------------------------------------------------------------------
\* The types.

Shape(s) ==
  /\ s.kind \in Kinds \cup {Null} /\ s.id \in Ids \cup {Null} /\ s.held \subseteq Ids
  /\ s.assessor \in PluginIds \cup {Null} /\ s.mode \in Modes \cup {Null}
  /\ s.ids \in Seq(Ids) /\ s.rows \subseteq HarmonizedRows /\ s.raws \subseteq RawRows

ShapeInv(c) ==
  /\ Shape(session[c])
  /\ session[c].pc \in {"record", "rows", "raws", "list", "answered", "not_found", "error"}
  /\ session[c].pc \in {"rows", "raws"} => session[c].status # Null

TypeInv == told \in [Clients -> SUBSET Ids] /\ \A c \in Clients : ShapeInv(c)

LEMMA NoSessionShape ==
  ASSUME NEW s, s = NoSession
  PROVE  Shape(s) /\ s.pc = "answered"
<1>1. << >> \in Seq(Ids)
  OBVIOUS
<1>2. QED
  BY <1>1 DEF NoSession, Shape

LEMMA RecordShape ==
  ASSUME TypeOK, ReadInv, NEW c \in Clients, ShapeInv(c), ReadRecord(c)
  PROVE  ShapeInv(c)'
<1>1. /\ session'[c].rows = session[c].rows /\ session'[c].raws = session[c].raws
      /\ session'[c].ids = session[c].ids
  BY RecordMoves
<1>2. CASE Moved(c, "not_found") /\ session'[c].id = session[c].id
  BY <1>1, <1>2 DEF ShapeInv, Shape, Moved
<1>3. ASSUME NEW a \in Named(c),
             Moved(c, IF session[c].kind = "raw" THEN "raws" ELSE "rows"),
             session'[c].id = a, session'[c].status = assessment[a].status
      PROVE  ShapeInv(c)'
  <2>1. session[c].id \in Ids
    BY DEF ReadRecord, ReadInv, SessionInv
  <2>2. a \in Ids /\ assessment[a] # Null
    BY <1>3, <2>1 DEF Named, OfPid
  <2>3. assessment[a].status # Null
    BY <2>2, ReadAssumption DEF TypeOK, AssessmentRow
  <2>4. QED
    BY <1>1, <1>3, <2>2, <2>3 DEF ShapeInv, Shape, Moved
<1>4. QED
  BY <1>2, <1>3, RecordMoves

LEMMA RowsShape ==
  ASSUME TypeOK, ReadInv, NEW c \in Clients, ShapeInv(c), ReadHarmonized(c) \/ ReadRaw(c)
  PROVE  ShapeInv(c)'
<1>1. Read(harmonized, c) \subseteq HarmonizedRows /\ Read(raw, c) \subseteq RawRows
  BY DEF TypeOK, Read
<1>2. CASE ReadHarmonized(c)
  <2>1. PICK pc \in {"answered", "not_found", "error", "raws"} : Moved(c, pc)
    BY <1>2, HarmonizedMoves DEF AfterRows
  <2>2. /\ session[c].pc = "rows" /\ session'[c].id = session[c].id
        /\ session'[c].status = session[c].status
        /\ session'[c].rows = Read(harmonized, c)
        /\ session'[c].raws = session[c].raws /\ session'[c].ids = session[c].ids
    BY <1>2, HarmonizedMoves
  <2>3. QED
    BY <1>1, <2>1, <2>2 DEF ShapeInv, Shape, Moved
<1>3. CASE ReadRaw(c)
  <2>1. PICK pc \in {"answered", "error"} : Moved(c, pc)
    BY <1>3, RawMoves
  <2>2. /\ session'[c].id = session[c].id /\ session'[c].raws = Read(raw, c)
        /\ session'[c].rows = session[c].rows /\ session'[c].ids = session[c].ids
    BY <1>3, RawMoves
  <2>3. QED
    BY <1>1, <2>1, <2>2 DEF ShapeInv, Shape, Moved
<1>4. QED
  BY <1>2, <1>3

LEMMA ListShape ==
  ASSUME ReadInv, ClientsInv, NEW c \in Clients, ShapeInv(c), ReadList(c)
  PROVE  ShapeInv(c)'
<1> DEFINE S == Listed(c)
<1>1. /\ session'[c].id = session[c].id /\ session'[c].ids = NewestFirst(S)
      /\ session'[c].rows = session[c].rows /\ session'[c].raws = session[c].raws
      /\ Moved(c, "answered")
  BY ListMoves
<1>2. S \subseteq Begun /\ \A b \in Begun : created[b] \in Nat
  BY DEF Listed, OfPid, ClientsInv, RecordedInv, Known, Begun
<1>3. IsFiniteSet(S) /\ Distinct(created, S)
  BY <1>2, FS_Subset DEF ClientsInv, RecordedInv, Distinct
<1>4. NewestFirst(S) \in [1 .. Cardinality(S) -> S] /\ Cardinality(S) \in Nat
  BY <1>3, NewestFirstRanks, FS_CardinalityType DEF Ranks
<1>5. S \subseteq Ids
  BY <1>2 DEF Begun
<1> HIDE DEF S
<1>6. NewestFirst(S) \in Seq(Ids)
  BY <1>4, <1>5
<1>7. QED
  BY <1>1, <1>6 DEF ShapeInv, Shape, Moved

\* A client is told of an id it asked about.
LEMMA ToldShape ==
  ASSUME ReadInv, ClientsInv, TypeInv, NEW c \in Clients, ReadStep(c)
  PROVE  told' \in [Clients -> SUBSET Ids]
<1>1. CASE told' = told
  BY <1>1 DEF TypeInv
<1>2. CASE Learned(c) /\ told' # told
  <2>1. session[c].pc \in {"rows", "raws", "list"} /\ session[c].status = "completed"
    BY <1>2, RecordMoves, HarmonizedMoves, RawMoves, ListMoves DEF ReadStep, Learned
  <2>2. session[c].id \in Ids
    BY <2>1, ReadAssumption DEF ClientsInv, FoundInv, NamedInv
  <2>3. QED
    BY <1>2, <2>2 DEF Learned, TypeInv
<1>3. QED
  BY <1>1, <1>2, RecordMoves, HarmonizedMoves, RawMoves, ListMoves DEF ReadStep

LEMMA TypeNext ==
  IInv /\ ReadInv /\ ClientsInv /\ TypeInv /\ [ReadNext]_allVars => TypeInv'
<1>1. SUFFICES ASSUME IInv, ReadInv, ClientsInv, TypeInv, [ReadNext]_allVars
               PROVE  TypeInv'
  OBVIOUS
<1>2. TypeOK /\ \A c \in Clients : ShapeInv(c)
  BY <1>1 DEF IInv, TypeInv
<1>3. \A c \in Clients : session'[c] = session[c] => ShapeInv(c)'
  BY <1>2 DEF ShapeInv
<1>4. CASE session' = session /\ told' = told
  BY <1>1, <1>3, <1>4 DEF TypeInv
<1>5. ASSUME NEW c \in Clients, ReadStep(c) PROVE TypeInv'
  <2>1. told' \in [Clients -> SUBSET Ids]
    BY <1>1, <1>5, ToldShape
  <2>2. ShapeInv(c)'
    BY <1>1, <1>2, <1>5, RecordShape, RowsShape, ListShape DEF ReadStep
  <2>3. \A d \in Clients \ {c} : session'[d] = session[d]
    BY <1>1, <1>5, RecordMoves, HarmonizedMoves, RawMoves, ListMoves DEF ReadStep, Moved
  <2>4. QED
    BY <1>3, <2>1, <2>2, <2>3 DEF TypeInv
<1>6. ASSUME NEW c \in Clients, NEW kind \in Kinds, NEW a \in Ids,
             NEW x \in (PluginIds \ {Offline}) \cup {Null}, NEW mode \in Modes \cup {Null},
             Ask(c, kind, a, x, mode)
      PROVE  TypeInv'
  <2>1. /\ told' = told /\ session'[c].pc \in {"list", "record"}
        /\ session'[c].kind = kind /\ session'[c].id = a
        /\ session'[c].held \subseteq Ids /\ session'[c].assessor = x
        /\ session'[c].mode = mode /\ session'[c].ids = << >>
        /\ session'[c].rows = {} /\ session'[c].raws = {}
        /\ \A d \in Clients \ {c} : session'[d] = session[d]
    BY <1>1, <1>6, AskMoves
  <2>2. << >> \in Seq(Ids)
    OBVIOUS
  <2>3. ShapeInv(c)'
    BY <2>1, <2>2 DEF ShapeInv, Shape
  <2>4. QED
    BY <1>1, <1>3, <2>1, <2>3 DEF TypeInv
<1>7. CASE ReadCrash
  <2>1. ASSUME NEW c \in Clients PROVE ShapeInv(c)'
    <3>1. CASE session'[c] = NoSession
      BY <3>1, NoSessionShape DEF ShapeInv
    <3>2. QED
      BY <1>3, <1>7, <3>1 DEF ReadCrash
  <2>2. QED
    BY <1>1, <1>7, <2>1 DEF ReadCrash, TypeInv
<1>8. QED
  BY <1>1, <1>4, <1>5, <1>6, <1>7
  DEF ReadNext, BeginInsert, HandlerStepTimed, readVars, allVars

LEMMA TypeInvariant == ReadSpec => []TypeInv
<1>1. ReadInit => TypeInv
  <2>1. SUFFICES ASSUME ReadInit PROVE TypeInv
    OBVIOUS
  <2>2. \A c \in Clients : session[c] = NoSession
    BY <2>1 DEF ReadInit
  <2>3. \A c \in Clients : ShapeInv(c)
    BY <2>2, NoSessionShape DEF ShapeInv
  <2>4. QED
    BY <2>1, <2>3 DEF ReadInit, TypeInv
<1>2. QED
  BY <1>1, TypeNext, ReadersOnlyRead, InductiveInvariant, ReadInvariant,
     ClientsInvariant, PTL DEF ReadSpec

\* Sessions keep their types, and an answer is given only for a record that was
\* found; the times of n inserts are 1 to n.  Ids are uuid4 values, which are
\* finitely many.
THEOREM ReadsAreTyped ==
  ASSUME IsFiniteSet(Ids)
  PROVE  ReadSpec => []ReadTypeOK
<1>1. ClientsInv => created \in [Ids -> 0 .. Cardinality(Ids)]
  <2>1. SUFFICES ASSUME RecordedInv PROVE created \in [Ids -> 0 .. Cardinality(Ids)]
    BY DEF ClientsInv
  <2>2. /\ Cardinality(Begun) <= Cardinality(Ids)
        /\ Cardinality(Begun) \in Nat /\ Cardinality(Ids) \in Nat
    BY FS_Subset, FS_CardinalityType DEF Begun
  <2>3. ASSUME NEW a \in Ids PROVE created[a] \in 0 .. Cardinality(Ids)
    <3>1. created[a] \in Nat /\ created[a] <= Cardinality(Begun)
      BY <2>1 DEF RecordedInv
    <3>2. QED
      BY <2>2, <3>1
  <2>4. QED
    BY <2>1, <2>3 DEF RecordedInv
<1>2. ClientsInv /\ TypeInv => ReadTypeOK
  BY <1>1 DEF TypeInv, ShapeInv, Shape, ReadTypeOK
<1>3. QED
  BY <1>2, ClientsInvariant, TypeInvariant, PTL
=============================================================================
