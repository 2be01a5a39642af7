------------------------ MODULE AssessmentContract ------------------------
(***************************************************************************)
(* What the proxy promises about an assessment, without tables, tasks or   *)
(* caches: it is accepted with the places to be answered, it starts, its    *)
(* answers arrive one by one and are never withdrawn, and it ends once.     *)
(***************************************************************************)
CONSTANTS
  Ids,      \* the assessments
  Places,   \* the places of a list of assessors
  Unclear   \* whether the database can lose an acknowledgement

VARIABLES
  status,    \* "absent", or the status a client reads
  wanted,    \* the places that ask for an answer
  answered   \* the places whose normalised answer can be read

cvars == <<status, wanted, answered>>

Init ==
  /\ status = [a \in Ids |-> "absent"]
  /\ wanted = [a \in Ids |-> {}]
  /\ answered = [a \in Ids |-> {}]

Accept(a, places) ==
  /\ status[a] = "absent"
  /\ places # {}
  /\ status' = [status EXCEPT ![a] = "queued"]
  /\ wanted' = [wanted EXCEPT ![a] = places]
  /\ UNCHANGED answered

Start(a) ==
  /\ status[a] = "queued"
  /\ status' = [status EXCEPT ![a] = "running"]
  /\ UNCHANGED <<wanted, answered>>

Answer(a, i) ==
  /\ status[a] = "running"
  /\ i \in wanted[a] \ answered[a]
  /\ answered' = [answered EXCEPT ![a] = @ \cup {i}]
  /\ UNCHANGED <<status, wanted>>

\* Errors are reported only when an answer is missing, or when storing it was
\* reported to fail and did not.
Finish(a) ==
  /\ status[a] = "running"
  /\ \/ /\ answered[a] = wanted[a]
        /\ status' = [status EXCEPT ![a] = "completed"]
     \/ /\ answered[a] # wanted[a] \/ Unclear
        /\ status' = [status EXCEPT ![a] = "completed_with_errors"]
  /\ UNCHANGED <<wanted, answered>>

Next ==
  \E a \in Ids :
    \/ \E places \in SUBSET Places : Accept(a, places)
    \/ Start(a)
    \/ \E i \in Places : Answer(a, i)
    \/ Finish(a)

Spec == Init /\ [][Next]_cvars
=============================================================================
