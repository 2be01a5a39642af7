------------------------- MODULE MCAssessmentReads -------------------------
(***************************************************************************)
(* Small instances of AssessmentReads.                                      *)
(***************************************************************************)
EXTENDS AssessmentReads, TLC

CONSTANTS
  a1, a2,   \* ids
  MaxJobs   \* bound: the assessors that may be asked in all

MCPlugins == <<"fuji", "fair_champion">>
MCNames == {"fuji", "fair_champion"}
MCTokens == {"doi:", "10.1/x"}
MCPrefixes == {"doi:"}
MCModes == {"public"}

IdSymmetry == Permutations(Ids)

Body(pid, cached, assessors) ==
  [pid |-> pid, mode |-> "public", cached |-> cached,
   assessors |-> assessors, metadata |-> FALSE]

Pid == <<"10.1/x">>
SpelledPid == <<"doi:", "10.1/x">>

\* Two assessors afresh, or one from the cache in another spelling.
ReadRequests ==
  {Body(Pid, FALSE, <<"fuji", "fair_champion">>), Body(SpelledPid, TRUE, <<"fuji">>)}

\* An assessor named twice: nothing removes the second.
RepeatedRequests == {Body(Pid, FALSE, <<"fuji", "fuji">>)}

PlacesAsked(a) == IF request[a] = Null THEN {} ELSE DOMAIN Online(request[a])

BoundedJobs == Cardinality(UNION {{a} \X PlacesAsked(a) : a \in Ids}) <= MaxJobs

\* Bound: a list is filtered by the mode, or by the assessor that only one of
\* the requests names, or by nothing.
OneFilter ==
  \A c \in Clients : session[c].kind = "list" =>
    <<session[c].mode, session[c].assessor>>
      \in {<<Null, Null>>, <<"public", Null>>, <<Null, "fair_champion">>}
=============================================================================
