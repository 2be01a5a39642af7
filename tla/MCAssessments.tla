--------------------------- MODULE MCAssessments ---------------------------
(***************************************************************************)
(* Small instances of Assessments: the requests clients send, in three      *)
(* mixes, and the symmetry of the ids.                                      *)
(***************************************************************************)
EXTENDS Assessments, FiniteSets, TLC

CONSTANTS
  a1, a2, a3,  \* ids
  MaxJobs      \* bound: the assessors that may be asked in all

MCPlugins == <<"fuji", "fair_champion", "offline">>
MCNames == {"fuji", "fair_champion", "offline", "unknown"}
MCTokens == {"doi:", "10.1/x"}
MCPrefixes == {"doi:"}
MCModes == {"public", "offline"}

IdSymmetry == Permutations(Ids)

Body(pid, mode, cached, assessors, metadata) ==
  [pid |-> pid, mode |-> mode, cached |-> cached, assessors |-> assessors,
   metadata |-> metadata]

Pid == <<"10.1/x">>
SpelledPid == <<"doi:", "10.1/x">>
TwicePrefixed == <<"doi:", "doi:", "10.1/x">>

\* Two assessors: asked afresh, from the cache in another spelling, and all the
\* ways a request is refused or answered without a task.
MixedRequests ==
  {Body(Pid, "public", FALSE, <<"fuji", "fair_champion">>, FALSE),
   Body(SpelledPid, "public", TRUE, <<>>, TRUE),
   Body(Pid, "public", FALSE, <<"unknown">>, FALSE),
   Body(<<>>, "public", FALSE, <<>>, TRUE),
   Body(Pid, "public", FALSE, <<"offline">>, FALSE)}

\* One assessor, for chains of copies: keys that differ in the mode or in what
\* is left of the prefixes must not meet in the cache.
KeyRequests ==
  {Body(Pid, "public", FALSE, <<"fuji">>, FALSE),
   Body(SpelledPid, "public", TRUE, <<"fuji">>, FALSE),
   Body(Pid, "offline", TRUE, <<"fuji">>, FALSE),
   Body(TwicePrefixed, "public", TRUE, <<"fuji">>, FALSE)}

\* Two assessors afresh beside one from the cache, for the runs in which
\* storing fails.
CacheRequests ==
  {Body(Pid, "public", FALSE, <<"fuji", "fair_champion">>, FALSE),
   Body(SpelledPid, "public", TRUE, <<"fuji">>, FALSE)}

PlacesAsked(a) == IF request[a] = Null THEN {} ELSE DOMAIN Online(request[a])

BoundedJobs == Cardinality(UNION {{a} \X PlacesAsked(a) : a \in Ids}) <= MaxJobs
=============================================================================
