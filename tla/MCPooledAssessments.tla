------------------------ MODULE MCPooledAssessments ------------------------
(***************************************************************************)
(* Small instances of PooledAssessments: the requests of the runs with      *)
(* faults, and one that also names the offline assessor.                    *)
(***************************************************************************)
EXTENDS PooledAssessments, MCAssessments

PooledRequests ==
  CacheRequests \cup {Body(Pid, "public", FALSE, <<"fuji", "offline">>, TRUE)}
=============================================================================
