------------------------- MODULE MCIncidentService -------------------------
(***************************************************************************)
(* IncidentService on instances small enough for TLC.                      *)
(***************************************************************************)
EXTENDS IncidentService

CONSTANTS o1, o2, o3, i1, i2, k1

\* A high-risk report.  Another under its ID, with a status the program does not
\* know.  A retransmission of the first under another ID, which claims to be resolved
\* and escalated already.
MCReport ==
  [o \in Objects |->
     CASE o = o1 -> [id |-> i1, key |-> k1, highRisk |-> TRUE, reportedAt |-> 0,
                     progress |-> [NoProgress EXCEPT !.status = "reported"]]
       [] o = o2 -> [id |-> i1, key |-> None, highRisk |-> TRUE, reportedAt |-> 1,
                     progress |-> [NoProgress EXCEPT !.status = "other"]]
       [] o = o3 -> [id |-> i2, key |-> k1, highRisk |-> FALSE, reportedAt |-> 1,
                     progress |-> [NoProgress EXCEPT !.status = "resolved", !.resolved = TRUE,
                                                     !.escalatedAt = 0]]]
=============================================================================
