--------------------------- MODULE MCSyncService ---------------------------
(***************************************************************************)
(* SyncService on instances small enough for TLC.                          *)
(***************************************************************************)
EXTENDS SyncService, TLC

CONSTANTS k1, k2, i1

Raw(n, t, r) == [SyncMaxAttempts |-> n, EscalationTimeout |-> t,
                 EscalationCheckInterval |-> Absent, SyncReplayInterval |-> r]

\* One attempt, no number of attempts, and a bad duration.
MCConfigs == {Raw(1, 300, 1), Raw(0, Absent, Absent), Raw(1, Bad, Absent), Bad}

\* One attempt only.
MCOneAttempt == {Raw(1, 300, 1)}

Cached(k, t, i, f) ==
  [key |-> k, reportedAt |-> t, payload |-> [id |-> i, key |-> None, form |-> f]]

\* A report that can be uploaded and has no ID, a later one that can only if its key
\* is known by then, and one that never can.
MCReports == {Cached(k1, 1, None, "complete"), Cached(k2, 2, i1, "incomplete"),
              Cached(k2, 0, i1, "garbage")}

\* Posted over HTTP: either key, under one ID.
MCPosts == [id : {i1}, key : {k1, k2}]

\* One report, complete, with and without an ID.
MCOneReport == {Cached(k1, 1, i1, "complete"), Cached(k1, 1, None, "complete")}
=============================================================================
