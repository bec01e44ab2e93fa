----------------------------- MODULE MCSyncJobs -----------------------------
(* SyncJobs with a handful of jobs and requests, for TLC.                  *)
EXTENDS SyncJobs

CONSTANTS day, flow, empty     \* a full-market, a capital-flow and an empty-range request

MCFlow      == {flow}
MCAllSigs   == {day, flow, empty}
MCEmpty     == {empty}

\* Minutes may pass between any two statements of a thread.
MCNotPrompt == {}
=============================================================================
