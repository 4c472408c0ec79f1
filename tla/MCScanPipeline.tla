--------------------------- MODULE MCScanPipeline ---------------------------
(***************************************************************************)
(* ScanPipeline for TLC.  Nothing an action does to one drawing depends on *)
(* another, so one drawing and three copies of its message are enough.     *)
(***************************************************************************)
EXTENDS ScanPipeline

\* Bounds of the complete run: the three retries of the code, and two faults (a
\* crash and a copy, or two copies), so that three copies of one message can run
\* side by side.
MCMaxRetries == 3
MCMaxFaults == 2
=============================================================================
