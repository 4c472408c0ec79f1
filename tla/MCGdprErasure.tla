--------------------------- MODULE MCGdprErasure ---------------------------
(***************************************************************************)
(* GdprErasure for TLC.  Users share nothing but the secret, so one user   *)
(* with two requests and two jobs that overlap is enough.                  *)
(***************************************************************************)
EXTENDS GdprErasure

\* Bounds of the complete run: a job can fail, and fail for good, and another die
\* besides; the secret is rotated once.
MCMaxRetries == 1
MCMaxFaults == 3
MCMaxSecret == 2
=============================================================================
