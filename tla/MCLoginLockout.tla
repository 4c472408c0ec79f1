--------------------------- MODULE MCLoginLockout ---------------------------
(***************************************************************************)
(* LoginLockout for TLC, with the threshold of the code.                   *)
(***************************************************************************)
EXTENDS LoginLockout

MCThreshold == 5

\* Bound of the complete run: two failed requests, one that loses a guess and
\* one that loses an EXPIRE.
MCMaxFaults == 2
=============================================================================
