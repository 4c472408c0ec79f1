----------------------- MODULE MCSessionInvalidation -----------------------
(***************************************************************************)
(* SessionInvalidation for TLC: two resets and two deletions that overlap, *)
(* a session from before and one from after them.                          *)
(***************************************************************************)
EXTENDS SessionInvalidation, TLC

\* Bounds of the complete run: half seconds, and a clock that runs over two full
\* seconds, so that an issue, a stamp and a second issue fall into one and into two.
MCTicksPerSecond == 2
MCMaxTime == 3

Symmetry ==
    {s @@ r @@ q : s \in Permutations(Sessions),
                   r \in Permutations(Resets),
                   q \in Permutations(Deletions)}
=============================================================================
