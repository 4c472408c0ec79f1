--------------------------- MODULE MCCorrections ----------------------------
(***************************************************************************)
(* CorrectionEvents for TLC: a drawing of bob or of the team he is in;     *)
(* carol is in the team too.  The team has no consent record, for nothing  *)
(* in the repository writes one.                                           *)
(***************************************************************************)
EXTENDS CorrectionEvents, TLC

CONSTANTS bob, carol, team, s1, s2, valve, pipe, x1, x2

MCBacklog == <<x1, x2>>

MCRole   == bob :> "team_member" @@ carol :> "team_admin"
MCTeamOf == bob :> team @@ carol :> team

Ask(u, t, s, k) == [user |-> u, type |-> t, symbol |-> s, class |-> k]

MCRequests ==
    { Ask(bob, "reject", s1, valve), Ask(carol, "restore", s1, valve),
      Ask(bob, "reclassify", s1, pipe), Ask(carol, "manual_add", s1, pipe),
      Ask(bob, "page", s1, valve) }

MCConsents == [user : {bob}, optedIn : BOOLEAN]

Symmetry == {c @@ p @@ d : c \in Permutations(Calls), p \in Permutations(Patches),
                           d \in Permutations(Drains)}
=============================================================================
