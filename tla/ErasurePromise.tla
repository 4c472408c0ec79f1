--------------------------- MODULE ErasurePromise ---------------------------
(***************************************************************************)
(* What US-005 promises a user, whoever keeps the promise: an account that *)
(* is deleted is left alone for thirty days; after that it first gets its  *)
(* anonymous id and then loses its personal data, each of them once, for   *)
(* good, and without fail.                                                 *)
(***************************************************************************)
CONSTANT Users

VARIABLE phase

Phase == {"active", "deleted", "due", "pseudonymous", "erased"}

Init == phase = [u \in Users |-> "active"]

Advance(u, from, to) ==
    /\ phase[u] = from
    /\ phase' = [phase EXCEPT ![u] = to]

Delete(u)       == Advance(u, "active", "deleted")
BecomeDue(u)    == Advance(u, "deleted", "due")
Pseudonymise(u) == Advance(u, "due", "pseudonymous")
Erase(u)        == Advance(u, "pseudonymous", "erased")

Next ==
    \E u \in Users : Delete(u) \/ BecomeDue(u) \/ Pseudonymise(u) \/ Erase(u)

\* Users delete their accounts when they like; what is due has to be done.
Fairness ==
    \A u \in Users : WF_phase(BecomeDue(u)) /\ WF_phase(Pseudonymise(u)) /\ WF_phase(Erase(u))

Spec == Init /\ [][Next]_phase /\ Fairness
=============================================================================
