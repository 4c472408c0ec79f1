---------------------------- MODULE EventDelivery ----------------------------
(***************************************************************************)
(* What becomes of an analytics event, whoever carries it: it is delivered *)
(* at once or kept, a kept one may be delivered later, and what is         *)
(* delivered or lost stays so.  No event is lost for nothing: a fault      *)
(* takes one at most, and any other loss leaves as many events behind as   *)
(* the store may hold.                                                     *)
(***************************************************************************)
EXTENDS Naturals, FiniteSets

CONSTANTS Events, Cap, MaxFaults

VARIABLES fate, faults

Init ==
    /\ fate \in [Events -> {"new", "kept"}]
    /\ faults = 0

Kept == {e \in Events : fate[e] = "kept"}

Become(es, end) == fate' = [e \in Events |-> IF e \in es THEN end ELSE fate[e]]

Emit(e) ==
    /\ fate[e] = "new"
    /\ Become({e}, "delivered") \/ Become({e}, "kept")
    /\ UNCHANGED faults

Deliver(e) ==
    /\ e \in Kept
    /\ Become({e}, "delivered")
    /\ UNCHANGED faults

Overflow ==
    /\ \E es \in SUBSET Kept :
          /\ Cardinality(Kept \ es) >= Cap
          /\ Become(es, "lost")
    /\ UNCHANGED faults

Fault ==
    /\ faults < MaxFaults /\ faults' = faults + 1
    /\ UNCHANGED fate \/ \E e \in Kept : Become({e}, "lost")

Next == (\E e \in Events : Emit(e) \/ Deliver(e)) \/ Overflow \/ Fault

Spec == Init /\ [][Next]_<<fate, faults>>
=============================================================================
