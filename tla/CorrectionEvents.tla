-------------------------- MODULE CorrectionEvents --------------------------
(***************************************************************************)
(* Corrections and the analytics events they emit: after its COMMIT a      *)
(* correction hands one correction_action to PostHog, or to the            *)
(* dead-letter queue, before it answers.  An event is named by its call.   *)
(***************************************************************************)
EXTENDS Corrections, DeadLetter

CONSTANT MaxBegun  \* bound on the calls and drains that begin, where a call whose
                   \* event is not at PostHog counts twice

\* Events that are not of these calls are in the queue to begin with.
ASSUME CorrectionEventsAssumption ==
    Calls \subseteq Events /\ Backlog \in Seq(Events \ Calls)

VARIABLE drained   \* drains begun so far

AllInit == Init /\ EventsInit /\ drained = 0

-----------------------------------------------------------------------------
(* A plausible bug, and the property it breaks.                            *)

\* The event is emitted inside the try block, before the COMMIT.
MayEmit_BeforeCommit(c) == place[c] \in {"flushed", "committed"}

-----------------------------------------------------------------------------
MayEmit(c) == place[c] = "committed"

\* _emit_correction_action: nothing it raises reaches the caller.
EmitCorrectionAction(c) == MayEmit(c) /\ Emit(c)

Begun ==
    Cardinality({c \in Calls : place[c] # "idle"})
      + Cardinality({p \in Patches : patch[p].place # "idle"}) + drained
      + Cardinality({c \in Calls : stage[c] # "new" /\ sent[c] = 0})

AllNext ==
    /\ \/ Next /\ UNCHANGED <<events, drained>>
       \/ /\ \E c \in Calls : EmitCorrectionAction(c) \/ Push(c)
          /\ UNCHANGED <<vars, drained>>
       \/ \E d \in Drains :
             /\ RetryDeadLetter(d)
             /\ drained' = IF drain[d].place = "idle" THEN drained + 1 ELSE drained
             /\ UNCHANGED vars
    /\ Begun' <= MaxBegun

AllSpec == AllInit /\ [][AllNext]_<<vars, events, drained>>

-----------------------------------------------------------------------------
(* Properties                                                              *)

\* No event of a correction that was rolled back, and none twice.
EventsFollowCommits ==
    \A c \in Calls : stage[c] # "new" =>
        Cardinality({i \in DOMAIN history : history[i].by = c}) = 1
=============================================================================
