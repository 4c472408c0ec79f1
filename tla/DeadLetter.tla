----------------------------- MODULE DeadLetter -----------------------------
(***************************************************************************)
(* Analytics events: one attempt to hand each of them to PostHog, and the  *)
(* Redis list analytics:dead_letter of those that it did not take.         *)
(*                                                                         *)
(* An emitter appends its event with RPUSH and then cuts the list to its   *)
(* cap with LTRIM, which drops the oldest entries.  A drain                *)
(* (retry_dead_letter) asks for the length, and that many times takes the  *)
(* head with LPOP, sends it, and appends it again if it was refused.       *)
(* Emitters and drains are processes of their own; each Redis command is   *)
(* atomic, and two in a row are not.                                       *)
(*                                                                         *)
(*   enabled the processes have an API key for PostHog                     *)
(*   queue   the list, oldest entry first                                  *)
(*   stage   how far each event has come: "new", "failed" (PostHog has     *)
(*           refused it, before RPUSH), "pushed" (before LTRIM), "over"    *)
(*           (its emitter is done with it)                                 *)
(*   drain   each drain: left, how many entries it will still take; held,  *)
(*           the entry in its hand ({} for none); place                    *)
(*   sent    how often PostHog has taken each event                        *)
(*                                                                         *)
(* History variables: gone (events that were lost, by cause), untrimmed    *)
(* (RPUSHes whose LTRIM failed), faults; in drain, took (the entries that  *)
(* it has taken) and cut (somebody else has taken entries from the queue   *)
(* since it asked for the length).                                         *)
(***************************************************************************)
EXTENDS Naturals, Sequences, FiniteSets

CONSTANTS Events,
          Drains,     \* calls of retry_dead_letter under way at a time
          Backlog,    \* the events that are in the queue to begin with
          Cap,        \* MAX_DEAD_LETTER_ENTRIES
          MaxFaults   \* bound on failed Redis commands and crashes

ASSUME DeadLetterAssumption ==
    /\ IsFiniteSet(Events)
    /\ IsFiniteSet(Drains)
    /\ Backlog \in Seq(Events)
    /\ \A i, j \in DOMAIN Backlog : Backlog[i] = Backlog[j] => i = j
    /\ Len(Backlog) <= Cap
    /\ Cap \in Nat \ {0}
    /\ MaxFaults \in Nat

VARIABLES enabled, queue, stage, drain, sent, gone, untrimmed, faults

events == <<enabled, queue, stage, drain, sent, gone, untrimmed, faults>>

Idle == [place |-> "idle", left |-> 0, held |-> {}, took |-> {}, cut |-> FALSE]

Drain == [place : {"idle", "next", "holds", "requeue"}, left : Nat,
          held : SUBSET Events, took : SUBSET Events, cut : BOOLEAN]

Cause == {"trimmed", "redis", "crash"}

EventsTypeOK ==
    /\ enabled \in BOOLEAN
    /\ queue \in Seq(Events)
    /\ stage \in [Events -> {"new", "failed", "pushed", "over"}]
    /\ drain \in [Drains -> Drain]
    /\ sent \in [Events -> Nat]
    /\ gone \in [Cause -> SUBSET Events]
    /\ untrimmed \in Nat
    /\ faults \in 0..MaxFaults

Queued == {queue[i] : i \in DOMAIN queue}

\* Once, when the module is imported.
Configure == enabled \in BOOLEAN

EventsInit ==
    /\ Configure
    /\ queue = Backlog
    /\ stage = [e \in Events |-> IF e \in Queued THEN "over" ELSE "new"]
    /\ drain = [d \in Drains |-> Idle]
    /\ sent = [e \in Events |-> 0]
    /\ gone = [w \in Cause |-> {}]
    /\ untrimmed = 0
    /\ faults = 0

-----------------------------------------------------------------------------
(* Helpers                                                                 *)

Advance(e, from, to) ==
    /\ stage[e] = from
    /\ stage' = [stage EXCEPT ![e] = to]

Take(e) == sent' = [sent EXCEPT ![e] = @ + 1]

Lose(w, es) == gone' = [gone EXCEPT ![w] = @ \cup es]

Fault == faults < MaxFaults /\ faults' = faults + 1

\* A drain that is under way finds entries missing that somebody else has taken.
Cut(x) == IF drain[x].place = "idle" THEN drain[x] ELSE [drain[x] EXCEPT !.cut = TRUE]

-----------------------------------------------------------------------------
(* Plausible bugs, each paired with the property it breaks.                *)

\* The drain goes on as long as there are entries: while client.llen(...).
LeftAfter_UntilEmpty(d) == Len(queue)

\* An entry that was sent goes back to the queue too: the else is missing.
Resend_Requeues(d) ==
    /\ drain[d].place = "holds"
    /\ \E e \in drain[d].held : Take(e)
    /\ drain' = [drain EXCEPT ![d].place = "requeue"]
    /\ UNCHANGED <<queue, stage, gone, untrimmed, faults>>

\* The entry is read with LINDEX, to be removed when it was sent, and is not.
AfterPop_Peek == queue

-----------------------------------------------------------------------------
(* events._emit, posthog_client.send_event, push_to_dead_letter            *)

\* capture() does not raise.
Capture(e) ==
    /\ Advance(e, "new", "over")
    /\ Take(e)
    /\ UNCHANGED <<queue, drain, gone, untrimmed, faults>>

CaptureFails(e) ==
    /\ Advance(e, "new", "failed")
    /\ UNCHANGED <<queue, drain, sent, gone, untrimmed, faults>>

RPush(e) ==
    /\ Advance(e, "failed", "pushed")
    /\ queue' = Append(queue, e)
    /\ UNCHANGED <<drain, sent, gone, untrimmed, faults>>

\* What LTRIM -Cap -1 leaves.
Trimmed == IF Len(queue) <= Cap THEN queue
           ELSE SubSeq(queue, Len(queue) - Cap + 1, Len(queue))

LTrim(e) ==
    /\ Advance(e, "pushed", "over")
    /\ queue' = Trimmed
    /\ Lose("trimmed", Queued \ {Trimmed[i] : i \in DOMAIN Trimmed})
    /\ untrimmed' = 0
    /\ drain' = IF Trimmed = queue THEN drain ELSE [d \in Drains |-> Cut(d)]
    /\ UNCHANGED <<sent, faults>>

\* Redis does not answer to the first command or to the second, or the emitter dies
\* there: the event is dropped, or the list stays over its cap.
PushFails(e) ==
    /\ Advance(e, "failed", "over")
    /\ Lose("redis", {e})
    /\ Fault
    /\ UNCHANGED <<queue, drain, sent, untrimmed>>

\* RPUSH was done, but its answer never came.
PushReplyLost(e) ==
    /\ Advance(e, "failed", "over")
    /\ queue' = Append(queue, e)
    /\ untrimmed' = untrimmed + 1
    /\ Fault
    /\ UNCHANGED <<drain, sent, gone>>

TrimFails(e) ==
    /\ Advance(e, "pushed", "over")
    /\ untrimmed' = untrimmed + 1
    /\ Fault
    /\ UNCHANGED <<queue, drain, sent, gone>>

-----------------------------------------------------------------------------
(* retry_dead_letter                                                       *)

AskLength(d) ==
    /\ drain[d].place = "idle"
    /\ queue # <<>>
    /\ drain' = [drain EXCEPT ![d] = [Idle EXCEPT !.place = "next", !.left = Len(queue)]]
    /\ UNCHANGED <<queue, stage, sent, gone, untrimmed, faults>>

LeftAfter(d) == drain[d].left - 1

AfterPop == Tail(queue)

Pop(d) ==
    /\ drain[d].place = "next"
    /\ drain[d].left > 0
    /\ queue # <<>>
    /\ queue' = AfterPop
    /\ drain' = [x \in Drains |->
                 IF x # d THEN Cut(x)
                 ELSE [drain[d] EXCEPT !.place = "holds", !.left = LeftAfter(d),
                                       !.held = {Head(queue)}]]
    /\ UNCHANGED <<stage, sent, gone, untrimmed, faults>>

\* The range is over, or LPOP finds the list empty.
DrainEnds(d) ==
    /\ drain[d].place = "next"
    /\ drain[d].left = 0 \/ queue = <<>>
    /\ drain' = [drain EXCEPT ![d] = Idle]
    /\ UNCHANGED <<queue, stage, sent, gone, untrimmed, faults>>

Handled(d) ==
    [drain EXCEPT ![d] = [drain[d] EXCEPT !.place = "next", !.held = {},
                                          !.took = @ \cup drain[d].held]]

Resend(d) ==
    /\ drain[d].place = "holds"
    /\ \E e \in drain[d].held : Take(e)
    /\ drain' = Handled(d)
    /\ UNCHANGED <<queue, stage, gone, untrimmed, faults>>

ResendFails(d) ==
    /\ drain[d].place = "holds"
    /\ drain' = [drain EXCEPT ![d].place = "requeue"]
    /\ UNCHANGED <<queue, stage, sent, gone, untrimmed, faults>>

\* RPUSH, without LTRIM.
Requeue(d) ==
    /\ drain[d].place = "requeue"
    /\ \E e \in drain[d].held : queue' = Append(queue, e)
    /\ drain' = Handled(d)
    /\ UNCHANGED <<stage, sent, gone, untrimmed, faults>>

RequeueFails(d) ==
    /\ drain[d].place = "requeue"
    /\ Lose("redis", drain[d].held)
    /\ drain' = Handled(d)
    /\ Fault
    /\ UNCHANGED <<queue, stage, sent, untrimmed>>

\* LPOP was done, but its answer never came.
PopReplyLost(d) ==
    /\ drain[d].place = "next"
    /\ drain[d].left > 0
    /\ queue # <<>>
    /\ queue' = Tail(queue)
    /\ Lose("redis", {Head(queue)})
    /\ drain' = [x \in Drains |-> IF x = d THEN Idle ELSE Cut(x)]
    /\ Fault
    /\ UNCHANGED <<stage, sent, untrimmed>>

\* The process dies, or LPOP raises, which the drain does not catch.
DrainCrashes(d) ==
    /\ drain[d].place # "idle"
    /\ Lose("crash", drain[d].held)
    /\ drain' = [drain EXCEPT ![d] = Idle]
    /\ Fault
    /\ UNCHANGED <<queue, stage, sent, untrimmed>>

-----------------------------------------------------------------------------
\* Without a key an emission does nothing at all, and neither does a drain.
Emit(e) ==
    /\ enabled /\ UNCHANGED enabled
    /\ Capture(e) \/ CaptureFails(e)

Push(e) ==
    /\ UNCHANGED enabled
    /\ RPush(e) \/ LTrim(e) \/ PushFails(e) \/ PushReplyLost(e) \/ TrimFails(e)

RetryDeadLetter(d) ==
    /\ enabled /\ UNCHANGED enabled
    /\ \/ AskLength(d) \/ Pop(d) \/ DrainEnds(d) \/ Resend(d) \/ ResendFails(d)
       \/ Requeue(d) \/ RequeueFails(d) \/ PopReplyLost(d) \/ DrainCrashes(d)

EventsNext ==
    \/ \E e \in Events : Emit(e) \/ Push(e)
    \/ \E d \in Drains : RetryDeadLetter(d)

EventsSpec == EventsInit /\ [][EventsNext]_events

-----------------------------------------------------------------------------
(* Properties                                                              *)

\* Where an event is: with its emitter, in the queue, in the hand of a drain, at
\* PostHog, or lost.
Copies(e) ==
    (IF stage[e] \in {"new", "failed"} THEN 1 ELSE 0)
    + Cardinality({i \in DOMAIN queue : queue[i] = e})
    + Cardinality({d \in Drains : e \in drain[d].held})
    + sent[e]
    + Cardinality({w \in Cause : e \in gone[w]})

\* An event is in one place: PostHog never gets it twice, and none vanishes but by a
\* trim, a failed Redis command or a crash of the drain that holds it.
EventIsInOnePlace == \A e \in Events : Copies(e) = 1

\* The list outgrows its cap by the entries of emitters that have not trimmed yet or
\* could not, and by one for each drain, which appends without trimming.
QueueIsBounded ==
    Len(queue) + Cardinality({d \in Drains : drain[d].held # {}})
      <= Cap + Cardinality({e \in Events : stage[e] = "pushed"}) + untrimmed
             + Cardinality(Drains)

\* The note on retry_dead_letter, "each entry is processed at most once per call", as
\* far as it holds: while nobody else takes entries away from the queue.
OncePerCall ==
    \A d \in Drains : drain[d].held \cap drain[d].took # {} => drain[d].cut

\* What has become of each event: a refused one is kept by its emitter, the queue or a
\* drain, until PostHog takes it or it is lost.  "duplicated" is one that PostHog has
\* taken again, of which EventDelivery knows nothing.
fate ==
    [e \in Events |->
        IF sent[e] > 1 THEN "duplicated"
        ELSE IF sent[e] = 1 THEN "delivered"
        ELSE IF \E w \in Cause : e \in gone[w] THEN "lost"
        ELSE IF stage[e] = "new" THEN "new"
        ELSE "kept"]

Delivery == INSTANCE EventDelivery WITH fate <- fate

\* The dead-letter queue delivers what it can: no event is delivered twice or after it was
\* lost, a fault costs one event at most, and LTRIM drops none while as many as the cap
\* allows are not left.
DeliveryKept == Delivery!Spec
=============================================================================
