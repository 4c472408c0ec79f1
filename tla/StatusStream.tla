---------------------------- MODULE StatusStream ----------------------------
(***************************************************************************)
(* The status of a drawing on the screen: the hooks useSSE and usePolling, *)
(* and Redis pub/sub behind the event stream of GET /drawings/:id/status.  *)
(*                                                                         *)
(* A drawing goes through the versions 0..Last of its state; each is       *)
(* committed, then published to whoever is subscribed at the time.  The    *)
(* handler of the stream is not in the repository: as its brief has it, it *)
(* sends the row's state as the first event, then what                     *)
(* subscribe_drawing_status yields, which subscribes when it is iterated;  *)
(* what is published in between reaches nobody.                            *)
(*                                                                         *)
(* The hook falls back to polling when the stream fails, or is not open    *)
(* after ten seconds, and polls for as long as it shows that drawing.  It  *)
(* polls the url of the stream: apiClient awaits the whole text of a       *)
(* response that stays open, so a poll may never settle, and what it gets  *)
(* when the stream ends is that text, which is no status.                  *)
(*                                                                         *)
(*   stored      the version that the drawing's row has                    *)
(*   unsent      versions committed and not published yet                  *)
(*   url         the drawing that the hook shows, None when unmounted      *)
(*   source      the EventSource: "closed", "connecting" or "open"         *)
(*   handler     of its request: "none" before the first event, "greeted", *)
(*               "subscribed" to the channel                               *)
(*   wire        versions on their way to it                               *)
(*   isPolling   of useSSE                                                 *)
(*   data        the status that useSSE has from the stream, {} for null   *)
(*   polled      what usePolling has: the drawing whose stream's text it   *)
(*               is, {} for null                                           *)
(*   poll        the requests of the polls: of which drawing, how far, and *)
(*               whether the effect that made it is still active           *)
(*   faults      polls that failed (history)                               *)
(***************************************************************************)
EXTENDS Naturals, Sequences

CONSTANTS Drawings, None,
          Last,         \* the last version of a drawing's state
          Polls,        \* names for the requests in flight
          MaxSwitches,  \* bound on the drawings shown one after the other
          MaxFaults     \* bound on failed polls

ASSUME StatusStreamAssumption ==
    /\ None \notin Drawings
    /\ {Last, MaxSwitches, MaxFaults} \subseteq Nat

VARIABLES stored, unsent, url, source, handler, wire,
          isPolling, data, polled, poll, switches, faults

server == <<stored, unsent>>
stream == <<source, handler, wire>>
vars == <<server, url, stream, isPolling, data, polled, poll, switches, faults>>

Version == 0..Last

Status == [of : Drawings, version : Version]

Poll == [stage : {"free", "asked", "ended", "failed"}, of : Drawings \cup {None},
         active : BOOLEAN]

TypeOK ==
    /\ stored \in [Drawings -> Version]
    /\ unsent \in [Drawings -> SUBSET Version]
    /\ url \in Drawings \cup {None}
    /\ source \in {"closed", "connecting", "open"}
    /\ handler \in {"none", "greeted", "subscribed"}
    /\ wire \in Seq(Version)
    /\ isPolling \in BOOLEAN
    /\ data \in SUBSET Status
    /\ polled \in SUBSET Drawings
    /\ poll \in [Polls -> Poll]
    /\ switches \in 0..MaxSwitches
    /\ faults \in 0..MaxFaults

FreePoll == [stage |-> "free", of |-> None, active |-> FALSE]

Init ==
    /\ stored = [d \in Drawings |-> 0]
    /\ unsent = [d \in Drawings |-> {}]
    /\ url = None
    /\ source = "closed"
    /\ handler = "none"
    /\ wire = <<>>
    /\ isPolling = FALSE
    /\ data = {}
    /\ polled = {}
    /\ poll = [p \in Polls |-> FreePoll]
    /\ switches = 0
    /\ faults = 0

-----------------------------------------------------------------------------
(* Plausible bugs, each paired with the property it breaks.                *)

\* The timer is cleared whether the stream is open or not.
OpensTooLate_Never == FALSE

\* An answer is shown without a look at active.
Wanted_Always(p) == TRUE

\* What a failed poll has thrown is shown like an answer.
AfterFailure_Shown(p) == {None}

-----------------------------------------------------------------------------
(* The server                                                              *)

CommitState(d) ==
    /\ stored[d] < Last
    /\ stored' = [stored EXCEPT ![d] = @ + 1]
    /\ unsent' = [unsent EXCEPT ![d] = @ \cup {stored[d] + 1}]
    /\ UNCHANGED <<url, stream, isPolling, data, polled, poll, switches, faults>>

\* publish_drawing_status; or the worker dies before, and nobody is told.
Publish(d) ==
    /\ \E v \in unsent[d] :
          /\ unsent' = [unsent EXCEPT ![d] = @ \ {v}]
          /\ \/ wire' = IF url = d /\ handler = "subscribed" THEN Append(wire, v) ELSE wire
             \/ UNCHANGED wire
    /\ UNCHANGED <<stored, url, source, handler, isPolling, data, polled, poll, switches,
                   faults>>

\* The first event; whether the browser has seen the response begin or not.
Greet ==
    /\ source # "closed" /\ handler = "none"
    /\ handler' = "greeted"
    /\ wire' = Append(wire, stored[url])
    /\ UNCHANGED <<server, url, source, isPolling, data, polled, poll, switches, faults>>

\* subscribe_drawing_status.
Subscribe ==
    /\ source # "closed" /\ handler = "greeted"
    /\ handler' = "subscribed"
    /\ UNCHANGED <<server, url, source, wire, isPolling, data, polled, poll, switches, faults>>

-----------------------------------------------------------------------------
(* useSSE                                                                  *)

\* The cleanups of both effects, and the effect of useSSE for the new url.  What the
\* hooks had for the old one stays.
Show(d) ==
    /\ url # d /\ switches < MaxSwitches
    /\ switches' = switches + 1
    /\ url' = d
    /\ source' = IF d = None THEN "closed" ELSE "connecting"
    /\ handler' = "none"
    /\ wire' = <<>>
    /\ isPolling' = FALSE
    /\ poll' = [p \in Polls |-> [poll[p] EXCEPT !.active = FALSE]]
    /\ UNCHANGED <<server, data, polled, faults>>

OnOpen ==
    /\ source = "connecting"
    /\ source' = "open"
    /\ UNCHANGED <<server, url, handler, wire, isPolling, data, polled, poll, switches, faults>>

OnMessage ==
    /\ source = "open" /\ wire # <<>>
    /\ data' = {[of |-> url, version |-> Head(wire)]}
    /\ wire' = Tail(wire)
    /\ UNCHANGED <<server, url, source, handler, isPolling, polled, poll, switches, faults>>

OpensTooLate == source = "connecting"

FallBackToPolling ==
    /\ source' = "closed"
    /\ handler' = "none"
    /\ wire' = <<>>
    /\ isPolling' = TRUE
    /\ UNCHANGED <<server, url, data, polled, poll, switches, faults>>

OnTimer == OpensTooLate /\ FallBackToPolling

\* Also the runtime that has no EventSource, and the 401 of one that has no way to send the
\* token.
OnError == source # "closed" /\ FallBackToPolling

-----------------------------------------------------------------------------
(* usePolling                                                              *)

\* At once, and every ten seconds, whatever polls are still under way.
Ask(p) ==
    /\ isPolling
    /\ poll[p].stage = "free"
    /\ poll' = [poll EXCEPT ![p] = [FreePoll EXCEPT !.stage = "asked", !.of = url,
                                                    !.active = TRUE]]
    /\ UNCHANGED <<server, url, stream, isPolling, data, polled, switches, faults>>

\* The handler tears the stream down, or a proxy does; nothing says that it must happen.
StreamEnds(p) ==
    /\ poll[p].stage = "asked"
    /\ poll' = [poll EXCEPT ![p].stage = "ended"]
    /\ UNCHANGED <<server, url, stream, isPolling, data, polled, switches, faults>>

PollFails(p) ==
    /\ poll[p].stage = "asked"
    /\ poll' = [poll EXCEPT ![p].stage = "failed"]
    /\ faults < MaxFaults /\ faults' = faults + 1
    /\ UNCHANGED <<server, url, stream, isPolling, data, polled, switches>>

Wanted(p) == poll[p].active

\* setError, and data as it was.
AfterFailure(p) == polled

\* parseBody returns the text of an event stream as it is.
Arrive(p) ==
    /\ poll[p].stage \in {"ended", "failed"}
    /\ \/ ~Wanted(p) /\ UNCHANGED polled
       \/ Wanted(p) /\ poll[p].stage = "ended" /\ polled' = {poll[p].of}
       \/ Wanted(p) /\ poll[p].stage = "failed" /\ polled' = AfterFailure(p)
    /\ poll' = [poll EXCEPT ![p] = FreePoll]
    /\ UNCHANGED <<server, url, stream, isPolling, data, switches, faults>>

-----------------------------------------------------------------------------
UseSSE == OnOpen \/ OnMessage \/ OnTimer \/ OnError

UsePolling(p) == Ask(p) \/ StreamEnds(p) \/ PollFails(p) \/ Arrive(p)

Next ==
    \/ \E d \in Drawings : CommitState(d) \/ Publish(d)
    \/ \E d \in Drawings \cup {None} : Show(d)
    \/ Greet \/ Subscribe \/ UseSSE
    \/ \E p \in Polls : UsePolling(p)

\* The timer of the hook runs, a handler that has the request sends its first event, and
\* an open stream delivers.  Nothing is assumed of a stream that does not open, of the
\* publishers, or of a poll.
Fairness == WF_vars(OnTimer) /\ WF_vars(Greet) /\ WF_vars(OnMessage)

Spec == Init /\ [][Next]_vars /\ Fairness

-----------------------------------------------------------------------------
(* Properties                                                              *)

\* A hook that connects after the last transition of its drawing shows that status in the
\* end, though nothing is published any more, or it polls: it does not wait for a stream
\* that never opens, and events of former versions that come late do not keep it away.
StatusArrives ==
    \A d \in Drawings :
        url = d /\ stored[d] = Last /\ source # "closed" /\ handler = "none"
            ~> data = {[of |-> d, version |-> Last]} \/ isPolling \/ url # d

\* A late answer or event never replaces what is shown by something of a drawing that was
\* shown before, nor changes anything after the hook is unmounted.
LateAnswersAreDropped ==
    [][/\ polled' # polled => polled' \subseteq {url}
       /\ data' # data => \A s \in data' : s.of = url]_vars
=============================================================================
