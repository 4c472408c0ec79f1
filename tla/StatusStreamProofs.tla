------------------------- MODULE StatusStreamProofs -------------------------
(***************************************************************************)
(* The safety of the status stream, for any drawings, versions and polls.  *)
(***************************************************************************)
EXTENDS StatusStream, SequenceTheorems, TLAPS

-----------------------------------------------------------------------------
(* Properties                                                              *)

\* The screen is never ahead of the database: a status that the hook has is one that the
\* row of that drawing had, for a version is committed before it is published, and the
\* first event is read from the row.
NeverAhead == \A s \in data : s.version <= stored[s.of]

\* The two sources exclude each other: the hook that polls has closed its stream, and
\* nothing is on its way to it.
StreamOrPolls == isPolling => source = "closed" /\ handler = "none" /\ wire = <<>>

\* The last version is on its way to the hook.
Coming == source # "closed" /\ \E n \in 1..Len(wire) : wire[n] = Last

\* It does not get lost behind others, of whatever order: what ends its way is that it is
\* shown, or that the stream is closed, for polls or for another drawing.
ComingIsShown ==
    [][Coming /\ ~Coming' =>
           \/ data' = {[of |-> url, version |-> Last]}
           \/ url' # url \/ isPolling']_vars

-----------------------------------------------------------------------------
(* The inductive invariant.                                                *)

\* Only a hook that shows a drawing has a stream or polls.
Mounted ==
    /\ source # "closed" \/ isPolling => url \in Drawings
    /\ handler # "none" \/ wire # <<>> => source # "closed"
    /\ isPolling => source = "closed"

\* The request of a poll names a drawing, and that of an effect which is still active
\* the drawing that is shown.
Asked ==
    \A p \in Polls :
        /\ poll[p].stage # "free" => poll[p].of \in Drawings
        /\ poll[p].active => poll[p].stage # "free" /\ poll[p].of = url

\* No version is anywhere before it is in the row.
Committed ==
    /\ \A d \in Drawings : \A v \in unsent[d] : v <= stored[d]
    /\ url \in Drawings => \A n \in 1..Len(wire) : wire[n] <= stored[url]
    /\ NeverAhead

IInv == TypeOK /\ Mounted /\ Asked /\ Committed

-----------------------------------------------------------------------------
(* Lemmas about the model's values.                                        *)

LEMMA VersionType == Version \subseteq Nat /\ 0 \in Version
BY StatusStreamAssumption DEF Version

LEMMA FreePollType == FreePoll \in Poll /\ FreePoll.stage = "free" /\ ~FreePoll.active
BY DEF FreePoll, Poll

\* A message joins the wire at its end and leaves it at its head.
LEMMA WireAppend ==
    ASSUME NEW w \in Seq(Version), NEW v \in Version, NEW b \in Nat,
           \A n \in 1..Len(w) : w[n] <= b, v <= b
    PROVE  /\ Append(w, v) \in Seq(Version)
           /\ \A n \in 1..Len(Append(w, v)) : Append(w, v)[n] <= b
OBVIOUS

LEMMA WireTail ==
    ASSUME NEW w \in Seq(Version), w # <<>>, NEW b \in Nat,
           \A n \in 1..Len(w) : w[n] <= b
    PROVE  /\ Head(w) \in Version /\ Head(w) <= b
           /\ Tail(w) \in Seq(Version)
           /\ \A n \in 1..Len(Tail(w)) : Tail(w)[n] <= b
<1>1. Len(w) \in Nat /\ Len(w) > 0
  OBVIOUS
<1>2. Head(w) = w[1] /\ 1 \in 1..Len(w)
  BY <1>1
<1>3. Tail(w) \in Seq(Version) /\ Len(Tail(w)) = Len(w) - 1
  OBVIOUS
<1>4. \A n \in 1..Len(Tail(w)) : n + 1 \in 1..Len(w) /\ Tail(w)[n] = w[n + 1]
  BY <1>1, <1>3
<1> QED
  BY <1>2, <1>3, <1>4

-----------------------------------------------------------------------------
(* The server                                                              *)

LEMMA CommitStep ==
    ASSUME IInv, NEW d \in Drawings, CommitState(d)
    PROVE  IInv'
<1> USE VersionType DEF IInv, CommitState, server, stream
<1>1. /\ stored' = [stored EXCEPT ![d] = @ + 1]
      /\ unsent' = [unsent EXCEPT ![d] = @ \cup {stored[d] + 1}]
      /\ stored[d] \in Version /\ stored[d] + 1 \in Version
  BY StatusStreamAssumption DEF TypeOK, Version
<1>2. \A e \in Drawings : stored[e] \in Nat /\ stored'[e] \in Nat /\ stored[e] <= stored'[e]
  <2> SUFFICES ASSUME NEW e \in Drawings
               PROVE  stored[e] \in Nat /\ stored'[e] \in Nat /\ stored[e] <= stored'[e]
    OBVIOUS
  <2>1. stored[e] \in Nat /\ stored[d] \in Nat
    BY DEF TypeOK
  <2>2. stored'[e] = IF e = d THEN stored[d] + 1 ELSE stored[e]
    BY <1>1 DEF TypeOK
  <2> QED
    BY <2>1, <2>2
<1>3. TypeOK'
  <2>1. stored' \in [Drawings -> Version] /\ unsent' \in [Drawings -> SUBSET Version]
    BY <1>1 DEF TypeOK
  <2> QED
    BY <2>1 DEF TypeOK
<1>4. Mounted' /\ Asked'
  BY DEF Mounted, Asked
<1>5. \A e \in Drawings : \A v \in unsent'[e] : v <= stored'[e]
  <2> SUFFICES ASSUME NEW e \in Drawings, NEW v \in unsent'[e] PROVE v <= stored'[e]
    OBVIOUS
  <2>1. CASE v \in unsent[e]
    <3>1. v \in Nat /\ v <= stored[e]
      BY <2>1 DEF TypeOK, Committed
    <3> QED
      BY <1>2, <3>1
  <2>2. CASE e = d /\ v = stored[d] + 1
    BY <1>1, <1>2, <2>2 DEF TypeOK
  <2> QED
    BY <1>1, <2>1, <2>2 DEF TypeOK
<1>6. url' \in Drawings => \A n \in 1..Len(wire') : wire'[n] <= stored'[url']
  <2> SUFFICES ASSUME url \in Drawings, NEW n \in 1..Len(wire) PROVE wire[n] <= stored'[url]
    OBVIOUS
  <2>1. wire[n] \in Version /\ wire[n] \in Nat
    <3>1. wire \in Seq(Version)
      BY DEF TypeOK
    <3> QED
      BY <3>1, ElementOfSeq
  <2>2. wire[n] <= stored[url]
    BY DEF Committed
  <2> QED
    BY <1>2, <2>1, <2>2
<1>7. NeverAhead'
  <2> SUFFICES ASSUME NEW s \in data PROVE s.version <= stored'[s.of]
    BY DEF NeverAhead
  <2>1. s.of \in Drawings /\ s.version \in Nat /\ s.version <= stored[s.of]
    BY DEF TypeOK, Status, Committed, NeverAhead
  <2> QED
    BY <1>2, <2>1
<1> QED
  BY <1>3, <1>4, <1>5, <1>6, <1>7 DEF Committed

LEMMA PublishStep ==
    ASSUME IInv, NEW d \in Drawings, Publish(d)
    PROVE  IInv'
<1> USE VersionType DEF IInv, server, stream
<1>1. PICK v \in unsent[d] :
          /\ unsent' = [unsent EXCEPT ![d] = @ \ {v}]
          /\ wire' = wire \/ (url = d /\ handler = "subscribed" /\ wire' = Append(wire, v))
  BY DEF Publish
<1>2. UNCHANGED <<stored, url, source, handler, isPolling, data, polled, poll, switches, faults>>
  BY DEF Publish
<1>3. v \in Version /\ v <= stored[d] /\ stored[d] \in Nat
  BY DEF TypeOK, Committed
<1>4. /\ wire' \in Seq(Version)
      /\ wire' # <<>> => handler # "none" \/ wire # <<>>
      /\ url \in Drawings => \A n \in 1..Len(wire') : wire'[n] <= stored[url]
  <2>1. CASE wire' = wire
    BY <2>1 DEF TypeOK, Committed
  <2>2. CASE url = d /\ handler = "subscribed" /\ wire' = Append(wire, v)
    <3>1. wire \in Seq(Version) /\ \A n \in 1..Len(wire) : wire[n] <= stored[d]
      BY <2>2 DEF TypeOK, Committed
    <3> QED
      BY <1>3, <2>2, <3>1, WireAppend
  <2> QED
    BY <1>1, <2>1, <2>2
<1>5. /\ unsent' \in [Drawings -> SUBSET Version]
      /\ \A e \in Drawings : \A w \in unsent'[e] : w <= stored[e]
  BY <1>1 DEF TypeOK, Committed
<1>6. TypeOK'
  BY <1>2, <1>4, <1>5 DEF TypeOK
<1>7. Mounted' /\ Asked'
  BY <1>2, <1>4 DEF Mounted, Asked
<1>8. Committed'
  BY <1>2, <1>4, <1>5 DEF Committed, NeverAhead
<1> QED
  BY <1>6, <1>7, <1>8

-----------------------------------------------------------------------------
(* useSSE                                                                  *)

LEMMA ShowStep ==
    ASSUME IInv, NEW d \in Drawings \cup {None}, Show(d)
    PROVE  IInv'
<1> USE DEF IInv, Show, server
<1>1. poll' = [p \in Polls |-> [poll[p] EXCEPT !.active = FALSE]]
  OBVIOUS
<1>2. ASSUME NEW p \in Polls
      PROVE  /\ poll'[p] \in Poll /\ ~poll'[p].active
             /\ poll'[p].stage = poll[p].stage /\ poll'[p].of = poll[p].of
  <2>1. poll[p] \in Poll /\ poll'[p] = [poll[p] EXCEPT !.active = FALSE]
    BY <1>1 DEF TypeOK
  <2> QED
    BY <2>1 DEF Poll
<1>3. TypeOK'
  <2>1. poll' \in [Polls -> Poll]
    BY <1>1, <1>2
  <2>2. switches' \in 0..MaxSwitches
    BY StatusStreamAssumption DEF TypeOK
  <2>3. source' \in {"closed", "connecting", "open"} /\ wire' \in Seq(Version)
    OBVIOUS
  <2> QED
    BY <2>1, <2>2, <2>3 DEF TypeOK
<1>4. Mounted'
  BY DEF Mounted
<1>5. Asked'
  BY <1>2 DEF Asked
<1> QED
  BY <1>3, <1>4, <1>5 DEF Committed, NeverAhead

LEMMA FallBackStep ==
    ASSUME IInv, source # "closed", FallBackToPolling
    PROVE  IInv'
<1> USE DEF IInv, FallBackToPolling, server
<1>0. wire' \in Seq(Version)
  OBVIOUS
<1>1. TypeOK'
  BY <1>0 DEF TypeOK
<1>2. Mounted' /\ Asked' /\ Committed'
  BY DEF Mounted, Asked, Committed, NeverAhead
<1> QED
  BY <1>1, <1>2

LEMMA OnMessageStep ==
    ASSUME IInv, OnMessage
    PROVE  IInv'
<1> USE VersionType DEF IInv, OnMessage, server
<1>1. url \in Drawings /\ stored[url] \in Nat
  BY DEF Mounted, TypeOK
<1>2. /\ Head(wire) \in Version /\ Head(wire) <= stored[url]
      /\ wire' \in Seq(Version)
      /\ \A n \in 1..Len(wire') : wire'[n] <= stored[url]
  <2>1. wire \in Seq(Version) /\ wire # <<>> /\ \A n \in 1..Len(wire) : wire[n] <= stored[url]
    BY <1>1 DEF TypeOK, Committed
  <2> QED
    BY <1>1, <2>1, WireTail
<1>3. data' \in SUBSET Status
  BY <1>1, <1>2 DEF Status
<1>4. TypeOK'
  BY <1>2, <1>3 DEF TypeOK
<1>5. Mounted' /\ Asked'
  BY DEF Mounted, Asked
<1>6. NeverAhead'
  BY <1>1, <1>2 DEF Committed, NeverAhead
<1> QED
  BY <1>2, <1>4, <1>5, <1>6 DEF Committed

LEMMA GreetStep ==
    ASSUME IInv, Greet
    PROVE  IInv'
<1> USE VersionType DEF IInv, Greet, server
<1>1. url \in Drawings /\ stored[url] \in Version /\ stored[url] \in Nat
  BY DEF Mounted, TypeOK
<1>2. wire' \in Seq(Version) /\ \A n \in 1..Len(wire') : wire'[n] <= stored[url]
  <2>1. wire \in Seq(Version) /\ \A n \in 1..Len(wire) : wire[n] <= stored[url]
    BY <1>1 DEF TypeOK, Committed
  <2> QED
    BY <1>1, <2>1, WireAppend
<1>3. TypeOK'
  BY <1>2 DEF TypeOK
<1>4. Mounted' /\ Asked'
  BY DEF Mounted, Asked
<1>5. Committed'
  BY <1>2 DEF Committed, NeverAhead
<1> QED
  BY <1>3, <1>4, <1>5

LEMMA StreamStep ==
    ASSUME IInv, Greet \/ Subscribe \/ UseSSE
    PROVE  IInv'
<1>1. ASSUME Subscribe \/ OnOpen PROVE IInv'
  <2>1. /\ UNCHANGED <<server, url, wire, isPolling, data, polled, poll, switches, faults>>
        /\ source' \in {"closed", "connecting", "open"}
        /\ handler' \in {"none", "greeted", "subscribed"}
        /\ source # "closed" /\ source' # "closed"
    BY <1>1 DEF Subscribe, OnOpen, IInv, TypeOK
  <2>2. TypeOK'
    BY <2>1 DEF IInv, TypeOK, server
  <2>3. Mounted' /\ Asked' /\ Committed'
    BY <2>1 DEF IInv, Mounted, Asked, Committed, NeverAhead, server
  <2> QED
    BY <2>2, <2>3 DEF IInv
<1>2. ASSUME OnTimer \/ OnError PROVE IInv'
  BY <1>2, FallBackStep DEF OnTimer, OnError, OpensTooLate
<1> QED
  BY <1>1, <1>2, GreetStep, OnMessageStep DEF UseSSE

-----------------------------------------------------------------------------
(* usePolling                                                              *)

\* A step of one poll leaves the others, the server and the stream.
LEMMA PollStep ==
    ASSUME IInv, NEW p \in Polls, NEW r \in Poll,
           poll' = [poll EXCEPT ![p] = r],
           UNCHANGED <<server, url, stream, isPolling, data, switches>>,
           faults' \in 0..MaxFaults, polled' \in SUBSET Drawings,
           r.stage # "free" => r.of \in Drawings,
           r.active => r.stage # "free" /\ r.of = url
    PROVE  IInv'
<1> USE DEF IInv, server, stream
<1>1. TypeOK'
  BY DEF TypeOK
<1>2. \A q \in Polls : poll'[q] = IF q = p THEN r ELSE poll[q]
  BY DEF TypeOK
<1>3. Mounted' /\ Asked'
  BY <1>2 DEF Mounted, Asked
<1>4. Committed'
  BY DEF Committed, NeverAhead
<1> QED
  BY <1>1, <1>3, <1>4

LEMMA UsePollingStep ==
    ASSUME IInv, NEW p \in Polls, UsePolling(p)
    PROVE  IInv'
<1>0. poll[p] \in Poll /\ polled \in SUBSET Drawings /\ faults \in 0..MaxFaults
  BY DEF IInv, TypeOK
<1>1. ASSUME Ask(p) PROVE IInv'
  <2> DEFINE r == [FreePoll EXCEPT !.stage = "asked", !.of = url, !.active = TRUE]
  <2>1. url \in Drawings
    BY <1>1 DEF Ask, IInv, Mounted
  <2>2. r \in Poll /\ r.stage = "asked" /\ r.of = url
    BY <2>1 DEF FreePoll, Poll
  <2>3. poll' = [poll EXCEPT ![p] = r] /\ polled' = polled /\ faults' = faults
    BY <1>1 DEF Ask
  <2>4. UNCHANGED <<server, url, stream, isPolling, data, switches>>
    BY <1>1 DEF Ask
  <2> HIDE DEF r
  <2> QED
    BY <1>0, <2>1, <2>2, <2>3, <2>4, PollStep
<1>2. ASSUME NEW e \in {"ended", "failed"},
             poll[p].stage = "asked", poll' = [poll EXCEPT ![p].stage = e],
             polled' = polled, faults' \in 0..MaxFaults,
             UNCHANGED <<server, url, stream, isPolling, data, switches>>
      PROVE  IInv'
  <2> DEFINE r == [poll[p] EXCEPT !.stage = e]
  <2>1. r \in Poll /\ r.stage = e /\ r.of = poll[p].of /\ r.active = poll[p].active
    BY <1>0 DEF Poll
  <2>2. poll' = [poll EXCEPT ![p] = r]
    BY <1>2
  <2>3. r.of \in Drawings /\ (r.active => r.of = url) /\ r.stage # "free"
    BY <1>2, <2>1 DEF IInv, Asked
  <2> HIDE DEF r
  <2> QED
    BY <1>0, <1>2, <2>1, <2>2, <2>3, PollStep
<1>3. ASSUME StreamEnds(p) \/ PollFails(p) PROVE IInv'
  <2>1. CASE StreamEnds(p)
    BY <1>0, <1>2, <2>1 DEF StreamEnds
  <2>2. CASE PollFails(p)
    <3>1. faults' \in 0..MaxFaults
      BY <1>0, <2>2, StatusStreamAssumption DEF PollFails
    <3> QED
      BY <1>2, <2>2, <3>1 DEF PollFails
  <2> QED
    BY <1>3, <2>1, <2>2
<1>4. ASSUME Arrive(p) PROVE IInv'
  <2>1. poll' = [poll EXCEPT ![p] = FreePoll] /\ faults' = faults
    BY <1>4 DEF Arrive
  <2>2. UNCHANGED <<server, url, stream, isPolling, data, switches>>
    BY <1>4 DEF Arrive
  <2>3. polled' = polled \/ (poll[p].stage = "ended" /\ polled' = {poll[p].of})
    BY <1>4 DEF Arrive, AfterFailure
  <2>4. polled' \in SUBSET Drawings
    BY <1>0, <2>3 DEF IInv, Asked
  <2> QED
    BY <1>0, <2>1, <2>2, <2>4, FreePollType, PollStep
<1> QED
  BY <1>1, <1>3, <1>4 DEF UsePolling

-----------------------------------------------------------------------------
LEMMA InitIInv == Init => IInv
<1> SUFFICES ASSUME Init PROVE IInv
  OBVIOUS
<1> USE VersionType DEF Init
<1>1. poll \in [Polls -> Poll] /\ \A p \in Polls : poll[p].stage = "free" /\ ~poll[p].active
  BY FreePollType
<1>2. TypeOK
  <2>1. switches \in 0..MaxSwitches /\ faults \in 0..MaxFaults
    BY StatusStreamAssumption
  <2>2. /\ stored \in [Drawings -> Version] /\ unsent \in [Drawings -> SUBSET Version]
        /\ wire \in Seq(Version)
    OBVIOUS
  <2> QED
    BY <1>1, <2>1, <2>2 DEF TypeOK
<1>3. Mounted /\ Asked
  BY <1>1 DEF Mounted, Asked
<1>4. Committed
  BY <1>1 DEF Committed, NeverAhead
<1> QED
  BY <1>2, <1>3, <1>4 DEF IInv

LEMMA Step == IInv /\ [Next]_vars => IInv'
<1> SUFFICES ASSUME IInv, [Next]_vars PROVE IInv'
  OBVIOUS
<1>1. CASE UNCHANGED vars
  BY <1>1 DEF vars, server, stream, IInv, TypeOK, Mounted, Asked, Committed, NeverAhead
<1>2. CASE Next
  BY <1>2, CommitStep, PublishStep, ShowStep, StreamStep, UsePollingStep DEF Next
<1> QED
  BY <1>1, <1>2

LEMMA Invariance == Spec => []IInv
BY InitIInv, Step, PTL DEF Spec

\* Every variable has its type: above all the hook never has an event without the drawing
\* that it is about, and never puts the error of a failed poll in the place of its data.
THEOREM TypeCorrect == Spec => []TypeOK
<1>1. IInv => TypeOK
  BY DEF IInv
<1> QED
  BY <1>1, Invariance, PTL

\* What the hook has is never newer than the row (publish_drawing_status comes after the
\* COMMIT, and the first event is read from what is committed), although versions may come
\* late, out of order, or for a drawing that is no longer shown.
THEOREM ScreenNeverAhead == Spec => []NeverAhead
<1>1. IInv => NeverAhead
  BY DEF IInv, Committed
<1> QED
  BY <1>1, Invariance, PTL

\* fallbackToPolling closes the stream before it sets isPolling, and nothing opens it
\* again while the drawing is shown.
THEOREM OneSource == Spec => []StreamOrPolls
<1>1. IInv => StreamOrPolls
  BY DEF IInv, Mounted, StreamOrPolls
<1> QED
  BY <1>1, Invariance, PTL

\* active = false in the cleanup of the effect, and the stream that is closed for the new
\* url: what a poll got, or an event, that was meant for another drawing is not shown.
THEOREM LateAnswersDropped == Spec => LateAnswersAreDropped
<1> DEFINE A == /\ polled' # polled => polled' \subseteq {url}
                /\ data' # data => \A s \in data' : s.of = url
<1>1. IInv /\ [Next]_vars => [A]_vars
  <2> SUFFICES ASSUME IInv, Next PROVE A
    OBVIOUS
  <2>1. ASSUME NEW p \in Polls, Arrive(p) PROVE A
    <3>1. polled' # polled => poll[p].active /\ polled' = {poll[p].of}
      BY <2>1 DEF Arrive, Wanted, AfterFailure
    <3>2. poll[p].active => poll[p].of = url
      BY DEF IInv, Asked
    <3> QED
      BY <2>1, <3>1, <3>2 DEF Arrive
  <2>2. ASSUME OnMessage PROVE A
    BY <2>2 DEF OnMessage
  <2>3. ASSUME NEW p \in Polls, Ask(p) \/ StreamEnds(p) \/ PollFails(p) PROVE A
    BY <2>3 DEF Ask, StreamEnds, PollFails
  <2>4. ASSUME Greet \/ Subscribe \/ OnOpen \/ OnTimer \/ OnError PROVE A
    BY <2>4 DEF Greet, Subscribe, OnOpen, OnTimer, OnError, FallBackToPolling
  <2>5. ASSUME NEW d \in Drawings \cup {None}, Show(d) PROVE A
    BY <2>5 DEF Show
  <2>6. ASSUME NEW d \in Drawings, CommitState(d) \/ Publish(d) PROVE A
    BY <2>6 DEF CommitState, Publish
  <2> QED
    BY <2>1, <2>2, <2>3, <2>4, <2>5, <2>6 DEF Next, UseSSE, UsePolling
<1> QED
  BY <1>1, Invariance, PTL DEF Spec, LateAnswersAreDropped

\* A message that has been read leaves the others, one place further on.
LEMMA TailKeeps ==
    ASSUME NEW w \in Seq(Version), w # <<>>, Head(w) # Last,
           NEW n \in 1..Len(w), w[n] = Last
    PROVE  \E k \in 1..Len(Tail(w)) : Tail(w)[k] = Last
<1>1. Len(w) \in Nat /\ Len(w) > 0 /\ Head(w) = w[1] /\ Len(Tail(w)) = Len(w) - 1
  OBVIOUS
<1>2. n - 1 \in 1..Len(Tail(w))
  BY <1>1
<1>3. Tail(w)[n - 1] = w[n]
  BY <1>1, <1>2
<1> QED
  BY <1>2, <1>3

LEMMA AppendKeeps ==
    ASSUME NEW w \in Seq(Version), NEW v \in Version, NEW n \in 1..Len(w), w[n] = Last
    PROVE  \E k \in 1..Len(Append(w, v)) : Append(w, v)[k] = Last
<1>1. n \in 1..Len(Append(w, v)) /\ Append(w, v)[n] = w[n]
  OBVIOUS
<1> QED
  BY <1>1

\* The safety half of StatusArrives: once the last status of the drawing is on its way, as
\* first event or published, the hook shows it, unless it polls or shows another drawing
\* first, however many events of former versions are before or behind it.
THEOREM LastStatusNotLost == Spec => ComingIsShown
<1> DEFINE A == Coming /\ ~Coming' =>
                    \/ data' = {[of |-> url, version |-> Last]}
                    \/ url' # url \/ isPolling'
<1>1. IInv /\ [Next]_vars => [A]_vars
  <2> SUFFICES ASSUME IInv, Next, Coming PROVE A
    OBVIOUS
  <2>0. wire \in Seq(Version) /\ stored \in [Drawings -> Version] /\ url \in Drawings
    BY DEF IInv, TypeOK, Mounted, Coming
  <2>1. PICK n \in 1..Len(wire) : wire[n] = Last
    BY DEF Coming
  <2>2. ASSUME NEW v \in Version, wire' = Append(wire, v), source' = source PROVE Coming'
    BY <2>0, <2>1, <2>2, AppendKeeps DEF Coming
  <2>3. ASSUME wire' = wire, source' # "closed" PROVE Coming'
    BY <2>1, <2>3 DEF Coming
  <2>4. ASSUME OnMessage PROVE A
    <3>1. CASE Head(wire) = Last
      BY <2>4, <3>1 DEF OnMessage
    <3>2. CASE Head(wire) # Last
      <4>1. wire # <<>> /\ wire' = Tail(wire) /\ source' = source
        BY <2>4 DEF OnMessage
      <4>2. \E k \in 1..Len(wire') : wire'[k] = Last
        BY <2>0, <2>1, <3>2, <4>1, TailKeeps
      <4> QED
        BY <4>1, <4>2 DEF Coming
    <3> QED
      BY <3>1, <3>2
  <2>5. ASSUME NEW d \in Drawings, Publish(d) PROVE A
    <3>1. PICK v \in unsent[d] : (wire' = Append(wire, v) \/ wire' = wire) /\ source' = source
      BY <2>5 DEF Publish
    <3>2. v \in Version
      BY DEF IInv, TypeOK
    <3> QED
      BY <2>2, <2>3, <3>1, <3>2 DEF Coming
  <2>6. ASSUME Greet PROVE A
    BY <2>0, <2>2, <2>6 DEF Greet
  <2>7. ASSUME NEW d \in Drawings, CommitState(d) PROVE A
    BY <2>3, <2>7 DEF CommitState, stream, Coming
  <2>8. ASSUME Subscribe \/ OnOpen PROVE A
    BY <2>3, <2>8 DEF Subscribe, OnOpen
  <2>9. ASSUME OnTimer \/ OnError PROVE A
    BY <2>9 DEF OnTimer, OnError, FallBackToPolling
  <2>10. ASSUME NEW d \in Drawings \cup {None}, Show(d) PROVE A
    BY <2>10 DEF Show
  <2>11. ASSUME NEW p \in Polls, UsePolling(p) PROVE A
    BY <2>3, <2>11 DEF UsePolling, Ask, StreamEnds, PollFails, Arrive, stream, Coming
  <2> QED
    BY <2>4, <2>5, <2>6, <2>7, <2>8, <2>9, <2>10, <2>11 DEF Next, UseSSE
<1> QED
  BY <1>1, Invariance, PTL DEF Spec, ComingIsShown
=============================================================================
