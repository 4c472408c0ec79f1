-------------------------- MODULE DeadLetterProofs --------------------------
(***************************************************************************)
(* The dead-letter queue, for any events, any number of drains at a time,  *)
(* any cap and any number of faults.                                       *)
(***************************************************************************)
EXTENDS DeadLetter, FiniteSetTheorems, SequenceTheorems, TLAPS

-----------------------------------------------------------------------------
(* The inductive invariant.  An event is in one of five sets, and in it    *)
(* once.                                                                   *)

Waiting == {e \in Events : stage[e] \in {"new", "failed"}}

InHand == UNION {drain[d].held : d \in Drains}

Taken == {e \in Events : sent[e] = 1}

Lost == UNION {gone[w] : w \in Cause}

Partition ==
    /\ Waiting \cup Queued \cup InHand \cup Taken \cup Lost = Events
    /\ Waiting \cap (Queued \cup InHand \cup Taken \cup Lost) = {}
    /\ Queued \cap (InHand \cup Taken \cup Lost) = {}
    /\ InHand \cap (Taken \cup Lost) = {}
    /\ Taken \cap Lost = {}

\* The positions of the queue have different events.
QueuedOnce == \A i, j \in DOMAIN queue : queue[i] = queue[j] => i = j

\* A drain has one event in its hand, between taking it out and being done with it,
\* and no other drain has the same.
HeldOnce ==
    /\ \A d \in Drains : drain[d].place \in {"holds", "requeue"} <=> drain[d].held # {}
    /\ \A d \in Drains : \A e, f \in drain[d].held : e = f
    /\ \A c, d \in Drains : c # d => drain[c].held \cap drain[d].held = {}

TakenOnce == \A e \in Events : sent[e] \in {0, 1}

LostOnce == \A v, w \in Cause : v # w => gone[v] \cap gone[w] = {}

\* A drain that nobody has cut off from its entries will only take such as it has not
\* taken before.
Ahead ==
    \A d \in Drains : ~drain[d].cut /\ drain[d].place # "idle" =>
        /\ drain[d].held \cap drain[d].took = {}
        /\ drain[d].left <= Len(queue)
        /\ \A i \in 1..drain[d].left : queue[i] \notin drain[d].took

IInv ==
    /\ EventsTypeOK
    /\ Partition /\ QueuedOnce /\ HeldOnce /\ TakenOnce /\ LostOnce
    /\ Ahead

-----------------------------------------------------------------------------
(* The queue under RPUSH, LPOP and LTRIM.                                  *)

LEMMA AppendQueue ==
    ASSUME queue \in Seq(Events), QueuedOnce, NEW e \in Events, e \notin Queued,
           queue' = Append(queue, e)
    PROVE  /\ queue' \in Seq(Events)
           /\ Len(queue') = Len(queue) + 1
           /\ \A i \in 1..Len(queue) : queue'[i] = queue[i]
           /\ Queued' = Queued \cup {e}
           /\ QueuedOnce'
<1>1. /\ queue' \in Seq(Events)
      /\ Len(queue') = Len(queue) + 1
      /\ DOMAIN queue' = 1..(Len(queue) + 1)
      /\ DOMAIN queue = 1..Len(queue)
      /\ Len(queue) \in Nat
      /\ \A i \in 1..Len(queue) : queue'[i] = queue[i]
      /\ queue'[Len(queue) + 1] = e
  OBVIOUS
<1>2. Queued' = Queued \cup {e}
  BY <1>1 DEF Queued
<1>3. QueuedOnce'
  <2> SUFFICES ASSUME NEW i \in DOMAIN queue', NEW j \in DOMAIN queue', queue'[i] = queue'[j]
               PROVE  i = j
    BY DEF QueuedOnce
  <2>1. CASE i \in 1..Len(queue) /\ j \in 1..Len(queue)
    BY <1>1, <2>1 DEF QueuedOnce
  <2>2. CASE i = Len(queue) + 1 /\ j \in 1..Len(queue)
    BY <1>1, <2>2 DEF Queued
  <2>3. CASE j = Len(queue) + 1 /\ i \in 1..Len(queue)
    BY <1>1, <2>3 DEF Queued
  <2> QED
    BY <1>1, <2>1, <2>2, <2>3
<1> QED
  BY <1>1, <1>2, <1>3

LEMMA TailQueue ==
    ASSUME queue \in Seq(Events), QueuedOnce, queue # <<>>, queue' = Tail(queue)
    PROVE  /\ queue' \in Seq(Events)
           /\ Len(queue') = Len(queue) - 1
           /\ Len(queue) \in Nat \ {0}
           /\ \A i \in 1..(Len(queue) - 1) : queue'[i] = queue[i + 1]
           /\ Head(queue) = queue[1] /\ Head(queue) \in Events
           /\ Head(queue) \in Queued
           /\ Queued' = Queued \ {Head(queue)}
           /\ QueuedOnce'
<1>1. /\ queue' \in Seq(Events)
      /\ Len(queue') = Len(queue) - 1
      /\ Len(queue) \in Nat \ {0}
      /\ DOMAIN queue = 1..Len(queue)
      /\ DOMAIN queue' = 1..(Len(queue) - 1)
      /\ \A i \in 1..(Len(queue) - 1) : queue'[i] = queue[i + 1]
      /\ Head(queue) = queue[1] /\ Head(queue) \in Events
  OBVIOUS
<1>2. Head(queue) \in Queued
  BY <1>1 DEF Queued
<1>3. ASSUME NEW e \in Queued' PROVE e \in Queued \ {Head(queue)}
  <2>1. PICK i \in 1..(Len(queue) - 1) : e = queue[i + 1]
    BY <1>1, <1>3 DEF Queued
  <2>2. i + 1 \in DOMAIN queue /\ 1 \in DOMAIN queue /\ i + 1 # 1
    BY <1>1
  <2> QED
    BY <1>1, <2>1, <2>2 DEF Queued, QueuedOnce
<1>4. ASSUME NEW e \in Queued, e # Head(queue) PROVE e \in Queued'
  <2>1. PICK i \in 1..Len(queue) : e = queue[i]
    BY <1>1, <1>4 DEF Queued
  <2>2. i - 1 \in 1..(Len(queue) - 1) /\ (i - 1) + 1 = i
    BY <1>1, <1>4, <2>1
  <2>3. e = queue'[i - 1] /\ i - 1 \in DOMAIN queue'
    BY <1>1, <2>1, <2>2
  <2> QED
    BY <2>3 DEF Queued
<1>5. QueuedOnce'
  <2> SUFFICES ASSUME NEW i \in DOMAIN queue', NEW j \in DOMAIN queue', queue'[i] = queue'[j]
               PROVE  i = j
    BY DEF QueuedOnce
  <2>1. i + 1 \in DOMAIN queue /\ j + 1 \in DOMAIN queue /\ queue[i + 1] = queue[j + 1]
    BY <1>1
  <2> QED
    BY <1>1, <2>1 DEF QueuedOnce
<1> QED
  BY <1>1, <1>2, <1>3, <1>4, <1>5

LEMMA TrimQueue ==
    ASSUME queue \in Seq(Events), QueuedOnce, queue' = Trimmed
    PROVE  /\ queue' \in Seq(Events)
           /\ Len(queue') <= Cap
           /\ Queued' \subseteq Queued
           /\ Queued' = {Trimmed[i] : i \in DOMAIN Trimmed}
           /\ QueuedOnce'
<1>1. Cap \in Nat \ {0} /\ Len(queue) \in Nat
  BY DeadLetterAssumption
<1>2. Queued' = {Trimmed[i] : i \in DOMAIN Trimmed}
  BY DEF Queued
<1>3. CASE Len(queue) <= Cap
  <2>1. queue' = queue
    BY <1>3 DEF Trimmed
  <2> QED
    BY <1>1, <1>2, <1>3, <2>1 DEF Queued, QueuedOnce
<1>4. CASE ~(Len(queue) <= Cap)
  <2> DEFINE n == Len(queue) - Cap
  <2>1. n \in Nat /\ n + 1 \in 1..Len(queue)
    BY <1>1, <1>4
  <2>2. queue' = SubSeq(queue, n + 1, Len(queue))
    BY <1>4 DEF Trimmed
  <2>3. /\ queue' \in Seq(Events)
        /\ Len(queue') = Cap
        /\ DOMAIN queue' = 1..Cap
        /\ \A i \in 1..Cap : queue'[i] = queue[n + i]
        /\ \A i \in 1..Cap : n + i \in DOMAIN queue
    <3>1. /\ queue' \in Seq(Events)
          /\ Len(queue') = Len(queue) - (n + 1) + 1
          /\ \A i \in 1..Len(queue') : queue'[i] = queue[(n + 1) + i - 1]
      BY <1>1, <2>1, <2>2, SubSeqProperties
    <3>2. Len(queue) - (n + 1) + 1 = Cap
      BY <1>1
    <3>3. DOMAIN queue' = 1..Len(queue') /\ DOMAIN queue = 1..Len(queue)
      BY <3>1
    <3>4. ASSUME NEW i \in 1..Cap PROVE (n + 1) + i - 1 = n + i /\ n + i \in 1..Len(queue)
      BY <1>1, <1>4
    <3> HIDE DEF n
    <3> QED
      BY <3>1, <3>2, <3>3, <3>4
  <2>4. Queued' \subseteq Queued
    <3> HIDE DEF n
    <3> QED
      BY <2>3 DEF Queued
  <2>5. QueuedOnce'
    <3> HIDE DEF n
    <3> SUFFICES ASSUME NEW i \in 1..Cap, NEW j \in 1..Cap, queue'[i] = queue'[j]
                 PROVE  i = j
      BY <2>3 DEF QueuedOnce
    <3>1. queue[n + i] = queue[n + j] /\ n + i \in DOMAIN queue /\ n + j \in DOMAIN queue
      BY <2>3
    <3>2. n + i = n + j
      BY <3>1 DEF QueuedOnce
    <3> QED
      BY <1>1, <2>1, <3>2
  <2> QED
    BY <1>1, <1>2, <2>3, <2>4, <2>5
<1> QED
  BY <1>3, <1>4

-----------------------------------------------------------------------------
(* The five sets under the changes that the actions make.                  *)

LEMMA Releases ==
    ASSUME EventsTypeOK, NEW e \in Events, NEW s \in {"over", "pushed"},
           stage' = [stage EXCEPT ![e] = s]
    PROVE  /\ stage' \in [Events -> {"new", "failed", "pushed", "over"}]
           /\ Waiting' = Waiting \ {e}
BY DEF EventsTypeOK, Waiting

LEMMA Takes ==
    ASSUME EventsTypeOK, TakenOnce, NEW e \in Events, e \notin Taken, Take(e)
    PROVE  /\ sent' \in [Events -> Nat]
           /\ Taken' = Taken \cup {e}
           /\ TakenOnce'
<1>1. sent \in [Events -> Nat] /\ sent' = [sent EXCEPT ![e] = sent[e] + 1]
  BY DEF EventsTypeOK, Take
<1>2. sent[e] = 0 /\ sent'[e] = 1
  BY <1>1 DEF Taken, TakenOnce
<1>3. \A f \in Events \ {e} : sent'[f] = sent[f]
  BY <1>1
<1> QED
  BY <1>1, <1>2, <1>3 DEF Taken, TakenOnce

LEMMA Loses ==
    ASSUME EventsTypeOK, LostOnce, NEW w \in Cause, NEW S \in SUBSET Events, S \cap Lost = {},
           Lose(w, S)
    PROVE  /\ gone' \in [Cause -> SUBSET Events]
           /\ Lost' = Lost \cup S
           /\ LostOnce'
<1>1. gone \in [Cause -> SUBSET Events] /\ gone' = [gone EXCEPT ![w] = gone[w] \cup S]
  BY DEF EventsTypeOK, Lose
<1>2. gone'[w] = gone[w] \cup S /\ \A v \in Cause \ {w} : gone'[v] = gone[v]
  BY <1>1
<1>3. Lost' = Lost \cup S
  BY <1>2 DEF Lost
<1>4. \A v \in Cause : S \cap gone[v] = {}
  BY DEF Lost
<1> QED
  BY <1>1, <1>2, <1>3, <1>4 DEF LostOnce

\* A drain puts down what it holds, and takes up what nobody holds.
LEMMA Hands ==
    ASSUME EventsTypeOK, HeldOnce, drain' \in [Drains -> Drain], NEW d \in Drains,
           \A x \in Drains \ {d} :
              drain'[x].held = drain[x].held /\ drain'[x].place = drain[x].place,
           drain'[d].place \in {"holds", "requeue"} <=> drain'[d].held # {},
           \A e, f \in drain'[d].held : e = f,
           drain'[d].held \cap InHand \subseteq drain[d].held
    PROVE  /\ InHand' = (InHand \ drain[d].held) \cup drain'[d].held
           /\ HeldOnce'
<1>1. \A x \in Drains \ {d} : drain[x].held \cap drain[d].held = {}
  BY DEF HeldOnce
<1>2. \A x \in Drains \ {d} : drain[x].held \cap drain'[d].held = {}
  BY <1>1 DEF InHand
<1>3. InHand' = (InHand \ drain[d].held) \cup drain'[d].held
  BY <1>1 DEF InHand
<1>4. HeldOnce'
  BY <1>1, <1>2 DEF HeldOnce
<1> QED
  BY <1>3, <1>4

LEMMA SameHands ==
    ASSUME EventsTypeOK, HeldOnce,
           \A x \in Drains : drain'[x].held = drain[x].held /\ drain'[x].place = drain[x].place
    PROVE  InHand' = InHand /\ HeldOnce'
BY DEF InHand, HeldOnce

\* When others take entries away, a drain is cut off.
LEMMA Cuts ==
    ASSUME EventsTypeOK, NEW x \in Drains
    PROVE  /\ Cut(x) \in Drain
           /\ Cut(x).held = drain[x].held /\ Cut(x).place = drain[x].place
           /\ Cut(x).place # "idle" => Cut(x).cut
BY DEF EventsTypeOK, Drain, Cut
LEMMA SameQueue ==
    ASSUME QueuedOnce, queue' = queue
    PROVE  Queued' = Queued /\ QueuedOnce'
BY DEF Queued, QueuedOnce

\* Entries at the end of the queue do not concern a drain.
LEMMA StaysAhead ==
    ASSUME EventsTypeOK, Ahead, drain' = drain, queue' \in Seq(Events), Len(queue) <= Len(queue'),
           \A i \in 1..Len(queue) : queue'[i] = queue[i]
    PROVE  Ahead'
<1> SUFFICES ASSUME NEW d \in Drains, ~drain[d].cut, drain[d].place # "idle"
             PROVE  /\ drain[d].held \cap drain[d].took = {}
                    /\ drain[d].left <= Len(queue')
                    /\ \A i \in 1..drain[d].left : queue'[i] \notin drain[d].took
  BY DEF Ahead
<1>1. drain[d].left \in Nat /\ Len(queue) \in Nat /\ Len(queue') \in Nat
  BY DEF EventsTypeOK, Drain
<1>2. /\ drain[d].held \cap drain[d].took = {}
      /\ drain[d].left <= Len(queue)
      /\ \A i \in 1..drain[d].left : queue[i] \notin drain[d].took
  BY DEF Ahead
<1> QED
  BY <1>1, <1>2

-----------------------------------------------------------------------------
(* Every action keeps the invariant.                                       *)

LEMMA CaptureKeeps ==
    ASSUME IInv, UNCHANGED enabled, NEW e \in Events, Capture(e)
    PROVE  IInv'
<1> USE DEF IInv
<1>1. e \in Waiting
  BY DEF Capture, Advance, Waiting
<1>2. stage' \in [Events -> {"new", "failed", "pushed", "over"}] /\ Waiting' = Waiting \ {e}
  BY Releases DEF Capture, Advance
<1>3. e \notin Taken
  BY <1>1 DEF Partition
<1>4. sent' \in [Events -> Nat] /\ Taken' = Taken \cup {e} /\ TakenOnce'
  BY <1>3, Takes DEF Capture
<1>5. Queued' = Queued /\ QueuedOnce'
  BY SameQueue DEF Capture
<1>6. InHand' = InHand /\ HeldOnce'
  BY SameHands DEF Capture
<1>7. Lost' = Lost /\ LostOnce'
  BY DEF Capture, Lost, LostOnce
<1>8. Partition'
  BY <1>1, <1>2, <1>4, <1>5, <1>6, <1>7 DEF Partition
<1>9. EventsTypeOK'
  BY <1>2, <1>4 DEF EventsTypeOK, Capture
<1>10. Ahead'
  BY DEF Ahead, Capture
<1> QED
  BY <1>4, <1>5, <1>6, <1>7, <1>8, <1>9, <1>10

\* The emitter goes on, and the event stays where it is: CaptureFails and TrimFails.
LEMMA EmitterStepKeeps ==
    ASSUME IInv, UNCHANGED <<enabled, queue, drain, sent, gone>>,
           untrimmed' \in Nat, faults' \in 0..MaxFaults,
           stage' \in [Events -> {"new", "failed", "pushed", "over"}], Waiting' = Waiting
    PROVE  IInv'
<1> USE DEF IInv
<1>1. Queued' = Queued /\ InHand' = InHand /\ Taken' = Taken /\ Lost' = Lost
  BY DEF Queued, InHand, Taken, Lost
<1>2. Partition'
  BY <1>1 DEF Partition
<1>3. EventsTypeOK'
  BY DEF EventsTypeOK
<1>4. QueuedOnce' /\ HeldOnce' /\ TakenOnce' /\ LostOnce' /\ Ahead'
  BY DEF QueuedOnce, HeldOnce, TakenOnce, LostOnce, Ahead
<1> QED
  BY <1>2, <1>3, <1>4

LEMMA CaptureFailsKeeps ==
    ASSUME IInv, UNCHANGED enabled, NEW e \in Events, CaptureFails(e)
    PROVE  IInv'
<1>1. /\ stage' \in [Events -> {"new", "failed", "pushed", "over"}]
      /\ Waiting' = Waiting
  BY DEF CaptureFails, Advance, Waiting, IInv, EventsTypeOK
<1> QED
  BY <1>1, EmitterStepKeeps DEF CaptureFails, IInv, EventsTypeOK

LEMMA TrimFailsKeeps ==
    ASSUME IInv, UNCHANGED enabled, NEW e \in Events, TrimFails(e)
    PROVE  IInv'
<1>1. /\ stage' \in [Events -> {"new", "failed", "pushed", "over"}]
      /\ Waiting' = Waiting
  BY DEF TrimFails, Advance, Waiting, IInv, EventsTypeOK
<1>2. untrimmed' \in Nat /\ faults' \in 0..MaxFaults
  BY DeadLetterAssumption DEF TrimFails, Fault, IInv, EventsTypeOK
<1> QED
  BY <1>1, <1>2, EmitterStepKeeps DEF TrimFails

\* RPUSH by the emitter, whether it gets the answer (RPush) or not (PushReplyLost).
LEMMA EnqueueKeeps ==
    ASSUME IInv, NEW e \in Events, stage[e] = "failed", NEW s \in {"over", "pushed"},
           stage' = [stage EXCEPT ![e] = s], queue' = Append(queue, e),
           UNCHANGED <<enabled, drain, sent, gone>>,
           untrimmed' \in Nat, faults' \in 0..MaxFaults
    PROVE  IInv'
<1> USE DEF IInv
<1>1. e \in Waiting
  BY DEF Waiting
<1>2. stage' \in [Events -> {"new", "failed", "pushed", "over"}] /\ Waiting' = Waiting \ {e}
  BY Releases
<1>3. e \notin Queued
  BY <1>1 DEF Partition
<1>4. /\ queue' \in Seq(Events) /\ Len(queue') = Len(queue) + 1
      /\ \A i \in 1..Len(queue) : queue'[i] = queue[i]
      /\ Queued' = Queued \cup {e} /\ QueuedOnce'
  BY <1>3, AppendQueue DEF EventsTypeOK
<1>5. InHand' = InHand /\ HeldOnce'
  BY SameHands
<1>6. Taken' = Taken /\ TakenOnce' /\ Lost' = Lost /\ LostOnce'
  BY DEF Taken, TakenOnce, Lost, LostOnce
<1>7. Partition'
  BY <1>1, <1>2, <1>4, <1>5, <1>6 DEF Partition
<1>8. EventsTypeOK'
  BY <1>2, <1>4 DEF EventsTypeOK
<1>9. Len(queue) \in Nat /\ Len(queue) <= Len(queue')
  BY <1>4 DEF EventsTypeOK
<1>10. Ahead'
  BY <1>4, <1>9, StaysAhead
<1> QED
  BY <1>4, <1>5, <1>6, <1>7, <1>8, <1>10

LEMMA RPushKeeps ==
    ASSUME IInv, UNCHANGED enabled, NEW e \in Events, RPush(e)
    PROVE  IInv'
BY EnqueueKeeps DEF RPush, Advance, IInv, EventsTypeOK

LEMMA PushReplyLostKeeps ==
    ASSUME IInv, UNCHANGED enabled, NEW e \in Events, PushReplyLost(e)
    PROVE  IInv'
<1>1. untrimmed' \in Nat /\ faults' \in 0..MaxFaults
  BY DeadLetterAssumption DEF PushReplyLost, Fault, IInv, EventsTypeOK
<1> QED
  BY <1>1, EnqueueKeeps DEF PushReplyLost, Advance

LEMMA PushFailsKeeps ==
    ASSUME IInv, UNCHANGED enabled, NEW e \in Events, PushFails(e)
    PROVE  IInv'
<1> USE DEF IInv
<1>1. e \in Waiting
  BY DEF PushFails, Advance, Waiting
<1>2. stage' \in [Events -> {"new", "failed", "pushed", "over"}] /\ Waiting' = Waiting \ {e}
  BY Releases DEF PushFails, Advance
<1>3. {e} \cap Lost = {}
  BY <1>1 DEF Partition
<1>4. gone' \in [Cause -> SUBSET Events] /\ Lost' = Lost \cup {e} /\ LostOnce'
  BY <1>3, Loses DEF PushFails, Cause
<1>5. Queued' = Queued /\ QueuedOnce'
  BY SameQueue DEF PushFails
<1>6. InHand' = InHand /\ HeldOnce'
  BY SameHands DEF PushFails
<1>7. Taken' = Taken /\ TakenOnce'
  BY DEF PushFails, Taken, TakenOnce
<1>8. Partition'
  BY <1>1, <1>2, <1>4, <1>5, <1>6, <1>7 DEF Partition
<1>9. EventsTypeOK'
  BY <1>2, <1>4, DeadLetterAssumption DEF EventsTypeOK, PushFails, Fault
<1>10. Ahead'
  BY DEF Ahead, PushFails
<1> QED
  BY <1>4, <1>5, <1>6, <1>7, <1>8, <1>9, <1>10

LEMMA LTrimKeeps ==
    ASSUME IInv, UNCHANGED enabled, NEW e \in Events, LTrim(e)
    PROVE  IInv'
<1> USE DEF IInv
<1> DEFINE cutOff == Queued \ {Trimmed[i] : i \in DOMAIN Trimmed}
<1>1. stage' \in [Events -> {"new", "failed", "pushed", "over"}] /\ Waiting' = Waiting
  BY DEF LTrim, Advance, Waiting, EventsTypeOK
<1>2. /\ queue' \in Seq(Events) /\ Queued' \subseteq Queued
      /\ cutOff = Queued \ Queued' /\ QueuedOnce'
  BY TrimQueue DEF LTrim, EventsTypeOK
<1>3. cutOff \in SUBSET Events /\ cutOff \cap Lost = {}
  BY <1>2 DEF Partition
<1>4. Lose("trimmed", cutOff) /\ "trimmed" \in Cause
  BY DEF LTrim, Cause
<1>5. gone' \in [Cause -> SUBSET Events] /\ Lost' = Lost \cup cutOff /\ LostOnce'
  <2> HIDE DEF cutOff
  <2> QED
    BY <1>3, <1>4, Loses
<1>6. /\ drain' \in [Drains -> Drain]
      /\ \A x \in Drains : drain'[x].held = drain[x].held /\ drain'[x].place = drain[x].place
  BY Cuts DEF LTrim, EventsTypeOK
<1>7. InHand' = InHand /\ HeldOnce'
  BY <1>6, SameHands
<1>8. Taken' = Taken /\ TakenOnce'
  BY DEF LTrim, Taken, TakenOnce
<1>9. Partition'
  <2> HIDE DEF cutOff
  <2> QED
    BY <1>1, <1>2, <1>5, <1>7, <1>8 DEF Partition
<1>10. EventsTypeOK'
  BY <1>1, <1>2, <1>5, <1>6 DEF EventsTypeOK, LTrim
<1>11. Ahead'
  <2>1. CASE Trimmed = queue
    BY <2>1 DEF Ahead, LTrim
  <2>2. CASE Trimmed # queue
    <3>1. \A x \in Drains : drain'[x].place # "idle" => drain'[x].cut
      BY <2>2, Cuts DEF LTrim
    <3> QED
      BY <3>1 DEF Ahead
  <2> QED
    BY <2>1, <2>2
<1> QED
  BY <1>2, <1>5, <1>7, <1>8, <1>9, <1>10, <1>11

LEMMA AskLengthKeeps ==
    ASSUME IInv, UNCHANGED enabled, NEW d \in Drains, AskLength(d)
    PROVE  IInv'
<1> USE DEF IInv
<1>1. drain[d].held = {}
  BY DEF AskLength, HeldOnce
<1> DEFINE new == [Idle EXCEPT !.place = "next", !.left = Len(queue)]
<1>2. /\ drain' \in [Drains -> Drain]
      /\ drain'[d].place = "next" /\ drain'[d].left = Len(queue)
      /\ drain'[d].held = {} /\ drain'[d].took = {}
      /\ \A x \in Drains \ {d} : drain'[x] = drain[x]
  <2>1. Len(queue) \in Nat /\ drain \in [Drains -> Drain]
    BY DEF EventsTypeOK
  <2>2. drain' = [drain EXCEPT ![d] = new]
    BY DEF AskLength
  <2>3. /\ new \in Drain
        /\ new.place = "next" /\ new.left = Len(queue) /\ new.held = {} /\ new.took = {}
    BY <2>1 DEF Idle, Drain
  <2> HIDE DEF new
  <2>4. drain'[d] = new /\ drain' \in [Drains -> Drain]
    BY <2>1, <2>2, <2>3
  <2>5. \A x \in Drains \ {d} : drain'[x] = drain[x]
    BY <2>1, <2>2
  <2> QED
    BY <2>3, <2>4, <2>5
<1>3. InHand' = InHand /\ HeldOnce'
  <2>1. drain'[d].held = {} /\ drain'[d].place = "next"
    BY <1>2
  <2>2. \A x \in Drains \ {d} :
          drain'[x].held = drain[x].held /\ drain'[x].place = drain[x].place
    BY <1>2
  <2>3. InHand' = (InHand \ drain[d].held) \cup drain'[d].held /\ HeldOnce'
    BY <1>2, <2>1, <2>2, Hands
  <2> QED
    BY <1>1, <2>1, <2>3
<1>4. /\ Waiting' = Waiting /\ Queued' = Queued /\ Taken' = Taken /\ Lost' = Lost
      /\ QueuedOnce' /\ TakenOnce' /\ LostOnce'
  BY DEF AskLength, Waiting, Queued, Taken, Lost, QueuedOnce, TakenOnce, LostOnce
<1>5. Partition'
  BY <1>3, <1>4 DEF Partition
<1>6. EventsTypeOK'
  BY <1>2 DEF EventsTypeOK, AskLength
<1>7. Ahead'
  <2> SUFFICES ASSUME NEW x \in Drains, ~drain'[x].cut, drain'[x].place # "idle"
               PROVE  /\ drain'[x].held \cap drain'[x].took = {}
                      /\ drain'[x].left <= Len(queue')
                      /\ \A i \in 1..drain'[x].left : queue'[i] \notin drain'[x].took
    BY DEF Ahead
  <2>1. CASE x = d
    <3>1. drain'[x].held = {} /\ drain'[x].took = {} /\ drain'[x].left = Len(queue)
      BY <1>2, <2>1
    <3>2. queue' = queue /\ Len(queue) \in Nat
      BY DEF AskLength, EventsTypeOK
    <3> QED
      BY <3>1, <3>2
  <2>2. CASE x # d
    BY <1>2, <2>2 DEF AskLength, Ahead
  <2> QED
    BY <2>1, <2>2
<1> QED
  BY <1>3, <1>4, <1>5, <1>6, <1>7

\* What a drain holds is in its hand, and nowhere else.
LEMMA Held ==
    ASSUME IInv, NEW d \in Drains
    PROVE  /\ drain[d].held \subseteq InHand /\ drain[d].held \subseteq Events
           /\ drain[d].held \cap (Waiting \cup Queued \cup Taken \cup Lost) = {}
           /\ \A e \in drain[d].held : drain[d].held = {e}
<1>1. drain[d].held \subseteq InHand /\ drain[d].held \subseteq Events
  BY DEF IInv, EventsTypeOK, Drain, InHand
<1> QED
  BY <1>1 DEF IInv, Partition, HeldOnce

\* The entry that LPOP takes, to the hand of the drain.
LEMMA PopKeeps ==
    ASSUME IInv, UNCHANGED enabled, NEW d \in Drains, Pop(d)
    PROVE  IInv'
<1> USE DEF IInv
<1> DEFINE head == Head(queue)
<1>1. /\ queue' \in Seq(Events) /\ Len(queue) \in Nat \ {0} /\ Len(queue') = Len(queue) - 1
      /\ \A i \in 1..(Len(queue) - 1) : queue'[i] = queue[i + 1]
      /\ head = queue[1] /\ head \in Events /\ head \in Queued
      /\ Queued' = Queued \ {head} /\ QueuedOnce'
  BY TailQueue DEF Pop, AfterPop, EventsTypeOK
<1>2. drain[d].left \in Nat \ {0} /\ drain[d].held = {} /\ drain[d].place = "next"
  <2>1. drain[d] \in Drain /\ drain[d].left > 0 /\ drain[d].place = "next"
    BY DEF Pop, EventsTypeOK
  <2>2. drain[d].left \in Nat \ {0}
    BY <2>1 DEF Drain
  <2>3. drain[d].held = {}
    BY <2>1 DEF HeldOnce
  <2> QED
    BY <2>1, <2>2, <2>3
<1>3. /\ drain'[d] = [place |-> "holds", left |-> drain[d].left - 1, held |-> {head},
                      took |-> drain[d].took, cut |-> drain[d].cut]
      /\ drain'[d] \in Drain
  <2>1. drain[d] \in Drain
    BY DEF EventsTypeOK
  <2>2. drain'[d] = [drain[d] EXCEPT !.place = "holds", !.left = drain[d].left - 1,
                                     !.held = {head}]
    BY DEF Pop, LeftAfter
  <2> HIDE DEF head
  <2>3. drain'[d] = [place |-> "holds", left |-> drain[d].left - 1, held |-> {head},
                     took |-> drain[d].took, cut |-> drain[d].cut]
    BY <2>1, <2>2 DEF Drain
  <2>4. drain[d].left - 1 \in Nat
    BY <1>2
  <2> QED
    BY <1>1, <2>1, <2>3, <2>4 DEF Drain
<1>4. \A x \in Drains \ {d} : drain'[x] = Cut(x)
  BY DEF Pop
<1>5. drain' \in [Drains -> Drain]
  <2>1. \A x \in Drains : drain'[x] \in Drain
    BY <1>3, <1>4, Cuts
  <2>2. drain' = [x \in Drains |-> drain'[x]]
    BY DEF Pop
  <2> QED
    BY <2>1, <2>2
<1>6. \A x \in Drains \ {d} :
        drain'[x].held = drain[x].held /\ drain'[x].place = drain[x].place
  BY <1>4, Cuts
<1> HIDE DEF head
<1>7. InHand' = InHand \cup {head} /\ HeldOnce'
  <2>1. head \notin InHand
    BY <1>1 DEF Partition
  <2>2. drain'[d].held = {head} /\ drain'[d].place = "holds"
    BY <1>3
  <2>3. EventsTypeOK /\ HeldOnce
    OBVIOUS
  <2> HIDE DEF IInv
  <2>4. /\ InHand' = (InHand \ drain[d].held) \cup drain'[d].held
        /\ HeldOnce'
    BY <1>5, <1>6, <2>1, <2>2, <2>3, Hands
  <2> QED
    BY <1>2, <2>2, <2>4
<1>8. /\ Waiting' = Waiting /\ Taken' = Taken /\ Lost' = Lost /\ TakenOnce' /\ LostOnce'
  BY DEF Pop, Waiting, Taken, Lost, TakenOnce, LostOnce
<1>9. Partition'
  BY <1>1, <1>7, <1>8 DEF Partition
<1>10. EventsTypeOK'
  BY <1>1, <1>5 DEF EventsTypeOK, Pop
<1>11. Ahead'
  <2> SUFFICES ASSUME NEW x \in Drains, ~drain'[x].cut, drain'[x].place # "idle"
               PROVE  /\ drain'[x].held \cap drain'[x].took = {}
                      /\ drain'[x].left <= Len(queue')
                      /\ \A i \in 1..drain'[x].left : queue'[i] \notin drain'[x].took
    BY DEF Ahead
  <2>1. x = d
    BY <1>4, Cuts
  <2>2. /\ drain[d].left <= Len(queue)
        /\ \A i \in 1..drain[d].left : queue[i] \notin drain[d].took
    BY <1>2, <1>3, <2>1 DEF Ahead
  <2>3. head \notin drain[d].took
    BY <1>1, <1>2, <2>2
  <2>4. \A i \in 1..(drain[d].left - 1) : queue'[i] \notin drain[d].took
    <3> SUFFICES ASSUME NEW i \in 1..(drain[d].left - 1) PROVE queue'[i] \notin drain[d].took
      OBVIOUS
    <3>1. i + 1 \in 1..drain[d].left /\ i \in 1..(Len(queue) - 1)
      BY <1>1, <1>2, <2>2
    <3> QED
      BY <1>1, <2>2, <3>1
  <2> QED
    BY <1>1, <1>2, <1>3, <2>1, <2>2, <2>3, <2>4
<1> QED
  BY <1>1, <1>7, <1>8, <1>9, <1>10, <1>11

\* The drain is done with what it holds: sent, appended again, or lost.
LEMMA HandledHand ==
    ASSUME IInv, NEW d \in Drains, drain[d].place \in {"holds", "requeue"},
           drain' = Handled(d)
    PROVE  /\ drain' \in [Drains -> Drain]
           /\ drain'[d].place = "next" /\ drain'[d].left = drain[d].left
           /\ drain'[d].held = {} /\ drain'[d].took = drain[d].took \cup drain[d].held
           /\ drain'[d].cut = drain[d].cut
           /\ \A x \in Drains \ {d} : drain'[x] = drain[x]
           /\ InHand' = InHand \ drain[d].held
           /\ HeldOnce'
<1>1. drain \in [Drains -> Drain] /\ drain[d] \in Drain
  BY DEF IInv, EventsTypeOK
<1> DEFINE new == [drain[d] EXCEPT !.place = "next", !.held = {},
                                   !.took = drain[d].took \cup drain[d].held]
<1>2. /\ new \in Drain
      /\ new.place = "next" /\ new.left = drain[d].left /\ new.held = {}
      /\ new.took = drain[d].took \cup drain[d].held /\ new.cut = drain[d].cut
  BY <1>1 DEF Drain
<1>3. drain' = [drain EXCEPT ![d] = new]
  BY DEF Handled
<1>4. drain'[d] = new /\ drain' \in [Drains -> Drain]
  <2> HIDE DEF new
  <2> QED
    BY <1>1, <1>2, <1>3
<1>5. \A x \in Drains \ {d} : drain'[x] = drain[x]
  <2> HIDE DEF new
  <2> QED
    BY <1>1, <1>3
<1> HIDE DEF new
<1>6. drain'[d].held = {} /\ drain'[d].place = "next"
  BY <1>2, <1>4
<1>7. InHand' = (InHand \ drain[d].held) \cup drain'[d].held /\ HeldOnce'
  BY <1>4, <1>5, <1>6, Hands DEF IInv
<1> QED
  BY <1>2, <1>4, <1>5, <1>6, <1>7

\* It has nothing that it takes next among what it has taken: its entry is not in
\* the queue.
LEMMA HandledAhead ==
    ASSUME IInv, NEW d \in Drains, drain[d].place \in {"holds", "requeue"},
           drain' = Handled(d), queue' \in Seq(Events), Len(queue) <= Len(queue'),
           \A i \in 1..Len(queue) : queue'[i] = queue[i]
    PROVE  Ahead'
<1> SUFFICES ASSUME NEW x \in Drains, ~drain'[x].cut, drain'[x].place # "idle"
             PROVE  /\ drain'[x].held \cap drain'[x].took = {}
                    /\ drain'[x].left <= Len(queue')
                    /\ \A i \in 1..drain'[x].left : queue'[i] \notin drain'[x].took
  BY DEF Ahead
<1>1. drain[x] \in Drain /\ drain[x].left \in Nat /\ Len(queue) \in Nat /\ Len(queue') \in Nat
  BY DEF IInv, EventsTypeOK, Drain
<1>2. ~drain[x].cut /\ drain[x].place # "idle"
  <2>1. CASE x = d
    BY <2>1, HandledHand
  <2>2. CASE x # d
    BY <2>2, HandledHand
  <2> QED
    BY <2>1, <2>2
<1>3. /\ drain[x].held \cap drain[x].took = {}
      /\ drain[x].left <= Len(queue)
      /\ \A i \in 1..drain[x].left : queue[i] \notin drain[x].took
  BY <1>2 DEF IInv, Ahead
<1>4. drain'[x].left = drain[x].left
  <2>1. CASE x = d
    BY <2>1, HandledHand
  <2>2. CASE x # d
    BY <2>2, HandledHand
  <2> QED
    BY <2>1, <2>2
<1>5. \A i \in 1..drain[x].left : queue'[i] = queue[i] /\ i \in DOMAIN queue
  <2>1. DOMAIN queue = 1..Len(queue)
    BY DEF IInv, EventsTypeOK
  <2> QED
    BY <1>1, <1>3, <2>1
<1>6. CASE x # d
  <2>1. drain'[x] = drain[x]
    BY <1>6, HandledHand
  <2> QED
    BY <1>1, <1>3, <1>5, <2>1
<1>7. CASE x = d
  <2>1. \A i \in 1..drain[x].left : queue[i] \notin drain[d].held
    BY <1>5, Held DEF Queued
  <2>2. drain'[x].held = {} /\ drain'[x].took = drain[x].took \cup drain[d].held
    BY <1>7, HandledHand
  <2> QED
    BY <1>1, <1>3, <1>4, <1>5, <1>7, <2>1, <2>2
<1> QED
  BY <1>6, <1>7

LEMMA ResendKeeps ==
    ASSUME IInv, UNCHANGED enabled, NEW d \in Drains, Resend(d)
    PROVE  IInv'
<1> USE DEF IInv
<1>1. PICK e \in drain[d].held : Take(e)
  BY DEF Resend
<1>2. drain[d].held = {e} /\ e \in InHand /\ e \in Events /\ e \notin Taken
  BY <1>1, Held
<1>3. sent' \in [Events -> Nat] /\ Taken' = Taken \cup {e} /\ TakenOnce'
  BY <1>1, <1>2, Takes
<1>4. drain' \in [Drains -> Drain] /\ InHand' = InHand \ {e} /\ HeldOnce'
  BY <1>2, HandledHand DEF Resend
<1>5. Queued' = Queued /\ QueuedOnce'
  BY SameQueue DEF Resend
<1>6. Waiting' = Waiting /\ Lost' = Lost /\ LostOnce'
  BY DEF Resend, Waiting, Lost, LostOnce
<1>7. Partition'
  BY <1>2, <1>3, <1>4, <1>5, <1>6 DEF Partition
<1>8. EventsTypeOK'
  BY <1>3, <1>4 DEF EventsTypeOK, Resend
<1>9. Ahead'
  BY HandledAhead DEF Resend, EventsTypeOK
<1> QED
  BY <1>3, <1>4, <1>5, <1>6, <1>7, <1>8, <1>9

LEMMA RequeueKeeps ==
    ASSUME IInv, UNCHANGED enabled, NEW d \in Drains, Requeue(d)
    PROVE  IInv'
<1> USE DEF IInv
<1>1. PICK e \in drain[d].held : queue' = Append(queue, e)
  BY DEF Requeue
<1>2. drain[d].held = {e} /\ e \in InHand /\ e \in Events /\ e \notin Queued
  BY <1>1, Held
<1>3. /\ queue' \in Seq(Events) /\ Len(queue') = Len(queue) + 1
      /\ \A i \in 1..Len(queue) : queue'[i] = queue[i]
      /\ Queued' = Queued \cup {e} /\ QueuedOnce'
  BY <1>1, <1>2, AppendQueue DEF EventsTypeOK
<1>4. drain' \in [Drains -> Drain] /\ InHand' = InHand \ {e} /\ HeldOnce'
  BY <1>2, HandledHand DEF Requeue
<1>5. /\ Waiting' = Waiting /\ Taken' = Taken /\ Lost' = Lost /\ TakenOnce' /\ LostOnce'
  BY DEF Requeue, Waiting, Taken, Lost, TakenOnce, LostOnce
<1>6. Partition'
  BY <1>2, <1>3, <1>4, <1>5 DEF Partition
<1>7. EventsTypeOK'
  BY <1>3, <1>4 DEF EventsTypeOK, Requeue
<1>8. Len(queue) \in Nat /\ Len(queue) <= Len(queue')
  BY <1>3 DEF EventsTypeOK
<1>9. Ahead'
  BY <1>3, <1>8, HandledAhead DEF Requeue
<1> QED
  BY <1>3, <1>4, <1>5, <1>6, <1>7, <1>9

LEMMA RequeueFailsKeeps ==
    ASSUME IInv, UNCHANGED enabled, NEW d \in Drains, RequeueFails(d)
    PROVE  IInv'
<1> USE DEF IInv
<1>1. drain[d].held \subseteq InHand /\ drain[d].held \in SUBSET Events /\ drain[d].held \cap Lost = {}
  BY Held
<1>2. gone' \in [Cause -> SUBSET Events] /\ Lost' = Lost \cup drain[d].held /\ LostOnce'
  BY <1>1, Loses DEF RequeueFails, Cause
<1>3. drain' \in [Drains -> Drain] /\ InHand' = InHand \ drain[d].held /\ HeldOnce'
  BY HandledHand DEF RequeueFails
<1>4. Queued' = Queued /\ QueuedOnce'
  BY SameQueue DEF RequeueFails
<1>5. Waiting' = Waiting /\ Taken' = Taken /\ TakenOnce'
  BY DEF RequeueFails, Waiting, Taken, TakenOnce
<1>6. Partition'
  BY <1>1, <1>2, <1>3, <1>4, <1>5 DEF Partition
<1>7. EventsTypeOK'
  BY <1>2, <1>3, DeadLetterAssumption DEF EventsTypeOK, RequeueFails, Fault
<1>8. Ahead'
  BY HandledAhead DEF RequeueFails, EventsTypeOK
<1> QED
  BY <1>2, <1>3, <1>4, <1>5, <1>6, <1>7, <1>8

\* The drain goes on or ends, and every event stays where it is: ResendFails and
\* DrainEnds.
LEMMA DrainStepKeeps ==
    ASSUME IInv, UNCHANGED <<enabled, queue, stage, sent, gone, untrimmed, faults>>,
           drain' \in [Drains -> Drain], InHand' = InHand, HeldOnce', Ahead'
    PROVE  IInv'
<1> USE DEF IInv
<1>1. Waiting' = Waiting /\ Queued' = Queued /\ Taken' = Taken /\ Lost' = Lost
  BY DEF Waiting, Queued, Taken, Lost
<1>2. Partition'
  BY <1>1 DEF Partition
<1> QED
  BY <1>2 DEF EventsTypeOK, QueuedOnce, TakenOnce, LostOnce

LEMMA ResendFailsKeeps ==
    ASSUME IInv, UNCHANGED enabled, NEW d \in Drains, ResendFails(d)
    PROVE  IInv'
<1>1. drain \in [Drains -> Drain] /\ drain[d] \in Drain
  BY DEF IInv, EventsTypeOK
<1>2. /\ drain' \in [Drains -> Drain] /\ drain'[d].place = "requeue"
      /\ \A x \in Drains : /\ drain'[x].held = drain[x].held /\ drain'[x].left = drain[x].left
                           /\ drain'[x].took = drain[x].took /\ drain'[x].cut = drain[x].cut
      /\ \A x \in Drains \ {d} : drain'[x] = drain[x]
  BY <1>1 DEF ResendFails, Drain
<1>3. drain[d].place = "holds"
  BY DEF ResendFails
<1>4. InHand' = InHand
  BY <1>2 DEF InHand
<1>5. HeldOnce'
  BY <1>2, <1>3 DEF HeldOnce, IInv
<1>6. Ahead'
  BY <1>2, <1>3 DEF Ahead, IInv, ResendFails
<1> QED
  BY <1>2, <1>4, <1>5, <1>6, DrainStepKeeps DEF ResendFails

\* The drain is idle again, with nothing in its hand.
LEMMA Idles ==
    ASSUME IInv, NEW d \in Drains, drain'[d] = Idle, drain' \in [Drains -> Drain],
           \A x \in Drains \ {d} : \/ drain'[x] = drain[x]
                                   \/ drain'[x] = Cut(x)
    PROVE  InHand' = InHand \ drain[d].held /\ HeldOnce'
<1>1. drain'[d].held = {} /\ drain'[d].place = "idle"
  BY DEF Idle
<1>2. \A x \in Drains \ {d} :
        drain'[x].held = drain[x].held /\ drain'[x].place = drain[x].place
  BY Cuts DEF IInv
<1>3. InHand' = (InHand \ drain[d].held) \cup drain'[d].held /\ HeldOnce'
  BY <1>1, <1>2, Hands DEF IInv
<1> QED
  BY <1>1, <1>3

LEMMA IdleIsADrain == Idle \in Drain /\ Idle.place = "idle" /\ Idle.held = {}
BY DEF Idle, Drain

LEMMA DrainEndsKeeps ==
    ASSUME IInv, UNCHANGED enabled, NEW d \in Drains, DrainEnds(d)
    PROVE  IInv'
<1>1. /\ drain' \in [Drains -> Drain] /\ drain'[d] = Idle
      /\ \A x \in Drains \ {d} : drain'[x] = drain[x]
  BY IdleIsADrain DEF DrainEnds, IInv, EventsTypeOK
<1>2. drain[d].held = {}
  BY DEF DrainEnds, IInv, HeldOnce
<1>3. InHand' = InHand /\ HeldOnce'
  BY <1>1, <1>2, Idles
<1>4. drain'[d].place = "idle"
  BY <1>1, IdleIsADrain
<1>5. Ahead'
  BY <1>1, <1>4 DEF Ahead, IInv, DrainEnds
<1> QED
  BY <1>1, <1>3, <1>5, DrainStepKeeps DEF DrainEnds

LEMMA PopReplyLostKeeps ==
    ASSUME IInv, UNCHANGED enabled, NEW d \in Drains, PopReplyLost(d)
    PROVE  IInv'
<1> USE DEF IInv
<1> DEFINE head == Head(queue)
<1>1. /\ queue' \in Seq(Events) /\ head \in Events /\ head \in Queued
      /\ Queued' = Queued \ {head} /\ QueuedOnce'
  BY TailQueue DEF PopReplyLost, EventsTypeOK
<1>2. drain'[d] = Idle /\ \A x \in Drains \ {d} : drain'[x] = Cut(x)
  BY DEF PopReplyLost
<1>3. drain' \in [Drains -> Drain]
  <2>1. \A x \in Drains : drain'[x] \in Drain
    BY <1>2, Cuts, IdleIsADrain
  <2>2. drain' = [x \in Drains |-> drain'[x]]
    BY DEF PopReplyLost
  <2> QED
    BY <2>1, <2>2
<1>4. drain[d].held = {}
  BY DEF PopReplyLost, HeldOnce
<1>5. InHand' = InHand /\ HeldOnce'
  BY <1>2, <1>3, <1>4, Idles
<1>6. Lose("redis", {head}) /\ "redis" \in Cause
  BY DEF PopReplyLost, Cause
<1> HIDE DEF head
<1>7. {head} \cap Lost = {}
  BY <1>1 DEF Partition
<1>8. gone' \in [Cause -> SUBSET Events] /\ Lost' = Lost \cup {head} /\ LostOnce'
  BY <1>1, <1>6, <1>7, Loses
<1>9. Waiting' = Waiting /\ Taken' = Taken /\ TakenOnce'
  BY DEF PopReplyLost, Waiting, Taken, TakenOnce
<1>10. Partition'
  BY <1>1, <1>5, <1>8, <1>9 DEF Partition
<1>11. EventsTypeOK'
  BY <1>1, <1>3, <1>8, DeadLetterAssumption DEF EventsTypeOK, PopReplyLost, Fault
<1>12. \A x \in Drains : drain'[x].place # "idle" => drain'[x].cut
  BY <1>2, Cuts, IdleIsADrain
<1>13. Ahead'
  BY <1>12 DEF Ahead
<1> QED
  BY <1>1, <1>5, <1>8, <1>9, <1>10, <1>11, <1>13

LEMMA DrainCrashesKeeps ==
    ASSUME IInv, UNCHANGED enabled, NEW d \in Drains, DrainCrashes(d)
    PROVE  IInv'
<1> USE DEF IInv
<1>1. /\ drain' \in [Drains -> Drain] /\ drain'[d] = Idle
      /\ \A x \in Drains \ {d} : drain'[x] = drain[x]
  BY IdleIsADrain DEF DrainCrashes, EventsTypeOK
<1>2. InHand' = InHand \ drain[d].held /\ HeldOnce'
  BY <1>1, Idles
<1>3. /\ drain[d].held \subseteq InHand /\ drain[d].held \in SUBSET Events
      /\ drain[d].held \cap Lost = {}
  BY Held
<1>4. gone' \in [Cause -> SUBSET Events] /\ Lost' = Lost \cup drain[d].held /\ LostOnce'
  BY <1>3, Loses DEF DrainCrashes, Cause
<1>5. Queued' = Queued /\ QueuedOnce'
  BY SameQueue DEF DrainCrashes
<1>6. Waiting' = Waiting /\ Taken' = Taken /\ TakenOnce'
  BY DEF DrainCrashes, Waiting, Taken, TakenOnce
<1>7. Partition'
  BY <1>2, <1>3, <1>4, <1>5, <1>6 DEF Partition
<1>8. EventsTypeOK'
  BY <1>1, <1>4, DeadLetterAssumption DEF EventsTypeOK, DrainCrashes, Fault
<1>9. drain'[d].place = "idle"
  BY <1>1, IdleIsADrain
<1>10. Ahead'
  BY <1>1, <1>9 DEF Ahead, DrainCrashes
<1> QED
  BY <1>2, <1>4, <1>5, <1>6, <1>7, <1>8, <1>10

-----------------------------------------------------------------------------
LEMMA Initially == EventsInit => IInv
<1> SUFFICES ASSUME EventsInit PROVE IInv
  OBVIOUS
<1> USE DeadLetterAssumption
<1>1. Queued \subseteq Events
  BY DEF EventsInit, Queued
<1>2. stage \in [Events -> {"new", "failed", "pushed", "over"}]
  BY DEF EventsInit
<1>3. drain \in [Drains -> Drain]
  BY IdleIsADrain DEF EventsInit
<1>4. gone \in [Cause -> SUBSET Events] /\ \A w \in Cause : gone[w] = {}
  BY DEF EventsInit
<1>5. sent \in [Events -> Nat] /\ \A e \in Events : sent[e] = 0
  BY DEF EventsInit
<1>6. EventsTypeOK
  BY <1>2, <1>3, <1>4, <1>5 DEF EventsInit, Configure, EventsTypeOK
<1>7. \A d \in Drains : drain[d].held = {} /\ drain[d].place = "idle"
  BY IdleIsADrain DEF EventsInit
<1>8. Waiting = Events \ Queued
  BY DEF EventsInit, Waiting
<1>9. InHand = {} /\ Taken = {} /\ Lost = {}
  BY <1>4, <1>5, <1>7 DEF InHand, Taken, Lost
<1>10. Partition
  BY <1>1, <1>8, <1>9 DEF Partition
<1>11. QueuedOnce
  BY DEF EventsInit, QueuedOnce
<1>12. HeldOnce /\ Ahead
  BY <1>7 DEF HeldOnce, Ahead
<1>13. TakenOnce /\ LostOnce
  BY <1>4, <1>5 DEF TakenOnce, LostOnce
<1> QED
  BY <1>6, <1>10, <1>11, <1>12, <1>13 DEF IInv

LEMMA Inductive == IInv /\ [EventsNext]_events => IInv'
<1> SUFFICES ASSUME IInv, [EventsNext]_events PROVE IInv'
  OBVIOUS
<1>1. ASSUME NEW e \in Events, Emit(e) PROVE IInv'
  BY <1>1, CaptureKeeps, CaptureFailsKeeps DEF Emit
<1>2. ASSUME NEW e \in Events, Push(e) PROVE IInv'
  BY <1>2, RPushKeeps, LTrimKeeps, PushFailsKeeps, PushReplyLostKeeps, TrimFailsKeeps
  DEF Push
<1>3. ASSUME NEW d \in Drains, RetryDeadLetter(d) PROVE IInv'
  BY <1>3, AskLengthKeeps, PopKeeps, DrainEndsKeeps, ResendKeeps, ResendFailsKeeps,
     RequeueKeeps, RequeueFailsKeeps, PopReplyLostKeeps, DrainCrashesKeeps
  DEF RetryDeadLetter
<1>4. CASE UNCHANGED events
  <2> USE <1>4 DEF events
  <2>1. EventsTypeOK'
    BY DEF IInv, EventsTypeOK
  <2>2. Waiting' = Waiting /\ Queued' = Queued /\ InHand' = InHand /\ Taken' = Taken /\ Lost' = Lost
    BY DEF Waiting, Queued, InHand, Taken, Lost
  <2>3. Partition'
    BY <2>2 DEF IInv, Partition
  <2>4. QueuedOnce' /\ HeldOnce' /\ TakenOnce' /\ LostOnce' /\ Ahead'
    BY DEF IInv, QueuedOnce, HeldOnce, TakenOnce, LostOnce, Ahead
  <2> QED
    BY <2>1, <2>3, <2>4 DEF IInv
<1> QED
  BY <1>1, <1>2, <1>3, <1>4 DEF EventsNext

LEMMA Invariant == EventsSpec => []IInv
BY Initially, Inductive, PTL DEF EventsSpec

\* The queue, the drains and the counters have their types in every state.
THEOREM TypeCorrect == EventsSpec => []EventsTypeOK
<1>1. IInv => EventsTypeOK
  BY DEF IInv
<1> QED
  BY Invariant, <1>1, PTL

\* retry_dead_letter takes no entry twice in one call, unless somebody else has taken
\* entries away from the queue in the meantime.
THEOREM NoEntryTwice == EventsSpec => []OncePerCall
<1>1. IInv => OncePerCall
  <2> SUFFICES ASSUME IInv, NEW d \in Drains, drain[d].held \cap drain[d].took # {}
               PROVE  drain[d].cut
    BY DEF OncePerCall
  <2>1. drain[d].held # {}
    OBVIOUS
  <2>2. drain[d].place \in {"holds", "requeue"}
    BY <2>1 DEF IInv, HeldOnce
  <2> QED
    BY <2>2 DEF IInv, Ahead
<1> QED
  BY Invariant, <1>1, PTL

-----------------------------------------------------------------------------
(* An event in one of the five sets counts once.                           *)

LEMMA OneOrNone ==
    ASSUME NEW S, NEW T, S \subseteq T, IsFiniteSet(T), \A i, j \in S : i = j
    PROVE  Cardinality(S) = IF S = {} THEN 0 ELSE 1
<1>1. CASE S = {}
  BY <1>1, FS_EmptySet
<1>2. CASE S # {}
  <2>1. PICK i : S = {i}
    BY <1>2
  <2> QED
    BY <1>2, <2>1, FS_Singleton
<1> QED
  BY <1>1, <1>2

LEMMA OnePlace ==
    ASSUME IInv, NEW e \in Events
    PROVE  Copies(e) = 1
<1> USE DEF IInv
<1> DEFINE at == {i \in DOMAIN queue : queue[i] = e}
           by == {d \in Drains : e \in drain[d].held}
           on == {w \in Cause : e \in gone[w]}
<1>1. Cardinality(at) = IF e \in Queued THEN 1 ELSE 0
  <2>1. at \subseteq 1..Len(queue) /\ Len(queue) \in Nat
    BY DEF EventsTypeOK
  <2>2. IsFiniteSet(1..Len(queue))
    BY <2>1, FS_Interval
  <2>3. \A i, j \in at : i = j
    BY DEF QueuedOnce
  <2>4. at = {} <=> e \notin Queued
    BY DEF Queued
  <2> HIDE DEF at
  <2> QED
    BY <2>1, <2>2, <2>3, <2>4, OneOrNone
<1>2. Cardinality(by) = IF e \in InHand THEN 1 ELSE 0
  <2>1. by \subseteq Drains /\ IsFiniteSet(Drains)
    BY DeadLetterAssumption
  <2>2. \A c, d \in by : c = d
    BY DEF HeldOnce
  <2>3. by = {} <=> e \notin InHand
    BY DEF InHand
  <2> HIDE DEF by
  <2> QED
    BY <2>1, <2>2, <2>3, OneOrNone
<1>3. Cardinality(on) = IF e \in Lost THEN 1 ELSE 0
  <2>1. on \subseteq Cause /\ IsFiniteSet(Cause)
    <3>1. IsFiniteSet({} \cup {"trimmed"})
      BY FS_EmptySet, FS_AddElement
    <3>2. IsFiniteSet({} \cup {"trimmed"} \cup {"redis"})
      BY <3>1, FS_AddElement
    <3>3. IsFiniteSet({} \cup {"trimmed"} \cup {"redis"} \cup {"crash"})
      BY <3>2, FS_AddElement
    <3>4. Cause = {} \cup {"trimmed"} \cup {"redis"} \cup {"crash"}
      BY DEF Cause
    <3> QED
      BY <3>3, <3>4
  <2>2. \A v, w \in on : v = w
    BY DEF LostOnce
  <2>3. on = {} <=> e \notin Lost
    BY DEF Lost
  <2> HIDE DEF on
  <2> QED
    BY <2>1, <2>2, <2>3, OneOrNone
<1>4. sent[e] = IF e \in Taken THEN 1 ELSE 0
  BY DEF TakenOnce, Taken
<1>5. (IF stage[e] \in {"new", "failed"} THEN 1 ELSE 0) = IF e \in Waiting THEN 1 ELSE 0
  BY DEF Waiting
<1>6. Copies(e) = (IF e \in Waiting THEN 1 ELSE 0) + (IF e \in Queued THEN 1 ELSE 0)
                    + (IF e \in InHand THEN 1 ELSE 0) + (IF e \in Taken THEN 1 ELSE 0)
                    + (IF e \in Lost THEN 1 ELSE 0)
  BY <1>1, <1>2, <1>3, <1>4, <1>5 DEF Copies
<1>7. e \in Waiting \/ e \in Queued \/ e \in InHand \/ e \in Taken \/ e \in Lost
  BY DEF Partition
<1>8. /\ e \in Waiting => e \notin Queued /\ e \notin InHand /\ e \notin Taken /\ e \notin Lost
      /\ e \in Queued => e \notin InHand /\ e \notin Taken /\ e \notin Lost
      /\ e \in InHand => e \notin Taken /\ e \notin Lost
      /\ e \in Taken => e \notin Lost
  BY DEF Partition
<1> QED
  BY <1>6, <1>7, <1>8

\* PostHog never gets an event twice, and none vanishes but by a trim, a failed Redis
\* command or a crash of the drain that holds it.
THEOREM EventsAreConserved == EventsSpec => []EventIsInOnePlace
<1>1. IInv => EventIsInOnePlace
  BY OnePlace DEF EventIsInOnePlace
<1> QED
  BY Invariant, <1>1, PTL

-----------------------------------------------------------------------------
(* The length of the queue, and what it owes it to.                        *)

Holding == {d \in Drains : drain[d].held # {}}

Untrimmed == {e \in Events : stage[e] = "pushed"}

LEMMA Bound ==
    /\ QueueIsBounded <=>
          Len(queue) + Cardinality(Holding)
            <= Cap + Cardinality(Untrimmed) + untrimmed + Cardinality(Drains)
    /\ QueueIsBounded' <=>
          Len(queue') + Cardinality(Holding')
            <= Cap + Cardinality(Untrimmed') + untrimmed' + Cardinality(Drains)
BY DEF QueueIsBounded, Holding, Untrimmed

LEMMA Counts ==
    ASSUME EventsTypeOK
    PROVE  /\ IsFiniteSet(Holding) /\ Cardinality(Holding) \in Nat
           /\ Cardinality(Drains) \in Nat /\ Cardinality(Holding) <= Cardinality(Drains)
           /\ IsFiniteSet(Untrimmed) /\ Cardinality(Untrimmed) \in Nat
           /\ Len(queue) \in Nat /\ untrimmed \in Nat /\ Cap \in Nat
<1>1. IsFiniteSet(Drains) /\ IsFiniteSet(Events) /\ Cap \in Nat
  BY DeadLetterAssumption
<1>2. Holding \subseteq Drains /\ Untrimmed \subseteq Events
  BY DEF Holding, Untrimmed
<1>3. IsFiniteSet(Holding) /\ Cardinality(Holding) <= Cardinality(Drains)
  BY <1>1, <1>2, FS_Subset
<1>4. IsFiniteSet(Untrimmed)
  BY <1>1, <1>2, FS_Subset
<1> QED
  BY <1>1, <1>3, <1>4, FS_CardinalityType DEF EventsTypeOK

LEMMA EmitterKeepsBound ==
    ASSUME IInv, QueueIsBounded, NEW e \in Events, Emit(e) \/ Push(e)
    PROVE  QueueIsBounded'
<1>1. EventsTypeOK /\ EventsTypeOK'
  <2>1. [EventsNext]_events
    BY DEF EventsNext
  <2> QED
    BY <2>1, Inductive DEF IInv
<1>a. /\ Len(queue) \in Nat /\ Cardinality(Holding) \in Nat /\ Cap \in Nat
      /\ Cardinality(Untrimmed) \in Nat /\ untrimmed \in Nat /\ Cardinality(Drains) \in Nat
  BY <1>1, Counts
<1>b. Len(queue) + Cardinality(Holding)
        <= Cap + Cardinality(Untrimmed) + untrimmed + Cardinality(Drains)
  BY Bound
<1> USE <1>1, Bound
<1>2. CASE LTrim(e)
  <2>1. Len(queue') <= Cap
    BY <1>2, TrimQueue DEF LTrim, IInv, EventsTypeOK
  <2>2. Holding' = Holding
    BY <1>2, Cuts DEF Holding, LTrim
  <2>3. Cardinality(Untrimmed') \in Nat
    <3>1. Untrimmed' \subseteq Events
      BY DEF Untrimmed
    <3> QED
      BY <3>1, DeadLetterAssumption, FS_Subset, FS_CardinalityType
  <2>4. Len(queue') \in Nat /\ untrimmed' \in Nat
    BY DEF EventsTypeOK
  <2>5. /\ Cardinality(Holding') \in Nat /\ Cardinality(Drains) \in Nat /\ Cap \in Nat
        /\ Cardinality(Holding') <= Cardinality(Drains)
    BY <2>2, Counts
  <2>6. Len(queue') + Cardinality(Holding')
          <= Cap + Cardinality(Untrimmed') + untrimmed' + Cardinality(Drains)
    BY <2>1, <2>3, <2>4, <2>5
  <2> QED
    BY <2>6
<1>3. CASE ~LTrim(e)
  <2>1. Holding' = Holding
    BY <1>3 DEF Holding, Emit, Push, Capture, CaptureFails, RPush, PushFails, PushReplyLost,
       TrimFails
  <2>2. CASE Capture(e) \/ CaptureFails(e) \/ PushFails(e)
    <3>1. Untrimmed' = Untrimmed
      BY <2>2 DEF Untrimmed, Capture, CaptureFails, PushFails, Advance, EventsTypeOK
    <3> QED
      BY <2>1, <2>2, <3>1 DEF Capture, CaptureFails, PushFails
  <2>3. CASE RPush(e)
    <3>1. Untrimmed' = Untrimmed \cup {e} /\ e \notin Untrimmed
      BY <2>3 DEF Untrimmed, RPush, Advance, EventsTypeOK
    <3>2. Cardinality(Untrimmed') = Cardinality(Untrimmed) + 1
      BY <3>1, Counts, FS_AddElement
    <3>3. Len(queue') = Len(queue) + 1 /\ untrimmed' = untrimmed
      BY <2>3 DEF RPush, EventsTypeOK
    <3> QED
      BY <2>1, <3>2, <3>3, Counts
  <2>4. CASE PushReplyLost(e)
    <3>1. Untrimmed' = Untrimmed
      BY <2>4 DEF Untrimmed, PushReplyLost, Advance, EventsTypeOK
    <3>2. Len(queue') = Len(queue) + 1 /\ untrimmed' = untrimmed + 1
      BY <2>4 DEF PushReplyLost, EventsTypeOK
    <3>3. /\ Cardinality(Untrimmed') = Cardinality(Untrimmed)
          /\ Cardinality(Holding') = Cardinality(Holding)
      BY <2>1, <3>1
    <3>4. Len(queue') + Cardinality(Holding')
            <= Cap + Cardinality(Untrimmed') + untrimmed' + Cardinality(Drains)
      BY <1>a, <1>b, <3>2, <3>3
    <3> QED
      BY <3>4
  <2>5. CASE TrimFails(e)
    <3>1. Untrimmed' = Untrimmed \ {e} /\ e \in Untrimmed
      BY <2>5 DEF Untrimmed, TrimFails, Advance, EventsTypeOK
    <3>2. Cardinality(Untrimmed') = Cardinality(Untrimmed) - 1
      BY <3>1, Counts, FS_RemoveElement
    <3>3. queue' = queue /\ untrimmed' = untrimmed + 1
      BY <2>5 DEF TrimFails
    <3> QED
      BY <2>1, <3>2, <3>3, Counts
  <2> QED
    BY <1>3, <2>2, <2>3, <2>4, <2>5 DEF Emit, Push
<1> QED
  BY <1>2, <1>3

\* A drain that has an entry in its hand has taken it out of the queue.
LEMMA DrainKeepsBound ==
    ASSUME IInv, QueueIsBounded, NEW d \in Drains, RetryDeadLetter(d)
    PROVE  QueueIsBounded'
<1>1. EventsTypeOK /\ EventsTypeOK' /\ HeldOnce
  <2>1. [EventsNext]_events
    BY DEF EventsNext
  <2> QED
    BY <2>1, Inductive DEF IInv
<1> USE <1>1, Bound, Counts
<1>2. Untrimmed' = Untrimmed /\ untrimmed' = untrimmed
  BY DEF Untrimmed, RetryDeadLetter, AskLength, Pop, DrainEnds, Resend, ResendFails, Requeue,
     RequeueFails, PopReplyLost, DrainCrashes
<1>3. ASSUME \A x \in Drains \ {d} : drain'[x].held = drain[x].held,
             drain'[d].held = {}, Len(queue') <= Len(queue)
      PROVE  QueueIsBounded'
  <2>1. Holding' \subseteq Holding
    BY <1>3 DEF Holding
  <2>2. Cardinality(Holding') <= Cardinality(Holding) /\ Cardinality(Holding') \in Nat
    BY <2>1, FS_Subset, FS_CardinalityType
  <2>3. Len(queue') \in Nat
    BY DEF EventsTypeOK
  <2> QED
    BY <1>2, <1>3, <2>2, <2>3
<1>4. CASE AskLength(d) \/ DrainEnds(d) \/ DrainCrashes(d)
  <2>1. /\ \A x \in Drains \ {d} : drain'[x].held = drain[x].held
        /\ drain'[d].held = {} /\ queue' = queue
    BY <1>4, IdleIsADrain DEF AskLength, DrainEnds, DrainCrashes, EventsTypeOK, Idle
  <2> QED
    BY <1>3, <2>1
<1>5. CASE Resend(d) \/ RequeueFails(d)
  <2>1. /\ \A x \in Drains \ {d} : drain'[x].held = drain[x].held
        /\ drain'[d].held = {} /\ queue' = queue
    BY <1>5, HandledHand DEF Resend, RequeueFails
  <2> QED
    BY <1>3, <2>1
<1>6. CASE PopReplyLost(d)
  <2>1. \A x \in Drains \ {d} : drain'[x].held = drain[x].held
    BY <1>6, Cuts DEF PopReplyLost
  <2>2. drain'[d].held = {}
    BY <1>6, IdleIsADrain DEF PopReplyLost
  <2>3. Len(queue') <= Len(queue)
    BY <1>6 DEF PopReplyLost, EventsTypeOK
  <2> QED
    BY <1>3, <2>1, <2>2, <2>3
<1>7. CASE ResendFails(d)
  <2>1. Holding' = Holding /\ queue' = queue
    BY <1>7 DEF ResendFails, Holding, EventsTypeOK, Drain
  <2> QED
    BY <1>2, <2>1
<1>8. CASE Pop(d)
  <2>1. drain[d].held = {} /\ drain'[d].held = {Head(queue)}
    <3>1. drain[d] \in Drain
      BY DEF EventsTypeOK
    <3>2. drain[d].held = {}
      BY <1>8 DEF Pop, HeldOnce
    <3>3. drain'[d] = [drain[d] EXCEPT !.place = "holds", !.left = LeftAfter(d),
                                       !.held = {Head(queue)}]
      BY <1>8 DEF Pop
    <3> QED
      BY <3>1, <3>2, <3>3 DEF Drain
  <2>2. \A x \in Drains \ {d} : drain'[x].held = drain[x].held
    BY <1>8, Cuts DEF Pop
  <2>3. Holding' = Holding \cup {d} /\ d \notin Holding
    BY <2>1, <2>2 DEF Holding
  <2>4. Cardinality(Holding') = Cardinality(Holding) + 1
    BY <2>3, FS_AddElement
  <2>5. Len(queue') = Len(queue) - 1
    BY <1>8 DEF Pop, AfterPop, EventsTypeOK
  <2> QED
    BY <1>2, <2>4, <2>5
<1>9. CASE Requeue(d)
  <2>1. drain[d].held # {} /\ drain'[d].held = {}
        /\ \A x \in Drains \ {d} : drain'[x].held = drain[x].held
    BY <1>9, HandledHand DEF Requeue
  <2>2. Holding' = Holding \ {d} /\ d \in Holding
    BY <2>1 DEF Holding
  <2>3. Cardinality(Holding') = Cardinality(Holding) - 1
    BY <2>2, FS_RemoveElement
  <2>4. Len(queue') = Len(queue) + 1
    BY <1>9 DEF Requeue, EventsTypeOK, Drain
  <2> QED
    BY <1>2, <2>3, <2>4
<1> QED
  BY <1>4, <1>5, <1>6, <1>7, <1>8, <1>9 DEF RetryDeadLetter

\* The list is over its cap by no more than the entries of emitters that have not
\* trimmed, and one for each drain, which appends without trimming.
THEOREM QueueStaysBounded == EventsSpec => []QueueIsBounded
<1>1. EventsInit => QueueIsBounded
  <2> SUFFICES ASSUME EventsInit PROVE QueueIsBounded
    OBVIOUS
  <2>1. EventsTypeOK
    BY Initially DEF IInv
  <2>2. Holding = {}
    BY IdleIsADrain DEF EventsInit, Holding
  <2>3. Cardinality(Holding) = 0
    BY <2>2, FS_EmptySet
  <2>4. queue = Backlog /\ Len(Backlog) <= Cap
    BY DeadLetterAssumption DEF EventsInit
  <2> QED
    BY <2>1, <2>3, <2>4, Counts, Bound
<1>2. IInv /\ QueueIsBounded /\ [EventsNext]_events => QueueIsBounded'
  <2>1. ASSUME QueueIsBounded, UNCHANGED events PROVE QueueIsBounded'
    BY <2>1 DEF events, QueueIsBounded
  <2> QED
    BY <2>1, EmitterKeepsBound, DrainKeepsBound DEF EventsNext
<1> QED
  BY Invariant, <1>1, <1>2, PTL DEF EventsSpec

-----------------------------------------------------------------------------
(* The queue implements EventDelivery.                                     *)

New == {e \in Events : stage[e] = "new"}

\* The five sets, and the fate of what is in them.
LEMMA Fates ==
    ASSUME IInv
    PROVE  /\ fate \in [Events -> {"new", "kept", "delivered", "lost"}]
           /\ \A e \in Events :
                 /\ fate[e] = "delivered" <=> e \in Taken
                 /\ fate[e] = "lost" <=> e \in Lost
                 /\ fate[e] = "new" <=> e \in New
                 /\ fate[e] = "kept" <=> e \in Delivery!Kept
           /\ Delivery!Kept = (Waiting \ New) \cup Queued \cup InHand
<1>1. \A e \in Events : ~(sent[e] > 1) /\ (sent[e] = 1 <=> e \in Taken)
  <2> SUFFICES ASSUME NEW e \in Events
               PROVE  ~(sent[e] > 1) /\ (sent[e] = 1 <=> e \in Taken)
    OBVIOUS
  <2>1. sent[e] = 0 \/ sent[e] = 1
    BY DEF IInv, TakenOnce
  <2>2. ~(sent[e] > 1)
    BY <2>1
  <2> QED
    BY <2>2 DEF Taken
<1>2. \A e \in Events : (\E w \in Cause : e \in gone[w]) <=> e \in Lost
  BY DEF Lost
<1>3. New \subseteq Waiting /\ Partition
  BY DEF IInv, New, Waiting
<1>4. fate = [e \in Events |-> IF e \in Taken THEN "delivered"
                              ELSE IF e \in Lost THEN "lost"
                              ELSE IF e \in New THEN "new"
                              ELSE "kept"]
  BY <1>1, <1>2 DEF fate, New
<1>5. \A e \in Events :
          /\ fate[e] = "delivered" <=> e \in Taken
          /\ fate[e] = "lost" <=> e \in Lost
          /\ fate[e] = "new" <=> e \in New
          /\ fate[e] = "kept" <=> e \notin Taken \cup Lost \cup New
  BY <1>3, <1>4 DEF Partition
<1>6. Delivery!Kept = Events \ (Taken \cup Lost \cup New)
  BY <1>5 DEF Delivery!Kept
<1>7. Events \ (Taken \cup Lost \cup New) = (Waiting \ New) \cup Queued \cup InHand
  BY <1>3 DEF Partition
<1> QED
  BY <1>4, <1>5, <1>6, <1>7

\* A step that PostHog, the causes of losses and the emissions do not see.
LEMMA FateStays ==
    ASSUME UNCHANGED <<sent, gone>>, New' = New
    PROVE  fate' = fate
<1>1. \A e \in Events : stage'[e] = "new" <=> stage[e] = "new"
  BY DEF New
<1> QED
  BY <1>1 DEF fate

\* PostHog takes one event, new or kept.
LEMMA FateDelivered ==
    ASSUME IInv, NEW e \in Events, e \notin Taken, Take(e), gone' = gone,
           New' = New \/ New' = New \ {e}
    PROVE  Delivery!Become({e}, "delivered")
<1>1. sent' = [sent EXCEPT ![e] = @ + 1] /\ sent \in [Events -> Nat]
  BY DEF Take, IInv, EventsTypeOK
<1>2. ~(sent'[e] > 1) /\ sent'[e] = 1
  BY <1>1 DEF IInv, TakenOnce, Taken
<1>3. \A f \in Events \ {e} : sent'[f] = sent[f] /\ (stage'[f] = "new" <=> stage[f] = "new")
  BY <1>1 DEF New
<1>4. fate' = [f \in Events |-> IF f \in {e} THEN "delivered" ELSE fate[f]]
  BY <1>2, <1>3 DEF fate
<1> QED
  BY <1>4 DEF Delivery!Become

LEMMA FateLost ==
    ASSUME IInv, NEW S \in SUBSET Delivery!Kept, NEW w \in Cause, Lose(w, S), sent' = sent,
           New' = New
    PROVE  Delivery!Become(S, "lost")
<1>1. gone \in [Cause -> SUBSET Events] /\ gone' = [gone EXCEPT ![w] = @ \cup S]
  BY DEF Lose, IInv, EventsTypeOK
<1>2. \A e \in Events :
          (\E v \in Cause : e \in gone'[v]) <=> e \in S \/ (\E v \in Cause : e \in gone[v])
  BY <1>1
<1>3. \A e \in Events : stage'[e] = "new" <=> stage[e] = "new"
  BY DEF New
<1>4. \A e \in Events \cap S : ~(sent[e] > 1) /\ sent[e] # 1
  <2>1. \A e \in Events \cap S : fate[e] = "kept"
    BY DEF Delivery!Kept
  <2> QED
    BY <2>1 DEF fate
<1>5. fate' = [e \in Events |-> IF e \in S THEN "lost" ELSE fate[e]]
  BY <1>2, <1>3, <1>4 DEF fate
<1> QED
  BY <1>5 DEF Delivery!Become

\* A fault that takes an event, or none.
LEMMA FaultRefines ==
    ASSUME IInv, Fault, sent' = sent, New' = New,
           \/ gone' = gone
           \/ \E w \in Cause : \E e \in Delivery!Kept : Lose(w, {e})
    PROVE  Delivery!Fault
<1>1. faults < MaxFaults /\ faults' = faults + 1
  BY DEF Fault
<1>2. CASE gone' = gone
  BY <1>1, <1>2, FateStays DEF Delivery!Fault
<1>3. ASSUME NEW w \in Cause, NEW e \in Delivery!Kept, Lose(w, {e})
      PROVE  Delivery!Fault
  <2>1. Delivery!Become({e}, "lost")
    BY <1>3, FateLost
  <2> QED
    BY <1>1, <2>1 DEF Delivery!Fault
<1> QED
  BY <1>2, <1>3

LEMMA QueueCount ==
    ASSUME NEW q \in Seq(Events), \A i, j \in DOMAIN q : q[i] = q[j] => i = j,
           NEW S \in SUBSET Events, \A i \in DOMAIN q : q[i] \in S
    PROVE  IsFiniteSet(S) /\ Cardinality(S) \in Nat /\ Len(q) <= Cardinality(S)
<1>1. IsFiniteSet(S) /\ Cardinality(S) \in Nat
  BY DeadLetterAssumption, FS_Subset, FS_CardinalityType
<1>2. Len(q) \in Nat /\ DOMAIN q = 1..Len(q) /\ q \in [1..Len(q) -> S]
  OBVIOUS
<1>3. q \in Injection(1..Len(q), S)
  BY <1>2 DEF Injection, IsInjective
<1>4. Cardinality(1..Len(q)) <= Cardinality(S)
  BY <1>1, <1>3, FS_Injection
<1>5. Cardinality(1..Len(q)) = Len(q)
  BY <1>2, FS_Interval
<1> QED
  BY <1>1, <1>4, <1>5

LEMMA TrimRefines ==
    ASSUME IInv, IInv', NEW e \in Events, LTrim(e)
    PROVE  Delivery!Overflow \/ UNCHANGED <<fate, faults>>
<1> DEFINE cutOff == Queued \ {Trimmed[i] : i \in DOMAIN Trimmed}
<1>1. /\ queue' = Trimmed /\ queue' \in Seq(Events) /\ Queued' \subseteq Queued
      /\ cutOff = Queued \ Queued' /\ QueuedOnce'
  BY TrimQueue DEF LTrim, IInv, EventsTypeOK
<1>2. New' = New /\ sent' = sent /\ faults' = faults /\ Lose("trimmed", cutOff)
  BY DEF LTrim, Advance, New, IInv, EventsTypeOK
<1>3. Queued \subseteq Delivery!Kept /\ Delivery!Kept \subseteq Events
  BY Fates DEF Delivery!Kept
<1> HIDE DEF cutOff
<1>4. CASE Len(queue) <= Cap
  <2>1. Queued' = Queued
    BY <1>1, <1>4 DEF Trimmed, Queued
  <2>2. gone' = gone
    BY <1>1, <1>2, <2>1 DEF Lose, Cause, IInv, EventsTypeOK
  <2> QED
    BY <1>2, <2>2, FateStays
<1>5. CASE ~(Len(queue) <= Cap)
  <2>1. Len(queue') = Cap
    <3>1. Len(queue) \in Nat /\ Cap \in Nat \ {0} /\ queue \in Seq(Events)
      BY DeadLetterAssumption DEF IInv, EventsTypeOK
    <3>2. queue' = SubSeq(queue, Len(queue) - Cap + 1, Len(queue))
      BY <1>1, <1>5 DEF Trimmed
    <3>3. Len(queue) - Cap + 1 \in 1..(Len(queue) + 1)
      BY <1>5, <3>1
    <3> QED
      BY <3>1, <3>2, <3>3, SubSeqProperties
  <2>2. Cardinality(Delivery!Kept \ cutOff) >= Cap
    <3>1. \A i \in DOMAIN queue' : queue'[i] \in Delivery!Kept \ cutOff
      BY <1>1, <1>3 DEF Queued
    <3>2. \A i, j \in DOMAIN queue' : queue'[i] = queue'[j] => i = j
      BY <1>1 DEF QueuedOnce
    <3>3. Delivery!Kept \ cutOff \in SUBSET Events
      BY <1>3
    <3>4. Len(queue') <= Cardinality(Delivery!Kept \ cutOff)
      BY <1>1, <3>1, <3>2, <3>3, QueueCount
    <3>5. Cardinality(Delivery!Kept \ cutOff) \in Nat /\ Cap \in Nat
      BY <3>3, DeadLetterAssumption, FS_Subset, FS_CardinalityType
    <3> QED
      BY <2>1, <3>4, <3>5
  <2>3. cutOff \in SUBSET Delivery!Kept /\ "trimmed" \in Cause
    BY <1>1, <1>3 DEF Cause
  <2>4. Delivery!Become(cutOff, "lost")
    BY <1>2, <2>3, FateLost
  <2> QED
    <3>1. Delivery!Cardinality(Delivery!Kept \ cutOff) = Cardinality(Delivery!Kept \ cutOff)
      BY DEF Delivery!Cardinality, Cardinality
    <3> QED
      BY <1>2, <2>2, <2>3, <2>4, <3>1 DEF Delivery!Overflow
<1> QED
  BY <1>4, <1>5

LEMMA EmitterRefines ==
    ASSUME IInv, IInv', NEW e \in Events, Emit(e) \/ Push(e)
    PROVE  [Delivery!Next]_<<fate, faults>>
<1>0. stage \in [Events -> {"new", "failed", "pushed", "over"}] /\ "redis" \in Cause
  BY DEF IInv, EventsTypeOK, Cause
<1> USE DEF Advance
<1>1. CASE Capture(e)
  <2>1. e \in New /\ New' = New \ {e} /\ Take(e) /\ UNCHANGED <<gone, faults>>
    BY <1>0, <1>1 DEF Capture, New
  <2>2. fate[e] = "new" /\ e \notin Taken
    BY <2>1, Fates
  <2>3. Delivery!Become({e}, "delivered")
    BY <2>1, <2>2, FateDelivered
  <2> QED
    BY <2>1, <2>2, <2>3 DEF Delivery!Next, Delivery!Emit
<1>2. CASE CaptureFails(e)
  <2>1. e \in New /\ New' = New \ {e} /\ UNCHANGED <<sent, gone, faults>>
    BY <1>0, <1>2 DEF CaptureFails, New
  <2>2. fate[e] = "new"
    BY <2>1, Fates
  <2>3. fate' = [f \in Events |-> IF f \in {e} THEN "kept" ELSE fate[f]]
    <3>1. ~(sent[e] > 1) /\ sent[e] # 1 /\ ~(\E w \in Cause : e \in gone[w])
      BY <2>2 DEF fate
    <3>2. stage'[e] # "new" /\ \A f \in Events \ {e} : stage'[f] = stage[f]
      BY <1>0, <1>2 DEF CaptureFails
    <3> QED
      BY <2>1, <3>1, <3>2 DEF fate
  <2> QED
    BY <2>1, <2>2, <2>3 DEF Delivery!Next, Delivery!Emit, Delivery!Become
<1>3. CASE RPush(e)
  <2>1. New' = New /\ UNCHANGED <<sent, gone, faults>>
    BY <1>0, <1>3 DEF RPush, New
  <2> QED
    BY <2>1, FateStays
<1>4. CASE LTrim(e)
  BY <1>4, TrimRefines DEF Delivery!Next
<1>5. CASE PushFails(e)
  <2>1. New' = New /\ sent' = sent /\ Fault /\ Lose("redis", {e}) /\ e \in Waiting \ New
    BY <1>0, <1>5 DEF PushFails, New, Waiting
  <2>2. e \in Delivery!Kept
    BY <2>1, Fates
  <2> QED
    BY <1>0, <2>1, <2>2, FaultRefines DEF Delivery!Next
<1>6. CASE PushReplyLost(e) \/ TrimFails(e)
  <2>1. New' = New /\ sent' = sent /\ Fault /\ gone' = gone
    BY <1>0, <1>6 DEF PushReplyLost, TrimFails, New
  <2> QED
    BY <2>1, FaultRefines DEF Delivery!Next
<1> QED
  BY <1>1, <1>2, <1>3, <1>4, <1>5, <1>6 DEF Emit, Push

LEMMA DrainRefines ==
    ASSUME IInv, NEW d \in Drains, RetryDeadLetter(d)
    PROVE  [Delivery!Next]_<<fate, faults>>
<1>0. "redis" \in Cause /\ "crash" \in Cause
  BY DEF Cause
<1>a. ASSUME stage' = stage PROVE New' = New
  BY <1>a DEF New
\* What a drain holds is kept, and one event.
<1>h. \A e \in drain[d].held : e \in Delivery!Kept /\ e \in Events /\ drain[d].held = {e}
  BY Held, Fates
<1>1. CASE \/ AskLength(d) \/ Pop(d) \/ DrainEnds(d) \/ ResendFails(d) \/ Requeue(d)
  <2>1. UNCHANGED <<stage, sent, gone, faults>>
    BY <1>1 DEF AskLength, Pop, DrainEnds, ResendFails, Requeue
  <2> QED
    BY <1>a, <2>1, FateStays
<1>2. CASE Resend(d)
  <2>1. PICK e \in drain[d].held : Take(e)
    BY <1>2 DEF Resend
  <2>2. UNCHANGED <<stage, gone, faults>>
    BY <1>2 DEF Resend
  <2>3. e \in Events /\ e \in Delivery!Kept /\ e \notin Taken
    BY <1>h, Held
  <2>4. Delivery!Become({e}, "delivered")
    BY <1>a, <2>1, <2>2, <2>3, FateDelivered
  <2> QED
    BY <2>2, <2>3, <2>4 DEF Delivery!Next, Delivery!Deliver
<1>3. CASE RequeueFails(d)
  <2>1. /\ UNCHANGED <<stage, sent>> /\ Fault /\ Lose("redis", drain[d].held)
        /\ drain[d].held # {}
    BY <1>3 DEF RequeueFails, IInv, HeldOnce
  <2>2. \E e \in Delivery!Kept : Lose("redis", {e})
    BY <1>h, <2>1
  <2> QED
    BY <1>0, <1>a, <2>1, <2>2, FaultRefines DEF Delivery!Next
<1>4. CASE PopReplyLost(d)
  <2>1. UNCHANGED <<stage, sent>> /\ Fault /\ Lose("redis", {Head(queue)})
    BY <1>4 DEF PopReplyLost
  <2>2. Head(queue) \in Queued
    <3>1. queue \in Seq(Events) /\ queue # <<>>
      BY <1>4 DEF PopReplyLost, IInv, EventsTypeOK
    <3>2. Head(queue) = queue[1] /\ 1 \in DOMAIN queue
      BY <3>1
    <3> QED
      BY <3>2 DEF Queued
  <2>3. Head(queue) \in Delivery!Kept
    BY <2>2, Fates
  <2> QED
    BY <1>0, <1>a, <2>1, <2>3, FaultRefines DEF Delivery!Next
<1>5. CASE DrainCrashes(d)
  <2>1. UNCHANGED <<stage, sent>> /\ Fault /\ Lose("crash", drain[d].held)
    BY <1>5 DEF DrainCrashes
  <2>2. gone' = gone \/ \E e \in Delivery!Kept : Lose("crash", {e})
    <3>1. CASE drain[d].held = {}
      BY <1>0, <2>1, <3>1 DEF Lose, IInv, EventsTypeOK
    <3>2. CASE drain[d].held # {}
      BY <1>h, <2>1, <3>2
    <3> QED
      BY <3>1, <3>2
  <2> QED
    BY <1>0, <1>a, <2>1, <2>2, FaultRefines DEF Delivery!Next
<1> QED
  BY <1>1, <1>2, <1>3, <1>4, <1>5 DEF RetryDeadLetter

\* The dead-letter queue is an implementation of EventDelivery: capture, the drains and
\* everything that goes wrong between them deliver an event once at most, lose it only by
\* a fault of its own or by LTRIM over the cap, and never deliver what was lost.
THEOREM EventsDelivered == EventsSpec => DeliveryKept
<1>1. EventsInit => Delivery!Init
  <2> SUFFICES ASSUME EventsInit PROVE Delivery!Init
    OBVIOUS
  <2>1. \A e \in Events : sent[e] = 0 /\ ~(\E w \in Cause : e \in gone[w])
    BY DEF EventsInit
  <2>2. fate \in [Events -> {"new", "kept"}]
    BY <2>1 DEF fate
  <2> QED
    BY <2>2 DEF EventsInit, Delivery!Init
<1>2. IInv /\ IInv' /\ [EventsNext]_events => [Delivery!Next]_<<fate, faults>>
  <2> SUFFICES ASSUME IInv, IInv', [EventsNext]_events
               PROVE  [Delivery!Next]_<<fate, faults>>
    OBVIOUS
  <2>1. CASE UNCHANGED events
    <3>1. New' = New
      BY <2>1 DEF events, New
    <3> QED
      BY <2>1, <3>1, FateStays DEF events
  <2> QED
    BY <2>1, EmitterRefines, DrainRefines DEF EventsNext
<1> QED
  BY <1>1, <1>2, Invariant, PTL DEF EventsSpec, DeliveryKept, Delivery!Spec
=============================================================================
