------------------------- MODULE ScanPipelineProofs -------------------------
(***************************************************************************)
(* Proofs about ScanPipeline, for every set of drawings and copies and     *)
(* every bound on retries and faults.                                      *)
(***************************************************************************)
EXTENDS ScanPipeline, Integers, TLAPS

-----------------------------------------------------------------------------
(* The inductive invariant, drawing by drawing.                            *)

\* Whatever the broker does: nothing is sent before the row has left Scanning,
\* and a copy that got past the state check found a row, which never comes back.
Committed(d) ==
    /\ mlJobs[d] > 0 => row[d] \in {"Processing", "Scan_Failed"}
    /\ \A c \in Copies :
          /\ at[d][c] \in {"scanning", "clean", "infected"} => row[d] # "Missing"
          /\ at[d][c] \in {"committed", "published", "rejected"}
                => row[d] \in {"Processing", "Scan_Failed"}

\* As long as the broker made no second copy, the one there is knows the row.
OneCopy(d) ==
    \A c1, c2 \in Copies : at[d][c1] # "free" /\ at[d][c2] # "free" => c1 = c2

CopyKnowsRow(d) ==
    \A c \in Copies :
        /\ at[d][c] \in {"scanning", "clean", "infected"} => row[d] = "Scanning"
        /\ at[d][c] \in {"committed", "published"}
              => row[d] = "Processing" /\ mlJobs[d] = 0
        /\ at[d][c] = "rejected" => row[d] = "Scan_Failed"

Told(d) ==
    /\ events[d] \subseteq {row[d]}
    /\ mlJobs[d] <= 1
    /\ row[d] = "Scan_Failed" => mlJobs[d] = 0

Single(d) == OneCopy(d) /\ CopyKnowsRow(d) /\ Told(d)

IInv ==
    /\ TypeOK
    /\ \A d \in Drawings : Committed(d)
    /\ \A d \in Drawings \ duplicated : Single(d)

-----------------------------------------------------------------------------
LEMMA TypeStep == TypeOK /\ [Next]_vars => TypeOK'
<1> SUFFICES ASSUME TypeOK, [Next]_vars PROVE TypeOK'
  OBVIOUS
<1> USE BoundsAssumption DEF TypeOK, Place, Running, ProcessingState
<1> USE DEF shared, history
<1>1. ASSUME NEW d \in Drawings, NEW c \in Copies, Deliver(d, c)
      PROVE  TypeOK'
  BY <1>1 DEF Deliver, Goto
<1>2. ASSUME NEW d \in Drawings, NEW c \in Copies, LoadDrawing(d, c)
      PROVE  TypeOK'
  BY <1>2 DEF LoadDrawing, Goto
<1>3. ASSUME NEW d \in Drawings, NEW c \in Copies, ScanStream(d, c)
      PROVE  TypeOK'
  BY <1>3 DEF ScanStream, Goto
<1>4. ASSUME NEW d \in Drawings, NEW c \in Copies, CommitProcessing(d, c)
      PROVE  TypeOK'
  BY <1>4 DEF CommitProcessing, CommitState, Goto
<1>5. ASSUME NEW d \in Drawings, NEW c \in Copies, PublishProcessing(d, c)
      PROVE  TypeOK'
  BY <1>5 DEF PublishProcessing, EmitStatus, Goto
<1>6. ASSUME NEW d \in Drawings, NEW c \in Copies, SendMLJob(d, c)
      PROVE  TypeOK'
  BY <1>6 DEF SendMLJob, Goto
<1>7. ASSUME NEW d \in Drawings, NEW c \in Copies, CommitScanFailed(d, c)
      PROVE  TypeOK'
  BY <1>7 DEF CommitScanFailed, CommitState, Goto
<1>8. ASSUME NEW d \in Drawings, NEW c \in Copies, PublishScanFailed(d, c)
      PROVE  TypeOK'
  BY <1>8 DEF PublishScanFailed, EmitStatus, Goto
<1>9. ASSUME NEW d \in Drawings, NEW c \in Copies, Ack(d, c)
      PROVE  TypeOK'
  BY <1>9 DEF Ack, Goto
<1>10. ASSUME NEW d \in Drawings, NEW c \in Copies, Retry(d, c)
       PROVE  TypeOK'
  BY <1>10 DEF Retry, Goto
<1>11. ASSUME NEW d \in Drawings, NEW c \in Copies, GiveUp(d, c)
       PROVE  TypeOK'
  BY <1>11 DEF GiveUp, Goto
<1>12. ASSUME NEW d \in Drawings, NEW c \in Copies, GiveUpOnClamd(d, c)
       PROVE  TypeOK'
  BY <1>12 DEF GiveUpOnClamd, Goto
<1>13. ASSUME NEW d \in Drawings, NEW c \in Copies, Crash(d, c)
       PROVE  TypeOK'
  BY <1>13 DEF Crash, Goto
<1>14. ASSUME NEW d \in Drawings, NEW c \in Copies, NEW spare \in Copies,
              RetryUnacked(d, c, spare)
       PROVE  TypeOK'
  BY <1>14 DEF RetryUnacked, Duplicate
<1>15. ASSUME NEW d \in Drawings, NEW c \in Copies, NEW spare \in Copies,
              VisibilityTimeout(d, c, spare)
       PROVE  TypeOK'
  BY <1>15 DEF VisibilityTimeout, Duplicate
<1>16. ASSUME NEW d \in Drawings, SignatureUpdate(d)
       PROVE  TypeOK'
  BY <1>16 DEF SignatureUpdate
<1>17. CASE UNCHANGED vars
  BY <1>17 DEF vars
<1> QED
  BY <1>1, <1>2, <1>3, <1>4, <1>5, <1>6, <1>7, <1>8, <1>9, <1>10, <1>11,
     <1>12, <1>13, <1>14, <1>15, <1>16, <1>17
     DEF Next, Worker, Task, Fault

LEMMA TypeInit == Init => TypeOK
  BY BoundsAssumption DEF Init, TypeOK, Place, Running, ProcessingState

-----------------------------------------------------------------------------
LEMMA CommittedStep ==
    ASSUME IInv, [Next]_vars, NEW x \in Drawings
    PROVE  Committed(x)'
<1> USE DEF IInv, TypeOK, Place, Running, ProcessingState, shared, history
<1> USE DEF Committed
<1>1. ASSUME NEW d \in Drawings, NEW c \in Copies, Deliver(d, c)
      PROVE  Committed(x)'
  BY <1>1 DEF Deliver, Goto
<1>2. ASSUME NEW d \in Drawings, NEW c \in Copies, LoadDrawing(d, c)
      PROVE  Committed(x)'
  BY <1>2 DEF LoadDrawing, Goto
<1>3. ASSUME NEW d \in Drawings, NEW c \in Copies, ScanStream(d, c)
      PROVE  Committed(x)'
  BY <1>3 DEF ScanStream, Goto
<1>4. ASSUME NEW d \in Drawings, NEW c \in Copies, CommitProcessing(d, c)
      PROVE  Committed(x)'
  BY <1>4 DEF CommitProcessing, CommitState, Goto
<1>5. ASSUME NEW d \in Drawings, NEW c \in Copies, PublishProcessing(d, c)
      PROVE  Committed(x)'
  BY <1>5 DEF PublishProcessing, EmitStatus, Goto
<1>6. ASSUME NEW d \in Drawings, NEW c \in Copies, SendMLJob(d, c)
      PROVE  Committed(x)'
  BY <1>6 DEF SendMLJob, Goto
<1>7. ASSUME NEW d \in Drawings, NEW c \in Copies, CommitScanFailed(d, c)
      PROVE  Committed(x)'
  BY <1>7 DEF CommitScanFailed, CommitState, Goto
<1>8. ASSUME NEW d \in Drawings, NEW c \in Copies, PublishScanFailed(d, c)
      PROVE  Committed(x)'
  BY <1>8 DEF PublishScanFailed, EmitStatus, Goto
<1>9. ASSUME NEW d \in Drawings, NEW c \in Copies, Ack(d, c)
      PROVE  Committed(x)'
  BY <1>9 DEF Ack, Goto
<1>10. ASSUME NEW d \in Drawings, NEW c \in Copies, Retry(d, c)
       PROVE  Committed(x)'
  BY <1>10 DEF Retry, Goto
<1>11. ASSUME NEW d \in Drawings, NEW c \in Copies, GiveUp(d, c)
       PROVE  Committed(x)'
  BY <1>11 DEF GiveUp, Goto
<1>12. ASSUME NEW d \in Drawings, NEW c \in Copies, GiveUpOnClamd(d, c)
       PROVE  Committed(x)'
  BY <1>12 DEF GiveUpOnClamd, Goto
<1>13. ASSUME NEW d \in Drawings, NEW c \in Copies, Crash(d, c)
       PROVE  Committed(x)'
  BY <1>13 DEF Crash, Goto
<1>14. ASSUME NEW d \in Drawings, NEW c \in Copies, NEW spare \in Copies,
              RetryUnacked(d, c, spare)
       PROVE  Committed(x)'
  BY <1>14 DEF RetryUnacked, Duplicate
<1>15. ASSUME NEW d \in Drawings, NEW c \in Copies, NEW spare \in Copies,
              VisibilityTimeout(d, c, spare)
       PROVE  Committed(x)'
  BY <1>15 DEF VisibilityTimeout, Duplicate
<1>16. ASSUME NEW d \in Drawings, SignatureUpdate(d)
       PROVE  Committed(x)'
  BY <1>16 DEF SignatureUpdate
<1>17. CASE UNCHANGED vars
  BY <1>17 DEF vars
<1> QED
  BY <1>1, <1>2, <1>3, <1>4, <1>5, <1>6, <1>7, <1>8, <1>9, <1>10, <1>11,
     <1>12, <1>13, <1>14, <1>15, <1>16, <1>17
     DEF Next, Worker, Task, Fault

LEMMA SingleStep ==
    ASSUME IInv, [Next]_vars, NEW x \in Drawings \ duplicated'
    PROVE  Single(x)'
<1> USE DEF IInv, TypeOK, Place, Running, ProcessingState, shared, history
<1> USE DEF Single, OneCopy, CopyKnowsRow, Told
<1>1. ASSUME NEW d \in Drawings, NEW c \in Copies, Deliver(d, c)
      PROVE  Single(x)'
  BY <1>1 DEF Deliver, Goto
<1>2. ASSUME NEW d \in Drawings, NEW c \in Copies, LoadDrawing(d, c)
      PROVE  Single(x)'
  BY <1>2 DEF LoadDrawing, Goto
<1>3. ASSUME NEW d \in Drawings, NEW c \in Copies, ScanStream(d, c)
      PROVE  Single(x)'
  BY <1>3 DEF ScanStream, Goto
<1>4. ASSUME NEW d \in Drawings, NEW c \in Copies, CommitProcessing(d, c)
      PROVE  Single(x)'
  <2>1. x \notin duplicated
    BY <1>4 DEF CommitProcessing
  <2>2. x = d => row[d] = "Scanning" /\ mlJobs[d] = 0 /\ events[d] = {}
    <3>1. SUFFICES ASSUME x = d
                   PROVE  row[d] = "Scanning" /\ mlJobs[d] = 0 /\ events[d] = {}
      OBVIOUS
    <3>2. row[d] = "Scanning" /\ events[d] \subseteq {"Scanning"}
      BY <1>4, <2>1, <3>1 DEF CommitProcessing
    <3>3. mlJobs[d] = 0
      <4>1. Committed(d) /\ mlJobs[d] \in Nat
        OBVIOUS
      <4> HIDE DEF IInv, TypeOK, Single, OneCopy, CopyKnowsRow, Told
      <4> QED
        BY <3>2, <4>1 DEF Committed
    <3>4. events[d] \in SUBSET {"Processing", "Scan_Failed"}
      OBVIOUS
    <3>5. events[d] = {}
      BY <3>2, <3>4
    <3> QED
      BY <3>2, <3>3, <3>5
  <2>3. OneCopy(x)'
    BY <1>4, <2>1 DEF CommitProcessing, CommitState, Goto
  <2>4. CopyKnowsRow(x)'
    <3>1. CASE x # d
      BY <1>4, <2>1, <3>1 DEF CommitProcessing, CommitState, Goto
    <3>2. CASE x = d
      <4>1. \A k \in Copies : k # c => at'[d][k] = "free"
        BY <1>4, <2>1, <3>2 DEF CommitProcessing, Goto
      <4>2. at'[d][c] = "committed" /\ row'[d] = "Processing" /\ mlJobs'[d] = 0
        BY <1>4, <2>2, <3>2 DEF CommitProcessing, CommitState, Goto
      <4> QED
        BY <3>2, <4>1, <4>2
    <3> QED
      BY <3>1, <3>2
  <2>5. Told(x)'
    BY <1>4, <2>1, <2>2 DEF CommitProcessing, CommitState, Goto
  <2> QED
    BY <2>3, <2>4, <2>5
<1>5. ASSUME NEW d \in Drawings, NEW c \in Copies, PublishProcessing(d, c)
      PROVE  Single(x)'
  BY <1>5 DEF PublishProcessing, EmitStatus, Goto
<1>6. ASSUME NEW d \in Drawings, NEW c \in Copies, SendMLJob(d, c)
      PROVE  Single(x)'
  BY <1>6 DEF SendMLJob, Goto
<1>7. ASSUME NEW d \in Drawings, NEW c \in Copies, CommitScanFailed(d, c)
      PROVE  Single(x)'
  <2>1. x \notin duplicated
    BY <1>7 DEF CommitScanFailed
  <2>2. x = d => row[d] = "Scanning" /\ mlJobs[d] = 0 /\ events[d] = {}
    <3>1. SUFFICES ASSUME x = d
                   PROVE  row[d] = "Scanning" /\ mlJobs[d] = 0 /\ events[d] = {}
      OBVIOUS
    <3>2. row[d] = "Scanning" /\ events[d] \subseteq {"Scanning"}
      BY <1>7, <2>1, <3>1 DEF CommitScanFailed
    <3>3. mlJobs[d] = 0
      <4>1. Committed(d) /\ mlJobs[d] \in Nat
        OBVIOUS
      <4> HIDE DEF IInv, TypeOK, Single, OneCopy, CopyKnowsRow, Told
      <4> QED
        BY <3>2, <4>1 DEF Committed
    <3>4. events[d] \in SUBSET {"Processing", "Scan_Failed"}
      OBVIOUS
    <3>5. events[d] = {}
      BY <3>2, <3>4
    <3> QED
      BY <3>2, <3>3, <3>5
  <2>3. OneCopy(x)'
    BY <1>7, <2>1 DEF CommitScanFailed, CommitState, Goto
  <2>4. CopyKnowsRow(x)'
    <3>1. CASE x # d
      BY <1>7, <2>1, <3>1 DEF CommitScanFailed, CommitState, Goto
    <3>2. CASE x = d
      <4>1. \A k \in Copies : k # c => at'[d][k] = "free"
        BY <1>7, <2>1, <3>2 DEF CommitScanFailed, Goto
      <4>2. at'[d][c] = "rejected" /\ row'[d] = "Scan_Failed" /\ mlJobs'[d] = 0
        BY <1>7, <2>2, <3>2 DEF CommitScanFailed, CommitState, Goto
      <4> QED
        BY <3>2, <4>1, <4>2
    <3> QED
      BY <3>1, <3>2
  <2>5. Told(x)'
    BY <1>7, <2>1, <2>2 DEF CommitScanFailed, CommitState, Goto
  <2> QED
    BY <2>3, <2>4, <2>5
<1>8. ASSUME NEW d \in Drawings, NEW c \in Copies, PublishScanFailed(d, c)
      PROVE  Single(x)'
  BY <1>8 DEF PublishScanFailed, EmitStatus, Goto
<1>9. ASSUME NEW d \in Drawings, NEW c \in Copies, Ack(d, c)
      PROVE  Single(x)'
  BY <1>9 DEF Ack, Goto
<1>10. ASSUME NEW d \in Drawings, NEW c \in Copies, Retry(d, c)
       PROVE  Single(x)'
  BY <1>10 DEF Retry, Goto
<1>11. ASSUME NEW d \in Drawings, NEW c \in Copies, GiveUp(d, c)
       PROVE  Single(x)'
  BY <1>11 DEF GiveUp, Goto
<1>12. ASSUME NEW d \in Drawings, NEW c \in Copies, GiveUpOnClamd(d, c)
       PROVE  Single(x)'
  BY <1>12 DEF GiveUpOnClamd, Goto
<1>13. ASSUME NEW d \in Drawings, NEW c \in Copies, Crash(d, c)
       PROVE  Single(x)'
  BY <1>13 DEF Crash, Goto
<1>14. ASSUME NEW d \in Drawings, NEW c \in Copies, NEW spare \in Copies,
              RetryUnacked(d, c, spare)
       PROVE  Single(x)'
  BY <1>14 DEF RetryUnacked, Duplicate
<1>15. ASSUME NEW d \in Drawings, NEW c \in Copies, NEW spare \in Copies,
              VisibilityTimeout(d, c, spare)
       PROVE  Single(x)'
  BY <1>15 DEF VisibilityTimeout, Duplicate
<1>16. ASSUME NEW d \in Drawings, SignatureUpdate(d)
       PROVE  Single(x)'
  BY <1>16 DEF SignatureUpdate
<1>17. CASE UNCHANGED vars
  BY <1>17 DEF vars
<1> QED
  BY <1>1, <1>2, <1>3, <1>4, <1>5, <1>6, <1>7, <1>8, <1>9, <1>10, <1>11,
     <1>12, <1>13, <1>14, <1>15, <1>16, <1>17
     DEF Next, Worker, Task, Fault

-----------------------------------------------------------------------------
LEMMA IInvInit == Init => IInv
<1> SUFFICES ASSUME Init PROVE IInv
  OBVIOUS
<1>1. TypeOK
  BY TypeInit
<1>2. PICK first \in [Drawings -> Copies] :
        \A d \in Drawings, c \in Copies :
            at[d][c] = IF c = first[d] THEN "queued" ELSE "free"
  BY DEF Init
<1>3. \A d \in Drawings : mlJobs[d] = 0 /\ events[d] = {}
  BY DEF Init
<1>4. \A d \in Drawings, c \in Copies : at[d][c] \in {"queued", "free"}
  BY <1>2
<1>5. ASSUME NEW d \in Drawings
      PROVE  Committed(d)
  <2>1. ~(mlJobs[d] > 0)
    BY <1>3
  <2> QED
    BY <1>4, <2>1 DEF Committed
<1>6. ASSUME NEW d \in Drawings
      PROVE  OneCopy(d) /\ CopyKnowsRow(d)
  BY <1>2, <1>4 DEF OneCopy, CopyKnowsRow
<1>7. ASSUME NEW d \in Drawings
      PROVE  Told(d)
  BY <1>3 DEF Told
<1> QED
  BY <1>1, <1>5, <1>6, <1>7 DEF IInv, Single

LEMMA IInvStep == IInv /\ [Next]_vars => IInv'
<1> SUFFICES ASSUME IInv, [Next]_vars PROVE IInv'
  OBVIOUS
<1>1. TypeOK'
  BY TypeStep DEF IInv
<1>2. (\A d \in Drawings : Committed(d))'
  BY CommittedStep
<1>3. (\A d \in Drawings \ duplicated : Single(d))'
  BY SingleStep
<1> QED
  BY <1>1, <1>2, <1>3 DEF IInv

LEMMA IInvAlways == Spec => []IInv
  BY IInvInit, IInvStep, PTL DEF Spec

-----------------------------------------------------------------------------
(* The properties.                                                         *)

\* Every variable keeps its type.
THEOREM TypeCorrect == Spec => []TypeOK
<1>1. IInv => TypeOK
  BY DEF IInv
<1> QED
  BY <1>1, IInvAlways, PTL

\* The ML job of a drawing is sent at most once through any number of crashes
\* and retries, as long as its message was not copied.
THEOREM MLJobSentAtMostOnce == Spec => []AtMostOneMLJob
<1>1. IInv => AtMostOneMLJob
  BY DEF IInv, Single, Told, AtMostOneMLJob
<1> QED
  BY <1>1, IInvAlways, PTL

\* A drawing with an ML job has left Scanning for good, copied or not.
THEOREM MLJobFollowsCommit == Spec => []MLJobOnlyAfterCommit
<1>1. IInv => MLJobOnlyAfterCommit
  BY DEF IInv, Committed, MLJobOnlyAfterCommit
<1> QED
  BY <1>1, IInvAlways, PTL

\* What clients were told is what is stored, and a rejected drawing has no job.
THEOREM PublishedIsStored == Spec => []PublishedStateIsStored
<1>1. IInv => PublishedStateIsStored
  BY DEF IInv, Single, Told, PublishedStateIsStored
<1> QED
  BY <1>1, IInvAlways, PTL

\* A row that has left Scanning keeps its state: only the two commits write it,
\* and the only copy of the message makes them from Scanning.
THEOREM VerdictFinal == Spec => VerdictIsFinal
<1> DEFINE Kept == \A d \in Drawings \ duplicated : row[d] # "Scanning" => row'[d] = row[d]
<1>1. ASSUME IInv, [Next]_vars
      PROVE  [Kept]_vars
  <2> USE <1>1 DEF IInv, Single, CopyKnowsRow, TypeOK
  <2>1. ASSUME NEW d \in Drawings, NEW c \in Copies,
               CommitProcessing(d, c) \/ CommitScanFailed(d, c)
        PROVE  Kept
    <3>1. SUFFICES ASSUME NEW x \in Drawings \ duplicated, row[x] # "Scanning"
                   PROVE  row'[x] = row[x]
      OBVIOUS
    <3>2. x # d
      BY <2>1, <3>1 DEF CommitProcessing, CommitScanFailed
    <3> QED
      BY <2>1, <3>2 DEF CommitProcessing, CommitScanFailed, CommitState
  <2>2. ASSUME NEW d \in Drawings, NEW c \in Copies,
               \/ Deliver(d, c) \/ LoadDrawing(d, c) \/ ScanStream(d, c)
               \/ PublishProcessing(d, c) \/ SendMLJob(d, c)
               \/ PublishScanFailed(d, c) \/ Ack(d, c)
        PROVE  UNCHANGED row
    BY <2>2 DEF Deliver, LoadDrawing, ScanStream, PublishProcessing, SendMLJob,
                PublishScanFailed, Ack, shared
  <2>3. ASSUME NEW d \in Drawings, NEW c \in Copies,
               Retry(d, c) \/ GiveUp(d, c) \/ GiveUpOnClamd(d, c) \/ Fault(d, c)
        PROVE  UNCHANGED row
    BY <2>3 DEF Retry, GiveUp, GiveUpOnClamd, Fault, Crash, RetryUnacked,
                VisibilityTimeout, Duplicate, shared
  <2>4. ASSUME NEW d \in Drawings, SignatureUpdate(d)
        PROVE  UNCHANGED row
    BY <2>4 DEF SignatureUpdate, shared
  <2> QED
    BY <2>1, <2>2, <2>3, <2>4 DEF Next, Worker, Task
<1> QED
  BY <1>1, IInvAlways, PTL DEF Spec, VerdictIsFinal

-----------------------------------------------------------------------------
(* What is left of the liveness of the scan without fairness: the safety   *)
(* half of ScanEnds, the rank that runs down, and the loss it leaves room  *)
(* for.                                                                    *)

\* Where a copy is before the commit of its verdict.
Unfinished == {"queued", "loading", "scanning", "clean", "infected"}

\* A scan is never forgotten: a row still in Scanning has a copy of its message
\* that is not past the commit, or used up its last retry.
ScanNotForgotten ==
    \A d \in Drawings :
        row[d] = "Scanning" =>
            d \in exhausted \/ \E c \in Copies : at[d][c] \in Unfinished

\* What a step that leaves the row alone has to keep.
LEMMA ScanRemembered ==
    ASSUME IInv, ScanNotForgotten, NEW d \in Drawings, NEW c \in Copies,
           row' = row, exhausted \subseteq exhausted',
           \A x \in Drawings, k \in Copies :
               at[x][k] \in Unfinished /\ <<x, k>> # <<d, c>> => at'[x][k] \in Unfinished,
           \/ at[d][c] \notin Unfinished
           \/ at'[d][c] \in Unfinished
           \/ d \in exhausted'
           \/ row[d] # "Scanning"
    PROVE  ScanNotForgotten'
<1> SUFFICES ASSUME NEW x \in Drawings, row[x] = "Scanning", x \notin exhausted'
             PROVE  \E k \in Copies : at'[x][k] \in Unfinished
  BY DEF ScanNotForgotten, Unfinished
<1>1. PICK k \in Copies : at[x][k] \in Unfinished
  BY DEF ScanNotForgotten
<1>2. CASE <<x, k>> # <<d, c>>
  BY <1>1, <1>2
<1>3. CASE x = d /\ k = c
  BY <1>1, <1>3
<1> QED
  BY <1>2, <1>3

\* A commit ends one scan and leaves the others alone.
LEMMA ScanCommitted ==
    ASSUME TypeOK, ScanNotForgotten, NEW d \in Drawings, NEW c \in Copies,
           NEW state \in {"Processing", "Scan_Failed"}, NEW p,
           row' = [row EXCEPT ![d] = state], exhausted' = exhausted,
           at' = [at EXCEPT ![d][c] = p]
    PROVE  ScanNotForgotten'
<1> SUFFICES ASSUME NEW x \in Drawings, row'[x] = "Scanning", x \notin exhausted'
             PROVE  \E k \in Copies : at'[x][k] \in Unfinished
  BY DEF ScanNotForgotten, Unfinished
<1>1. x # d
  BY DEF TypeOK
<1>2. row[x] = "Scanning" /\ at'[x] = at[x]
  BY <1>1 DEF TypeOK
<1> QED
  BY <1>2 DEF ScanNotForgotten

LEMMA ScanNotForgottenStep == IInv /\ ScanNotForgotten /\ [Next]_vars => ScanNotForgotten'
<1> SUFFICES ASSUME IInv, ScanNotForgotten, [Next]_vars PROVE ScanNotForgotten'
  OBVIOUS
<1> USE DEF shared, history
<1>0. /\ at \in [Drawings -> [Copies -> Place]]
      /\ TypeOK
  BY DEF IInv, TypeOK
<1>1. ASSUME NEW d \in Drawings, NEW c \in Copies,
             \/ Deliver(d, c) \/ LoadDrawing(d, c) \/ ScanStream(d, c)
             \/ PublishProcessing(d, c) \/ SendMLJob(d, c)
             \/ PublishScanFailed(d, c) \/ Ack(d, c)
      PROVE  ScanNotForgotten'
  <2>1. row' = row /\ exhausted' = exhausted
    BY <1>1 DEF Deliver, LoadDrawing, ScanStream, PublishProcessing, SendMLJob,
                PublishScanFailed, Ack
  <2>2. PICK p : at' = [at EXCEPT ![d][c] = p]
    BY <1>1 DEF Goto, Deliver, LoadDrawing, ScanStream, PublishProcessing, SendMLJob,
                PublishScanFailed, Ack
  <2>3. \/ at[d][c] \notin Unfinished
        \/ at'[d][c] \in Unfinished
        \/ row[d] # "Scanning"
    <3>1. CASE Deliver(d, c) \/ ScanStream(d, c)
      BY <1>0, <3>1 DEF Deliver, ScanStream, Goto, Unfinished
    <3>2. CASE LoadDrawing(d, c)
      BY <1>0, <3>2 DEF LoadDrawing, Goto, Unfinished
    <3>3. CASE \/ PublishProcessing(d, c) \/ SendMLJob(d, c)
               \/ PublishScanFailed(d, c) \/ Ack(d, c)
      BY <3>3 DEF PublishProcessing, SendMLJob, PublishScanFailed, Ack, Unfinished
    <3> QED
      BY <1>1, <3>1, <3>2, <3>3
  <2>4. \A x \in Drawings, k \in Copies : <<x, k>> # <<d, c>> => at'[x][k] = at[x][k]
    BY <1>0, <2>2
  <2> QED
    BY <2>1, <2>3, <2>4, ScanRemembered
<1>2. ASSUME NEW d \in Drawings, NEW c \in Copies, CommitProcessing(d, c)
      PROVE  ScanNotForgotten'
  BY <1>0, <1>2, ScanCommitted DEF CommitProcessing, CommitState, Goto
<1>3. ASSUME NEW d \in Drawings, NEW c \in Copies, CommitScanFailed(d, c)
      PROVE  ScanNotForgotten'
  BY <1>0, <1>3, ScanCommitted DEF CommitScanFailed, CommitState, Goto
<1>4. ASSUME NEW d \in Drawings, NEW c \in Copies, Retry(d, c) \/ Crash(d, c)
      PROVE  ScanNotForgotten'
  <2>1. row' = row /\ exhausted' = exhausted /\ at' = [at EXCEPT ![d][c] = "queued"]
    BY <1>4 DEF Retry, Crash, Goto
  <2>2. at'[d][c] \in Unfinished
    BY <1>0, <2>1 DEF Unfinished
  <2>3. \A x \in Drawings, k \in Copies : <<x, k>> # <<d, c>> => at'[x][k] = at[x][k]
    BY <1>0, <2>1
  <2> QED
    BY <2>1, <2>2, <2>3, ScanRemembered
<1>5. ASSUME NEW d \in Drawings, NEW c \in Copies, GiveUp(d, c) \/ GiveUpOnClamd(d, c)
      PROVE  ScanNotForgotten'
  <2>1. /\ row' = row /\ exhausted' = exhausted \cup {d}
        /\ at' = [at EXCEPT ![d][c] = "free"]
    BY <1>5 DEF GiveUp, GiveUpOnClamd, Goto
  <2>2. \A x \in Drawings, k \in Copies : <<x, k>> # <<d, c>> => at'[x][k] = at[x][k]
    BY <1>0, <2>1
  <2> QED
    BY <2>1, <2>2, ScanRemembered
<1>6. ASSUME NEW d \in Drawings, NEW c \in Copies, NEW spare \in Copies,
             RetryUnacked(d, c, spare) \/ VisibilityTimeout(d, c, spare)
      PROVE  ScanNotForgotten'
  <2>1. PICK p : /\ p = "queued" \/ p = at[d][c]
                 /\ at' = [at EXCEPT ![d][c] = p, ![d][spare] = "queued"]
                 /\ spare # c
                 /\ row' = row /\ exhausted' = exhausted
    BY <1>6 DEF RetryUnacked, VisibilityTimeout, Duplicate
  <2>2. at'[d][spare] = "queued" /\ at'[d][c] = p
    BY <1>0, <2>1
  <2>3. \A x \in Drawings, k \in Copies :
            <<x, k>> # <<d, c>> /\ <<x, k>> # <<d, spare>> => at'[x][k] = at[x][k]
    BY <1>0, <2>1
  <2>4. \A x \in Drawings, k \in Copies : at[x][k] \in Unfinished => at'[x][k] \in Unfinished
    BY <2>1, <2>2, <2>3 DEF Unfinished
  <2> QED
    BY <2>1, <2>4, ScanRemembered
<1>7. CASE \/ \E d \in Drawings : SignatureUpdate(d)
           \/ UNCHANGED vars
  BY <1>7 DEF SignatureUpdate, vars, ScanNotForgotten
<1> QED
  BY <1>1, <1>2, <1>3, <1>4, <1>5, <1>6, <1>7 DEF Next, Worker, Task, Fault

\* However the worker dies and however often the message is handed out again, a
\* drawing in Scanning has somebody left to scan it until its retries are used up:
\* the message is acknowledged only after the commit.  It is what ScanEnds needs
\* next to the fairness of the workers.
THEOREM ScanKept == Spec => []ScanNotForgotten
<1>1. Init => ScanNotForgotten
  <2> SUFFICES ASSUME Init, NEW d \in Drawings
               PROVE  \E c \in Copies : at[d][c] \in Unfinished
    BY DEF ScanNotForgotten
  <2>1. PICK first \in [Drawings -> Copies] :
          at = [x \in Drawings |->
                   [c \in Copies |-> IF c = first[x] THEN "queued" ELSE "free"]]
    BY DEF Init
  <2>2. at[d][first[d]] = "queued"
    BY <2>1
  <2> QED
    BY <2>2 DEF Unfinished
<1> QED
  BY <1>1, ScanNotForgottenStep, IInvAlways, PTL DEF Spec

-----------------------------------------------------------------------------
\* The steps a copy has left in its present try, and with every retry it has.
StepsLeft ==
    [p \in Place |-> CASE p = "free" -> 0
                       [] p = "returned" -> 1
                       [] p = "published" -> 2
                       [] p \in {"committed", "rejected"} -> 3
                       [] p \in {"clean", "infected"} -> 4
                       [] p = "scanning" -> 5
                       [] p = "loading" -> 6
                       [] p = "queued" -> 7]

Left(d, c) == 8 * (MaxRetries - tries[d][c]) + StepsLeft[at[d][c]]

\* One copy comes nearer to its end, and no other copy is touched.
Nearer(d, c) ==
    /\ Left(d, c)' < Left(d, c)
    /\ \A x \in Drawings, k \in Copies : <<x, k>> # <<d, c>> => Left(x, k)' = Left(x, k)

\* Without a fault every step but clamd's update of its signatures uses up some
\* of a copy's steps.
RunsDown ==
    [][faults' = faults =>
          \/ \E d \in Drawings : SignatureUpdate(d)
          \/ \E d \in Drawings, c \in Copies : Nearer(d, c)]_vars

LEMMA StepsLeftType ==
    /\ \A p \in Place : StepsLeft[p] \in 0..7
    /\ StepsLeft["free"] = 0
    /\ StepsLeft["returned"] = 1
    /\ StepsLeft["published"] = 2
    /\ StepsLeft["committed"] = 3 /\ StepsLeft["rejected"] = 3
    /\ StepsLeft["clean"] = 4 /\ StepsLeft["infected"] = 4
    /\ StepsLeft["scanning"] = 5
    /\ StepsLeft["loading"] = 6
    /\ StepsLeft["queued"] = 7
BY DEF StepsLeft, Place, Running

LEMMA LeftNat ==
    ASSUME TypeOK, NEW d \in Drawings, NEW c \in Copies
    PROVE  /\ at[d][c] \in Place
           /\ tries[d][c] \in 0..MaxRetries
           /\ StepsLeft[at[d][c]] \in 0..7
BY StepsLeftType DEF TypeOK

\* A copy that moves on in its try, with the retries it has.
LEMMA MovesOn ==
    ASSUME TypeOK, NEW d \in Drawings, NEW c \in Copies, NEW p \in Place,
           StepsLeft[p] < StepsLeft[at[d][c]],
           at' = [at EXCEPT ![d][c] = p], tries' = tries
    PROVE  Nearer(d, c)
<1>1. at'[d][c] = p /\ tries'[d][c] = tries[d][c]
  BY DEF TypeOK
<1>2. Left(d, c)' < Left(d, c)
  <2>1. Left(d, c)' = 8 * (MaxRetries - tries[d][c]) + StepsLeft[p]
    BY <1>1 DEF Left, StepsLeft
  <2>2. /\ 8 * (MaxRetries - tries[d][c]) \in Int
        /\ StepsLeft[p] \in Int /\ StepsLeft[at[d][c]] \in Int
    BY LeftNat, StepsLeftType, BoundsAssumption
  <2> QED
    BY <2>1, <2>2 DEF Left
<1>3. ASSUME NEW x \in Drawings, NEW k \in Copies, <<x, k>> # <<d, c>>
      PROVE  Left(x, k)' = Left(x, k)
  <2>1. at'[x][k] = at[x][k] /\ tries'[x][k] = tries[x][k]
    BY <1>3 DEF TypeOK
  <2> QED
    BY <2>1 DEF Left, StepsLeft
<1> QED
  BY <1>2, <1>3 DEF Nearer

\* A retry costs one of the retries, which is worth more than any try.
LEMMA RetryCosts ==
    ASSUME TypeOK, NEW d \in Drawings, NEW c \in Copies, Retry(d, c)
    PROVE  Nearer(d, c)
<1>1. /\ at' = [at EXCEPT ![d][c] = "queued"]
      /\ tries' = [tries EXCEPT ![d][c] = @ + 1]
      /\ at[d][c] \in Running
  BY DEF Retry, Goto
<1>2. at'[d][c] = "queued" /\ tries'[d][c] = tries[d][c] + 1
  BY <1>1 DEF TypeOK
<1>3. StepsLeft[at[d][c]] > 0
  BY <1>1, StepsLeftType DEF Running
<1>4. Left(d, c)' < Left(d, c)
  <2>1. Left(d, c)' = 8 * (MaxRetries - (tries[d][c] + 1)) + 7
    BY <1>2, StepsLeftType DEF Left, StepsLeft
  <2>2. tries[d][c] \in Int /\ MaxRetries \in Int /\ StepsLeft[at[d][c]] \in Int
    BY LeftNat, BoundsAssumption
  <2> QED
    BY <1>3, <2>1, <2>2 DEF Left
<1>5. ASSUME NEW x \in Drawings, NEW k \in Copies, <<x, k>> # <<d, c>>
      PROVE  Left(x, k)' = Left(x, k)
  <2>1. at'[x][k] = at[x][k] /\ tries'[x][k] = tries[x][k]
    BY <1>1, <1>5 DEF TypeOK
  <2> QED
    BY <2>1 DEF Left, StepsLeft
<1> QED
  BY <1>4, <1>5 DEF Nearer

LEMMA WorkerRunsDown ==
    ASSUME TypeOK, NEW d \in Drawings, NEW c \in Copies, Worker(d, c)
    PROVE  Nearer(d, c)
<1>1. CASE \/ Deliver(d, c) \/ LoadDrawing(d, c) \/ ScanStream(d, c)
  <2>1. PICK p \in {"loading", "scanning", "returned", "infected", "clean"} :
          /\ at' = [at EXCEPT ![d][c] = p] /\ tries' = tries
          /\ \/ at[d][c] = "queued" /\ p = "loading"
             \/ at[d][c] = "loading" /\ p \in {"scanning", "returned"}
             \/ at[d][c] = "scanning" /\ p \in {"infected", "clean"}
    BY <1>1 DEF Deliver, LoadDrawing, ScanStream, Goto
  <2>2. p \in Place /\ StepsLeft[p] < StepsLeft[at[d][c]]
    BY <2>1, StepsLeftType DEF Place, Running
  <2> QED
    BY <2>1, <2>2, MovesOn
<1>2. CASE \/ CommitProcessing(d, c) \/ PublishProcessing(d, c) \/ SendMLJob(d, c)
           \/ CommitScanFailed(d, c) \/ PublishScanFailed(d, c)
  <2>1. PICK p \in {"committed", "published", "returned", "rejected"} :
          /\ at' = [at EXCEPT ![d][c] = p] /\ tries' = tries
          /\ \/ at[d][c] = "clean" /\ p = "committed"
             \/ at[d][c] = "committed" /\ p = "published"
             \/ at[d][c] = "published" /\ p = "returned"
             \/ at[d][c] = "infected" /\ p = "rejected"
             \/ at[d][c] = "rejected" /\ p = "returned"
    BY <1>2 DEF CommitProcessing, PublishProcessing, SendMLJob, CommitScanFailed,
                PublishScanFailed, Goto
  <2>2. p \in Place /\ StepsLeft[p] < StepsLeft[at[d][c]]
    BY <2>1, StepsLeftType DEF Place, Running
  <2> QED
    BY <2>1, <2>2, MovesOn
<1>3. CASE Ack(d, c) \/ GiveUp(d, c) \/ GiveUpOnClamd(d, c)
  <2>1. /\ at' = [at EXCEPT ![d][c] = "free"] /\ tries' = tries
        /\ at[d][c] \in Running \cup {"returned"}
    BY <1>3 DEF Ack, GiveUp, GiveUpOnClamd, Goto, Running
  <2>2. "free" \in Place /\ StepsLeft["free"] < StepsLeft[at[d][c]]
    BY <2>1, StepsLeftType DEF Place, Running
  <2> QED
    BY <2>1, <2>2, MovesOn
<1>4. CASE Retry(d, c)
  BY <1>4, RetryCosts
<1> QED
  BY <1>1, <1>2, <1>3, <1>4 DEF Worker, Task

LEMMA FaultCounted ==
    ASSUME TypeOK, NEW d \in Drawings, NEW c \in Copies, Fault(d, c)
    PROVE  faults' # faults
<1>1. faults' = faults + 1
  BY DEF Fault, Crash, RetryUnacked, VisibilityTimeout, Duplicate
<1>2. faults \in Int
  BY DEF TypeOK
<1> QED
  BY <1>1, <1>2

\* The workers cannot go round for ever: without a crash or a redelivery each step
\* brings one copy nearer to its end and no copy further from it, and a drawing's
\* signatures change once.  With ScanKept it is the argument for ScanEnds: the
\* copies run down, and the last one leaves neither Scanning nor a silent drop.
THEOREM ScanRunsDown == Spec => RunsDown
<1> DEFINE Down == \/ \E d \in Drawings : SignatureUpdate(d)
                   \/ \E d \in Drawings, c \in Copies : Nearer(d, c)
<1>1. ASSUME IInv, [Next]_vars
      PROVE  [faults' = faults => Down]_vars
  <2>0. TypeOK
    BY <1>1 DEF IInv
  <2>1. CASE \E d \in Drawings, c \in Copies : Worker(d, c)
    BY <2>0, <2>1, WorkerRunsDown
  <2>2. CASE \E d \in Drawings, c \in Copies : Fault(d, c)
    BY <2>0, <2>2, FaultCounted
  <2>3. CASE \E d \in Drawings : SignatureUpdate(d)
    BY <2>3
  <2>4. CASE UNCHANGED vars
    BY <2>4
  <2> QED
    BY <1>1, <2>1, <2>2, <2>3, <2>4 DEF Next
<1> QED
  BY <1>1, IInvAlways, PTL DEF Spec, RunsDown

-----------------------------------------------------------------------------
\* The job of a clean drawing that was stored as Processing and not sent, when no
\* copy is left between the scan and the send.
Stranded(d) ==
    /\ row[d] = "Processing"
    /\ mlJobs[d] = 0
    /\ \A c \in Copies : at[d][c] \in {"free", "queued", "loading", "returned", "rejected"}

\* A job that was lost between the commit and the send is lost for good: the retry
\* finds the row in Processing and returns, as does every redelivery of the
\* message.  The run scan_lost_ml_job shows how a drawing gets there, which is why
\* CleanDrawingReachesML does not hold; no later step of the workers makes it good.
LostForGood == [][\A d \in Drawings : Stranded(d) => Stranded(d)']_vars

THEOREM LostMLJobStaysLost == Spec => LostForGood
<1> DEFINE Stays == \A d \in Drawings : Stranded(d) => Stranded(d)'
<1>1. ASSUME IInv, [Next]_vars
      PROVE  [Stays]_vars
  <2> SUFFICES ASSUME NEW x \in Drawings, Stranded(x)
               PROVE  Stranded(x)'
    OBVIOUS
  <2> USE DEF shared
  <2>0. TypeOK
    BY <1>1 DEF IInv
  <2>1. ASSUME NEW d \in Drawings, NEW c \in Copies, NEW p,
               at' = [at EXCEPT ![d][c] = p],
               d = x => p \in {"free", "queued", "loading", "returned", "rejected"},
               row'[x] = row[x], mlJobs'[x] = mlJobs[x]
        PROVE  Stranded(x)'
    BY <2>0, <2>1 DEF Stranded, TypeOK
  <2>2. ASSUME NEW d \in Drawings, NEW c \in Copies,
               \/ Deliver(d, c) \/ LoadDrawing(d, c) \/ PublishScanFailed(d, c)
               \/ Ack(d, c) \/ Retry(d, c) \/ GiveUp(d, c) \/ GiveUpOnClamd(d, c)
               \/ Crash(d, c)
        PROVE  Stranded(x)'
    <3>1. PICK p : /\ at' = [at EXCEPT ![d][c] = p]
                   /\ d = x => p \in {"free", "queued", "loading", "returned", "rejected"}
      BY <2>2 DEF Deliver, LoadDrawing, PublishScanFailed, Ack, Retry, GiveUp,
                  GiveUpOnClamd, Crash, Goto, Stranded
    <3>2. row' = row /\ mlJobs' = mlJobs
      BY <2>2 DEF Deliver, LoadDrawing, PublishScanFailed, Ack, Retry, GiveUp,
                  GiveUpOnClamd, Crash
    <3> QED
      BY <2>1, <3>1, <3>2
  <2>3. ASSUME NEW d \in Drawings, NEW c \in Copies,
               \/ ScanStream(d, c) \/ CommitProcessing(d, c) \/ PublishProcessing(d, c)
               \/ SendMLJob(d, c) \/ CommitScanFailed(d, c)
        PROVE  Stranded(x)'
    <3>1. d # x
      BY <2>3 DEF Stranded, ScanStream, CommitProcessing, PublishProcessing, SendMLJob,
                  CommitScanFailed
    <3>2. PICK p : at' = [at EXCEPT ![d][c] = p]
      BY <2>3 DEF ScanStream, CommitProcessing, PublishProcessing, SendMLJob,
                  CommitScanFailed, Goto
    <3>3. row'[x] = row[x] /\ mlJobs'[x] = mlJobs[x]
      BY <2>0, <2>3, <3>1 DEF TypeOK, ScanStream, CommitProcessing, PublishProcessing,
                              SendMLJob, CommitScanFailed, CommitState
    <3> QED
      BY <2>1, <3>1, <3>2, <3>3
  <2>4. ASSUME NEW d \in Drawings, NEW c \in Copies, NEW spare \in Copies,
               RetryUnacked(d, c, spare) \/ VisibilityTimeout(d, c, spare)
        PROVE  Stranded(x)'
    <3>1. PICK p : /\ p = "queued" \/ p = at[d][c]
                   /\ at' = [at EXCEPT ![d][c] = p, ![d][spare] = "queued"]
                   /\ row' = row /\ mlJobs' = mlJobs
      BY <2>4 DEF RetryUnacked, VisibilityTimeout, Duplicate
    <3> QED
      BY <2>0, <3>1 DEF Stranded, TypeOK
  <2>5. CASE \/ \E d \in Drawings : SignatureUpdate(d)
             \/ UNCHANGED vars
    BY <2>5 DEF SignatureUpdate, vars, Stranded
  <2> QED
    BY <1>1, <2>2, <2>3, <2>4, <2>5 DEF Next, Worker, Task, Fault
<1> QED
  BY <1>1, IInvAlways, PTL DEF Spec, LostForGood

=============================================================================
