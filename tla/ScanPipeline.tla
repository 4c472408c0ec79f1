---------------------------- MODULE ScanPipeline ----------------------------
(***************************************************************************)
(* The scan leg of the drawing pipeline: Celery's "scan" queue (a Redis    *)
(* broker), the task scan_drawing and clamd.                               *)
(*                                                                         *)
(* A drawing's scan message can exist in several copies: the broker hands  *)
(* an unacknowledged message out again after its visibility timeout, and a *)
(* worker that dies after it has published a retry but before it has       *)
(* acknowledged the original leaves both behind.  Each copy is a process:  *)
(* at[d][c] is where copy c of drawing d's message is, "queued" while it   *)
(* is in the broker, one of Running while a worker executes the task for   *)
(* it, "returned" when the task is over and the (late) acknowledgement is  *)
(* due, and "free" when there is no such copy.                             *)
(*                                                                         *)
(*   row       drawing.processing_state, "Missing" when there is no row    *)
(*   tries     request.retries, carried by the message                     *)
(*   infected  what clamd would answer for the stored object now           *)
(*   mlJobs    messages sent to the ml_inference queue                     *)
(*   events    states published on drawing:status:<id>                     *)
(*                                                                         *)
(* and four history variables: duplicated (drawings of which a second copy *)
(* was ever made), exhausted (drawings of which a copy was dropped after   *)
(* its last retry), unreachable (those where clamd was the reason) and     *)
(* faults (crashes and redeliveries so far).                               *)
(***************************************************************************)
EXTENDS Naturals

CONSTANTS Drawings,    \* drawing ids
          Copies,      \* names for the copies of one drawing's message
          MaxRetries,  \* MAX_RETRIES, and BaseTask's retry_kwargs
          MaxFaults    \* bound on crashes and redeliveries

ASSUME BoundsAssumption == MaxRetries \in Nat /\ MaxFaults \in Nat

VARIABLES row, at, tries, infected, mlJobs, events,
          duplicated, exhausted, unreachable, faults

vars == <<row, at, tries, infected, mlJobs, events,
          duplicated, exhausted, unreachable, faults>>

\* What one copy of the message does, and what everybody else sees.
shared  == <<row, mlJobs, events>>
history == <<duplicated, exhausted, unreachable, faults>>

\* STATE_FAILED is a state of the column that this code never stores: see GiveUp.
ProcessingState == {"Missing", "Scanning", "Processing", "Scan_Failed", "Failed"}

(***************************************************************************)
(* The places in scan_drawing at which another process can get in between. *)
(***************************************************************************)
Running == { "loading",      \* task started, row not read yet
             "scanning",     \* row read as Scanning, object being streamed
             "clean",        \* clamd found nothing, Processing not committed
             "committed",    \* Processing committed, event not published
             "published",    \* event published, ML job not sent
             "infected",     \* clamd found something, nothing committed
             "rejected" }    \* Scan_Failed committed, event not published

Place == Running \cup {"free", "queued", "returned"}

TypeOK ==
    /\ row \in [Drawings -> ProcessingState]
    /\ at \in [Drawings -> [Copies -> Place]]
    /\ tries \in [Drawings -> [Copies -> 0..MaxRetries]]
    /\ infected \in [Drawings -> BOOLEAN]
    /\ mlJobs \in [Drawings -> Nat]
    /\ events \in [Drawings -> SUBSET {"Processing", "Scan_Failed"}]
    /\ duplicated \in SUBSET Drawings
    /\ exhausted \in SUBSET Drawings
    /\ unreachable \in SUBSET Drawings
    /\ faults \in 0..MaxFaults

-----------------------------------------------------------------------------
(* The upload side has stored one message per drawing.                     *)
Init ==
    /\ row \in [Drawings -> {"Missing", "Scanning"}]
    /\ \E first \in [Drawings -> Copies] :
          at = [d \in Drawings |->
                   [c \in Copies |-> IF c = first[d] THEN "queued" ELSE "free"]]
    /\ tries = [d \in Drawings |-> [c \in Copies |-> 0]]
    /\ infected \in [Drawings -> BOOLEAN]
    /\ mlJobs = [d \in Drawings |-> 0]
    /\ events = [d \in Drawings |-> {}]
    /\ duplicated = {}
    /\ exhausted = {}
    /\ unreachable = {}
    /\ faults = 0

Goto(d, c, p) == at' = [at EXCEPT ![d][c] = p]

-----------------------------------------------------------------------------
(* Plausible bugs: each replaces the definition it is named after in a run *)
(* of its own, and the property it is paired with has to fail.             *)

\* No check that the drawing is still in Scanning.
LoadDrawing_NoCheck(d, c) ==
    /\ at[d][c] = "loading"
    /\ Goto(d, c, "scanning")
    /\ UNCHANGED <<shared, tries, infected, history>>

\* Only the terminal state counts as done.
LoadDrawing_RescanProcessing(d, c) ==
    /\ at[d][c] = "loading"
    /\ Goto(d, c, IF row[d] = "Scan_Failed" THEN "returned" ELSE "scanning")
    /\ UNCHANGED <<shared, tries, infected, history>>

\* The event goes out before the commit.
ScanStream_PublishFirst(d, c) ==
    /\ at[d][c] = "scanning"
    /\ Goto(d, c, IF infected[d] THEN "infected" ELSE "clean")
    /\ events' = [events EXCEPT ![d] =
                     @ \cup {IF infected[d] THEN "Scan_Failed" ELSE "Processing"}]
    /\ UNCHANGED <<row, mlJobs, tries, infected, history>>

\* The state is set on the object and never committed.
CommitProcessing_NoCommit(d, c) ==
    /\ at[d][c] = "clean"
    /\ Goto(d, c, "committed")
    /\ UNCHANGED <<shared, tries, infected, history>>

\* Retries without a limit.
Retry_Unbounded(d, c) ==
    /\ at[d][c] \in Running
    /\ tries' = [tries EXCEPT ![d][c] = @ + 1]
    /\ Goto(d, c, "queued")
    /\ UNCHANGED <<shared, infected, history>>

\* Early acknowledgement: the message is gone with the worker.
Crash_EarlyAck(d, c) ==
    /\ at[d][c] \in Running \cup {"returned"}
    /\ faults < MaxFaults
    /\ faults' = faults + 1
    /\ Goto(d, c, "free")
    /\ UNCHANGED <<shared, tries, infected, duplicated, exhausted, unreachable>>

-----------------------------------------------------------------------------
(* The task                                                                *)

Deliver(d, c) ==
    /\ at[d][c] = "queued"
    /\ Goto(d, c, "loading")
    /\ UNCHANGED <<shared, tries, infected, history>>

\* The guard that makes the task idempotent: any state but Scanning is a no-op.
LoadDrawing(d, c) ==
    /\ at[d][c] = "loading"
    /\ Goto(d, c, IF row[d] = "Scanning" THEN "scanning" ELSE "returned")
    /\ UNCHANGED <<shared, tries, infected, history>>

ScanStream(d, c) ==
    /\ at[d][c] = "scanning"
    /\ Goto(d, c, IF infected[d] THEN "infected" ELSE "clean")
    /\ UNCHANGED <<shared, tries, infected, history>>

\* The UPDATE names the row by id only: it does not look at the state it replaces.
CommitState(d, state) == row' = [row EXCEPT ![d] = state]

CommitProcessing(d, c) ==
    /\ at[d][c] = "clean"
    /\ CommitState(d, "Processing")
    /\ Goto(d, c, "committed")
    /\ UNCHANGED <<mlJobs, events, tries, infected, history>>

EmitStatus(d, state) == events' = [events EXCEPT ![d] = @ \cup {state}]

PublishProcessing(d, c) ==
    /\ at[d][c] = "committed"
    /\ EmitStatus(d, "Processing")
    /\ Goto(d, c, "published")
    /\ UNCHANGED <<row, mlJobs, tries, infected, history>>

SendMLJob(d, c) ==
    /\ at[d][c] = "published"
    /\ mlJobs' = [mlJobs EXCEPT ![d] = @ + 1]
    /\ Goto(d, c, "returned")
    /\ UNCHANGED <<row, events, tries, infected, history>>

CommitScanFailed(d, c) ==
    /\ at[d][c] = "infected"
    /\ CommitState(d, "Scan_Failed")
    /\ Goto(d, c, "rejected")
    /\ UNCHANGED <<mlJobs, events, tries, infected, history>>

PublishScanFailed(d, c) ==
    /\ at[d][c] = "rejected"
    /\ EmitStatus(d, "Scan_Failed")
    /\ Goto(d, c, "returned")
    /\ UNCHANGED <<row, mlJobs, tries, infected, history>>

-----------------------------------------------------------------------------
(* Celery                                                                  *)

Ack(d, c) ==
    /\ at[d][c] = "returned"
    /\ Goto(d, c, "free")
    /\ UNCHANGED <<shared, tries, infected, history>>

\* Any call of the task can raise.  clamd out of reach calls self.retry and any
\* other exception is retried by BaseTask: both put the message back with one
\* more retry while there are retries left.
Retry(d, c) ==
    /\ at[d][c] \in Running
    /\ tries[d][c] < MaxRetries
    /\ tries' = [tries EXCEPT ![d][c] = @ + 1]
    /\ Goto(d, c, "queued")
    /\ UNCHANGED <<shared, infected, history>>

\* With none left the task has failed, and the message of a failed task is
\* acknowledged.
GiveUp(d, c) ==
    /\ at[d][c] \in Running
    /\ tries[d][c] = MaxRetries
    /\ exhausted' = exhausted \cup {d}
    /\ Goto(d, c, "free")
    /\ UNCHANGED <<shared, tries, infected, duplicated, unreachable, faults>>

\* The same end when clamd is out of reach at the last try: retry(exc=exc)
\* raises exc itself, not MaxRetriesExceededError, so that the handler that
\* would store Failed is not reached.
GiveUpOnClamd(d, c) ==
    /\ at[d][c] = "scanning"
    /\ tries[d][c] = MaxRetries
    /\ exhausted' = exhausted \cup {d}
    /\ unreachable' = unreachable \cup {d}
    /\ Goto(d, c, "free")
    /\ UNCHANGED <<shared, tries, infected, duplicated, faults>>

-----------------------------------------------------------------------------
(* Faults                                                                  *)

\* reject_on_worker_lost: an unacknowledged message goes back, retries unchanged.
Crash(d, c) ==
    /\ at[d][c] \in Running \cup {"returned"}
    /\ faults < MaxFaults
    /\ faults' = faults + 1
    /\ Goto(d, c, "queued")
    /\ UNCHANGED <<shared, tries, infected, duplicated, exhausted, unreachable>>

\* A second copy of the message, spare, enters the queue with r retries.
Duplicate(d, c, place, spare, r) ==
    /\ spare # c
    /\ at[d][spare] = "free"
    /\ faults < MaxFaults
    /\ faults' = faults + 1
    /\ duplicated' = duplicated \cup {d}
    /\ at' = [at EXCEPT ![d][c] = place, ![d][spare] = "queued"]
    /\ tries' = [tries EXCEPT ![d][spare] = r]
    /\ UNCHANGED <<shared, infected, exhausted, unreachable>>

\* The worker dies between publishing the retry and acknowledging the original.
RetryUnacked(d, c, spare) ==
    /\ at[d][c] \in Running
    /\ tries[d][c] < MaxRetries
    /\ Duplicate(d, c, "queued", spare, tries[d][c] + 1)

\* The task outlives the broker's visibility timeout: it runs on, and the
\* message is delivered again.
VisibilityTimeout(d, c, spare) ==
    /\ at[d][c] \in Running \cup {"returned"}
    /\ Duplicate(d, c, at[d][c], spare, tries[d][c])

\* clamd loads new signatures: a file that was clean is not any more.
SignatureUpdate(d) ==
    /\ ~infected[d]
    /\ infected' = [infected EXCEPT ![d] = TRUE]
    /\ UNCHANGED <<shared, at, tries, history>>

-----------------------------------------------------------------------------
Task(d, c) ==
    \/ LoadDrawing(d, c)
    \/ ScanStream(d, c)
    \/ CommitProcessing(d, c)
    \/ PublishProcessing(d, c)
    \/ SendMLJob(d, c)
    \/ CommitScanFailed(d, c)
    \/ PublishScanFailed(d, c)

Worker(d, c) ==
    \/ Deliver(d, c)
    \/ Task(d, c)
    \/ Ack(d, c)
    \/ Retry(d, c)
    \/ GiveUp(d, c)
    \/ GiveUpOnClamd(d, c)

Fault(d, c) ==
    \/ Crash(d, c)
    \/ \E spare \in Copies : RetryUnacked(d, c, spare) \/ VisibilityTimeout(d, c, spare)

Next ==
    \/ \E d \in Drawings, c \in Copies : Worker(d, c) \/ Fault(d, c)
    \/ \E d \in Drawings : SignatureUpdate(d)

Spec == Init /\ [][Next]_vars

\* Workers keep consuming, and what they run returns or raises.
Fairness == \A d \in Drawings, c \in Copies : WF_vars(Worker(d, c))

FairSpec == Spec /\ Fairness

-----------------------------------------------------------------------------
(* Properties                                                              *)

\* However often the worker crashes, retries and starts the task over, the ML
\* job of a drawing is sent at most once, unless the broker delivered a copy
\* of the message: the state check at the top of scan_drawing, run against a
\* row that was committed before the send.
AtMostOneMLJob == \A d \in Drawings \ duplicated : mlJobs[d] <= 1

\* An ML job means that the row has left Scanning for good, copies or not: a
\* redelivered message finds the work done.
MLJobOnlyAfterCommit ==
    \A d \in Drawings : mlJobs[d] > 0 => row[d] \in {"Processing", "Scan_Failed"}

\* Without a copy of the message, a drawing of which malware was found has no ML
\* job, and every state a client was told of is the stored one.
PublishedStateIsStored ==
    \A d \in Drawings \ duplicated :
        /\ events[d] \subseteq {row[d]}
        /\ row[d] = "Scan_Failed" => mlJobs[d] = 0

\* Processing and Scan_Failed are the scan worker's last word: a later delivery
\* does not replace one by the other, although clamd's answer may have changed.
VerdictIsFinal ==
    [][\A d \in Drawings \ duplicated :
          row[d] # "Scanning" => row'[d] = row[d]]_vars

\* Every scan ends: the row leaves Scanning, or the last retry was used up.
ScanEnds ==
    \A d \in Drawings :
        row[d] = "Scanning" ~> (row[d] # "Scanning" \/ d \in exhausted)

\* The docstring's "on exhaustion -> Failed": a drawing that clamd could not be
\* reached for, the last time included, does not stay in Scanning.
UnreachableClamdEndsScanning ==
    \A d \in Drawings : d \in unreachable ~> row[d] # "Scanning"

\* "Queued jobs survive worker restarts": a drawing stored as Processing gets its
\* ML job.
CleanDrawingReachesML ==
    \A d \in Drawings : row[d] = "Processing" ~> mlJobs[d] > 0

=============================================================================
