---------------------------- MODULE GdprErasure ----------------------------
(***************************************************************************)
(* The right to erasure: DELETE /account in the API process, the beat task *)
(* that looks for accounts deleted thirty days ago, and the Celery task    *)
(* that erases one account in two transactions.                            *)
(*                                                                         *)
(* The beat task dispatches a job for every due account at every run, the  *)
(* erased ones included, so jobs for one user overlap; and the broker hands*)
(* the job of a dead worker out again.  job[u][j] is one of them: "free",  *)
(* "queued", or the point its worker has reached.                          *)
(*                                                                         *)
(*   age        the account's deleted_at: NULL, "recent" or "due"          *)
(*   anonId     user.anonymous_id, as the version of the secret it was     *)
(*              computed with, NoId when NULL                              *)
(*   placeholder  the anonymous id in the e-mail address that replaced     *)
(*              theirs, NoId while it is theirs                            *)
(*   related    audit and consent rows still name the user                 *)
(*   request    where each DELETE /account request is: "loaded" has found  *)
(*              the account and not yet committed                          *)
(*   enqueued   jobs that DELETE /account has sent                         *)
(*   ids        what each job holds as the anonymous id                    *)
(*   secret     version of HMAC_SERVER_SECRET now deployed                 *)
(*                                                                         *)
(* and the history variables overlapped (users for whom two jobs computed  *)
(* an id at the same time) and faults (jobs that failed or died).          *)
(***************************************************************************)
EXTENDS Naturals, FiniteSets

CONSTANTS Users,
          Requests,       \* DELETE /account requests of a user
          Processes,      \* API processes, one to a container
          Jobs,           \* names for the jobs of one user in the queue
          MaxRetries,     \* BaseTask's max_retries
          MaxFaults,      \* bound on failures and crashes
          MaxSecret,      \* bound on rotations of the secret
          BeatScheduled   \* the deployment runs the beat task

ASSUME ErasureAssumption ==
    /\ IsFiniteSet(Requests)
    /\ Processes \in Nat \ {0}
    /\ MaxRetries \in Nat
    /\ MaxFaults \in Nat
    /\ MaxSecret \in Nat \ {0}
    /\ BeatScheduled \in BOOLEAN

VARIABLES age, anonId, placeholder, related, request, enqueued,
          job, ids, tries, secret, overlapped, faults

vars == <<age, anonId, placeholder, related, request, enqueued,
          job, ids, tries, secret, overlapped, faults>>

row    == <<age, anonId, placeholder, related>>
api    == <<request, enqueued>>
worker == <<job, ids, tries>>

NoId == 0
Id == 1..MaxSecret

Running == { "loading",     \* started, user row not read
             "computed",    \* no id in the row: computed, not committed
             "purging",     \* the id is in the row, the purge not committed
             "returned" }   \* over, not acknowledged

TypeOK ==
    /\ age \in [Users -> {"none", "recent", "due"}]
    /\ anonId \in [Users -> Id \cup {NoId}]
    /\ placeholder \in [Users -> Id \cup {NoId}]
    /\ related \in [Users -> BOOLEAN]
    /\ request \in [Users -> [Requests -> {"idle", "accepted", "loaded", "committed", "done"}]]
    /\ enqueued \in [Users -> Nat]
    /\ job \in [Users -> [Jobs -> Running \cup {"free", "queued"}]]
    /\ ids \in [Users -> [Jobs -> Id \cup {NoId}]]
    /\ tries \in [Users -> [Jobs -> 0..MaxRetries]]
    /\ secret \in Id
    /\ overlapped \in SUBSET Users
    /\ faults \in 0..MaxFaults

Init ==
    /\ age = [u \in Users |-> "none"]
    /\ anonId = [u \in Users |-> NoId]
    /\ placeholder = [u \in Users |-> NoId]
    /\ related = [u \in Users |-> TRUE]
    /\ request = [u \in Users |-> [q \in Requests |-> "idle"]]
    /\ enqueued = [u \in Users |-> 0]
    /\ job = [u \in Users |-> [j \in Jobs |-> "free"]]
    /\ ids = [u \in Users |-> [j \in Jobs |-> NoId]]
    /\ tries = [u \in Users |-> [j \in Jobs |-> 0]]
    /\ secret = 1
    /\ overlapped = {}
    /\ faults = 0

GotoRequest(u, q, from, to) ==
    /\ request[u][q] = from
    /\ request' = [request EXCEPT ![u][q] = to]

GotoJob(u, j, from, to) ==
    /\ job[u][j] = from
    /\ job' = [job EXCEPT ![u][j] = to]

Hold(u, j, id) == ids' = [ids EXCEPT ![u][j] = id]

\* The requests of a user that are between the SELECT and the COMMIT.
Loaded(u) == {q \in Requests : request[u][q] = "loaded"}

\* From loading the row to the end of the COMMIT there is no await: a process has
\* one handler there.
ProcessFree(u) == Cardinality(Loaded(u)) < Processes

-----------------------------------------------------------------------------
(* Plausible bugs, each paired with the property it breaks.                *)

\* Every request that comes through starts a deletion.
LoadAccount_NoCheck(u, q) ==
    /\ ProcessFree(u)
    /\ GotoRequest(u, q, "accepted", "loaded")
    /\ UNCHANGED <<row, enqueued, worker, secret, overlapped, faults>>

\* Computes the id whatever is in the row.
ComputeAnonymousId_Always(u, j) ==
    /\ \E id \in 1..secret : Hold(u, j, id)
    /\ GotoJob(u, j, "loading", "computed")
    /\ overlapped' = IF \E other \in Jobs : job[u][other] = "computed"
                     THEN overlapped \cup {u} ELSE overlapped
    /\ UNCHANGED <<row, api, tries, secret, faults>>

\* Leaves the id to the COMMIT of the purge.
CommitAnonymousId_Later(u, j) ==
    /\ GotoJob(u, j, "computed", "purging")
    /\ UNCHANGED <<row, api, ids, tries, secret, overlapped, faults>>

\* Makes the placeholder of a hash of its own.
PurgePii_OwnHash(u, j) ==
    /\ GotoJob(u, j, "purging", "returned")
    /\ placeholder' = [placeholder EXCEPT ![u] = secret]
    /\ related' = [related EXCEPT ![u] = FALSE]
    /\ UNCHANGED <<age, anonId, api, ids, tries, secret, overlapped, faults>>

\* Takes the last retry for one more.
RetriesLeft_OneMore(u, j) == tries[u][j] <= MaxRetries

-----------------------------------------------------------------------------
(* DELETE /account                                                         *)

\* get_current_user turns a deleted account away.
Accept(u, q) ==
    /\ age[u] = "none"
    /\ GotoRequest(u, q, "idle", "accepted")
    /\ UNCHANGED <<row, enqueued, worker, secret, overlapped, faults>>

\* The SELECT takes no lock: a request of another process may find the account
\* undeleted as well.
LoadAccount(u, q) ==
    /\ ProcessFree(u)
    /\ GotoRequest(u, q, "accepted", IF age[u] = "none" THEN "loaded" ELSE "done")
    /\ UNCHANGED <<row, enqueued, worker, secret, overlapped, faults>>

\* The UPDATE names the row by its key only.
CommitDeletion(u, q) ==
    /\ GotoRequest(u, q, "loaded", "committed")
    /\ age' = [age EXCEPT ![u] = "recent"]
    /\ UNCHANGED <<anonId, placeholder, related, enqueued, worker, secret, overlapped, faults>>

\* The database does not answer, or the process dies.
DeletionFails(u, q) ==
    /\ GotoRequest(u, q, "loaded", "done")
    /\ UNCHANGED <<row, enqueued, worker, secret, overlapped, faults>>

\* The sign-out and the flags come first, and may take their time.  The message
\* names a task no worker knows, so what it leads to is that it is thrown away.
SendErasureJob(u, q) ==
    /\ GotoRequest(u, q, "committed", "done")
    /\ enqueued' = [enqueued EXCEPT ![u] = @ + 1]
    /\ UNCHANGED <<row, worker, secret, overlapped, faults>>

\* The broker does not answer, which is logged, or the process dies.
SendFails(u, q) ==
    /\ GotoRequest(u, q, "committed", "done")
    /\ UNCHANGED <<row, enqueued, worker, secret, overlapped, faults>>

-----------------------------------------------------------------------------
(* The beat task                                                           *)

\* No handler takes that long from its SELECT to its COMMIT.
ThirtyDaysPass(u) ==
    /\ age[u] = "recent"
    /\ Loaded(u) = {}
    /\ age' = [age EXCEPT ![u] = "due"]
    /\ UNCHANGED <<anonId, placeholder, related, api, worker, secret, overlapped, faults>>

\* Due is all it asks for: not whether the user is erased, nor whether a job is
\* on its way.
DispatchErasureJob(u, j) ==
    /\ BeatScheduled
    /\ age[u] = "due"
    /\ GotoJob(u, j, "free", "queued")
    /\ tries' = [tries EXCEPT ![u][j] = 0]
    /\ UNCHANGED <<row, api, ids, secret, overlapped, faults>>

-----------------------------------------------------------------------------
(* erase_user_pii                                                          *)

Deliver(u, j) ==
    /\ GotoJob(u, j, "queued", "loading")
    /\ UNCHANGED <<row, api, ids, tries, secret, overlapped, faults>>

\* An id that is in the row is taken from there.
ReadAnonymousId(u, j) ==
    /\ anonId[u] # NoId
    /\ Hold(u, j, anonId[u])
    /\ GotoJob(u, j, "loading", "purging")
    /\ UNCHANGED <<row, api, tries, secret, overlapped, faults>>

\* Otherwise it is computed, with the secret of this worker, which may not have been
\* restarted since a rotation.
ComputeAnonymousId(u, j) ==
    /\ anonId[u] = NoId
    /\ \E id \in 1..secret : Hold(u, j, id)
    /\ GotoJob(u, j, "loading", "computed")
    /\ overlapped' = IF \E other \in Jobs : job[u][other] = "computed"
                     THEN overlapped \cup {u} ELSE overlapped
    /\ UNCHANGED <<row, api, tries, secret, faults>>

\* The first transaction.  The UPDATE names the row by its key only.
CommitAnonymousId(u, j) ==
    /\ GotoJob(u, j, "computed", "purging")
    /\ anonId' = [anonId EXCEPT ![u] = ids[u][j]]
    /\ UNCHANGED <<age, placeholder, related, api, ids, tries, secret, overlapped, faults>>

\* The second: the user row, audit_log and ml_training_consent in one COMMIT.
PurgePii(u, j) ==
    /\ GotoJob(u, j, "purging", "returned")
    /\ placeholder' = [placeholder EXCEPT ![u] = ids[u][j]]
    /\ related' = [related EXCEPT ![u] = FALSE]
    /\ UNCHANGED <<age, anonId, api, ids, tries, secret, overlapped, faults>>

Ack(u, j) ==
    /\ GotoJob(u, j, "returned", "free")
    /\ Hold(u, j, NoId)
    /\ UNCHANGED <<row, api, tries, secret, overlapped, faults>>

-----------------------------------------------------------------------------
(* Failures                                                                *)

Interrupt(u, j, place) ==
    /\ job[u][j] \in Running
    /\ faults < MaxFaults
    /\ faults' = faults + 1
    /\ job' = [job EXCEPT ![u][j] = place]
    /\ Hold(u, j, NoId)
    /\ UNCHANGED <<row, api, secret, overlapped>>

RetriesLeft(u, j) == tries[u][j] < MaxRetries

\* The database does not answer: BaseTask's autoretry.
Retry(u, j) ==
    /\ job[u][j] # "returned"
    /\ RetriesLeft(u, j)
    /\ Interrupt(u, j, "queued")
    /\ tries' = [tries EXCEPT ![u][j] = @ + 1]

GiveUp(u, j) ==
    /\ job[u][j] # "returned"
    /\ ~RetriesLeft(u, j)
    /\ Interrupt(u, j, "free")
    /\ UNCHANGED tries

\* The worker dies: the job is handed out again.
Crash(u, j) ==
    /\ Interrupt(u, j, "queued")
    /\ UNCHANGED tries

RotateSecret ==
    /\ secret < MaxSecret
    /\ secret' = secret + 1
    /\ UNCHANGED <<row, api, worker, overlapped, faults>>

-----------------------------------------------------------------------------
InitiateDeletion(u, q) == CommitDeletion(u, q) \/ DeletionFails(u, q)

DeleteAccount(u, q) ==
    \/ Accept(u, q)
    \/ LoadAccount(u, q)
    \/ InitiateDeletion(u, q)
    \/ SendErasureJob(u, q)
    \/ SendFails(u, q)

EraseUserPii(u, j) ==
    \/ Deliver(u, j)
    \/ ReadAnonymousId(u, j)
    \/ ComputeAnonymousId(u, j)
    \/ CommitAnonymousId(u, j)
    \/ PurgePii(u, j)
    \/ Ack(u, j)

Fault(u, j) == Retry(u, j) \/ GiveUp(u, j) \/ Crash(u, j)

ScanAndDispatch(u) == \E j \in Jobs : DispatchErasureJob(u, j)

Next ==
    \/ \E u \in Users :
          \/ \E q \in Requests : DeleteAccount(u, q)
          \/ ThirtyDaysPass(u)
          \/ ScanAndDispatch(u)
          \/ \E j \in Jobs : EraseUserPii(u, j) \/ Fault(u, j)
    \/ RotateSecret

Spec == Init /\ [][Next]_vars

\* A COMMIT ends somehow, time passes, beat runs, and workers carry on with what is
\* in the queue.
Fairness ==
    \A u \in Users :
        /\ \A q \in Requests : WF_vars(InitiateDeletion(u, q))
        /\ WF_vars(ThirtyDaysPass(u))
        /\ WF_vars(ScanAndDispatch(u))
        /\ \A j \in Jobs : WF_vars(EraseUserPii(u, j))

FairSpec == Spec /\ Fairness

-----------------------------------------------------------------------------
(* Properties                                                              *)

\* DELETE requests that were let in before the account was deleted do not all send
\* the job: one that finds the deletion committed sends none, and so only those send
\* that had loaded the account in one process each.  In a single container that is
\* "enqueued exactly once per account"; in several it may be once for each.  (That
\* one is sent is not promised: see SendFails.)
EnqueuedAtMostProcesses == \A u \in Users : enqueued[u] <= Processes

\* Two jobs that compute the id before either has stored it, with a rotation of the
\* secret between them: only then can one replace the other's id.
Torn(u) == u \in overlapped /\ secret > 1

\* Rule 11: an anonymous id that has been stored is never recomputed, whatever
\* crashes, retries and further jobs come after it, a rotation of the secret
\* included.
AnonymousIdIsStable ==
    [][\A u \in Users : anonId[u] # NoId /\ ~Torn(u) => anonId'[u] = anonId[u]]_vars

\* The placeholder of an erased user is made of the id in the row, which keeps
\* users.email unique, and nothing that names the user is left beside it.
PlaceholderIsTheirs ==
    \A u \in Users :
        placeholder[u] # NoId =>
            /\ ~related[u]
            /\ ~Torn(u) => placeholder[u] = anonId[u]

Erased(u) == placeholder[u] # NoId /\ ~related[u]

phase ==
    [u \in Users |->
        IF Erased(u) THEN "erased"
        ELSE IF anonId[u] # NoId THEN "pseudonymous"
        ELSE IF age[u] = "none" THEN "active"
        ELSE IF age[u] = "recent" THEN "deleted"
        ELSE "due"]

Promise == INSTANCE ErasurePromise WITH Users <- Users, phase <- phase

\* The jobs keep the promise of US-005: nothing before its time, the anonymous id
\* before the purge, and the purge in the end.
PromiseKept == Promise!Spec

\* gdpr_init_service: the job that DELETE /account enqueues has the worker do the
\* purge, with the task name, the queue and the argument as the contract.
SentJobErases == \A u \in Users : enqueued[u] > 0 ~> Erased(u)
=============================================================================
