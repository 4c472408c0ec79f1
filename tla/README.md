# A specification of the P&ID extraction backend

TLA+ modules, TLC runs and TLAPS proofs for the repository's backend (FastAPI,
PostgreSQL, Celery over Redis, Supabase Auth, called GoTrue below) and of the hooks by
which its frontend follows a drawing. Paths are relative to the
repository root; each definition's lines are listed in `PROJECT.json` under `map`.

## 1. The system

| Component | State | Operations | Talks to |
|---|---|---|---|
| Scan worker `backend/app/workers/scan` | `drawing.processing_state` | `scan_drawing` | S3, clamd, Redis pub/sub, queue `ml_inference` |
| Queue policy `workers/base.py`, `celery_app.py` | messages, `request.retries`, unacknowledged deliveries | deliver, acknowledge late, retry, requeue, redeliver | every task |
| Session invalidation: `auth/middleware.py`, `services/password_reset.py`, `services/gdpr_init_service.py`, `auth/supabase_client.py` | `user.token_invalidated_at`, `user.deleted_at`; GoTrue's sessions | `authenticate_request`, `confirm_reset`, `initiate_account_deletion`, `refresh`, `logout` | GoTrue, PostgreSQL |
| Login lockout: `auth/brute_force.py`, `AuthService.login` | Redis key `brute_force:<email>` and its TTL | `is_locked_out`, `record_login_failure`, `clear_failures` | Redis, GoTrue |
| Erasure: `workers/gdpr`, `gdpr_init_service.py` | `user` row (`deleted_at`, `anonymous_id`, e-mail), `audit_log`, `ml_training_consent` | `DELETE /account`, `scan_and_dispatch_erasure_jobs`, `erase_user_pii` | queue `gdpr_erasure` |
| Registration and Google sign-in `services/auth_service.py` | `user`, `subscription`; GoTrue's users | `register`, `oauth_google`, `request_reset` | GoTrue, queue `notification` |
| Consent and profile `services/consent_service.py`, `account_service.py` | `ml_training_consent`, `user` | resolve, `set_user_consent`, profile update | PostgreSQL |
| Symbols and corrections `services/symbol_service.py`, `correction_service.py` | `detected_symbol`, `user_correction`, `drawing.processing_state` | page read, correction, manual symbol | consent, analytics |
| Analytics `analytics/` | Redis list `DEAD_LETTER_KEY` | emit, push, drain | PostHog |
| Caches `redis/cache.py` | flags, taxonomy | set, get (fails open), invalidate | Redis |
| Status stream `redis/pubsub.py`, `frontend/src/hooks`, `frontend/src/api/client.ts` | an `EventSource`, a polling timer, the last state shown | publish, `useSSE`, `usePolling` | Redis, API |
| Notification worker `workers/notification` | – | `_dispatch` and its tasks | SendGrid |
| Frontend session `frontend/src/auth/AuthContext.tsx` | session, last invalidation seen | `getSession`, `onAuthStateChange`, sign in and out | GoTrue, API |
| Build runner `specs/build-plan/run-build.mjs` | `run-state.json`, worktrees | waves, sessions, interruption, resume | git, gh |

Not written in the repository yet, and so not to be modelled: the drawings API, the
ingest, ML and export workers, subscriptions, entity classes and teams
(`api/routers/_stubs.py` answers 501). What sends a scan message and what receives an
ML job is therefore environment.

What is hard about it, and what has to hold:

* **Queues.** A message is acknowledged after its task, so every task may run again
  from the start, after any of its steps, and even beside itself. What a task does
  must come out once: one ML job, one verdict, one anonymous id.
* **Two authorities on one session.** GoTrue issues tokens, the API judges them alone,
  by a column in finer units than the token's issue time. After a reset nothing old may
  be accepted and soon after it everything new must be.
* **Awaits.** A login handler reads the counter, asks GoTrue and writes the counter
  in that order with other handlers in between.
* **Steps that commit one after the other** with a crash in between: verdict and ML job,
  INCR and EXPIRE, deletion and erasure job, anonymous id and purge, GoTrue's user and
  the application's row, RPUSH and LTRIM.
* **Transactions at READ COMMITTED** in threads of their own: what a route has loaded may
  be changed before it writes, and a lock on no row locks nothing.
* **A stream without memory**: an event that is published before its reader subscribes is
  gone, and what comes back late may be about another drawing.

`PROJECT.json` lists under `hazards` every place of that kind with the property that
covers it, or a note on why none does.

Assumed of the deployment: a container of the API is one process with one event loop
(`backend/Dockerfile` starts uvicorn without `--workers`), so what has no `await` in it is
not interrupted by another handler of the container. `SessionInvalidation` and
`LoginLockout` speak of one container; `GdprErasure`, `Corrections`, `Accounts` and
`DeadLetter`, whose hazards are in the tables and lists that containers share, of several,
as the architecture provides for (`specs/Architecture - PID.md:509`). The broker is Redis (`config.py` falls back to `REDIS_URL`), with its
visibility timeout; GoTrue and the API read the same clock.

## 2. The modules

### ScanPipeline: `workers/scan/tasks.py` under `workers/base.py`

A drawing's scan message exists in `Copies`; `at[d][c]` is where one copy is: in the
broker, at one of seven points of `scan_drawing`, or returned and not acknowledged.
`LoadDrawing` is the state check, `ScanStream` the S3 read and clamd's answer, the
`Commit*` and `Publish*` actions the two halves of `_commit_state_and_publish`,
`SendMLJob` the `send_task`. `Retry` and `GiveUp` are what `BaseTask` does with any
exception, `GiveUpOnClamd` what `self.retry(exc=...)` does at the last try: it raises
the exception it was given. `Crash` is requeue on worker loss, `VisibilityTimeout` and
`RetryUnacked` make further copies. clamd's answer may change once
(`SignatureUpdate`). A drawing that is deleted after its message was sent is not
modelled: the repository deletes none.

### SessionInvalidation: `password_reset.py`, `gdpr_init_service.py`, `middleware.py`

One user, GoTrue's sessions and tokens, and the handlers of
`POST /auth/password-reset/confirm` and `DELETE /account`. Time is in ticks,
`TicksPerSecond` of them to a second; `Second` is what the `iat` claim keeps.
`Accepts` is `authenticate_request` for a genuine, unexpired token. Each `await` is a
step of its own; `StampReset`/`CommitReset` (and `StampDeletion`/`CommitDeletion`) are
the reading of the clock and the end of the COMMIT, between which `LoopFree` keeps other
*handlers* out while the clock and GoTrue go on. `now > read[r]` in `StampReset` says
that the answer of GoTrue takes a tick to arrive: the sign-out has taken effect before
the tick in which the column's time is read. `Abandon` is a handler that dies anywhere.

### LoginLockout: `brute_force.py`, `AuthService.login`

One address and the requests under way. Each Redis command and the call of GoTrue is an
action; `Fail` stops a request anywhere (Redis, GoTrue or the process), and
`FailAfterIncr` stops it when INCR is done but its answer is lost. `KeyExpires` is Redis.

### GdprErasure and ErasurePromise: `workers/gdpr`, `gdpr_init_service.py`

`ErasurePromise` is what US-005 promises a user: active, deleted, due, pseudonymous,
erased, in this order, each once, and to the end. `GdprErasure` is how the code does
it: `DELETE /account` requests (`Accept`, `LoadAccount`, `CommitDeletion` or
`DeletionFails`, `SendErasureJob`, `SendFails`), the beat task (`DispatchErasureJob`, for
every due user at every run) and jobs in two transactions (`ReadAnonymousId` or
`ComputeAnonymousId` and `CommitAnonymousId`, then `PurgePii`), with `Retry`, `GiveUp`,
`Crash` and `RotateSecret`. An anonymous id is the version of the secret it was computed with: that
is all that makes two ids of a user differ. The user row, `audit_log` and
`ml_training_consent` change in one COMMIT and are two variables.
`Promise == INSTANCE ErasurePromise` takes `phase`, which is computed from the row.
Between the SELECT of the account, which locks nothing, and the COMMIT the handler has no
`await`: one request of a process can be there at a time (`ProcessFree`), and `Processes`
of them side by side (`Loaded`), each of which then commits and sends its job.
`BeatScheduled` is a constant, since the repository has the task but no schedule.

### Corrections: `correction_service.py`, `symbol_service.py`, `consent_service.py`

One drawing, its symbols, the corrections made of them and the consent records of users
and teams. FastAPI runs the symbol routes, which are plain functions, in threads: each
SQL statement is an action, what a transaction writes appears at its `Commit`, and
`HoldsDrawing` and `HoldsSymbol` are the row locks that other UPDATEs wait for. The
statements of a correction are `Load` (symbol, drawing, access),
`ResolveTrainingConsent`, `TransitionToUnderReview` (the conditional UPDATE), `Flush` and
`Commit`; those of a page `Load`, `CountSymbols`, `ReadPage` and `ReadCorrections`.
`Applied` and `Writes` are what SQLAlchemy makes of an assignment: an attribute that is set
to what it was is not written. The session does not flush by itself (`autoflush=False`),
so the UPDATE of the symbol comes with the INSERT. `PATCH /account/consent` is a coroutine
without an await; `Processes` of them run at a time, as `SelectForUpdate` and then
`PatchConsent` or `PatchFails`. `ConsentOf` is
`_resolve_training_consent` of `correction_service.py`: the record of the drawing's owner,
user or team. `consent_service` has another resolution for a user, by the record of the team
first, which no code calls for a correction; `TeamDecides` says where they may differ.
`Over` lets the model stutter when no call is under way, so
that a deadlock is a call that waits for good. A page is asked for without filters and
has all symbols.

### DeadLetter, EventDelivery and CorrectionEvents: `analytics/`

`DeadLetter` is the Redis list of the events that PostHog did not take. `Emit` hands an
event over or fails, `Push` is RPUSH and then LTRIM, each of which may fail (the client
retries no command by itself: `redis ^5`); `RetryDeadLetter` is LLEN, and then LPOP, send
and, when refused, RPUSH for each entry it counted. An answer may be lost after Redis has
acted (`PopReplyLost`), and a drain may crash with an entry in its hand. Entries are
well-formed, for only `push_to_dead_letter` writes them. Nothing schedules
`retry_dead_letter` in the repository; it runs whenever it likes.

`EventDelivery` is what an event may expect: it is delivered at once or kept, a kept one
may be delivered later, and delivered and lost are final; a fault loses one event at most,
and any other loss leaves as many kept events behind as the cap allows. `fate` computes
the state of an event from its place in the queue, the hands of the drains and the
counters; an event that PostHog has taken twice is "duplicated", a state that
`EventDelivery` does not have. `DeliveryKept` says that the queue implements it.

`CorrectionEvents` composes `Corrections` and `DeadLetter`: after its COMMIT a correction emits one event, named by
the call, before it answers. The other events are those that the queue has to begin with.

### Accounts: `auth_service.py`, `account_service.py`

GoTrue's users and the application's rows, which no transaction spans. `CheckAddress`,
`SignUp` (or `SignUpAnswerLost`), `CommitRegistration` and `SendVerification` are
`register`; `GoogleTokens`, `GoogleSelect` and `GoogleInsert` are `oauth_google`; `SignIn` and
`FindAccount` a login by password, without the lockout; `FindResetUser` and `SendReset` the
reset request. `PatchAccount`, `DeleteAccount` and `EraseAccount` are the rest of an
account's life. Facts of the code that the model keeps: a row of a password account has the
sentinel `SUPABASE_MANAGED` for a hash; a deleted row keeps its address under UNIQUE until it
is erased; PATCH changes the address of the row only, so that afterwards neither address
logs in; nothing sets `email_verified` for an account with a password.

### Notification, and AccountMails: `workers/notification`

`Notification` is the four mail tasks of the worker and their message: `Start`, the classes
of SendGrid's answers (`Accepted`, `Refused`, `TryAgain`, `AnswerLost`), `Retry` up to
`MaxRetries`, late acknowledgement, `Crash`, `RetryUnacked`, `VisibilityTimeout` (a
`Retry-After` of an hour holds a message as long as Redis does). `AccountMails` composes it
with `Accounts`: the call that notifies enqueues the message, with the one argument that
`enqueue_notification` passes. Mails of the grace period have no producer in the
repository; they are sent by `EnterGrace` with the four arguments that the tasks take.

### StatusStream: `redis/pubsub.py`, `useSSE.ts`, `usePolling.ts`, `client.ts`

Drawings with the versions of their state, the channel, the `EventSource` and the polls.
`CommitState` and `Publish` are the worker's; `OnOpen`, `OnMessage`, `OnTimer` and
`OnError` the stream and its fallback; `Ask`, `StreamEnds`, `PollFails` and `Arrive` a poll,
several of which may be under way. `Show` is a change of the URL with the cleanups and
effects of both hooks. The handler of `GET /drawings/:id/status` is not written yet; it is
environment, and does what its brief asks: `Greet` sends the state of the row as the first
event (S2-B, US-008 AC-1), `Subscribe` is the start of `subscribe_drawing_status`, which
subscribes when it is first iterated.

The fallback polls the URL of the stream, with `apiClient.get`, which awaits the text of the
whole response (`client.ts:134`). An event stream stays open, so nothing makes a poll
settle; if the stream is torn down, the poll has its text, which `parseBody` returns as it
is. `polled` therefore holds no status at all, only of which drawing the text is.

Three things hold by the code and are kept: what is published before the subscription is
lost, and nothing recovers it while the stream is open; `data` of either hook is not reset
when the URL changes; a hook that polls does so until another drawing is shown.

## 3. The runs

| Run | Instance | Properties |
|---|---|---|
| `scan_pipeline` | one drawing, three copies, 3 retries, 2 faults | `AtMostOneMLJob`, `MLJobOnlyAfterCommit`, `PublishedStateIsStored`, `VerdictIsFinal`, `ScanEnds` |
| `session_invalidation` | two sessions, two resets, two deletions, four ticks of half a second | `OldSessionsRejected`, `NewSessionsAccepted`, `RejectedForGood` |
| `login_lockout` | three logins at a time, threshold 5, 2 failed requests | `GuessesAreBounded`, `CounterWillExpire`, `LockoutEnds` |
| `gdpr_erasure` | one user, three requests in two processes, two jobs, 1 retry, 3 faults, one rotation | `EnqueuedAtMostProcesses`, `PlaceholderIsTheirs`, `AnonymousIdIsStable`, `PromiseKept` |
| `corrections` | two users of a team, two symbols, three calls in all of the routes or the consent, two processes, one drain, a queue of two, one fault | `LastCorrectionStands`, `FirstCorrectionMovesDrawing`, `PageIsExplained`, `OptOutIsRespected`, `RecordsAtMostProcesses`, `EventIsInOnePlace`, `QueueIsBounded`, `OncePerCall`, `EventsFollowCommits`, `DeliveryKept` |
| `account_mails` | three calls, two addresses, three ids, one fault; two copies of a message, 2 retries, one fault | `OrphansAreExplained`, `NoSilentMerge`, `AnswerNamesItsUser`, `VerifiedAddressIsGoTrues`, `MailsAreExplained`, `MailSettles` |
| `status_stream` | two drawings with three versions, two polls, two switches, one failed poll | `StatusArrives`, `LateAnswersAreDropped` |

and `TypeOK` in each. Five more runs show what a document says and the code does not do:

* `scan_unreachable`: with clamd out of reach the drawing stays in `Scanning`; the
  handler that would store `Failed` waits for an exception that is not raised
  (`tasks.py:171`). Its test replaces `retry` by a mock that raises it.
* `scan_lost_ml_job`: a worker that dies between the commit of `Processing` and
  `send_task` leaves a drawing that no redelivery touches (`tasks.py:150`, `193`).
* `lockout_cleared`: a login admitted at four failures clears the counter after a
  concurrent fifth has locked the account (`auth_service.py:473`).
* `gdpr_sent_job`: the job that `DELETE /account` sends names a task that no worker
  registers (`gdpr_init_service.py:46`, `gdpr/tasks.py:46`).
* `mail_signature`: a verification or reset mail is sent to its task with one argument
  instead of four, and fails with a `TypeError` before SendGrid is asked
  (`auth_service.py:282`, `notification/tasks.py:177`).

Where else documents and code disagree, found while modelling. No run is about these alone;
the passing properties are stated so that they hide none of them:

* *One job per deletion.* `gdpr_init_service.py:69-71` and US-005 say that the erasure job is
  enqueued exactly once. The check at line 78 reads a row that is not locked: two processes
  let in a request each and send two jobs. `EnqueuedAtMostProcesses` is what holds; with the
  one container of the first phase (`specs/Architecture - PID.md:100`) it is the claim.
* *Whose consent.* `consent_service.py:3-14` and the S2-F brief say that a correction takes
  `resolve_training_consent`, where the consent of the user's team wins unconditionally.
  `correction_service.py:57-73` does not import it and asks the owner of the drawing. So a
  personal drawing of a team member follows his own record. Nothing in the repository writes
  a team's record; `OptOutIsRespected` is stated where the owner's team has none
  (`TeamDecides`), and says nothing of which of the two should win.
* *One consent record.* "Exactly one record per user is maintained"
  (`consent_service.py:107`): two first opt-ins in two processes find no row to
  lock and insert two records, and which of them a correction reads is up to the database.
  `RecordsAtMostProcesses` is the bound that does hold, and `OptOutIsRespected` is stated
  for an owner with one record.
* *Verified addresses.* US-001, Scenario 2, and S2-A AC-5 have an account with a password
  verified by the link of its mail, and `tests/integration/test_auth_endpoints.py:235` starts from
  such an account. The code sets `email_verified` to FALSE at registration
  (`auth_service.py:401`), to TRUE for Google (`:535`), and to FALSE when PATCH moves the
  address; nothing ever sets it for a password. The model has the code's assignments, and
  `VerifiedAddressIsGoTrues` speaks of whatever row is marked, whoever marked it.
* *The polling fallback.* `useSSE.ts:5-9`, the S1-F brief and `specs/Architecture - PID.md:658` rely
  on polls of the same URL for the status. That URL is specified as an open
  `text/event-stream` (`endpoints.ts:39`, `_stubs.py:114`, S2-B US-008 AC-1), whose text
  never comes. In the model a hook that has fallen back shows no status, so no property
  promises one: `StatusArrives` ends where polling begins. An `EventSource`
  sends no `Authorization` header either, which the endpoint asks for (AC-5): `OnError` is
  then what every stream meets.

**Bounds.** Nothing an action does to one drawing, address or user depends on another,
so one is enough. Three copies allow a retry beside two redeliveries; two faults make
them. Three deletion requests in two processes let one come when two have been let in.
Three logins put a guess, a right password and an EXPIRE side by side, and the
threshold is the code's own; two failed requests lose one guess and one EXPIRE. Two ticks to
the second are what the comparison of the column with `iat` can tell apart, and four
ticks put a token before, in and after the second of a reset, with a second reset
behind it. Two jobs are what can overlap in `ensure_anonymous_id`; one retry and three
faults reach `GiveUp` after a crash. In `corrections`, three begun calls (of routes, consent
or drain; one whose event failed counts as two) put any two transactions beside a third
that has begun before or after them; a queue of two is full at once. Three ids are one for
each call, and two addresses let one move while the other is registered. Two retries
instead of the code's three reach the end of the retries after one has been doubled. Three
versions put one before the first event, one between it and the subscription, and one behind. `MaxBegun`, `MaxPatches`, `MaxSwitches`, `MaxFaults`, `MaxTime` and `MaxSecret` bound
counters that the code does not have.

**Exceptions in the properties** are what the code does not promise, and each one is a
named condition: a copy of the message (`duplicated`), a lost `EXPIRE` (`orphaned`), a
guess that could not be counted (`lost`), two jobs computing at once while the secret
is rotated (`Torn`), a call that loaded the symbol before an earlier correction was
committed (`LastCorrectionStands`: its restore may have had nothing to write), an owner with
two records or whose team has one (`TeamDecides`), a queue that somebody else has cut (`cut`), entries whose LTRIM has failed or
that a drain has put back (`QueueIsBounded`), an address that PATCH has moved
(`moved`: `AnswerNamesItsUser`, `OrphansAreExplained`), any call that has failed half-way
(`faults > 0`: `OrphansAreExplained`, which therefore speaks of races only), a hook that polls
(`StatusArrives`). None of these holds in a run without the fault it is about.

**Fairness.** `ScanPipeline`: a worker goes on with a message it can work on
(`WF(Worker)`), as Celery workers consume until stopped; faults and new signatures
have none. `LoginLockout`: an accepted request is carried on and Redis keeps its time;
nobody has to log in, and no request has to fail. `GdprErasure`: a COMMIT ends,
thirty days pass, beat runs if it is scheduled, workers go on; nobody has to delete an account.
`Notification`: workers take what is queued and the request to SendGrid ends somehow. The
client has no timeout of its own, so this rests on SendGrid or TCP ending the connection;
which answer it is, is not assumed. `StatusStream`: the timer of `useSSE` runs, the handler of
an accepted request sends its first event, and an open stream delivers what is on it. A
stream does not have to open, a version does not have to be published, and no poll has to
settle. `Corrections`, `DeadLetter` and `Accounts` have no liveness
properties and no fairness.
Crashes stop after `MaxFaults`: liveness is claimed for a system that is left to work in the end.

`CHECK_DEADLOCK FALSE` stands where the system may stop: when every message is
acknowledged, when the clock has reached `MaxTime`, when nobody deletes an account, when
all calls are answered and all mails settled, and when nothing is shown any more. `LoginLockout` and
`Corrections` are checked for deadlock: no call waits for good for another's lock.
Symmetry is used in `corrections` only, which has invariants and one action property
(`DeliveryKept`, which has no fairness) and no liveness property.

## 4. The proofs

For every value of the constants, under the named assumptions of each module:

| Module | Theorems |
|---|---|
| `ScanPipelineProofs` | `TypeCorrect`, `MLJobSentAtMostOnce`, `MLJobFollowsCommit`, `PublishedIsStored`, `VerdictFinal`, `ScanKept`, `ScanRunsDown`, `LostMLJobStaysLost` |
| `SessionInvalidationProofs` | `TypeCorrect`, `ResetRejectsOldSessions`, `NewTokensAccepted`, `RejectionIsFinal` |
| `LoginLockoutProofs` | `TypeCorrect`, `CounterExpires`, `GuessesBounded`, `LockoutWithoutTtlLasts` |
| `GdprErasureProofs` | `TypeCorrect`, `JobsSentAtMostProcesses`, `JobSentAtMostOnce`, `PlaceholderCorrect`, `AnonymousIdStable`, `PromiseSafety`, `SentJobsEraseNobody` |
| `DeadLetterProofs` | `TypeCorrect`, `NoEntryTwice`, `EventsAreConserved`, `QueueStaysBounded`, `EventsDelivered` |
| `CorrectionsProofs` | `TypeCorrect`, `FewRecords`, `OptOutStands`, `OneCorrectionMoves`, `CorrectionsStand`, `LocksExclude`, `LockedRows`, `PagesAreExplained`, `CorrectionsAlone`, `EventsAlone`, `EventsFollow` |
| `AccountMailsProofs`, accounts | `TypeCorrect`, `OrphansExplained`, `NeverMerged`, `AnswersNameTheirUser`, `VerifiedAddresses`, `MailsNameTheirUser` |
| `AccountMailsProofs`, mails | `MailTypeCorrect`, `MailsExplained`, `MailNotForgotten`, `RetriesRunDown` |
| `AccountMailsProofs`, both | `AccountsAlone`, `MailsAlone`, `MailsFollow`, `CallsAreNeverMailed` |
| `StatusStreamProofs` | `TypeCorrect`, `ScreenNeverAhead`, `OneSource`, `LateAnswersDropped`, `LastStatusNotLost` |

Every invariant and every action property that a passing run checks is stated by one of
them, except the liveness properties named below. Each rests on one inductive invariant, those of `CorrectionsProofs` on one for each of the
things they speak of (consent, drawing, rows, page, events).

* *Scan.* The properties say nothing of a task half-way. The invariant adds, for a
  drawing without copies, that at most one copy is not free and what the row, the
  events and the ML jobs are at each of its places, so that the state check can be
  shown to pass only before the first commit. `ScanKept` needs of it only that a copy
  past the commit has found the row out of `Scanning`; `ScanRunsDown` ranks a copy by the
  retries it has left and then by its place (`Left`).
* *Sessions.* The column is never later than the clock; a handler that has signed out
  holds sessions that are revoked and whose tokens are all from at or before the time it
  holds; at most one handler is between its clock reading and its COMMIT, and what it
  holds is not earlier than the column. With `Second(t) <= t < Second(t) +
  TicksPerSecond` (lemma `SecondBounds`) this gives both directions of the comparison.
* *Lockout.* A wrong password is on its way to the counter, counted, or lost
  (`GuessesAreCounted`), and the admitted requests may add one guess each
  (`AdmittedAreBounded`); the admitted and those on their way are at most all requests.
  The lemmas count the requests at a place as one of them moves.
  `LockoutWithoutTtlLasts` is about the exception of `LockoutEnds`: with the EXPIRE lost and
  nobody admitted, only an INCR can still reach the key, and none of them answers 1.
* *Erasure.* Requests between the load of the account and their job, and jobs sent, are
  together at most as many as the processes, and after the COMMIT no request is let in; jobs exist for due accounts
  only; ids come from deployed secrets; unless the id is torn, what a job purges with is
  the id in the row. `PromiseSafety` maps initial states to initial states and every step
  to a step of `ErasurePromise` or a stutter. `SentJobsEraseNobody` is
  the run `gdpr_sent_job` for every instance.
* *Dead letters.* Events are in one of five sets that are disjoint (waiting, queued, in
  hand, taken, lost) and each is in its set once. For the one call (`Ahead`): as long as nobody
  has cut the queue, the next `left` entries of it are none that the drain has taken. The
  bound counts the emitters before their LTRIM and the drains with an entry in hand.
  `EventsDelivered` maps each step to one of `EventDelivery`: a command that is answered
  leaves every fate alone but that of its event, and a trim that cuts the queue leaves
  `Cap` entries, which are all kept (`TrimRefines`).
* *Corrections.* The consent records of a user have one updater at a time, and who inserts
  has begun while there was none (`LocksHold`, `RecordsAndInserts`). What a call has found of
  the drawing stays so until it ends, for it holds the row. A loaded column is that of the row,
  unless a correction of that column has been committed since (`Loaded`).
  A call keeps the row of a symbol from its UPDATE to the end of its transaction, and nobody
  else writes there (`LocksExclude`, `LockedRows`). What a
  history explains, a longer one does. `CorrectionsAlone` and `EventsAlone` show that the composition
  implements its two parts, so that the theorems about each hold of it.
* *Accounts.* GoTrue's addresses are unique and never forgotten, and a row has another than
  GoTrue's for its id only if one of both was moved; answers never change once given. A
  mail names a user with its address for the same reason (`MailsNameTheirUser`).
* *Mails.* What SendGrid has accepted of a message and the copies that are still live are
  at most one more than its faults, so that each acceptance is paid for. A message without a
  live copy was accepted or failed (`MailNotForgotten`), and each step of a copy takes it down
  in a rank of its retries and its place (`RetriesRunDown`). `AccountsAlone` and `MailsAlone` carry
  both halves over to the composition; `MailsFollow` ties a mail to the call that answered for
  it, and `CallsAreNeverMailed` is the run `mail_signature` for every instance.
* *Status stream.* A hook has a stream or polls for a drawing only while it shows it
  (`Mounted`); a poll whose effect is still active is about the drawing shown (`Asked`); no
  version is on its way anywhere before it is in the row (`Committed`). `LastStatusNotLost`
  follows the last version along the wire: an append and a read leave it where it is, or one
  place further on.

Only model-checked: `ScanEnds`, `LockoutEnds`, `MailSettles`, `StatusArrives` and the
liveness half of `PromiseKept`, for the prover has no ENABLED and so no fairness; and that the
five violation runs reach their counterexamples. What of them needs no fairness is proved:

| Liveness | Safety half | Why it comes to an end |
|---|---|---|
| `ScanEnds` | `ScanKept`: somebody is left to scan | `ScanRunsDown` |
| `MailSettles` | `MailNotForgotten`: somebody is left to send | `RetriesRunDown` |
| `LockoutEnds` | `CounterExpires`: a TTL is set or about to be | Redis (fairness) |
| `StatusArrives` | `LastStatusNotLost`: what is on its way is shown, or the stream is left | first event, delivery and timer (fairness) |
| `PromiseKept` | `PromiseSafety`: the order of the phases | beat and workers (fairness) |

The last step, from the rank to the end, is an induction over data and a fairness argument:
it is left to TLC.

## 5. Abstractions

Payloads, names, headers, logging, audit writes (best-effort, nothing reads them),
countdowns and backoff (a retry may run at any time), S3 (its failure is an exception
like any other), signature and issuer checks (tokens are genuine), and permissions (a
constant table). A COMMIT is one step: it has happened or not.
PostgreSQL is its row locks and constraints at READ COMMITTED; SQLAlchemy is what it writes
and when. Display names, filters, paging, mail templates and links are left out.

## 6. Not modelled

* Feature-flag and taxonomy cache: single Redis commands that fail open, and no code that
  calls the writers.
* Frontend session state: its hazard (`AuthContext.tsx:66`) is in the order in which
  supabase-js, a library, resolves `getSession` and calls its listeners.
* Build runner: a tool that builds the repository, not a part of the system.
* Object storage: wrappers of single S3 calls and pure functions.
* Stub routers, and the workers and tables that are not written yet; the team invitation
  mail, which raises `NotImplementedError`.
* Pages, marketing site, deployment.

Left to do: a composition of `ScanPipeline` with the publishing end of `StatusStream`.
