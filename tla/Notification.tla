---------------------------- MODULE Notification ----------------------------
(***************************************************************************)
(* The notification worker: Celery tasks that hand one mail each to        *)
(* SendGrid, over a broker that may hand out a message again.              *)
(*                                                                         *)
(* A message is acknowledged when its task is over (acks_late); until then *)
(* the death of its worker (reject_on_worker_lost) or the visibility       *)
(* timeout of the broker brings it back, next to a copy that is still      *)
(* under way.  copy[m][j] is one of the copies of message m: "free",       *)
(* "queued" (a retry that waits for its countdown is queued too),          *)
(* "sending" (the task runs) or "done" (over and not acknowledged).        *)
(*                                                                         *)
(*   enqueued  messages that a producer has sent                           *)
(*   tries     request.retries of each copy                                *)
(*   accepted  how often SendGrid has accepted the mail of each message    *)
(*   failure   why a task of the message has ended in FAILURE              *)
(*   mailFaults  crashes, lost answers and visibility timeouts of a        *)
(*               message (history)                                         *)
(***************************************************************************)
EXTENDS Naturals, FiniteSets

CONSTANTS Mails,       \* messages of the notification queue
          Copies,      \* names for the copies of one message
          Arguments,   \* how many positional arguments its producer has passed
          MaxRetries,  \* MAX_RETRIES
          MaxMailFaults  \* bound on the faults of one message

ASSUME NotificationAssumption ==
    /\ IsFiniteSet(Copies) /\ Copies # {}
    /\ Arguments \in [Mails -> Nat]
    /\ MaxRetries \in Nat
    /\ MaxMailFaults \in Nat

VARIABLES enqueued, copy, tries, accepted, failure, mailFaults

mailVars == <<enqueued, copy, tries, accepted, failure, mailFaults>>

MailTypeOK ==
    /\ enqueued \subseteq Mails
    /\ copy \in [Mails -> [Copies -> {"free", "queued", "sending", "done"}]]
    /\ tries \in [Mails -> [Copies -> 0..MaxRetries]]
    /\ accepted \in [Mails -> Nat]
    /\ failure \in [Mails -> SUBSET {"sendgrid", "signature"}]
    /\ mailFaults \in [Mails -> 0..MaxMailFaults]

MailInit ==
    /\ enqueued = {}
    /\ copy = [m \in Mails |-> [j \in Copies |-> "free"]]
    /\ tries = [m \in Mails |-> [j \in Copies |-> 0]]
    /\ accepted = [m \in Mails |-> 0]
    /\ failure = [m \in Mails |-> {}]
    /\ mailFaults = [m \in Mails |-> 0]

-----------------------------------------------------------------------------
(* Helpers                                                                 *)

\* What a task takes besides itself: user_id, email, display_name, and the token or
\* the end of the grace period.
Parameters == 4

Move(m, j, from, to) ==
    /\ copy[m][j] = from
    /\ copy' = [copy EXCEPT ![m][j] = to]

MailFault(m) ==
    /\ mailFaults[m] < MaxMailFaults
    /\ mailFaults' = [mailFaults EXCEPT ![m] = @ + 1]

Accept(m) == accepted' = [accepted EXCEPT ![m] = @ + 1]

FailWith(m, why) == failure' = [failure EXCEPT ![m] = @ \cup {why}]

-----------------------------------------------------------------------------
(* Plausible bugs, each paired with the property it breaks.                *)

\* Only 200 is a success, and SendGrid answers 202.
Accepted_Retried(m, j) ==
    /\ tries[m][j] < MaxRetries
    /\ Move(m, j, "sending", "queued")
    /\ tries' = [tries EXCEPT ![m][j] = @ + 1]
    /\ Accept(m)
    /\ UNCHANGED <<enqueued, failure, mailFaults>>

\* The retry is a new message, apply_async() in place of retry(): nothing counts it.
Retry_NotCounted(m, j) ==
    /\ Move(m, j, "sending", "queued")
    /\ UNCHANGED <<tries, failure>>

-----------------------------------------------------------------------------
(* The producer                                                            *)

Enqueue(m) ==
    /\ m \notin enqueued
    /\ enqueued' = enqueued \cup {m}
    /\ \E j \in Copies : Move(m, j, "free", "queued")
    /\ UNCHANGED <<tries, accepted, failure, mailFaults>>

-----------------------------------------------------------------------------
(* send_verification_email, send_password_reset_email, send_grace_*_email  *)

\* The task is called with the arguments of the message.  One that does not take
\* them raises TypeError, which autoretry_for=() does not retry.
Start(m, j) ==
    /\ IF Arguments[m] = Parameters
       THEN Move(m, j, "queued", "sending") /\ UNCHANGED failure
       ELSE Move(m, j, "queued", "done") /\ FailWith(m, "signature")
    /\ UNCHANGED <<enqueued, tries, accepted, mailFaults>>

\* _dispatch: 2xx.
Accepted(m, j) ==
    /\ Move(m, j, "sending", "done")
    /\ Accept(m)
    /\ UNCHANGED <<enqueued, tries, failure, mailFaults>>

\* 4xx except 429: the SendGridError leaves the task.
Refused(m, j) ==
    /\ Move(m, j, "sending", "done")
    /\ FailWith(m, "sendgrid")
    /\ UNCHANGED <<enqueued, tries, accepted, mailFaults>>

RetriesLeft(m, j) == tries[m][j] < MaxRetries

\* task.retry(): the message goes back with one more retry, and the task ends in
\* RETRY; or raises the SendGridError, when the retries are used up.
Retry(m, j) ==
    IF RetriesLeft(m, j)
    THEN /\ Move(m, j, "sending", "queued")
         /\ tries' = [tries EXCEPT ![m][j] = @ + 1]
         /\ UNCHANGED failure
    ELSE /\ Move(m, j, "sending", "done")
         /\ FailWith(m, "sendgrid")
         /\ UNCHANGED tries

\* 429, 5xx, or no answer to a request that did not arrive.
TryAgain(m, j) ==
    /\ Retry(m, j)
    /\ UNCHANGED <<enqueued, accepted, mailFaults>>

\* SendGrid has accepted the mail, and its answer is lost: SendGridError(None).
AnswerLost(m, j) ==
    /\ Retry(m, j)
    /\ Accept(m)
    /\ MailFault(m)
    /\ UNCHANGED enqueued

-----------------------------------------------------------------------------
(* BaseTask and the broker                                                 *)

Ack(m, j) ==
    /\ Move(m, j, "done", "free")
    /\ tries' = [tries EXCEPT ![m][j] = 0]
    /\ UNCHANGED <<enqueued, accepted, failure, mailFaults>>

\* The worker dies before the message is acknowledged: it is requeued.
Crash(m, j) ==
    /\ copy[m][j] \in {"sending", "done"}
    /\ copy' = [copy EXCEPT ![m][j] = "queued"]
    /\ MailFault(m)
    /\ UNCHANGED <<enqueued, tries, accepted, failure>>

\* The worker dies between publishing the retry and acknowledging the message that
\* it retries: both are in the queue.
RetryUnacked(m, j, k) ==
    /\ copy[m][j] = "sending" /\ RetriesLeft(m, j)
    /\ copy[m][k] = "free"
    /\ copy' = [copy EXCEPT ![m][j] = "queued", ![m][k] = "queued"]
    /\ tries' = [tries EXCEPT ![m][k] = tries[m][j] + 1]
    /\ MailFault(m)
    /\ UNCHANGED <<enqueued, accepted, failure>>

\* A message that is held longer than the visibility timeout is handed out again,
\* while it still runs, or waits at its worker for the end of its countdown.
VisibilityTimeout(m, j, k) ==
    /\ copy[m][j] \in {"sending", "done"} \/ (copy[m][j] = "queued" /\ tries[m][j] > 0)
    /\ copy[m][k] = "free"
    /\ copy' = [copy EXCEPT ![m][k] = "queued"]
    /\ tries' = [tries EXCEPT ![m][k] = tries[m][j]]
    /\ MailFault(m)
    /\ UNCHANGED <<enqueued, accepted, failure>>

-----------------------------------------------------------------------------
Dispatch(m, j) == Accepted(m, j) \/ Refused(m, j) \/ TryAgain(m, j) \/ AnswerLost(m, j)

Worker(m) ==
    \E j \in Copies :
        \/ Start(m, j) \/ Dispatch(m, j) \/ Ack(m, j) \/ Crash(m, j)
        \/ \E k \in Copies : RetryUnacked(m, j, k) \/ VisibilityTimeout(m, j, k)

MailNext == \E m \in Mails : Enqueue(m) \/ Worker(m)

\* Workers take what is queued, SendGrid or the connection to it gives some answer,
\* and a task that is over is acknowledged.
Progress(m, j) == Start(m, j) \/ Dispatch(m, j) \/ Ack(m, j)

Fairness == \A m \in Mails, j \in Copies : WF_mailVars(Progress(m, j))

MailSpec == MailInit /\ [][MailNext]_mailVars /\ Fairness

-----------------------------------------------------------------------------
(* Properties                                                              *)

Live(m) == {j \in Copies : copy[m][j] \in {"queued", "sending"}}

\* The retry policy sends no mail twice: SendGrid accepts the mail of a message once,
\* and once more for each crash, lost answer or visibility timeout.
MailsAreExplained == \A m \in Mails : accepted[m] <= 1 + mailFaults[m]

Settled(m) ==
    /\ \A j \in Copies : copy[m][j] = "free"
    /\ accepted[m] > 0 \/ failure[m] # {}

\* Every message is over some time: it leaves no copy in the queue, and either
\* SendGrid has accepted its mail or a task has ended in FAILURE.
MailSettles == \A m \in Mails : m \in enqueued ~> Settled(m)
=============================================================================
