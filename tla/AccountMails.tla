---------------------------- MODULE AccountMails ----------------------------
(***************************************************************************)
(* Accounts and the notification worker, which meet in the queue           *)
(* "notification": a registration and a reset request each send a message, *)
(* named by the call.  The mails of the grace period have no producer in   *)
(* the repository; Grace are messages with the four arguments they take.   *)
(***************************************************************************)
EXTENDS Accounts, Notification

CONSTANTS Grace,    \* mails of the grace period
          MaxBegun  \* bound on the calls that begin, where one of Grace counts twice

\* enqueue_notification: args=[payload], one dictionary.
EnqueuedArguments == 1

GraceArguments == 4

ArgumentsOf == [m \in Mails |-> IF m \in Calls THEN EnqueuedArguments ELSE GraceArguments]

\* Calls and ids are interchangeable: they are taken in their order.
ASSUME AccountMailsAssumption ==
    /\ Calls \subseteq Nat /\ Ids \subseteq Nat
    /\ Mails = Calls \cup Grace /\ Calls \cap Grace = {}
    /\ Arguments = ArgumentsOf

AllInit == Init /\ MailInit

-----------------------------------------------------------------------------
\* A call that sends a mail puts its message into the queue.
NotifyByMail(c) ==
    /\ Notify(c)
    /\ IF mail'[c] # {} THEN Enqueue(c) ELSE UNCHANGED mailVars

\* The billing that enters the grace period is not in the repository.
EnterGrace(g) == Enqueue(g) /\ UNCHANGED vars

Begun ==
    Cardinality({c \in Calls : place[c] # "idle"})
      + Cardinality(enqueued) + Cardinality(enqueued \cap Grace)

InOrder ==
    /\ \A c, d \in Calls : c < d /\ place[c] = "idle" => place[d] = "idle"
    /\ \A i, k \in Ids : i < k /\ i \in Fresh => k \in Fresh \/ row[i].stored

AllNext ==
    /\ \/ Quiet /\ UNCHANGED mailVars
       \/ \E c \in Calls : NotifyByMail(c)
       \/ \E g \in Grace : EnterGrace(g)
       \/ \E m \in Mails : Worker(m) /\ UNCHANGED vars
    /\ Begun' <= MaxBegun /\ InOrder'

AllSpec == AllInit /\ [][AllNext]_<<vars, mailVars>> /\ Fairness

-----------------------------------------------------------------------------
(* Properties                                                              *)

\* The comment of the worker on its retry policy: "every failure is either a
\* controlled Celery retry or a logged-and-raised SendGridError".
FailuresAreSendGrids ==
    \A m \in Mails : failure[m] \subseteq {"sendgrid"}
=============================================================================
