------------------------ MODULE SessionInvalidation ------------------------
(***************************************************************************)
(* One user's sessions: GoTrue issues access tokens, the API accepts or    *)
(* rejects them on its own, and the column user.token_invalidated_at is    *)
(* all that ties the two.  A password reset and an account deletion both   *)
(* write it; what is at stake is that no token from before is accepted     *)
(* after, although a token carries the whole second it was issued in and   *)
(* the column holds a finer time.                                          *)
(*                                                                         *)
(* Time is counted in ticks, TicksPerSecond of them in a second; a call to *)
(* GoTrue takes at least one.  GoTrue and the API read the same clock.     *)
(*                                                                         *)
(*   session        what GoTrue knows of each session                      *)
(*   tokens         the unexpired access tokens, with the tick of issue    *)
(*   invalidatedAt  user.token_invalidated_at, 0 when NULL                 *)
(*   deleted        user.deleted_at is not NULL                            *)
(*   place          where each request's handler is                        *)
(*   read           the time it last read: of its sign-out, then now()     *)
(*   revoked        the sessions its sign-out has ended                    *)
(*   doomed         (history) sessions ended by a reset that is complete   *)
(*                                                                         *)
(* The user has a row: without one the API accepts no token at all.        *)
(***************************************************************************)
EXTENDS Integers

CONSTANTS Sessions,        \* session ids
          Resets,          \* POST /auth/password-reset/confirm requests
          Deletions,       \* DELETE /account requests
          TicksPerSecond,
          MaxTime          \* bound on the clock

ASSUME TimeAssumption ==
    /\ TicksPerSecond \in Nat \ {0}
    /\ MaxTime \in Nat
    /\ Resets \cap Deletions = {}

VARIABLES now, session, tokens, invalidatedAt, deleted,
          place, read, revoked, doomed

vars == <<now, session, tokens, invalidatedAt, deleted,
          place, read, revoked, doomed>>

goTrue  == <<session, tokens>>
user    == <<invalidatedAt, deleted>>
locals  == <<read, revoked>>

Requests == Resets \cup Deletions

Time == 0..MaxTime

Token == [session : Sessions, issued : Time]

(***************************************************************************)
(* The awaits of the two handlers.  "stamped" is not one of them: between  *)
(* reading the clock and the end of the COMMIT a handler keeps the event   *)
(* loop of the API process to itself.                                      *)
(***************************************************************************)
Place == { "idle",
           "changed",        \* reset: GoTrue has the new password
           "authenticated",  \* deletion: its token was accepted
           "signedOut",      \* reset: admin_sign_out has returned
           "stamped",        \* now() read, COMMIT under way
           "committed",      \* deletion: committed, sessions not signed out
           "done", "failed" }

TypeOK ==
    /\ now \in Time
    /\ session \in [Sessions -> {"none", "live", "revoked"}]
    /\ tokens \in SUBSET Token
    /\ invalidatedAt \in Time
    /\ deleted \in BOOLEAN
    /\ place \in [Requests -> Place]
    /\ read \in [Requests -> Time]
    /\ revoked \in [Requests -> SUBSET Sessions]
    /\ doomed \in SUBSET Sessions

-----------------------------------------------------------------------------
Init ==
    /\ now = 0
    /\ session = [s \in Sessions |-> "none"]
    /\ tokens = {}
    /\ invalidatedAt = 0
    /\ deleted = FALSE
    /\ place = [q \in Requests |-> "idle"]
    /\ read = [q \in Requests |-> 0]
    /\ revoked = [q \in Requests |-> {}]
    /\ doomed = {}

Goto(q, from, to) ==
    /\ place[q] = from
    /\ place' = [place EXCEPT ![q] = to]

\* The handler is over, and its local variables with it.
Return(q, from, outcome) ==
    /\ Goto(q, from, outcome)
    /\ read' = [read EXCEPT ![q] = 0]
    /\ revoked' = [revoked EXCEPT ![q] = {}]

\* The iat claim: the tick at which the second of t began.
Second(t) == t - (t % TicksPerSecond)

-----------------------------------------------------------------------------
(* Plausible bugs, each paired with the property it breaks.                *)

\* Rounds the column down to whole seconds before it compares.
Accepts_Rounded(token) ==
    /\ ~deleted
    /\ ~(Second(token.issued) < Second(invalidatedAt))

\* Rejects what was issued in the second after the stamp as well.
Accepts_Strict(token) ==
    /\ ~deleted
    /\ ~(Second(token.issued) < invalidatedAt + TicksPerSecond)

\* An await between now() and the COMMIT gives the loop away.
LoopFree_Always == TRUE

\* The column is set to a time to come, to be on the safe side.
CommitReset_Padded(r) ==
    /\ Return(r, "stamped", "done")
    /\ invalidatedAt' = read[r] + TicksPerSecond
    /\ doomed' = doomed \cup revoked[r]
    /\ UNCHANGED <<now, goTrue, deleted>>

-----------------------------------------------------------------------------
\* authenticate_request, for a token whose signature and expiry are in order.
Accepts(token) ==
    /\ ~deleted
    /\ ~(Second(token.issued) < invalidatedAt)

Tick ==
    /\ now < MaxTime
    /\ now' = now + 1
    /\ UNCHANGED <<goTrue, user, place, locals, doomed>>

-----------------------------------------------------------------------------
(* GoTrue                                                                  *)

Issue(s) == tokens' = tokens \cup {[session |-> s, issued |-> now]}

SignIn(s) ==
    /\ session[s] = "none"
    /\ session' = [session EXCEPT ![s] = "live"]
    /\ Issue(s)
    /\ UNCHANGED <<now, user, place, locals, doomed>>

\* With supabase-js or through POST /auth/refresh, which asks GoTrue and nobody else.
Refresh(s) ==
    /\ session[s] = "live"
    /\ Issue(s)
    /\ UNCHANGED <<now, session, user, place, locals, doomed>>

Expire(token) ==
    /\ tokens' = tokens \ {token}
    /\ UNCHANGED <<now, session, user, place, locals, doomed>>

Live == {s \in Sessions : session[s] = "live"}

Revoke(S) == session' = [s \in Sessions |-> IF s \in S THEN "revoked" ELSE session[s]]

-----------------------------------------------------------------------------
(* POST /auth/password-reset/confirm                                       *)

ResetPassword(r) ==
    /\ Goto(r, "idle", "changed")
    /\ UNCHANGED <<now, goTrue, user, locals, doomed>>

SignOut(r) ==
    /\ Goto(r, "changed", "signedOut")
    /\ Revoke(Live)
    /\ revoked' = [revoked EXCEPT ![r] = Live]
    /\ read' = [read EXCEPT ![r] = now]
    /\ UNCHANGED <<now, tokens, user, doomed>>

\* 500: nothing is written, and GoTrue keeps the new password.
SignOutFails(r) ==
    /\ Return(r, "changed", "failed")
    /\ UNCHANGED <<now, goTrue, user, doomed>>

LoopFree == \A q \in Requests : place[q] # "stamped"

StampReset(r) ==
    /\ LoopFree
    /\ now > read[r]
    /\ Goto(r, "signedOut", "stamped")
    /\ read' = [read EXCEPT ![r] = now]
    /\ UNCHANGED <<now, goTrue, user, revoked, doomed>>

CommitReset(r) ==
    /\ Return(r, "stamped", "done")
    /\ invalidatedAt' = read[r]
    /\ doomed' = doomed \cup revoked[r]
    /\ UNCHANGED <<now, goTrue, deleted>>

-----------------------------------------------------------------------------
(* DELETE /account                                                         *)

Authenticate(q) ==
    /\ \E token \in tokens : Accepts(token)
    /\ Goto(q, "idle", "authenticated")
    /\ UNCHANGED <<now, goTrue, user, locals, doomed>>

StampDeletion(q) ==
    /\ LoopFree
    /\ ~deleted
    /\ Goto(q, "authenticated", "stamped")
    /\ read' = [read EXCEPT ![q] = now]
    /\ UNCHANGED <<now, goTrue, user, revoked, doomed>>

\* The account is deleted already: 204, and nothing else happens.
RepeatDeletion(q) ==
    /\ LoopFree
    /\ deleted
    /\ Return(q, "authenticated", "done")
    /\ UNCHANGED <<now, goTrue, user, doomed>>

CommitDeletion(q) ==
    /\ Goto(q, "stamped", "committed")
    /\ deleted' = TRUE
    /\ invalidatedAt' = read[q]
    /\ UNCHANGED <<now, goTrue, locals, doomed>>

\* Here a sign-out that fails is logged, and the 204 stands.
SignOutDeleted(q) ==
    /\ Return(q, "committed", "done")
    /\ Revoke(Live) \/ UNCHANGED session
    /\ UNCHANGED <<now, tokens, user, doomed>>

-----------------------------------------------------------------------------
\* POST /auth/logout ends the caller's session if GoTrue answers; the row is not
\* written.  What may come between the check and the call can only end it too.
Logout(token) ==
    /\ Accepts(token)
    /\ Revoke({token.session})
    /\ UNCHANGED <<now, tokens, user, place, locals, doomed>>

\* The process dies, or the COMMIT fails.
Abandon(q) ==
    /\ place[q] \notin {"idle", "done", "failed"}
    /\ Return(q, place[q], "failed")
    /\ UNCHANGED <<now, goTrue, user, doomed>>

Reset(r) ==
    \/ ResetPassword(r)
    \/ SignOut(r)
    \/ SignOutFails(r)
    \/ StampReset(r)
    \/ CommitReset(r)

Delete(q) ==
    \/ Authenticate(q)
    \/ StampDeletion(q)
    \/ RepeatDeletion(q)
    \/ CommitDeletion(q)
    \/ SignOutDeleted(q)

Next ==
    \/ Tick
    \/ \E s \in Sessions : SignIn(s) \/ Refresh(s)
    \/ \E token \in tokens : Expire(token) \/ Logout(token)
    \/ \E r \in Resets : Reset(r)
    \/ \E q \in Deletions : Delete(q)
    \/ \E q \in Requests : Abandon(q)

Spec == Init /\ [][Next]_vars

-----------------------------------------------------------------------------
(* Properties                                                              *)

\* Rule 12: once a password reset is through, no token of a session that was
\* there when it signed the user out is accepted, one refreshed in the middle of
\* the reset included, and the session gets no new token.
OldSessionsRejected ==
    \A s \in doomed :
        /\ session[s] = "revoked"
        /\ \A token \in tokens : token.session = s => ~Accepts(token)

\* The price of whole seconds is bounded: a token issued a second or more after
\* the stamp is accepted, as long as the account is there.
NewSessionsAccepted ==
    \A token \in tokens :
        ~deleted /\ token.issued >= invalidatedAt + TicksPerSecond => Accepts(token)

\* A token once rejected stays rejected: two resets, or a reset and a deletion,
\* never put the column back to an earlier time, in whatever order they run.
RejectedForGood ==
    [][\A token \in tokens : ~Accepts(token) => ~Accepts(token)']_vars
=============================================================================
