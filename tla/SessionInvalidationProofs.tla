--------------------- MODULE SessionInvalidationProofs ---------------------
(***************************************************************************)
(* The properties of SessionInvalidation for any number of sessions,       *)
(* resets and deletions, any clock and any length of a second.             *)
(***************************************************************************)
EXTENDS SessionInvalidation, TLAPS

(***************************************************************************)
(* The strengthening.  OldSessionsRejected speaks of complete resets; that *)
(* it holds at the COMMIT depends on what is true of the handler before:   *)
(* the sessions it has ended have no token newer than its time, its time   *)
(* is not older than the column, and no other handler is between now() and *)
(* COMMIT with an older one.                                               *)
(***************************************************************************)
NothingFromTheFuture ==
    /\ invalidatedAt <= now
    /\ \A q \in Requests : read[q] <= now
    /\ \A token \in tokens : token.issued <= now

OneStamped ==
    \A p, q \in Requests : place[p] = "stamped" /\ place[q] = "stamped" => p = q

StampIsNewest ==
    \A q \in Requests : place[q] = "stamped" => invalidatedAt <= read[q]

RevokedInv ==
    \A q \in Requests : \A s \in revoked[q] :
        /\ place[q] \in {"signedOut", "stamped"}
        /\ session[s] = "revoked"
        /\ \A token \in tokens : token.session = s =>
              /\ token.issued <= read[q]
              /\ place[q] = "stamped" => token.issued < read[q]

\* A deletion ends sessions too, but after its COMMIT, and keeps no account of them.
DeletionInv == \A q \in Deletions : revoked[q] = {}

DoomedInv ==
    \A s \in doomed :
        /\ session[s] = "revoked"
        /\ \A token \in tokens : token.session = s => token.issued < invalidatedAt

IInv ==
    /\ TypeOK
    /\ NothingFromTheFuture
    /\ OneStamped
    /\ StampIsNewest
    /\ RevokedInv
    /\ DeletionInv
    /\ DoomedInv

-----------------------------------------------------------------------------
\* The whole second of a time is at most that time, and less than a second earlier.
LEMMA SecondBounds ==
    ASSUME NEW t \in Nat
    PROVE  /\ Second(t) \in Int
           /\ Second(t) <= t
           /\ t - TicksPerSecond < Second(t)
<1>1. TicksPerSecond \in Nat /\ TicksPerSecond > 0
  BY TimeAssumption
<1>2. t % TicksPerSecond \in 0..(TicksPerSecond - 1)
  BY <1>1
<1> QED
  BY <1>1, <1>2 DEF Second

LEMMA InitIInv == Init => IInv
<1> SUFFICES ASSUME Init PROVE IInv
  OBVIOUS
<1> USE DEF Init
<1>1. TypeOK
  <2>1. now \in Time /\ invalidatedAt \in Time /\ read \in [Requests -> Time]
    BY TimeAssumption DEF Time
  <2>2. /\ session \in [Sessions -> {"none", "live", "revoked"}]
        /\ place \in [Requests -> Place]
        /\ revoked \in [Requests -> SUBSET Sessions]
    BY DEF Place
  <2>3. tokens \in SUBSET Token /\ doomed \in SUBSET Sessions
    OBVIOUS
  <2>4. deleted \in BOOLEAN
    OBVIOUS
  <2> QED
    BY <2>1, <2>2, <2>3, <2>4 DEF TypeOK
<1>2. NothingFromTheFuture
  BY DEF NothingFromTheFuture
<1>3. OneStamped /\ StampIsNewest
  BY DEF OneStamped, StampIsNewest
<1>4. RevokedInv /\ DeletionInv /\ DoomedInv
  BY DEF RevokedInv, DeletionInv, DoomedInv, Requests
<1> QED
  BY <1>1, <1>2, <1>3, <1>4 DEF IInv

LEMMA TypeStep == IInv /\ [Next]_vars => TypeOK'
<1> SUFFICES ASSUME IInv, [Next]_vars PROVE TypeOK'
  OBVIOUS
<1> USE TimeAssumption DEF IInv, TypeOK, Time, Place, Token, Requests
<1> USE DEF goTrue, user, locals, Goto, Return, Issue, Revoke, Live
<1>1. CASE Tick
  BY <1>1 DEF Tick
<1>2. ASSUME NEW s \in Sessions, SignIn(s) PROVE TypeOK'
  BY <1>2 DEF SignIn
<1>3. ASSUME NEW s \in Sessions, Refresh(s) PROVE TypeOK'
  BY <1>3 DEF Refresh
<1>4. ASSUME NEW token \in tokens, Expire(token) PROVE TypeOK'
  BY <1>4 DEF Expire
<1>5. ASSUME NEW token \in tokens, Logout(token) PROVE TypeOK'
  BY <1>5 DEF Logout
<1>6. ASSUME NEW r \in Resets, ResetPassword(r) PROVE TypeOK'
  BY <1>6 DEF ResetPassword
<1>7. ASSUME NEW r \in Resets, SignOut(r) PROVE TypeOK'
  BY <1>7 DEF SignOut
<1>8. ASSUME NEW r \in Resets, SignOutFails(r) PROVE TypeOK'
  BY <1>8 DEF SignOutFails
<1>9. ASSUME NEW r \in Resets, StampReset(r) PROVE TypeOK'
  BY <1>9 DEF StampReset
<1>10. ASSUME NEW r \in Resets, CommitReset(r) PROVE TypeOK'
  BY <1>10 DEF CommitReset
<1>11. ASSUME NEW q \in Deletions, Authenticate(q) PROVE TypeOK'
  BY <1>11 DEF Authenticate
<1>12. ASSUME NEW q \in Deletions, StampDeletion(q) PROVE TypeOK'
  BY <1>12 DEF StampDeletion
<1>13. ASSUME NEW q \in Deletions, RepeatDeletion(q) PROVE TypeOK'
  BY <1>13 DEF RepeatDeletion
<1>14. ASSUME NEW q \in Deletions, CommitDeletion(q) PROVE TypeOK'
  BY <1>14 DEF CommitDeletion
<1>15. ASSUME NEW q \in Deletions, SignOutDeleted(q) PROVE TypeOK'
  BY <1>15 DEF SignOutDeleted
<1>16. ASSUME NEW q \in Requests, Abandon(q) PROVE TypeOK'
  BY <1>16 DEF Abandon
<1>17. CASE UNCHANGED vars
  BY <1>17 DEF vars
<1> QED
  BY <1>1, <1>2, <1>3, <1>4, <1>5, <1>6, <1>7, <1>8, <1>9, <1>10, <1>11, <1>12, <1>13, <1>14, <1>15, <1>16, <1>17
  DEF Next, Reset, Delete, Requests

LEMMA NothingFromTheFutureStep == IInv /\ [Next]_vars => NothingFromTheFuture'
<1> SUFFICES ASSUME IInv, [Next]_vars PROVE NothingFromTheFuture'
  OBVIOUS
<1> USE TimeAssumption DEF IInv, TypeOK, Time, Place, Token, Requests,
           NothingFromTheFuture
<1> USE DEF goTrue, user, locals, Goto, Return, Issue, Revoke, Live
<1>1. CASE Tick
  BY <1>1 DEF Tick
<1>2. ASSUME NEW s \in Sessions, SignIn(s) PROVE NothingFromTheFuture'
  BY <1>2 DEF SignIn
<1>3. ASSUME NEW s \in Sessions, Refresh(s) PROVE NothingFromTheFuture'
  BY <1>3 DEF Refresh
<1>4. ASSUME NEW token \in tokens, Expire(token) PROVE NothingFromTheFuture'
  BY <1>4 DEF Expire
<1>5. ASSUME NEW token \in tokens, Logout(token) PROVE NothingFromTheFuture'
  BY <1>5 DEF Logout
<1>6. ASSUME NEW r \in Resets, ResetPassword(r) PROVE NothingFromTheFuture'
  BY <1>6 DEF ResetPassword
<1>7. ASSUME NEW r \in Resets, SignOut(r) PROVE NothingFromTheFuture'
  BY <1>7 DEF SignOut
<1>8. ASSUME NEW r \in Resets, SignOutFails(r) PROVE NothingFromTheFuture'
  BY <1>8 DEF SignOutFails
<1>9. ASSUME NEW r \in Resets, StampReset(r) PROVE NothingFromTheFuture'
  BY <1>9 DEF StampReset
<1>10. ASSUME NEW r \in Resets, CommitReset(r) PROVE NothingFromTheFuture'
  BY <1>10 DEF CommitReset
<1>11. ASSUME NEW q \in Deletions, Authenticate(q) PROVE NothingFromTheFuture'
  BY <1>11 DEF Authenticate
<1>12. ASSUME NEW q \in Deletions, StampDeletion(q) PROVE NothingFromTheFuture'
  BY <1>12 DEF StampDeletion
<1>13. ASSUME NEW q \in Deletions, RepeatDeletion(q) PROVE NothingFromTheFuture'
  BY <1>13 DEF RepeatDeletion
<1>14. ASSUME NEW q \in Deletions, CommitDeletion(q) PROVE NothingFromTheFuture'
  BY <1>14 DEF CommitDeletion
<1>15. ASSUME NEW q \in Deletions, SignOutDeleted(q) PROVE NothingFromTheFuture'
  BY <1>15 DEF SignOutDeleted
<1>16. ASSUME NEW q \in Requests, Abandon(q) PROVE NothingFromTheFuture'
  BY <1>16 DEF Abandon
<1>17. CASE UNCHANGED vars
  BY <1>17 DEF vars
<1> QED
  BY <1>1, <1>2, <1>3, <1>4, <1>5, <1>6, <1>7, <1>8, <1>9, <1>10, <1>11, <1>12, <1>13, <1>14, <1>15, <1>16, <1>17
  DEF Next, Reset, Delete, Requests

LEMMA OneStampedStep == IInv /\ [Next]_vars => OneStamped'
<1> SUFFICES ASSUME IInv, [Next]_vars PROVE OneStamped'
  OBVIOUS
<1> USE TimeAssumption DEF IInv, TypeOK, Time, Place, Token, Requests, OneStamped,
           LoopFree
<1> USE DEF goTrue, user, locals, Goto, Return, Issue, Revoke, Live
<1>1. CASE Tick
  BY <1>1 DEF Tick
<1>2. ASSUME NEW s \in Sessions, SignIn(s) PROVE OneStamped'
  BY <1>2 DEF SignIn
<1>3. ASSUME NEW s \in Sessions, Refresh(s) PROVE OneStamped'
  BY <1>3 DEF Refresh
<1>4. ASSUME NEW token \in tokens, Expire(token) PROVE OneStamped'
  BY <1>4 DEF Expire
<1>5. ASSUME NEW token \in tokens, Logout(token) PROVE OneStamped'
  BY <1>5 DEF Logout
<1>6. ASSUME NEW r \in Resets, ResetPassword(r) PROVE OneStamped'
  BY <1>6 DEF ResetPassword
<1>7. ASSUME NEW r \in Resets, SignOut(r) PROVE OneStamped'
  BY <1>7 DEF SignOut
<1>8. ASSUME NEW r \in Resets, SignOutFails(r) PROVE OneStamped'
  BY <1>8 DEF SignOutFails
<1>9. ASSUME NEW r \in Resets, StampReset(r) PROVE OneStamped'
  BY <1>9 DEF StampReset
<1>10. ASSUME NEW r \in Resets, CommitReset(r) PROVE OneStamped'
  BY <1>10 DEF CommitReset
<1>11. ASSUME NEW q \in Deletions, Authenticate(q) PROVE OneStamped'
  BY <1>11 DEF Authenticate
<1>12. ASSUME NEW q \in Deletions, StampDeletion(q) PROVE OneStamped'
  BY <1>12 DEF StampDeletion
<1>13. ASSUME NEW q \in Deletions, RepeatDeletion(q) PROVE OneStamped'
  BY <1>13 DEF RepeatDeletion
<1>14. ASSUME NEW q \in Deletions, CommitDeletion(q) PROVE OneStamped'
  BY <1>14 DEF CommitDeletion
<1>15. ASSUME NEW q \in Deletions, SignOutDeleted(q) PROVE OneStamped'
  BY <1>15 DEF SignOutDeleted
<1>16. ASSUME NEW q \in Requests, Abandon(q) PROVE OneStamped'
  BY <1>16 DEF Abandon
<1>17. CASE UNCHANGED vars
  BY <1>17 DEF vars
<1> QED
  BY <1>1, <1>2, <1>3, <1>4, <1>5, <1>6, <1>7, <1>8, <1>9, <1>10, <1>11, <1>12, <1>13, <1>14, <1>15, <1>16, <1>17
  DEF Next, Reset, Delete, Requests

LEMMA StampIsNewestStep == IInv /\ [Next]_vars => StampIsNewest'
<1> SUFFICES ASSUME IInv, [Next]_vars PROVE StampIsNewest'
  OBVIOUS
<1> USE TimeAssumption DEF IInv, TypeOK, Time, Place, Token, Requests, StampIsNewest,
           NothingFromTheFuture, OneStamped
<1> USE DEF goTrue, user, locals, Goto, Return, Issue, Revoke, Live
<1>1. CASE Tick
  BY <1>1 DEF Tick
<1>2. ASSUME NEW s \in Sessions, SignIn(s) PROVE StampIsNewest'
  BY <1>2 DEF SignIn
<1>3. ASSUME NEW s \in Sessions, Refresh(s) PROVE StampIsNewest'
  BY <1>3 DEF Refresh
<1>4. ASSUME NEW token \in tokens, Expire(token) PROVE StampIsNewest'
  BY <1>4 DEF Expire
<1>5. ASSUME NEW token \in tokens, Logout(token) PROVE StampIsNewest'
  BY <1>5 DEF Logout
<1>6. ASSUME NEW r \in Resets, ResetPassword(r) PROVE StampIsNewest'
  BY <1>6 DEF ResetPassword
<1>7. ASSUME NEW r \in Resets, SignOut(r) PROVE StampIsNewest'
  BY <1>7 DEF SignOut
<1>8. ASSUME NEW r \in Resets, SignOutFails(r) PROVE StampIsNewest'
  BY <1>8 DEF SignOutFails
<1>9. ASSUME NEW r \in Resets, StampReset(r) PROVE StampIsNewest'
  BY <1>9 DEF StampReset
<1>10. ASSUME NEW r \in Resets, CommitReset(r) PROVE StampIsNewest'
  BY <1>10 DEF CommitReset
<1>11. ASSUME NEW q \in Deletions, Authenticate(q) PROVE StampIsNewest'
  BY <1>11 DEF Authenticate
<1>12. ASSUME NEW q \in Deletions, StampDeletion(q) PROVE StampIsNewest'
  BY <1>12 DEF StampDeletion
<1>13. ASSUME NEW q \in Deletions, RepeatDeletion(q) PROVE StampIsNewest'
  BY <1>13 DEF RepeatDeletion
<1>14. ASSUME NEW q \in Deletions, CommitDeletion(q) PROVE StampIsNewest'
  BY <1>14 DEF CommitDeletion
<1>15. ASSUME NEW q \in Deletions, SignOutDeleted(q) PROVE StampIsNewest'
  BY <1>15 DEF SignOutDeleted
<1>16. ASSUME NEW q \in Requests, Abandon(q) PROVE StampIsNewest'
  BY <1>16 DEF Abandon
<1>17. CASE UNCHANGED vars
  BY <1>17 DEF vars
<1> QED
  BY <1>1, <1>2, <1>3, <1>4, <1>5, <1>6, <1>7, <1>8, <1>9, <1>10, <1>11, <1>12, <1>13, <1>14, <1>15, <1>16, <1>17
  DEF Next, Reset, Delete, Requests

LEMMA RevokedInvStep == IInv /\ [Next]_vars => RevokedInv'
<1> SUFFICES ASSUME IInv, [Next]_vars PROVE RevokedInv'
  OBVIOUS
<1> USE TimeAssumption DEF IInv, TypeOK, Time, Place, Token, Requests, RevokedInv,
           DeletionInv, NothingFromTheFuture
<1> USE DEF goTrue, user, locals, Goto, Return, Issue, Revoke, Live
<1>1. CASE Tick
  BY <1>1 DEF Tick
<1>2. ASSUME NEW s \in Sessions, SignIn(s) PROVE RevokedInv'
  BY <1>2 DEF SignIn
<1>3. ASSUME NEW s \in Sessions, Refresh(s) PROVE RevokedInv'
  BY <1>3 DEF Refresh
<1>4. ASSUME NEW token \in tokens, Expire(token) PROVE RevokedInv'
  BY <1>4 DEF Expire
<1>5. ASSUME NEW token \in tokens, Logout(token) PROVE RevokedInv'
  BY <1>5 DEF Logout
<1>6. ASSUME NEW r \in Resets, ResetPassword(r) PROVE RevokedInv'
  BY <1>6 DEF ResetPassword
<1>7. ASSUME NEW r \in Resets, SignOut(r) PROVE RevokedInv'
  BY <1>7 DEF SignOut
<1>8. ASSUME NEW r \in Resets, SignOutFails(r) PROVE RevokedInv'
  BY <1>8 DEF SignOutFails
<1>9. ASSUME NEW r \in Resets, StampReset(r) PROVE RevokedInv'
  BY <1>9 DEF StampReset
<1>10. ASSUME NEW r \in Resets, CommitReset(r) PROVE RevokedInv'
  BY <1>10 DEF CommitReset
<1>11. ASSUME NEW q \in Deletions, Authenticate(q) PROVE RevokedInv'
  BY <1>11 DEF Authenticate
<1>12. ASSUME NEW q \in Deletions, StampDeletion(q) PROVE RevokedInv'
  BY <1>12 DEF StampDeletion
<1>13. ASSUME NEW q \in Deletions, RepeatDeletion(q) PROVE RevokedInv'
  BY <1>13 DEF RepeatDeletion
<1>14. ASSUME NEW q \in Deletions, CommitDeletion(q) PROVE RevokedInv'
  BY <1>14 DEF CommitDeletion
<1>15. ASSUME NEW q \in Deletions, SignOutDeleted(q) PROVE RevokedInv'
  BY <1>15 DEF SignOutDeleted
<1>16. ASSUME NEW q \in Requests, Abandon(q) PROVE RevokedInv'
  BY <1>16 DEF Abandon
<1>17. CASE UNCHANGED vars
  BY <1>17 DEF vars
<1> QED
  BY <1>1, <1>2, <1>3, <1>4, <1>5, <1>6, <1>7, <1>8, <1>9, <1>10, <1>11, <1>12, <1>13, <1>14, <1>15, <1>16, <1>17
  DEF Next, Reset, Delete, Requests

LEMMA DeletionInvStep == IInv /\ [Next]_vars => DeletionInv'
<1> SUFFICES ASSUME IInv, [Next]_vars PROVE DeletionInv'
  OBVIOUS
<1> USE TimeAssumption DEF IInv, TypeOK, Time, Place, Token, Requests, DeletionInv
<1> USE DEF goTrue, user, locals, Goto, Return, Issue, Revoke, Live
<1>1. CASE Tick
  BY <1>1 DEF Tick
<1>2. ASSUME NEW s \in Sessions, SignIn(s) PROVE DeletionInv'
  BY <1>2 DEF SignIn
<1>3. ASSUME NEW s \in Sessions, Refresh(s) PROVE DeletionInv'
  BY <1>3 DEF Refresh
<1>4. ASSUME NEW token \in tokens, Expire(token) PROVE DeletionInv'
  BY <1>4 DEF Expire
<1>5. ASSUME NEW token \in tokens, Logout(token) PROVE DeletionInv'
  BY <1>5 DEF Logout
<1>6. ASSUME NEW r \in Resets, ResetPassword(r) PROVE DeletionInv'
  BY <1>6 DEF ResetPassword
<1>7. ASSUME NEW r \in Resets, SignOut(r) PROVE DeletionInv'
  BY <1>7 DEF SignOut
<1>8. ASSUME NEW r \in Resets, SignOutFails(r) PROVE DeletionInv'
  BY <1>8 DEF SignOutFails
<1>9. ASSUME NEW r \in Resets, StampReset(r) PROVE DeletionInv'
  BY <1>9 DEF StampReset
<1>10. ASSUME NEW r \in Resets, CommitReset(r) PROVE DeletionInv'
  BY <1>10 DEF CommitReset
<1>11. ASSUME NEW q \in Deletions, Authenticate(q) PROVE DeletionInv'
  BY <1>11 DEF Authenticate
<1>12. ASSUME NEW q \in Deletions, StampDeletion(q) PROVE DeletionInv'
  BY <1>12 DEF StampDeletion
<1>13. ASSUME NEW q \in Deletions, RepeatDeletion(q) PROVE DeletionInv'
  BY <1>13 DEF RepeatDeletion
<1>14. ASSUME NEW q \in Deletions, CommitDeletion(q) PROVE DeletionInv'
  BY <1>14 DEF CommitDeletion
<1>15. ASSUME NEW q \in Deletions, SignOutDeleted(q) PROVE DeletionInv'
  BY <1>15 DEF SignOutDeleted
<1>16. ASSUME NEW q \in Requests, Abandon(q) PROVE DeletionInv'
  BY <1>16 DEF Abandon
<1>17. CASE UNCHANGED vars
  BY <1>17 DEF vars
<1> QED
  BY <1>1, <1>2, <1>3, <1>4, <1>5, <1>6, <1>7, <1>8, <1>9, <1>10, <1>11, <1>12, <1>13, <1>14, <1>15, <1>16, <1>17
  DEF Next, Reset, Delete, Requests

LEMMA DoomedInvStep == IInv /\ [Next]_vars => DoomedInv'
<1> SUFFICES ASSUME IInv, [Next]_vars PROVE DoomedInv'
  OBVIOUS
<1> USE TimeAssumption DEF IInv, TypeOK, Time, Place, Token, Requests, DoomedInv,
           RevokedInv, StampIsNewest
<1> USE DEF goTrue, user, locals, Goto, Return, Issue, Revoke, Live
<1>1. CASE Tick
  BY <1>1 DEF Tick
<1>2. ASSUME NEW s \in Sessions, SignIn(s) PROVE DoomedInv'
  BY <1>2 DEF SignIn
<1>3. ASSUME NEW s \in Sessions, Refresh(s) PROVE DoomedInv'
  BY <1>3 DEF Refresh
<1>4. ASSUME NEW token \in tokens, Expire(token) PROVE DoomedInv'
  BY <1>4 DEF Expire
<1>5. ASSUME NEW token \in tokens, Logout(token) PROVE DoomedInv'
  BY <1>5 DEF Logout
<1>6. ASSUME NEW r \in Resets, ResetPassword(r) PROVE DoomedInv'
  BY <1>6 DEF ResetPassword
<1>7. ASSUME NEW r \in Resets, SignOut(r) PROVE DoomedInv'
  BY <1>7 DEF SignOut
<1>8. ASSUME NEW r \in Resets, SignOutFails(r) PROVE DoomedInv'
  BY <1>8 DEF SignOutFails
<1>9. ASSUME NEW r \in Resets, StampReset(r) PROVE DoomedInv'
  BY <1>9 DEF StampReset
<1>10. ASSUME NEW r \in Resets, CommitReset(r) PROVE DoomedInv'
  BY <1>10 DEF CommitReset
<1>11. ASSUME NEW q \in Deletions, Authenticate(q) PROVE DoomedInv'
  BY <1>11 DEF Authenticate
<1>12. ASSUME NEW q \in Deletions, StampDeletion(q) PROVE DoomedInv'
  BY <1>12 DEF StampDeletion
<1>13. ASSUME NEW q \in Deletions, RepeatDeletion(q) PROVE DoomedInv'
  BY <1>13 DEF RepeatDeletion
<1>14. ASSUME NEW q \in Deletions, CommitDeletion(q) PROVE DoomedInv'
  BY <1>14 DEF CommitDeletion
<1>15. ASSUME NEW q \in Deletions, SignOutDeleted(q) PROVE DoomedInv'
  BY <1>15 DEF SignOutDeleted
<1>16. ASSUME NEW q \in Requests, Abandon(q) PROVE DoomedInv'
  BY <1>16 DEF Abandon
<1>17. CASE UNCHANGED vars
  BY <1>17 DEF vars
<1> QED
  BY <1>1, <1>2, <1>3, <1>4, <1>5, <1>6, <1>7, <1>8, <1>9, <1>10, <1>11, <1>12, <1>13, <1>14, <1>15, <1>16, <1>17
  DEF Next, Reset, Delete, Requests

LEMMA IInvStep == IInv /\ [Next]_vars => IInv'
  BY TypeStep, NothingFromTheFutureStep, OneStampedStep, StampIsNewestStep,
     RevokedInvStep, DeletionInvStep, DoomedInvStep
  DEF IInv

-----------------------------------------------------------------------------
\* The strengthening holds throughout.
THEOREM Inductive == Spec => []IInv
  BY InitIInv, IInvStep, PTL DEF Spec

\* Every variable keeps its type.
THEOREM TypeCorrect == Spec => []TypeOK
<1>1. IInv => TypeOK
  BY DEF IInv
<1> QED
  BY Inductive, <1>1, PTL

\* Password reset, Rule 12: a token of a session that a complete reset has ended
\* is rejected by authenticate_request, and the session is never refreshed.
THEOREM ResetRejectsOldSessions == Spec => []OldSessionsRejected
<1>1. IInv => OldSessionsRejected
  <2> SUFFICES ASSUME IInv, NEW s \in doomed
               PROVE  /\ session[s] = "revoked"
                      /\ \A token \in tokens : token.session = s => ~Accepts(token)
    BY DEF OldSessionsRejected
  <2>1. session[s] = "revoked"
    BY DEF IInv, DoomedInv
  <2>2. ASSUME NEW token \in tokens, token.session = s
        PROVE  ~Accepts(token)
    <3>1. token.issued \in Nat /\ invalidatedAt \in Nat
      BY TimeAssumption DEF IInv, TypeOK, Token, Time
    <3>2. token.issued < invalidatedAt
      BY <2>2 DEF IInv, DoomedInv
    <3>3. Second(token.issued) \in Int /\ Second(token.issued) <= token.issued
      BY <3>1, SecondBounds
    <3> QED
      BY <3>1, <3>2, <3>3 DEF Accepts
  <2> QED
    BY <2>1, <2>2
<1> QED
  BY Inductive, <1>1, PTL

\* The whole seconds of iat cost a user who signs in again at most one second.
THEOREM NewTokensAccepted == Spec => []NewSessionsAccepted
<1>1. IInv => NewSessionsAccepted
  <2> SUFFICES ASSUME IInv, NEW token \in tokens, ~deleted,
                      token.issued >= invalidatedAt + TicksPerSecond
               PROVE  Accepts(token)
    BY DEF NewSessionsAccepted
  <2>1. token.issued \in Nat /\ invalidatedAt \in Nat /\ TicksPerSecond \in Nat
    BY TimeAssumption DEF IInv, TypeOK, Token, Time
  <2>2. /\ Second(token.issued) \in Int
        /\ token.issued - TicksPerSecond < Second(token.issued)
    BY <2>1, SecondBounds
  <2> QED
    BY <2>1, <2>2 DEF Accepts
<1> QED
  BY Inductive, <1>1, PTL

\* The column never goes back, so no token that was rejected is accepted later.
THEOREM RejectionIsFinal == Spec => RejectedForGood
<1>1. IInv /\ [Next]_vars => invalidatedAt <= invalidatedAt' /\ (deleted => deleted')
  <2> SUFFICES ASSUME IInv, [Next]_vars
               PROVE  invalidatedAt <= invalidatedAt' /\ (deleted => deleted')
    OBVIOUS
  <2> USE DEF user
  <2>0. invalidatedAt \in Nat
    BY TimeAssumption DEF IInv, TypeOK, Time
  <2>1. ASSUME NEW r \in Resets, CommitReset(r)
        PROVE  invalidatedAt <= invalidatedAt' /\ (deleted => deleted')
    BY <2>1 DEF CommitReset, Return, Goto, IInv, StampIsNewest, Requests
  <2>2. ASSUME NEW q \in Deletions, CommitDeletion(q)
        PROVE  invalidatedAt <= invalidatedAt' /\ (deleted => deleted')
    BY <2>2 DEF CommitDeletion, Goto, IInv, StampIsNewest, Requests
  <2>3. CASE UNCHANGED <<invalidatedAt, deleted>>
    BY <2>0, <2>3
  <2> QED
    BY <2>1, <2>2, <2>3
    DEF Next, Reset, Delete, Tick, SignIn, Refresh, Expire, Logout, ResetPassword,
        SignOut, SignOutFails, StampReset, Authenticate, StampDeletion,
        RepeatDeletion, SignOutDeleted, Abandon, vars
<1>2. IInv /\ [Next]_vars =>
         [\A token \in tokens : ~Accepts(token) => ~Accepts(token)']_vars
  <2> SUFFICES ASSUME IInv, [Next]_vars, NEW token \in tokens, ~Accepts(token)
               PROVE  ~Accepts(token)'
    OBVIOUS
  <2>1. token.issued \in Nat /\ invalidatedAt \in Nat
    BY TimeAssumption DEF IInv, TypeOK, Token, Time
  <2>2. invalidatedAt' \in Nat
    BY TypeStep, TimeAssumption DEF TypeOK, Time
  <2>3. Second(token.issued) \in Int
    BY <2>1, SecondBounds
  <2> QED
    BY <1>1, <2>1, <2>2, <2>3 DEF Accepts
<1> QED
  BY Inductive, <1>2, PTL DEF Spec, RejectedForGood
=============================================================================
