------------------------------ MODULE Accounts ------------------------------
(***************************************************************************)
(* Accounts: registration, sign-in by password and by Google, the request  *)
(* for a password reset, and PATCH /account.                               *)
(*                                                                         *)
(* Every account is in two places: the users of GoTrue, who have the       *)
(* credentials, and the rows of the application, found by the id that      *)
(* GoTrue has given or by the e-mail address.  No transaction spans both.  *)
(* Handlers are coroutines; each step below runs from one await to the     *)
(* next, or from one SQL statement to the next, for there is more than one *)
(* API process.                                                            *)
(*                                                                         *)
(*   gotrue    the address of each GoTrue user, None for an unused id      *)
(*   password  the GoTrue users who have a password                        *)
(*   row       "user" and the free subscription that comes with it         *)
(*   place     how far each call has come                                  *)
(*   call      its address, and the id that GoTrue, or a row, has given it *)
(*   answer    what the client was answered: the id that the tokens are    *)
(*             for, and the id of the user object next to them             *)
(*   mail      notifications that were sent to the queue, by their call    *)
(*                                                                         *)
(* History variables: moved (addresses that PATCH /account has given to an *)
(* account, or taken from it), faults (calls that failed or died).         *)
(***************************************************************************)
EXTENDS Naturals, FiniteSets

CONSTANTS Ids, Addresses, Calls, None,
          MaxFaults,   \* bound on failures and crashes
          MaxPatches   \* bound on the addresses that PATCH /account touches

ASSUME AccountsAssumption ==
    /\ None \notin Ids \cup Addresses
    /\ MaxFaults \in Nat
    /\ MaxPatches \in Nat

VARIABLES gotrue, password, row, place, call, answer, mail, moved, faults

auth == <<gotrue, password>>
vars == <<auth, row, place, call, answer, mail, moved, faults>>

\* hashed: password_hash holds the sentinel SUPABASE_MANAGED, not NULL.
Row == [stored : BOOLEAN, address : Addresses \cup {None}, hashed : BOOLEAN,
        verified : BOOLEAN, deleted : BOOLEAN]

Place == { "idle",
           "checked", "signedUp", "registered",  \* register
           "tokens", "unknown",                  \* oauth_google
           "verified",                           \* login
           "found",                              \* request_reset
           "answered", "refused", "failed" }

Mail == [task : {"verification", "password_reset"}, user : Ids, to : Addresses]

TypeOK ==
    /\ gotrue \in [Ids -> Addresses \cup {None}]
    /\ password \subseteq Ids
    /\ row \in [Ids -> Row]
    /\ place \in [Calls -> Place]
    /\ call \in [Calls -> [address : Addresses \cup {None}, id : Ids \cup {None}]]
    /\ answer \in [Calls -> [by : {"none", "register", "google", "login"},
                             tokens : Ids \cup {None}, user : Ids \cup {None}]]
    /\ mail \in [Calls -> SUBSET Mail]
    /\ moved \subseteq Addresses
    /\ faults \in 0..MaxFaults

NoRow    == [stored |-> FALSE, address |-> None, hashed |-> FALSE,
             verified |-> FALSE, deleted |-> FALSE]
NoCall   == [address |-> None, id |-> None]
NoAnswer == [by |-> "none", tokens |-> None, user |-> None]

Init ==
    /\ gotrue = [i \in Ids |-> None]
    /\ password = {}
    /\ row = [i \in Ids |-> NoRow]
    /\ place = [c \in Calls |-> "idle"]
    /\ call = [c \in Calls |-> NoCall]
    /\ answer = [c \in Calls |-> NoAnswer]
    /\ mail = [c \in Calls |-> {}]
    /\ moved = {}
    /\ faults = 0

-----------------------------------------------------------------------------
(* Helpers                                                                 *)

Goto(c, from, to) ==
    /\ place[c] = from
    /\ place' = [place EXCEPT ![c] = to]

Fault == faults < MaxFaults /\ faults' = faults + 1

Answer(c, by, tokens, user) ==
    answer' = [answer EXCEPT ![c] = [by |-> by, tokens |-> tokens, user |-> user]]

Know(c, a, i) == call' = [call EXCEPT ![c] = [address |-> a, id |-> i]]

Fresh == {i \in Ids : gotrue[i] = None}

UserAt(a) == {i \in Ids : gotrue[i] = a}

\* _active_user_by_email
ActiveUserByEmail(a) ==
    {i \in Ids : row[i].stored /\ row[i].address = a /\ ~row[i].deleted}

\* user_email_unique holds for deleted rows too.
AddressTaken(a) == \E i \in Ids : row[i].stored /\ row[i].address = a

-----------------------------------------------------------------------------
(* Plausible bugs, each paired with the property it breaks.                *)

\* The deletion of an account deletes the GoTrue user too.
DeleteAccount_WithUser(i) ==
    /\ row[i].stored /\ ~row[i].deleted
    /\ row' = [row EXCEPT ![i].deleted = TRUE]
    /\ gotrue' = [gotrue EXCEPT ![i] = None]
    /\ password' = password \ {i}
    /\ UNCHANGED <<place, call, answer, mail, moved, faults>>

\* The user is an object of a session that is over when the mail is sent.
FindResetUser_Expired(c) ==
    /\ \E a \in Addresses :
          IF ActiveUserByEmail(a) = {}
          THEN Goto(c, "idle", "answered") /\ UNCHANGED call
          ELSE Goto(c, "idle", "found") /\ Know(c, a, None)
    /\ UNCHANGED <<auth, row, answer, mail, moved, faults>>

\* Any active user with the address of the Google account is signed in.
MayLinkGoogle_Always(i) == TRUE

\* The id column is left to its default, gen_random_uuid().
RowId_Generated(c) == {i \in Fresh : ~row[i].stored}

\* A changed address keeps its mark.
Readdressed_KeepsVerified(r, a) == [r EXCEPT !.address = a]

-----------------------------------------------------------------------------
(* POST /auth/register                                                     *)

CheckAddress(c) ==
    /\ \E a \in Addresses :
          IF ActiveUserByEmail(a) = {}
          THEN Goto(c, "idle", "checked") /\ Know(c, a, None)
          ELSE Goto(c, "idle", "refused") /\ UNCHANGED call
    /\ UNCHANGED <<auth, row, answer, mail, moved, faults>>

\* supabase_sign_up; _looks_like_duplicate: 409.
SignUp(c) ==
    LET a == call[c].address IN
    /\ IF UserAt(a) # {}
       THEN Goto(c, "checked", "refused") /\ UNCHANGED <<auth, call>>
       ELSE /\ Goto(c, "checked", "signedUp")
            /\ \E i \in Fresh :
                  /\ gotrue' = [gotrue EXCEPT ![i] = a]
                  /\ password' = password \cup {i}
                  /\ Know(c, a, i)
    /\ UNCHANGED <<row, answer, mail, moved, faults>>

\* GoTrue makes the user, and its answer takes more than ten seconds, or is lost.
SignUpAnswerLost(c) ==
    /\ UserAt(call[c].address) = {}
    /\ Goto(c, "checked", "failed")
    /\ \E i \in Fresh :
          /\ gotrue' = [gotrue EXCEPT ![i] = call[c].address]
          /\ password' = password \cup {i}
    /\ Fault
    /\ UNCHANGED <<row, call, answer, mail, moved>>

\* The id under which the row of a new user is inserted.
RowId(c) == {call[c].id}

\* COMMIT of a new user and his subscription; both constraints of the table hold,
\* or the handler fails: 500.
InsertUser(c, hashed, to) ==
    LET a == call[c].address IN
    \E i \in RowId(c) :
        IF row[i].stored \/ AddressTaken(a)
        THEN place' = [place EXCEPT ![c] = "failed"] /\ UNCHANGED row
        ELSE /\ place' = [place EXCEPT ![c] = to]
             /\ row' = [row EXCEPT ![i] =
                           [stored |-> TRUE, address |-> a, hashed |-> hashed,
                            verified |-> ~hashed, deleted |-> FALSE]]

CommitRegistration(c) ==
    /\ place[c] = "signedUp"
    /\ InsertUser(c, TRUE, "registered")
    /\ UNCHANGED <<auth, call, answer, mail, moved, faults>>

\* generate_link and enqueue_notification; if either raises, there is no mail, and
\* the answer is the same.
SendVerification(c) ==
    /\ Goto(c, "registered", "answered")
    /\ \/ mail' = [mail EXCEPT ![c] = {[task |-> "verification", user |-> call[c].id,
                                        to |-> call[c].address]}]
       \/ UNCHANGED mail
    /\ Answer(c, "register", call[c].id, call[c].id)
    /\ UNCHANGED <<auth, row, call, moved, faults>>

-----------------------------------------------------------------------------
(* POST /auth/oauth/google                                                 *)

\* What the client has done before: GoTrue has signed in the owner of a Google
\* account, as the user with that address if there is one.
GoogleTokens(c) ==
    /\ Goto(c, "idle", "tokens")
    /\ \E a \in Addresses : \E i \in IF UserAt(a) = {} THEN Fresh ELSE UserAt(a) :
          /\ gotrue' = [gotrue EXCEPT ![i] = a]
          /\ Know(c, a, i)
    /\ UNCHANGED <<password, row, answer, mail, moved, faults>>

MayLinkGoogle(i) == ~row[i].hashed

\* oauth_google up to its SELECT: no row, an account with a password (409), or one
\* without.
GoogleSelect(c) ==
    LET existing == ActiveUserByEmail(call[c].address) IN
    /\ \/ existing = {} /\ Goto(c, "tokens", "unknown") /\ UNCHANGED answer
       \/ \E i \in existing :
             IF MayLinkGoogle(i)
             THEN Goto(c, "tokens", "answered") /\ Answer(c, "google", call[c].id, i)
             ELSE Goto(c, "tokens", "refused") /\ UNCHANGED answer
    /\ UNCHANGED <<auth, row, call, mail, moved, faults>>

GoogleInsert(c) ==
    /\ place[c] = "unknown"
    /\ InsertUser(c, FALSE, "answered")
    /\ answer' = IF place'[c] = "answered"
                 THEN [answer EXCEPT ![c] = [by |-> "google", tokens |-> call[c].id,
                                             user |-> call[c].id]]
                 ELSE answer
    /\ UNCHANGED <<auth, call, mail, moved, faults>>

-----------------------------------------------------------------------------
(* POST /auth/login, without its lockout                                   *)

\* The password grant of GoTrue, which knows the addresses of GoTrue only.
SignIn(c) ==
    /\ Goto(c, "idle", "verified")
    /\ \E i \in password : Know(c, gotrue[i], i)
    /\ UNCHANGED <<auth, row, answer, mail, moved, faults>>

\* AccountNotFound: 401.
FindAccount(c) ==
    LET users == ActiveUserByEmail(call[c].address) IN
    /\ IF users = {}
       THEN Goto(c, "verified", "refused") /\ UNCHANGED answer
       ELSE /\ Goto(c, "verified", "answered")
            /\ \E i \in users : Answer(c, "login", call[c].id, i)
    /\ UNCHANGED <<auth, row, call, mail, moved, faults>>

-----------------------------------------------------------------------------
(* POST /auth/password-reset/request                                       *)

FindResetUser(c) ==
    /\ \E a \in Addresses :
          IF ActiveUserByEmail(a) = {}
          THEN Goto(c, "idle", "answered") /\ UNCHANGED call
          ELSE /\ Goto(c, "idle", "found")
               /\ \E i \in ActiveUserByEmail(a) : Know(c, a, i)
    /\ UNCHANGED <<auth, row, answer, mail, moved, faults>>

\* generate_link finds nobody at an address that GoTrue does not know, and raises.
SendReset(c) ==
    /\ Goto(c, "found", "answered")
    /\ \/ /\ UserAt(call[c].address) # {}
          /\ mail' = [mail EXCEPT ![c] = {[task |-> "password_reset", user |-> call[c].id,
                                           to |-> call[c].address]}]
       \/ UNCHANGED mail
    /\ UNCHANGED <<auth, row, call, answer, moved, faults>>

-----------------------------------------------------------------------------
(* The rest of the life of an account                                      *)

\* apply_profile_update
Readdressed(r, a) == [r EXCEPT !.address = a, !.verified = FALSE]

\* PATCH /account with an address.  One that another row has is an IntegrityError.
PatchAccount(i, a) ==
    /\ row[i].stored /\ ~row[i].deleted
    /\ ~ \E k \in Ids \ {i} : row[k].stored /\ row[k].address = a
    /\ row' = [row EXCEPT ![i] = Readdressed(@, a)]
    /\ moved' = IF a = row[i].address THEN moved ELSE moved \cup {a, row[i].address}
    /\ Cardinality(moved') <= MaxPatches
    /\ UNCHANGED <<auth, place, call, answer, mail, faults>>

\* DELETE /account, and the erasure thirty days later, which puts a placeholder for
\* the address: see GdprErasure.
DeleteAccount(i) ==
    /\ row[i].stored /\ ~row[i].deleted
    /\ row' = [row EXCEPT ![i].deleted = TRUE]
    /\ UNCHANGED <<auth, place, call, answer, mail, moved, faults>>

EraseAccount(i) ==
    /\ row[i].deleted
    /\ row' = [row EXCEPT ![i].address = None, ![i].hashed = FALSE]
    /\ UNCHANGED <<auth, place, call, answer, mail, moved, faults>>

\* GoTrue or the database fails, or the process dies.
Fail(c) ==
    /\ place[c] \notin {"idle", "answered", "refused", "failed"}
    /\ place' = [place EXCEPT ![c] = "failed"]
    /\ Fault
    /\ UNCHANGED <<auth, row, call, answer, mail, moved>>

-----------------------------------------------------------------------------
Register(c) ==
    CheckAddress(c) \/ SignUp(c) \/ SignUpAnswerLost(c) \/ CommitRegistration(c)

OAuthGoogle(c) == GoogleTokens(c) \/ GoogleSelect(c) \/ GoogleInsert(c)

Login(c) == SignIn(c) \/ FindAccount(c)

Account(i) ==
    (\E a \in Addresses : PatchAccount(i, a)) \/ DeleteAccount(i) \/ EraseAccount(i)

\* The steps that send a mail, and those that do not.
Notify(c) == SendVerification(c) \/ SendReset(c)

Quiet ==
    \/ \E c \in Calls : Register(c) \/ OAuthGoogle(c) \/ Login(c) \/ FindResetUser(c) \/ Fail(c)
    \/ \E i \in Ids : Account(i)

Next == Quiet \/ \E c \in Calls : Notify(c)

Spec == Init /\ [][Next]_vars

-----------------------------------------------------------------------------
(* Properties                                                              *)

\* The GoTrue users with a password whom the application does not know are those of
\* a registration that is under way, that failed, or whose address a PATCH had
\* given to another account in the meantime.
Registering(i) == \E c \in Calls : place[c] = "signedUp" /\ call[c].id = i

OrphansAreExplained ==
    \A i \in password :
        row[i].stored \/ Registering(i) \/ gotrue[i] \in moved \/ faults > 0

\* An account that was registered with a password is never signed in by Google, nor
\* one of Google's registered with a password.
NoSilentMerge ==
    \A c, d \in Calls :
        answer[c].by = "register" /\ answer[d].by = "google" => answer[c].user # answer[d].user

\* The user object of an answer is the user that the tokens are for, unless PATCH has
\* moved the address.
AnswerNamesItsUser ==
    \A c \in Calls : answer[c].tokens # answer[c].user => call[c].address \in moved

\* An address with the mark email_verified is the one that GoTrue has for the user: a
\* PATCH that moves it takes the mark away, and no later sign-in gives it back.  (Who
\* gets the mark is another question: nothing here gives it to the owner of a password
\* who follows the link of his mail.)
VerifiedAddressIsGoTrues ==
    \A i \in Ids : row[i].verified /\ ~row[i].deleted => gotrue[i] = row[i].address
=============================================================================
