-------------------------- MODULE AccountMailsProofs --------------------------
(***************************************************************************)
(* The safety of Accounts, for any addresses, users of GoTrue and calls;   *)
(* that of the notification worker, for any messages, copies, retries and  *)
(* faults; and of both together.                                           *)
(***************************************************************************)
EXTENDS AccountMails, FiniteSetTheorems, TLAPS


-----------------------------------------------------------------------------
(* Accounts: the inductive invariant, part by part.                        *)

\* GoTrue has one user for an address, and a password for its users only.
AuthInv ==
    /\ \A i, k \in Ids : gotrue[i] # None /\ gotrue[i] = gotrue[k] => i = k
    /\ \A i \in password : gotrue[i] # None

\* What a call knows agrees with GoTrue, which never forgets.
Knows(c) ==
    /\ call[c].id \in Ids /\ call[c].address \in Addresses
    /\ gotrue[call[c].id] = call[c].address

CallInv ==
    \A c \in Calls :
        /\ place[c] \in {"checked", "found"} => call[c].address \in Addresses
        /\ place[c] = "found" => call[c].id \in Ids
        /\ place[c] \in {"signedUp", "registered", "tokens", "unknown", "verified"} => Knows(c)

\* A row belongs to a user of GoTrue, and has his address unless PATCH has moved it.
RowInv ==
    \A i \in Ids :
        /\ row[i].stored => gotrue[i] # None
        /\ row[i].stored /\ ~row[i].deleted => row[i].address \in Addresses
        /\ row[i].verified \/ row[i].deleted => row[i].stored
        /\ row[i].stored /\ row[i].address # None /\ row[i].address # gotrue[i] =>
              row[i].address \in moved

\* The accounts that were registered, and those that Google has signed in.
Registered(i) ==
    \E c \in Calls : \/ place[c] = "registered" /\ call[c].id = i
                     \/ answer[c].by = "register" /\ answer[c].user = i

ByGoogle(i) == \E c \in Calls : answer[c].by = "google" /\ answer[c].user = i

MergeInv ==
    \A i \in Ids :
        /\ Registered(i) => row[i].stored /\ (row[i].hashed \/ row[i].deleted)
        /\ ByGoogle(i) => row[i].stored
        /\ ~(Registered(i) /\ ByGoogle(i))

UserInv == \A c \in Calls : answer[c].by # "none" => answer[c].user \in Ids

\* An answer that names another user than its tokens is there to stay.
AnswerInv ==
    \A c \in Calls : answer[c].tokens # answer[c].user =>
        place[c] = "answered" /\ call[c].address \in moved

IInv ==
    /\ TypeOK
    /\ AuthInv /\ CallInv /\ RowInv
    /\ MergeInv /\ UserInv /\ AnswerInv
    /\ OrphansAreExplained /\ VerifiedAddressIsGoTrues

-----------------------------------------------------------------------------
(* The types, with the sets of records named.                              *)

CallRecord == [address : Addresses \cup {None}, id : Ids \cup {None}]

AnswerRecord == [by : {"none", "register", "google", "login"},
                 tokens : Ids \cup {None}, user : Ids \cup {None}]

Typed ==
    /\ gotrue \in [Ids -> Addresses \cup {None}]
    /\ password \subseteq Ids
    /\ row \in [Ids -> Row]
    /\ place \in [Calls -> Place]
    /\ call \in [Calls -> CallRecord]
    /\ answer \in [Calls -> AnswerRecord]
    /\ mail \in [Calls -> SUBSET Mail]
    /\ moved \subseteq Addresses
    /\ faults \in 0..MaxFaults

LEMMA TypedIsTypeOK == TypeOK <=> Typed
BY DEF TypeOK, Typed, CallRecord, AnswerRecord

\* Typed is a formula of state variables: so it is in the next state too.
LEMMA TypedIsTypeOKNext == TypeOK' <=> Typed'
BY DEF TypeOK, Typed, CallRecord, AnswerRecord

LEMMA Records ==
    /\ NoRow \in Row /\ NoCall \in CallRecord /\ NoAnswer \in AnswerRecord
    /\ \A a \in Addresses \cup {None}, i \in Ids \cup {None} :
          [address |-> a, id |-> i] \in CallRecord
    /\ \A by \in {"register", "google", "login"}, t, u \in Ids \cup {None} :
          [by |-> by, tokens |-> t, user |-> u] \in AnswerRecord
    /\ \A t \in {"verification", "password_reset"}, u \in Ids, a \in Addresses :
          [task |-> t, user |-> u, to |-> a] \in Mail
    /\ \A k \in CallRecord : k.address \in Addresses \cup {None} /\ k.id \in Ids \cup {None}
BY DEF Row, CallRecord, AnswerRecord, Mail, NoRow, NoCall, NoAnswer

LEMMA Rows ==
    /\ \A a \in Addresses, h, v \in BOOLEAN :
          [stored |-> TRUE, address |-> a, hashed |-> h, verified |-> v,
           deleted |-> FALSE] \in Row
    /\ \A r \in Row :
          /\ [r EXCEPT !.deleted = TRUE] \in Row
          /\ [r EXCEPT !.address = None, !.hashed = FALSE] \in Row
          /\ \A a \in Addresses : Readdressed(r, a) \in Row
          /\ r.address \in Addresses \cup {None}
BY DEF Row, Readdressed

-----------------------------------------------------------------------------
LEMMA InitIInv == Init => IInv
<1> SUFFICES ASSUME Init PROVE IInv
  OBVIOUS
<1>1. TypeOK
  <2>1. "idle" \in Place
    BY DEF Place
  <2>2. Typed
    BY <2>1, Records, AccountsAssumption DEF Init, Typed
  <2> QED
    BY <2>2, TypedIsTypeOK
<1>2. AuthInv /\ CallInv /\ RowInv
  BY DEF Init, NoRow, AuthInv, CallInv, RowInv
<1>3. MergeInv /\ UserInv /\ AnswerInv
  BY DEF Init, NoAnswer, MergeInv, UserInv, AnswerInv, Registered, ByGoogle
<1>4. OrphansAreExplained /\ VerifiedAddressIsGoTrues
  BY DEF Init, NoRow, OrphansAreExplained, VerifiedAddressIsGoTrues
<1> QED
  BY <1>1, <1>2, <1>3, <1>4 DEF IInv

-----------------------------------------------------------------------------
\* The insertion of a user keeps the types.
LEMMA InsertTyped ==
    ASSUME Typed, NEW c \in Calls, Knows(c), NEW h \in BOOLEAN, NEW to \in Place,
           InsertUser(c, h, to)
    PROVE  row' \in [Ids -> Row] /\ place' \in [Calls -> Place]
<1> DEFINE a == call[c].address
           new == [stored |-> TRUE, address |-> a, hashed |-> h, verified |-> ~h,
                   deleted |-> FALSE]
<1>1. new \in Row
  BY Rows DEF Knows
<1>2. "failed" \in Place
  BY DEF Place
<1> HIDE DEF new
<1>3. CASE UNCHANGED row /\ place' = [place EXCEPT ![c] = "failed"]
  BY <1>2, <1>3 DEF Typed
<1>4. CASE row' = [row EXCEPT ![call[c].id] = new] /\ place' = [place EXCEPT ![c] = to]
  BY <1>1, <1>4 DEF Typed, Knows
<1> QED
  BY <1>3, <1>4 DEF InsertUser, RowId, new

LEMMA TypeStep == TypeOK /\ CallInv /\ RowInv /\ [Next]_vars => TypeOK'
<1> SUFFICES ASSUME Typed, CallInv, RowInv, [Next]_vars PROVE Typed'
  BY TypedIsTypeOK, TypedIsTypeOKNext
<1> USE DEF Typed, auth, Goto, Know, Answer
<1>0. Place = { "idle", "checked", "signedUp", "registered", "tokens", "unknown",
                "verified", "found", "answered", "refused", "failed" }
  BY DEF Place
<1>f. Fault => faults' \in 0..MaxFaults
  BY AccountsAssumption DEF Fault
<1>1. ASSUME NEW c \in Calls, CheckAddress(c) PROVE Typed'
  <2>1. PICK a \in Addresses : \/ Goto(c, "idle", "checked") /\ Know(c, a, None)
                               \/ Goto(c, "idle", "refused") /\ UNCHANGED call
    BY <1>1 DEF CheckAddress
  <2>2. call' \in [Calls -> CallRecord]
    BY <2>1, Records
  <2> QED
    BY <1>0, <1>1, <2>1, <2>2 DEF CheckAddress
<1>2. ASSUME NEW c \in Calls, SignUp(c) PROVE Typed'
  <2>1. CASE Goto(c, "checked", "refused") /\ UNCHANGED <<auth, call>>
    BY <1>0, <1>2, <2>1 DEF SignUp
  <2>2. CASE UserAt(call[c].address) = {}
    <3>1. PICK i \in Fresh : /\ gotrue' = [gotrue EXCEPT ![i] = call[c].address]
                             /\ password' = password \cup {i}
                             /\ Know(c, call[c].address, i)
      BY <1>2, <2>2 DEF SignUp
    <3>2. i \in Ids /\ call[c].address \in Addresses
      BY <1>2, <2>2 DEF SignUp, Fresh, CallInv
    <3> QED
      BY <1>0, <1>2, <2>2, <3>1, <3>2, Records DEF SignUp
  <2> QED
    BY <1>2, <2>1, <2>2 DEF SignUp
<1>3. ASSUME NEW c \in Calls, SignUpAnswerLost(c) PROVE Typed'
  <2>1. PICK i \in Fresh : /\ gotrue' = [gotrue EXCEPT ![i] = call[c].address]
                           /\ password' = password \cup {i}
    BY <1>3 DEF SignUpAnswerLost
  <2>2. i \in Ids /\ call[c].address \in Addresses
    BY <1>3 DEF SignUpAnswerLost, Fresh, CallInv
  <2> QED
    BY <1>0, <1>f, <1>3, <2>1, <2>2 DEF SignUpAnswerLost
<1>4. ASSUME NEW c \in Calls, CommitRegistration(c) PROVE Typed'
  <2>1. Knows(c) /\ "registered" \in Place
    BY <1>0, <1>4 DEF CommitRegistration, CallInv
  <2>2. row' \in [Ids -> Row] /\ place' \in [Calls -> Place]
    BY <1>4, <2>1, InsertTyped DEF CommitRegistration
  <2> QED
    BY <1>4, <2>2 DEF CommitRegistration
<1>5. ASSUME NEW c \in Calls, SendVerification(c) PROVE Typed'
  <2>1. call[c].id \in Ids /\ call[c].address \in Addresses
    BY <1>5 DEF SendVerification, CallInv, Knows
  <2> DEFINE m == [task |-> "verification", user |-> call[c].id, to |-> call[c].address]
  <2>m. m \in Mail
    BY <2>1, Records
  <2> HIDE DEF m
  <2>2. mail' \in [Calls -> SUBSET Mail]
    <3>1. mail' = [mail EXCEPT ![c] = {m}] \/ UNCHANGED mail
      BY <1>5 DEF SendVerification, m
    <3> QED
      BY <2>m, <3>1
  <2>3. answer' \in [Calls -> AnswerRecord]
    BY <1>5, <2>1, Records DEF SendVerification
  <2> QED
    BY <1>0, <1>5, <2>2, <2>3 DEF SendVerification
<1>6. ASSUME NEW c \in Calls, GoogleTokens(c) PROVE Typed'
  <2>1. PICK a \in Addresses, i \in Ids : /\ gotrue' = [gotrue EXCEPT ![i] = a]
                                          /\ Know(c, a, i)
    BY <1>6 DEF GoogleTokens, Fresh, UserAt
  <2> QED
    BY <1>0, <1>6, <2>1, Records DEF GoogleTokens
<1>7. ASSUME NEW c \in Calls, GoogleSelect(c) PROVE Typed'
  <2>1. answer' \in [Calls -> AnswerRecord]
    <3>1. CASE UNCHANGED answer
      BY <3>1
    <3>2. ASSUME NEW i \in Ids, Answer(c, "google", call[c].id, i)
          PROVE  answer' \in [Calls -> AnswerRecord]
      <4>1. [by |-> "google", tokens |-> call[c].id, user |-> i] \in AnswerRecord
        BY Records
      <4> QED
        BY <3>2, <4>1
    <3> QED
      BY <1>7, <3>1, <3>2 DEF GoogleSelect, ActiveUserByEmail
  <2>2. place' \in [Calls -> Place]
    BY <1>0, <1>7 DEF GoogleSelect
  <2> QED
    BY <1>7, <2>1, <2>2 DEF GoogleSelect
<1>8. ASSUME NEW c \in Calls, GoogleInsert(c) PROVE Typed'
  <2>1. Knows(c) /\ "answered" \in Place
    BY <1>0, <1>8 DEF GoogleInsert, CallInv
  <2>2. row' \in [Ids -> Row] /\ place' \in [Calls -> Place]
    BY <1>8, <2>1, InsertTyped DEF GoogleInsert
  <2>3. answer' \in [Calls -> AnswerRecord]
    BY <1>8, <2>1, Records DEF GoogleInsert, Knows
  <2> QED
    BY <1>8, <2>2, <2>3 DEF GoogleInsert
<1>9. ASSUME NEW c \in Calls, SignIn(c) PROVE Typed'
  <2>1. PICK i \in password : Know(c, gotrue[i], i)
    BY <1>9 DEF SignIn
  <2> QED
    BY <1>0, <1>9, <2>1, Records DEF SignIn
<1>10. ASSUME NEW c \in Calls, FindAccount(c) PROVE Typed'
  <2>1. answer' \in [Calls -> AnswerRecord]
    <3>1. CASE UNCHANGED answer
      BY <3>1
    <3>2. ASSUME NEW i \in Ids, Answer(c, "login", call[c].id, i)
          PROVE  answer' \in [Calls -> AnswerRecord]
      <4>1. [by |-> "login", tokens |-> call[c].id, user |-> i] \in AnswerRecord
        BY Records
      <4> QED
        BY <3>2, <4>1
    <3> QED
      BY <1>10, <3>1, <3>2 DEF FindAccount, ActiveUserByEmail
  <2>2. place' \in [Calls -> Place]
    BY <1>0, <1>10 DEF FindAccount
  <2> QED
    BY <1>10, <2>1, <2>2 DEF FindAccount
<1>11. ASSUME NEW c \in Calls, FindResetUser(c) PROVE Typed'
  <2>1. call' \in [Calls -> CallRecord]
    <3>1. UNCHANGED call \/ \E a \in Addresses, i \in Ids : Know(c, a, i)
      BY <1>11 DEF FindResetUser, ActiveUserByEmail
    <3> QED
      BY <3>1, Records
  <2>2. place' \in [Calls -> Place]
    BY <1>0, <1>11 DEF FindResetUser
  <2> QED
    BY <1>11, <2>1, <2>2 DEF FindResetUser
<1>12. ASSUME NEW c \in Calls, SendReset(c) PROVE Typed'
  <2>1. call[c].id \in Ids /\ call[c].address \in Addresses
    BY <1>12 DEF SendReset, CallInv
  <2> DEFINE m == [task |-> "password_reset", user |-> call[c].id, to |-> call[c].address]
  <2>m. m \in Mail
    BY <2>1, Records
  <2> HIDE DEF m
  <2>2. mail' \in [Calls -> SUBSET Mail]
    <3>1. mail' = [mail EXCEPT ![c] = {m}] \/ UNCHANGED mail
      BY <1>12 DEF SendReset, m
    <3> QED
      BY <2>m, <3>1
  <2> QED
    BY <1>0, <1>12, <2>2 DEF SendReset
<1>13. ASSUME NEW i \in Ids, NEW a \in Addresses, PatchAccount(i, a) PROVE Typed'
  <2>1. row' \in [Ids -> Row]
    <3>1. row' = [row EXCEPT ![i] = Readdressed(row[i], a)]
      BY <1>13 DEF PatchAccount
    <3>2. Readdressed(row[i], a) \in Row
      BY Rows
    <3> QED
      BY <3>1, <3>2
  <2>2. moved' \subseteq Addresses
    BY <1>13 DEF PatchAccount, RowInv
  <2> QED
    BY <1>13, <2>1, <2>2 DEF PatchAccount
<1>14. ASSUME NEW i \in Ids, DeleteAccount(i) PROVE Typed'
  <2>1. row' = [row EXCEPT ![i] = [row[i] EXCEPT !.deleted = TRUE]]
    BY <1>14 DEF DeleteAccount
  <2>2. [row[i] EXCEPT !.deleted = TRUE] \in Row
    BY Rows
  <2>3. row' \in [Ids -> Row]
    BY <2>1, <2>2
  <2> QED
    BY <1>14, <2>3 DEF DeleteAccount
<1>15. ASSUME NEW i \in Ids, EraseAccount(i) PROVE Typed'
  <2>1. row' = [row EXCEPT ![i] = [row[i] EXCEPT !.address = None, !.hashed = FALSE]]
    BY <1>15 DEF EraseAccount
  <2>2. [row[i] EXCEPT !.address = None, !.hashed = FALSE] \in Row
    BY Rows
  <2>3. row' \in [Ids -> Row]
    BY <2>1, <2>2
  <2> QED
    BY <1>15, <2>3 DEF EraseAccount
<1>16. ASSUME NEW c \in Calls, Fail(c) PROVE Typed'
  BY <1>0, <1>f, <1>16 DEF Fail
<1>17. CASE UNCHANGED vars
  BY <1>17 DEF vars
<1> QED
  BY <1>1, <1>2, <1>3, <1>4, <1>5, <1>6, <1>7, <1>8, <1>9, <1>10, <1>11, <1>12, <1>13,
     <1>14, <1>15, <1>16, <1>17
  DEF Next, Quiet, Notify, Register, OAuthGoogle, Login, Account

-----------------------------------------------------------------------------
(* What a step may do to the users of GoTrue and to the rows.              *)

\* A new user has an address that nobody had.
AuthStep ==
    \/ UNCHANGED auth
    \/ \E i \in Fresh, a \in Addresses :
          /\ UserAt(a) = {}
          /\ gotrue' = [gotrue EXCEPT ![i] = a]
          /\ password' \in {password, password \cup {i}}

Others(i) == \A k \in Ids \ {i} : row'[k] = row[k]

Inserted(i) ==
    /\ ~row[i].stored
    /\ row'[i].stored /\ ~row'[i].deleted
    /\ row'[i].address = gotrue[i] /\ gotrue[i] \in Addresses
    /\ row'[i].verified = ~row'[i].hashed
    /\ UNCHANGED moved

Patched(i) ==
    /\ row[i].stored /\ ~row[i].deleted
    /\ row'[i].stored /\ ~row'[i].deleted
    /\ row'[i].hashed = row[i].hashed /\ ~row'[i].verified
    /\ row'[i].address \in Addresses
    /\ row'[i].address = row[i].address \/ row'[i].address \in moved'
    /\ moved \subseteq moved'

Ended(i) ==
    /\ row[i].stored
    /\ row'[i].stored /\ row'[i].deleted
    /\ row'[i].address \in {row[i].address, None}
    /\ UNCHANGED moved

RowStep ==
    \/ UNCHANGED <<row, moved>>
    \/ \E i \in Ids : Others(i) /\ (Inserted(i) \/ Patched(i) \/ Ended(i))

LEMMA AuthSteps == TypeOK /\ AuthInv /\ CallInv /\ [Next]_vars => AuthStep
<1> SUFFICES ASSUME TypeOK, AuthInv, CallInv, [Next]_vars PROVE AuthStep
  OBVIOUS
<1>1. ASSUME NEW c \in Calls, SignUp(c) PROVE AuthStep
  BY <1>1 DEF SignUp, Goto, CallInv, AuthStep, auth
<1>2. ASSUME NEW c \in Calls, SignUpAnswerLost(c) PROVE AuthStep
  BY <1>2 DEF SignUpAnswerLost, Goto, CallInv, AuthStep
<1>3. ASSUME NEW c \in Calls, GoogleTokens(c) PROVE AuthStep
  <2>0. PICK a \in Addresses : \E i \in IF UserAt(a) = {} THEN Fresh ELSE UserAt(a) :
             gotrue' = [gotrue EXCEPT ![i] = a]
    BY <1>3 DEF GoogleTokens
  <2>1. PICK i \in IF UserAt(a) = {} THEN Fresh ELSE UserAt(a) :
             gotrue' = [gotrue EXCEPT ![i] = a]
    BY <2>0
  <2>2. CASE UserAt(a) = {}
    BY <1>3, <2>1, <2>2 DEF GoogleTokens, AuthStep
  <2>3. CASE UserAt(a) # {}
    <3>1. gotrue' = gotrue
      BY <2>1, <2>3 DEF TypeOK, UserAt
    <3> QED
      BY <1>3, <3>1 DEF GoogleTokens, AuthStep, auth
  <2> QED
    BY <2>2, <2>3
<1>4. UNCHANGED auth => AuthStep
  BY DEF AuthStep
<1> QED
  BY <1>1, <1>2, <1>3, <1>4
  DEF Next, Quiet, Notify, Register, OAuthGoogle, Login, Account, vars, CheckAddress,
      CommitRegistration, SendVerification, GoogleSelect, GoogleInsert, SignIn, FindAccount,
      FindResetUser, SendReset, PatchAccount, DeleteAccount, EraseAccount, Fail

\* GoTrue keeps its users and their addresses.
LEMMA Grows ==
    ASSUME TypeOK, AuthStep, NEW i \in Ids, gotrue[i] # None
    PROVE  gotrue'[i] = gotrue[i]
BY DEF TypeOK, AuthStep, Fresh, auth

LEMMA AuthInvStep == TypeOK /\ AuthInv /\ AuthStep => AuthInv'
BY AccountsAssumption DEF TypeOK, AuthInv, AuthStep, auth, Fresh, UserAt

-----------------------------------------------------------------------------
\* An insertion fails on a row that is there, or makes a new one.
LEMMA InsertCases ==
    ASSUME TypeOK, NEW c \in Calls, Knows(c), NEW h \in BOOLEAN, NEW to,
           InsertUser(c, h, to)
    PROVE  \/ /\ row[call[c].id].stored \/ AddressTaken(call[c].address)
              /\ UNCHANGED row
              /\ place' = [place EXCEPT ![c] = "failed"]
           \/ /\ ~row[call[c].id].stored
              /\ Others(call[c].id)
              /\ row'[call[c].id].stored /\ ~row'[call[c].id].deleted
              /\ row'[call[c].id].address = gotrue[call[c].id]
              /\ gotrue[call[c].id] \in Addresses
              /\ row'[call[c].id].hashed = h /\ row'[call[c].id].verified = ~h
              /\ place' = [place EXCEPT ![c] = to]
<1> DEFINE new == [stored |-> TRUE, address |-> call[c].address, hashed |-> h,
                   verified |-> ~h, deleted |-> FALSE]
<1>1. /\ new.stored = TRUE /\ new.address = call[c].address /\ new.hashed = h
      /\ new.verified = ~h /\ new.deleted = FALSE
  OBVIOUS
<1> HIDE DEF new
<1>2. CASE ~row[call[c].id].stored /\ ~AddressTaken(call[c].address)
  <2>1. row' = [row EXCEPT ![call[c].id] = new] /\ place' = [place EXCEPT ![c] = to]
    BY <1>2 DEF InsertUser, RowId, new
  <2>2. row'[call[c].id] = new /\ Others(call[c].id)
    BY <2>1 DEF TypeOK, Knows, Others
  <2> QED
    BY <1>1, <1>2, <2>1, <2>2 DEF Knows
<1>3. CASE row[call[c].id].stored \/ AddressTaken(call[c].address)
  BY <1>3 DEF InsertUser, RowId
<1> QED
  BY <1>2, <1>3

LEMMA RowSteps == TypeOK /\ CallInv /\ RowInv /\ [Next]_vars => RowStep
<1> SUFFICES ASSUME TypeOK, CallInv, RowInv, [Next]_vars PROVE RowStep
  OBVIOUS
<1>1. ASSUME NEW c \in Calls, CommitRegistration(c) PROVE RowStep
  <2>1. Knows(c) /\ call[c].id \in Ids
    BY <1>1 DEF CommitRegistration, CallInv, Knows
  <2>2. UNCHANGED row \/ (Others(call[c].id) /\ Inserted(call[c].id))
    BY <1>1, <2>1, InsertCases DEF CommitRegistration, Inserted
  <2> QED
    BY <1>1, <2>1, <2>2 DEF CommitRegistration, RowStep
<1>2. ASSUME NEW c \in Calls, GoogleInsert(c) PROVE RowStep
  <2>1. Knows(c) /\ call[c].id \in Ids
    BY <1>2 DEF GoogleInsert, CallInv, Knows
  <2>2. UNCHANGED row \/ (Others(call[c].id) /\ Inserted(call[c].id))
    BY <1>2, <2>1, InsertCases DEF GoogleInsert, Inserted
  <2> QED
    BY <1>2, <2>1, <2>2 DEF GoogleInsert, RowStep
<1>3. ASSUME NEW i \in Ids, NEW a \in Addresses, PatchAccount(i, a) PROVE RowStep
  <2>1. row' = [row EXCEPT ![i] = Readdressed(row[i], a)]
    BY <1>3 DEF PatchAccount
  <2>2. row'[i] = Readdressed(row[i], a) /\ Others(i)
    BY <2>1 DEF TypeOK, Others
  <2>3. /\ row'[i].stored = row[i].stored /\ row'[i].deleted = row[i].deleted
        /\ row'[i].hashed = row[i].hashed /\ row'[i].verified = FALSE
        /\ row'[i].address = a
    BY <2>2 DEF Readdressed, TypeOK, Row
  <2>4. /\ a = row[i].address \/ a \in moved'
        /\ moved \subseteq moved'
    BY <1>3 DEF PatchAccount
  <2>5. row[i].stored /\ ~row[i].deleted
    BY <1>3 DEF PatchAccount
  <2>6. Patched(i)
    BY <2>3, <2>4, <2>5 DEF Patched
  <2> QED
    BY <2>2, <2>6 DEF RowStep
<1>4. ASSUME NEW i \in Ids, DeleteAccount(i) PROVE RowStep
  <2>1. row'[i] = [row[i] EXCEPT !.deleted = TRUE] /\ Others(i)
    BY <1>4 DEF DeleteAccount, TypeOK, Others
  <2>2. /\ row'[i].stored = row[i].stored /\ row'[i].deleted
        /\ row'[i].address = row[i].address
    BY <2>1 DEF TypeOK, Row
  <2>3. Ended(i)
    BY <1>4, <2>2 DEF DeleteAccount, Ended
  <2> QED
    BY <2>1, <2>3 DEF RowStep
<1>5. ASSUME NEW i \in Ids, EraseAccount(i) PROVE RowStep
  <2>1. row'[i] = [row[i] EXCEPT !.address = None, !.hashed = FALSE] /\ Others(i)
    BY <1>5 DEF EraseAccount, TypeOK, Others
  <2>2. /\ row'[i].stored = row[i].stored /\ row'[i].deleted = row[i].deleted
        /\ row'[i].address = None
    BY <2>1 DEF TypeOK, Row
  <2>3. Ended(i)
    BY <1>5, <2>2 DEF EraseAccount, Ended, RowInv
  <2> QED
    BY <2>1, <2>3 DEF RowStep
<1>6. UNCHANGED <<row, moved>> => RowStep
  BY DEF RowStep
<1> QED
  BY <1>1, <1>2, <1>3, <1>4, <1>5, <1>6
  DEF Next, Quiet, Notify, Register, OAuthGoogle, Login, Account, vars, CheckAddress,
      SignUp, SignUpAnswerLost, SendVerification, GoogleTokens, GoogleSelect, SignIn,
      FindAccount, FindResetUser, SendReset, Fail

LEMMA RowInvStep ==
    TypeOK /\ AuthStep /\ RowInv /\ VerifiedAddressIsGoTrues /\ RowStep =>
        RowInv' /\ VerifiedAddressIsGoTrues'
<1> SUFFICES ASSUME TypeOK, AuthStep, RowInv, VerifiedAddressIsGoTrues, RowStep, NEW k \in Ids
             PROVE  /\ row'[k].stored => gotrue'[k] # None
                    /\ row'[k].stored /\ ~row'[k].deleted => row'[k].address \in Addresses
                    /\ row'[k].verified \/ row'[k].deleted => row'[k].stored
                    /\ row'[k].stored /\ row'[k].address # None
                         /\ row'[k].address # gotrue'[k] => row'[k].address \in moved'
                    /\ row'[k].verified /\ ~row'[k].deleted =>
                          gotrue'[k] = row'[k].address
  BY DEF RowInv, VerifiedAddressIsGoTrues
<1>1. gotrue[k] # None => gotrue'[k] = gotrue[k]
  BY Grows
<1>2. CASE row'[k] = row[k]
  <2>1. moved \subseteq moved'
    BY DEF RowStep, Inserted, Patched, Ended
  <2> QED
    BY <1>1, <1>2, <2>1 DEF RowInv, VerifiedAddressIsGoTrues
<1>3. CASE Inserted(k)
  BY <1>1, <1>3, AccountsAssumption DEF Inserted
<1>4. CASE Patched(k)
  BY <1>1, <1>4, AccountsAssumption DEF Patched, RowInv
<1>5. CASE Ended(k)
  BY <1>1, <1>5 DEF Ended, RowInv
<1> QED
  BY <1>2, <1>3, <1>4, <1>5 DEF RowStep, Others

-----------------------------------------------------------------------------
(* What a call knows.                                                      *)

KnowsAt(c) ==
    /\ place[c] \in {"checked", "found"} => call[c].address \in Addresses
    /\ place[c] = "found" => call[c].id \in Ids
    /\ place[c] \in {"signedUp", "registered", "tokens", "unknown", "verified"} => Knows(c)

\* A step of c leaves what the other calls know.
LEMMA OtherCalls ==
    ASSUME TypeOK, CallInv, AuthStep, NEW d \in Calls,
           place'[d] = place[d], call'[d] = call[d]
    PROVE  KnowsAt(d)'
<1>1. KnowsAt(d)
  BY DEF CallInv, KnowsAt
<1>2. Knows(d) => Knows(d)'
  BY Grows, AccountsAssumption DEF Knows
<1> QED
  BY <1>1, <1>2 DEF KnowsAt

LEMMA CallInvStep == TypeOK /\ AuthInv /\ CallInv /\ AuthStep /\ [Next]_vars => CallInv'
<1> SUFFICES ASSUME TypeOK, AuthInv, CallInv, AuthStep, [Next]_vars, NEW d \in Calls
             PROVE  KnowsAt(d)'
  BY DEF CallInv, KnowsAt
<1>0. KnowsAt(d)
  BY DEF CallInv, KnowsAt
<1>a. place'[d] = place[d] /\ call'[d] = call[d] => KnowsAt(d)'
  BY OtherCalls
<1>b. place'[d] \in {"idle", "answered", "refused", "failed"} => KnowsAt(d)'
  BY DEF KnowsAt
\* A call that goes on with what it knows.
<1>c. Knows(d) /\ call'[d] = call[d] => KnowsAt(d)'
  <2>1. Knows(d) /\ call'[d] = call[d] => Knows(d)'
    BY Grows, AccountsAssumption DEF Knows
  <2> QED
    BY <2>1 DEF KnowsAt, Knows
<1> USE DEF TypeOK, Goto, Know
<1>1. ASSUME NEW c \in Calls, CheckAddress(c) PROVE KnowsAt(d)'
  <2>1. CASE d = c
    <3>1. \/ place'[d] = "checked" /\ call'[d].address \in Addresses
          \/ place'[d] = "refused"
      BY <1>1, <2>1 DEF CheckAddress
    <3> QED
      BY <3>1, <1>b DEF KnowsAt
  <2> QED
    BY <1>1, <1>a, <2>1 DEF CheckAddress
<1>2. ASSUME NEW c \in Calls, SignUp(c) PROVE KnowsAt(d)'
  <2>1. CASE d = c /\ UserAt(call[c].address) = {}
    <3>1. PICK i \in Fresh : /\ gotrue' = [gotrue EXCEPT ![i] = call[c].address]
                             /\ Know(c, call[c].address, i)
      BY <1>2, <2>1 DEF SignUp
    <3>2. i \in Ids /\ call[c].address \in Addresses
      BY <1>0, <1>2, <2>1 DEF SignUp, Fresh, KnowsAt
    <3>3. call'[d].id = i /\ call'[d].address = call[c].address
      BY <2>1, <3>1
    <3>4. gotrue'[i] = call[c].address
      BY <3>1, <3>2
    <3>5. Knows(d)'
      BY <3>2, <3>3, <3>4 DEF Knows
    <3> QED
      BY <3>5 DEF KnowsAt, Knows
  <2>2. CASE d # c \/ UserAt(call[c].address) # {}
    BY <1>2, <1>a, <1>b, <2>2 DEF SignUp
  <2> QED
    BY <2>1, <2>2
<1>3. ASSUME NEW c \in Calls, SignUpAnswerLost(c) PROVE KnowsAt(d)'
  BY <1>3, <1>a, <1>b DEF SignUpAnswerLost
<1>4. ASSUME NEW c \in Calls, CommitRegistration(c) PROVE KnowsAt(d)'
  <2>1. Knows(c)
    BY <1>4 DEF CommitRegistration, CallInv
  <2>2. call' = call /\ (d # c => place'[d] = place[d])
    BY <1>4, <2>1, InsertCases DEF CommitRegistration
  <2> QED
    BY <1>a, <1>c, <2>1, <2>2
<1>5. ASSUME NEW c \in Calls, SendVerification(c) PROVE KnowsAt(d)'
  BY <1>5, <1>a, <1>b DEF SendVerification
<1>6. ASSUME NEW c \in Calls, GoogleTokens(c) PROVE KnowsAt(d)'
  <2>1. CASE d = c
    <3>0. PICK a \in Addresses : \E i \in IF UserAt(a) = {} THEN Fresh ELSE UserAt(a) :
               gotrue' = [gotrue EXCEPT ![i] = a] /\ Know(c, a, i)
      BY <1>6 DEF GoogleTokens
    <3>1. PICK i \in Ids : gotrue' = [gotrue EXCEPT ![i] = a] /\ Know(c, a, i)
      BY <3>0 DEF Fresh, UserAt
    <3>2. call'[d].id = i /\ call'[d].address = a /\ gotrue'[i] = a
      BY <2>1, <3>1
    <3>3. Knows(d)'
      BY <3>2 DEF Knows
    <3> QED
      BY <3>3 DEF KnowsAt, Knows
  <2> QED
    BY <1>6, <1>a, <2>1 DEF GoogleTokens
<1>7. ASSUME NEW c \in Calls, GoogleSelect(c) PROVE KnowsAt(d)'
  <2>1. place[c] = "tokens" /\ call' = call /\ (d # c => place'[d] = place[d])
    BY <1>7 DEF GoogleSelect
  <2> QED
    BY <1>0, <1>a, <1>c, <2>1 DEF KnowsAt
<1>8. ASSUME NEW c \in Calls, GoogleInsert(c) PROVE KnowsAt(d)'
  <2>1. Knows(c)
    BY <1>8 DEF GoogleInsert, CallInv
  <2>2. call' = call /\ (d # c => place'[d] = place[d])
    BY <1>8, <2>1, InsertCases DEF GoogleInsert
  <2> QED
    BY <1>a, <1>c, <2>1, <2>2
<1>9. ASSUME NEW c \in Calls, SignIn(c) PROVE KnowsAt(d)'
  <2>1. CASE d = c
    <3>1. PICK i \in password : Know(c, gotrue[i], i)
      BY <1>9 DEF SignIn
    <3>2. /\ i \in Ids /\ gotrue[i] \in Addresses
          /\ gotrue' = gotrue
      BY <1>9 DEF SignIn, AuthInv, auth
    <3>3. call'[d].id = i /\ call'[d].address = gotrue[i]
      BY <2>1, <3>1
    <3>4. Knows(d)'
      BY <3>2, <3>3 DEF Knows
    <3> QED
      BY <3>4 DEF KnowsAt, Knows
  <2> QED
    BY <1>9, <1>a, <2>1 DEF SignIn
<1>10. ASSUME NEW c \in Calls, FindAccount(c) PROVE KnowsAt(d)'
  BY <1>10, <1>a, <1>b DEF FindAccount
<1>11. ASSUME NEW c \in Calls, FindResetUser(c) PROVE KnowsAt(d)'
  <2>1. CASE d = c
    <3>1. \/ /\ place'[d] = "found"
             /\ call'[d].address \in Addresses /\ call'[d].id \in Ids
          \/ place'[d] = "answered"
      BY <1>11, <2>1 DEF FindResetUser, ActiveUserByEmail
    <3> QED
      BY <3>1, <1>b DEF KnowsAt
  <2> QED
    BY <1>11, <1>a, <2>1 DEF FindResetUser
<1>12. ASSUME NEW c \in Calls, SendReset(c) PROVE KnowsAt(d)'
  BY <1>12, <1>a, <1>b DEF SendReset
<1>13. ASSUME NEW c \in Calls, Fail(c) PROVE KnowsAt(d)'
  BY <1>13, <1>a, <1>b DEF Fail
<1>14. UNCHANGED <<place, call>> => KnowsAt(d)'
  BY <1>a
<1> QED
  BY <1>1, <1>2, <1>3, <1>4, <1>5, <1>6, <1>7, <1>8, <1>9, <1>10, <1>11, <1>12, <1>13, <1>14
  DEF Next, Quiet, Notify, Register, OAuthGoogle, Login, Account, vars, PatchAccount,
      DeleteAccount, EraseAccount

-----------------------------------------------------------------------------
(* The accounts that were registered, and those that Google has signed in. *)

\* How the two sets of accounts may grow.
MergeStep(i) ==
    /\ Registered(i)' =>
          \/ Registered(i)
          \/ ~row[i].stored /\ row'[i].stored /\ row'[i].hashed
    /\ ByGoogle(i)' =>
          \/ ByGoogle(i)
          \/ row' = row /\ row[i].stored /\ ~row[i].hashed /\ ~row[i].deleted
          \/ ~row[i].stored /\ row'[i].stored
    /\ ~(Registered(i)' /\ ~Registered(i) /\ ByGoogle(i)' /\ ~ByGoogle(i))

LEMMA MergeSteps ==
    TypeOK /\ CallInv /\ [Next]_vars => \A i \in Ids : MergeStep(i)
<1> SUFFICES ASSUME TypeOK, CallInv, [Next]_vars, NEW i \in Ids PROVE MergeStep(i)
  OBVIOUS
<1>a. (Registered(i)' => Registered(i)) /\ (ByGoogle(i)' => ByGoogle(i)) => MergeStep(i)
  BY DEF MergeStep
\* Steps that answer nobody and do not register.
<1>b. ASSUME NEW c \in Calls, NEW to \in Place \ {"registered"},
             place' = [place EXCEPT ![c] = to],
             \A d \in Calls \ {c} : call'[d] = call[d], UNCHANGED answer
      PROVE  MergeStep(i)
  BY <1>a, <1>b DEF TypeOK, Registered, ByGoogle
<1> USE DEF TypeOK, Goto, Know, Place
<1>1. ASSUME NEW c \in Calls, CheckAddress(c) PROVE MergeStep(i)
  <2>1. /\ \E to \in {"checked", "refused"} : place' = [place EXCEPT ![c] = to]
        /\ \A d \in Calls \ {c} : call'[d] = call[d]
        /\ UNCHANGED answer
    BY <1>1 DEF CheckAddress
  <2> QED
    BY <1>b, <2>1
<1>2. ASSUME NEW c \in Calls, SignUp(c) PROVE MergeStep(i)
  <2>1. /\ \E to \in {"signedUp", "refused"} : place' = [place EXCEPT ![c] = to]
        /\ \A d \in Calls \ {c} : call'[d] = call[d]
        /\ UNCHANGED answer
    BY <1>2 DEF SignUp
  <2> QED
    BY <1>b, <2>1
<1>3. ASSUME NEW c \in Calls, SignUpAnswerLost(c) PROVE MergeStep(i)
  BY <1>3, <1>b DEF SignUpAnswerLost
<1>4. ASSUME NEW c \in Calls, CommitRegistration(c) PROVE MergeStep(i)
  <2>1. Knows(c) /\ call[c].id \in Ids
    BY <1>4 DEF CommitRegistration, CallInv, Knows
  <2>2. UNCHANGED <<call, answer>>
    BY <1>4 DEF CommitRegistration
  <2>3. CASE place' = [place EXCEPT ![c] = "failed"]
    BY <1>b, <2>2, <2>3
  <2>4. CASE /\ ~row[call[c].id].stored /\ row'[call[c].id].stored /\ row'[call[c].id].hashed
             /\ place' = [place EXCEPT ![c] = "registered"]
    <3>1. ByGoogle(i)' => ByGoogle(i)
      BY <2>2 DEF ByGoogle
    <3>2. Registered(i)' => Registered(i) \/ i = call[c].id
      BY <2>2, <2>4 DEF Registered
    <3> QED
      BY <2>4, <3>1, <3>2 DEF MergeStep
  <2> QED
    BY <1>4, <2>1, <2>3, <2>4, InsertCases DEF CommitRegistration
<1>5. ASSUME NEW c \in Calls, SendVerification(c) PROVE MergeStep(i)
  <2>1. /\ answer' = [answer EXCEPT ![c] = [by |-> "register", tokens |-> call[c].id,
                                            user |-> call[c].id]]
        /\ place[c] = "registered" /\ place' = [place EXCEPT ![c] = "answered"]
        /\ UNCHANGED call
    BY <1>5 DEF SendVerification, Answer
  <2>2. \A d \in Calls : \/ d # c /\ answer'[d] = answer[d]
                         \/ d = c /\ answer'[d].by = "register" /\ answer'[d].user = call[c].id
    BY <2>1
  <2>3. Registered(i)' => Registered(i)
    BY <2>1, <2>2 DEF Registered
  <2>4. ByGoogle(i)' => ByGoogle(i)
    BY <2>2 DEF ByGoogle
  <2> QED
    BY <1>a, <2>3, <2>4
<1>6. ASSUME NEW c \in Calls, GoogleTokens(c) PROVE MergeStep(i)
  <2>1. /\ place' = [place EXCEPT ![c] = "tokens"]
        /\ \A d \in Calls \ {c} : call'[d] = call[d]
        /\ UNCHANGED answer
    BY <1>6 DEF GoogleTokens
  <2> QED
    BY <1>b, <2>1
<1>7. ASSUME NEW c \in Calls, GoogleSelect(c) PROVE MergeStep(i)
  <2>1. CASE UNCHANGED answer
    <3>1. /\ \E to \in {"unknown", "answered", "refused"} : place' = [place EXCEPT ![c] = to]
          /\ UNCHANGED call
      BY <1>7 DEF GoogleSelect
    <3> QED
      BY <1>b, <2>1, <3>1
  <2>2. ASSUME NEW k \in Ids, k \in ActiveUserByEmail(call[c].address), MayLinkGoogle(k),
               Goto(c, "tokens", "answered"), Answer(c, "google", call[c].id, k)
        PROVE  MergeStep(i)
    <3>1. \A d \in Calls : \/ d # c /\ answer'[d] = answer[d]
                           \/ d = c /\ answer'[d].by = "google" /\ answer'[d].user = k
      BY <2>2 DEF Answer
    <3>2. UNCHANGED <<call, row>>
      BY <1>7 DEF GoogleSelect
    <3>3. Registered(i)' => Registered(i)
      BY <2>2, <3>1, <3>2 DEF Registered
    <3>4. ByGoogle(i)' => ByGoogle(i) \/ i = k
      BY <3>1 DEF ByGoogle
    <3> QED
      BY <2>2, <3>2, <3>3, <3>4 DEF MergeStep, ActiveUserByEmail, MayLinkGoogle
  <2> QED
    BY <1>7, <2>1, <2>2 DEF GoogleSelect, ActiveUserByEmail
<1>8. ASSUME NEW c \in Calls, GoogleInsert(c) PROVE MergeStep(i)
  <2>1. Knows(c) /\ call[c].id \in Ids
    BY <1>8 DEF GoogleInsert, CallInv, Knows
  <2>2. UNCHANGED call
    BY <1>8 DEF GoogleInsert
  <2>3. CASE place' = [place EXCEPT ![c] = "failed"]
    <3>1. UNCHANGED answer
      BY <1>8, <2>3 DEF GoogleInsert
    <3> QED
      BY <1>b, <2>2, <2>3, <3>1
  <2>4. CASE /\ ~row[call[c].id].stored /\ row'[call[c].id].stored
             /\ place' = [place EXCEPT ![c] = "answered"]
    <3>1. answer' = [answer EXCEPT ![c] = [by |-> "google", tokens |-> call[c].id,
                                           user |-> call[c].id]]
      BY <1>8, <2>4 DEF GoogleInsert
    <3>2. \A d \in Calls : \/ d # c /\ answer'[d] = answer[d]
                           \/ d = c /\ answer'[d].by = "google"
                                    /\ answer'[d].user = call[c].id
      BY <3>1
    <3>3. Registered(i)' => Registered(i)
      BY <2>2, <2>4, <3>2 DEF Registered
    <3>4. ByGoogle(i)' => ByGoogle(i) \/ i = call[c].id
      BY <3>2 DEF ByGoogle
    <3> QED
      BY <2>4, <3>3, <3>4 DEF MergeStep
  <2> QED
    BY <1>8, <2>1, <2>3, <2>4, InsertCases DEF GoogleInsert
<1>9. ASSUME NEW c \in Calls, SignIn(c) PROVE MergeStep(i)
  <2>1. /\ place' = [place EXCEPT ![c] = "verified"]
        /\ \A d \in Calls \ {c} : call'[d] = call[d]
        /\ UNCHANGED answer
    BY <1>9 DEF SignIn
  <2> QED
    BY <1>b, <2>1
<1>10. ASSUME NEW c \in Calls, FindAccount(c) PROVE MergeStep(i)
  <2>0. /\ place[c] = "verified" /\ UNCHANGED call
        /\ \E to \in {"answered", "refused"} : place' = [place EXCEPT ![c] = to]
    BY <1>10 DEF FindAccount
  <2>1. \A d \in Calls : answer'[d] = answer[d] \/ (d = c /\ answer'[d].by = "login")
    BY <1>10 DEF FindAccount, Answer
  <2>2. Registered(i)' => Registered(i)
    BY <2>0, <2>1 DEF Registered
  <2>3. ByGoogle(i)' => ByGoogle(i)
    BY <2>1 DEF ByGoogle
  <2> QED
    BY <1>a, <2>2, <2>3
<1>11. ASSUME NEW c \in Calls, FindResetUser(c) PROVE MergeStep(i)
  <2>1. /\ \E to \in {"answered", "found"} : place' = [place EXCEPT ![c] = to]
        /\ \A d \in Calls \ {c} : call'[d] = call[d]
        /\ UNCHANGED answer
    BY <1>11 DEF FindResetUser
  <2> QED
    BY <1>b, <2>1
<1>12. ASSUME NEW c \in Calls, SendReset(c) PROVE MergeStep(i)
  BY <1>12, <1>b DEF SendReset
<1>13. ASSUME NEW c \in Calls, Fail(c) PROVE MergeStep(i)
  BY <1>13, <1>b DEF Fail
<1>14. UNCHANGED <<place, call, answer>> => MergeStep(i)
  BY <1>a DEF Registered, ByGoogle
<1> QED
  BY <1>1, <1>2, <1>3, <1>4, <1>5, <1>6, <1>7, <1>8, <1>9, <1>10, <1>11, <1>12, <1>13, <1>14
  DEF Next, Quiet, Notify, Register, OAuthGoogle, Login, Account, vars, PatchAccount,
      DeleteAccount, EraseAccount

LEMMA MergeInvStep == RowStep /\ MergeInv /\ (\A i \in Ids : MergeStep(i)) => MergeInv'
<1> SUFFICES ASSUME RowStep, MergeInv, \A i \in Ids : MergeStep(i), NEW i \in Ids
             PROVE  /\ Registered(i)' => row'[i].stored /\ (row'[i].hashed \/ row'[i].deleted)
                    /\ ByGoogle(i)' => row'[i].stored
                    /\ ~(Registered(i)' /\ ByGoogle(i)')
  BY DEF MergeInv
<1>1. row[i].stored => row'[i].stored
  BY DEF RowStep, Others, Inserted, Patched, Ended
<1>2. row[i].stored /\ (row[i].hashed \/ row[i].deleted) => row'[i].hashed \/ row'[i].deleted
  BY DEF RowStep, Others, Inserted, Patched, Ended
<1> QED
  BY <1>1, <1>2 DEF MergeInv, MergeStep

-----------------------------------------------------------------------------
(* Answers.                                                                *)

Named(c) ==
    answer[c].tokens # answer[c].user => place[c] = "answered" /\ call[c].address \in moved

\* An active account with the address of a GoTrue user is his, or PATCH has moved it.
LEMMA Namesake ==
    ASSUME AuthInv, RowInv, NEW c, Knows(c), AccountsAssumption,
           NEW k \in ActiveUserByEmail(call[c].address)
    PROVE  k = call[c].id \/ call[c].address \in moved
BY DEF AuthInv, RowInv, Knows, ActiveUserByEmail, AccountsAssumption

LEMMA AnswerInvStep ==
    TypeOK /\ AuthInv /\ CallInv /\ RowInv /\ AnswerInv /\ RowStep /\ [Next]_vars => AnswerInv'
<1> SUFFICES ASSUME TypeOK, AuthInv, CallInv, RowInv, AnswerInv, RowStep, [Next]_vars,
                    NEW d \in Calls
             PROVE  Named(d)'
  BY DEF AnswerInv, Named
<1>0. Named(d)
  BY DEF AnswerInv, Named
<1>m. moved \subseteq moved'
  BY DEF RowStep, Inserted, Patched, Ended
<1>a. answer'[d] = answer[d] /\ place'[d] = place[d] /\ call'[d] = call[d] => Named(d)'
  BY <1>0, <1>m DEF Named
\* A call that is not over has answered nobody.
<1>b. answer'[d] = answer[d] /\ place[d] # "answered" => Named(d)'
  BY <1>0 DEF Named
<1>c. answer'[d].tokens = answer'[d].user => Named(d)'
  BY DEF Named
<1> USE DEF TypeOK, Goto, Know
<1>1. ASSUME NEW c \in Calls, CheckAddress(c) \/ SignUp(c) \/ FindResetUser(c) PROVE Named(d)'
  <2>1. UNCHANGED answer /\ place[c] # "answered"
    BY <1>1 DEF CheckAddress, SignUp, FindResetUser
  <2>2. d # c => place'[d] = place[d] /\ call'[d] = call[d]
    BY <1>1 DEF CheckAddress, SignUp, FindResetUser
  <2> QED
    BY <1>a, <1>b, <2>1, <2>2
<1>2. ASSUME NEW c \in Calls,
             \/ SignUpAnswerLost(c) \/ GoogleTokens(c) \/ SignIn(c) \/ SendReset(c) \/ Fail(c)
      PROVE  Named(d)'
  <2>1. UNCHANGED answer /\ place[c] # "answered"
    BY <1>2 DEF SignUpAnswerLost, GoogleTokens, SignIn, SendReset, Fail
  <2>2. d # c => place'[d] = place[d] /\ call'[d] = call[d]
    BY <1>2 DEF SignUpAnswerLost, GoogleTokens, SignIn, SendReset, Fail
  <2> QED
    BY <1>a, <1>b, <2>1, <2>2
<1>3. ASSUME NEW c \in Calls, CommitRegistration(c) PROVE Named(d)'
  <2>1. Knows(c)
    BY <1>3 DEF CommitRegistration, CallInv
  <2>2. UNCHANGED <<answer, call>> /\ place[c] # "answered"
    BY <1>3 DEF CommitRegistration
  <2>3. d # c => place'[d] = place[d]
    BY <1>3, <2>1, InsertCases DEF CommitRegistration
  <2> QED
    BY <1>a, <1>b, <2>2, <2>3
<1>4. ASSUME NEW c \in Calls, SendVerification(c) PROVE Named(d)'
  <2>1. d = c => answer'[d].tokens = answer'[d].user
    BY <1>4 DEF SendVerification, Answer
  <2>2. d # c => answer'[d] = answer[d] /\ place'[d] = place[d] /\ call'[d] = call[d]
    BY <1>4 DEF SendVerification, Answer
  <2> QED
    BY <1>a, <1>c, <2>1, <2>2
<1>5. ASSUME NEW c \in Calls, GoogleInsert(c) PROVE Named(d)'
  <2>1. Knows(c) /\ UNCHANGED call /\ place[c] # "answered"
    BY <1>5 DEF GoogleInsert, CallInv
  <2>2. d # c => answer'[d] = answer[d] /\ place'[d] = place[d]
    BY <1>5, <2>1, InsertCases DEF GoogleInsert
  <2>3. d = c => answer'[d] = answer[d] \/ answer'[d].tokens = answer'[d].user
    BY <1>5 DEF GoogleInsert
  <2> QED
    BY <1>a, <1>b, <1>c, <2>1, <2>2, <2>3
<1>6. ASSUME NEW c \in Calls, NEW k \in ActiveUserByEmail(call[c].address), Knows(c), NEW by,
             Answer(c, by, call[c].id, k), place' = [place EXCEPT ![c] = "answered"],
             UNCHANGED <<call, moved>>
      PROVE  Named(d)'
  <2>1. d # c => answer'[d] = answer[d] /\ place'[d] = place[d] /\ call'[d] = call[d]
    BY <1>6 DEF Answer
  <2>2. CASE d = c
    <3>1. answer'[d].tokens = call[c].id /\ answer'[d].user = k
      BY <1>6, <2>2 DEF Answer
    <3>2. place'[d] = "answered"
      BY <1>6, <2>2
    <3>3. k = call[c].id \/ call[c].address \in moved
      BY <1>6, Namesake, AccountsAssumption
    <3> QED
      BY <1>6, <2>2, <3>1, <3>2, <3>3 DEF Named
  <2> QED
    BY <1>a, <2>1, <2>2
<1>7. ASSUME NEW c \in Calls, GoogleSelect(c) PROVE Named(d)'
  <2>1. Knows(c) /\ place[c] # "answered" /\ UNCHANGED <<call, moved>>
    BY <1>7 DEF GoogleSelect, CallInv
  <2>2. CASE UNCHANGED answer
    <3>1. d # c => place'[d] = place[d]
      BY <1>7 DEF GoogleSelect
    <3> QED
      BY <1>a, <1>b, <2>1, <2>2, <3>1
  <2>3. CASE \E k \in ActiveUserByEmail(call[c].address) :
                Goto(c, "tokens", "answered") /\ Answer(c, "google", call[c].id, k)
    BY <1>6, <2>1, <2>3
  <2> QED
    BY <1>7, <2>2, <2>3 DEF GoogleSelect
<1>8. ASSUME NEW c \in Calls, FindAccount(c) PROVE Named(d)'
  <2>1. Knows(c) /\ place[c] # "answered" /\ UNCHANGED <<call, moved>>
    BY <1>8 DEF FindAccount, CallInv
  <2>2. CASE UNCHANGED answer
    <3>1. d # c => place'[d] = place[d]
      BY <1>8 DEF FindAccount
    <3> QED
      BY <1>a, <1>b, <2>1, <2>2, <3>1
  <2>3. CASE \E k \in ActiveUserByEmail(call[c].address) :
                Goto(c, "verified", "answered") /\ Answer(c, "login", call[c].id, k)
    BY <1>6, <2>1, <2>3
  <2> QED
    BY <1>8, <2>2, <2>3 DEF FindAccount
<1>9. UNCHANGED <<place, call, answer>> => Named(d)'
  BY <1>a
<1> QED
  BY <1>1, <1>2, <1>3, <1>4, <1>5, <1>7, <1>8, <1>9
  DEF Next, Quiet, Notify, Register, OAuthGoogle, Login, Account, vars, PatchAccount,
      DeleteAccount, EraseAccount

\* Who is answered is a user.
LEMMA UserInvStep == TypeOK /\ CallInv /\ UserInv /\ [Next]_vars => UserInv'
<1> SUFFICES ASSUME TypeOK, CallInv, UserInv, [Next]_vars PROVE UserInv'
  OBVIOUS
<1>a. ASSUME NEW c \in Calls, NEW by, NEW t, NEW u \in Ids, Answer(c, by, t, u) PROVE UserInv'
  BY <1>a DEF TypeOK, UserInv, Answer
<1>b. UNCHANGED answer => UserInv'
  BY DEF UserInv
<1>1. ASSUME NEW c \in Calls, SendVerification(c) PROVE UserInv'
  BY <1>1, <1>a DEF SendVerification, Goto, CallInv, Knows
<1>2. ASSUME NEW c \in Calls, GoogleSelect(c) PROVE UserInv'
  BY <1>2, <1>a, <1>b DEF GoogleSelect, ActiveUserByEmail
<1>3. ASSUME NEW c \in Calls, GoogleInsert(c) PROVE UserInv'
  <2>1. call[c].id \in Ids
    BY <1>3 DEF GoogleInsert, CallInv, Knows
  <2>2. UNCHANGED answer \/ Answer(c, "google", call[c].id, call[c].id)
    BY <1>3 DEF GoogleInsert, Answer
  <2> QED
    BY <1>a, <1>b, <2>1, <2>2
<1>4. ASSUME NEW c \in Calls, FindAccount(c) PROVE UserInv'
  BY <1>4, <1>a, <1>b DEF FindAccount, ActiveUserByEmail
<1> QED
  BY <1>b, <1>1, <1>2, <1>3, <1>4
  DEF Next, Quiet, Notify, Register, OAuthGoogle, Login, Account, vars, CheckAddress, SignUp,
      SignUpAnswerLost, CommitRegistration, GoogleTokens, SignIn, FindResetUser, SendReset,
      PatchAccount, DeleteAccount, EraseAccount, Fail

-----------------------------------------------------------------------------
(* Users of GoTrue whom the application does not know.                     *)

Explained(i) == row[i].stored \/ Registering(i) \/ gotrue[i] \in moved \/ faults > 0

LEMMA OrphanStep ==
    /\ TypeOK /\ AuthInv /\ CallInv /\ RowInv /\ OrphansAreExplained
    /\ AuthStep /\ RowStep /\ [Next]_vars
    => OrphansAreExplained'
<1> SUFFICES ASSUME TypeOK, AuthInv, CallInv, RowInv, OrphansAreExplained,
                    AuthStep, RowStep, [Next]_vars, NEW i \in password'
             PROVE  Explained(i)'
  BY DEF OrphansAreExplained, Explained
<1>1. CASE i \notin password
  <2>1. ASSUME NEW c \in Calls, SignUp(c) PROVE Explained(i)'
    <3>1. PICK k \in Fresh : password' = password \cup {k} /\ Know(c, call[c].address, k)
                             /\ Goto(c, "checked", "signedUp")
      BY <1>1, <2>1 DEF SignUp, auth
    <3>2. i = k /\ place'[c] = "signedUp" /\ call'[c].id = k
      BY <1>1, <3>1 DEF Goto, Know, TypeOK
    <3> QED
      BY <3>2 DEF Explained, Registering
  <2>2. ASSUME NEW c \in Calls, SignUpAnswerLost(c) PROVE Explained(i)'
    BY <2>2, AccountsAssumption DEF SignUpAnswerLost, Fault, TypeOK, Explained
  <2>3. password' # password
    BY <1>1
  <2> QED
    BY <2>1, <2>2, <2>3
    DEF Next, Quiet, Notify, Register, OAuthGoogle, Login, Account, vars, auth, CheckAddress,
        CommitRegistration, SendVerification, GoogleTokens, GoogleSelect, GoogleInsert,
        SignIn, FindAccount, FindResetUser, SendReset, PatchAccount, DeleteAccount,
        EraseAccount, Fail
<1>2. CASE i \in password
  <2>0. i \in Ids /\ gotrue[i] # None /\ gotrue'[i] = gotrue[i]
    BY <1>2, Grows DEF TypeOK, AuthInv
  <2>1. Explained(i)
    BY <1>2 DEF OrphansAreExplained, Explained
  <2>2. row[i].stored => row'[i].stored
    BY <2>0 DEF RowStep, Others, Inserted, Patched, Ended
  <2>3. moved \subseteq moved'
    BY DEF RowStep, Inserted, Patched, Ended
  <2>f. faults' = faults \/ faults' = faults + 1
    BY DEF Next, Quiet, Notify, Register, OAuthGoogle, Login, Account, vars,
        CheckAddress, SignUp, SignUpAnswerLost, Fault, CommitRegistration, SendVerification,
        GoogleTokens, GoogleSelect, GoogleInsert, SignIn, FindAccount, FindResetUser,
        SendReset, PatchAccount, DeleteAccount, EraseAccount, Fail
  <2>4. faults > 0 => faults' > 0
    BY <2>f, AccountsAssumption DEF TypeOK
  <2>5. CASE row[i].stored \/ gotrue[i] \in moved \/ faults > 0
    BY <2>0, <2>2, <2>3, <2>4, <2>5 DEF Explained
  <2>6. ASSUME NEW d \in Calls, place[d] = "signedUp", call[d].id = i PROVE Explained(i)'
    <3>a. place'[d] = "signedUp" /\ call'[d] = call[d] => Explained(i)'
      BY <2>6 DEF Explained, Registering
    <3>1. ASSUME CommitRegistration(d) PROVE Explained(i)'
      <4>1. Knows(d)
        BY <2>6 DEF CallInv
      <4>2. CASE row'[i].stored
        BY <4>2 DEF Explained
      <4>3. CASE row[i].stored \/ AddressTaken(call[d].address)
        <5>1. ASSUME NEW k \in Ids, row[k].stored, row[k].address = call[d].address, k # i
              PROVE  call[d].address \in moved
          <6>1. gotrue[i] = call[d].address /\ call[d].address \in Addresses
            BY <2>6, <4>1 DEF Knows
          <6>2. gotrue[k] # gotrue[i]
            BY <2>0, <5>1 DEF AuthInv
          <6> QED
            BY <5>1, <6>1, <6>2, AccountsAssumption DEF RowInv
        <5>2. gotrue[i] = call[d].address
          BY <2>6, <4>1 DEF Knows
        <5> QED
          BY <2>0, <2>5, <4>3, <5>1, <5>2 DEF AddressTaken
      <4> QED
        BY <2>6, <3>1, <4>1, <4>2, <4>3, InsertCases DEF CommitRegistration
    <3>2. ASSUME Fail(d) PROVE Explained(i)'
      BY <3>2, AccountsAssumption DEF Fail, Fault, TypeOK, Explained
    <3>3. ASSUME NEW c \in Calls, c # d,
                 CommitRegistration(c) \/ GoogleInsert(c)
          PROVE  place'[d] = place[d] /\ call'[d] = call[d]
      <4>1. Knows(c)
        BY <3>3 DEF CommitRegistration, GoogleInsert, CallInv
      <4>2. \E p \in {"failed", "registered", "answered"} : place' = [place EXCEPT ![c] = p]
        BY <3>3, <4>1, InsertCases DEF CommitRegistration, GoogleInsert
      <4>3. call' = call
        BY <3>3 DEF CommitRegistration, GoogleInsert
      <4> QED
        BY <3>3, <4>2, <4>3 DEF TypeOK
    <3>4. ASSUME NEW c \in Calls, c # d,
                 CheckAddress(c) \/ SignUp(c) \/ SignUpAnswerLost(c) \/ SendVerification(c)
          PROVE  place'[d] = place[d] /\ call'[d] = call[d]
      BY <3>4 DEF CheckAddress, SignUp, SignUpAnswerLost, SendVerification, Goto, Know, TypeOK
    <3>5. ASSUME NEW c \in Calls, c # d,
                 GoogleTokens(c) \/ GoogleSelect(c) \/ SignIn(c) \/ FindAccount(c)
          PROVE  place'[d] = place[d] /\ call'[d] = call[d]
      BY <3>5 DEF GoogleTokens, GoogleSelect, SignIn, FindAccount, Goto, Know, TypeOK
    <3>6. ASSUME NEW c \in Calls, c # d, FindResetUser(c) \/ SendReset(c) \/ Fail(c)
          PROVE  place'[d] = place[d] /\ call'[d] = call[d]
      BY <3>6 DEF FindResetUser, SendReset, Fail, Goto, Know, TypeOK
    <3>7. ASSUME \/ CheckAddress(d) \/ SignUp(d) \/ SignUpAnswerLost(d) \/ SendVerification(d)
                 \/ GoogleTokens(d) \/ GoogleSelect(d) \/ GoogleInsert(d)
                 \/ SignIn(d) \/ FindAccount(d) \/ FindResetUser(d) \/ SendReset(d)
          PROVE  FALSE
      BY <2>6, <3>7
      DEF CheckAddress, SignUp, SignUpAnswerLost, SendVerification, GoogleTokens,
          GoogleSelect, GoogleInsert, SignIn, FindAccount, FindResetUser, SendReset, Goto
    <3>8. UNCHANGED <<place, call>> => Explained(i)'
      BY <2>6, <3>a
    <3> QED
      BY <2>6, <3>a, <3>1, <3>2, <3>3, <3>4, <3>5, <3>6, <3>7, <3>8
      DEF Next, Quiet, Notify, Register, OAuthGoogle, Login, Account, vars, PatchAccount,
          DeleteAccount, EraseAccount
  <2> QED
    BY <2>1, <2>5, <2>6 DEF Explained, Registering
<1> QED
  BY <1>1, <1>2

-----------------------------------------------------------------------------
LEMMA Step == IInv /\ [Next]_vars => IInv'
<1> SUFFICES ASSUME IInv, [Next]_vars PROVE IInv'
  OBVIOUS
<1> USE DEF IInv
<1>1. TypeOK'
  BY TypeStep
<1>2. AuthStep /\ RowStep
  BY AuthSteps, RowSteps
<1>3. AuthInv' /\ CallInv'
  BY <1>2, AuthInvStep, CallInvStep
<1>4. RowInv' /\ VerifiedAddressIsGoTrues'
  BY <1>2, RowInvStep
<1>5. MergeInv' /\ UserInv'
  BY <1>2, MergeSteps, MergeInvStep, UserInvStep
<1>6. AnswerInv' /\ OrphansAreExplained'
  BY <1>2, AnswerInvStep, OrphanStep
<1> QED
  BY <1>1, <1>3, <1>4, <1>5, <1>6

LEMMA Invariance == Spec => []IInv
BY InitIInv, Step, PTL DEF Spec

\* Every variable has its type: no insertion, answer or patch leaves the address or
\* the id of an account undefined.
THEOREM TypeCorrect == Spec => []TypeOK
<1>1. IInv => TypeOK
  BY DEF IInv
<1> QED
  BY <1>1, Invariance, PTL

\* register creates the user of GoTrue first and the row afterwards: a user without a
\* row is that of a registration under way, of a failure, or of an address that PATCH
\* has moved.
THEOREM OrphansExplained == Spec => []OrphansAreExplained
<1>1. IInv => OrphansAreExplained
  BY DEF IInv
<1> QED
  BY <1>1, Invariance, PTL

\* oauth_google answers 409 for an account with a password, and register for an
\* address that is taken: no account is both kinds.
THEOREM NeverMerged == Spec => []NoSilentMerge
<1>1. IInv => NoSilentMerge
  <2> SUFFICES ASSUME MergeInv, UserInv, NEW c \in Calls, NEW d \in Calls,
                      answer[c].by = "register", answer[d].by = "google",
                      answer[c].user = answer[d].user
               PROVE  FALSE
    BY DEF IInv, NoSilentMerge
  <2>1. answer[c].user \in Ids
    BY DEF UserInv
  <2> QED
    BY <2>1 DEF MergeInv, Registered, ByGoogle
<1> QED
  BY <1>1, Invariance, PTL

\* The rows are found by address and the tokens by id: they differ only where PATCH
\* has moved an address.
THEOREM AnswersNameTheirUser == Spec => []AnswerNamesItsUser
<1>1. IInv => AnswerNamesItsUser
  BY DEF IInv, AnswerInv, AnswerNamesItsUser
<1> QED
  BY <1>1, Invariance, PTL

\* apply_profile_update takes the mark from an address that it changes: what is marked is
\* what GoTrue has.
THEOREM VerifiedAddresses == Spec => []VerifiedAddressIsGoTrues
<1>1. IInv => VerifiedAddressIsGoTrues
  BY DEF IInv
<1> QED
  BY <1>1, Invariance, PTL

-----------------------------------------------------------------------------
(* The mails that calls send.                                              *)

Untouched(d) == place'[d] = place[d] /\ call'[d] = call[d]

\* The steps that send no mail: none leaves a call that is over, and only the search for
\* the account of a reset leads to "found".
LEMMA QuietSteps ==
    ASSUME TypeOK, CallInv, Quiet
    PROVE  /\ mail' = mail
           /\ \A d \in Calls :
                 \/ Untouched(d)
                 \/ place[d] # "answered" /\ (place'[d] = "found" => FindResetUser(d))
<1> DEFINE Fine(d) == \/ Untouched(d)
                      \/ place[d] # "answered" /\ (place'[d] = "found" => FindResetUser(d))
<1>0. place \in [Calls -> Place] /\ call \in [Calls -> CallRecord]
  BY TypedIsTypeOK DEF Typed
<1>1. ASSUME NEW c \in Calls, CheckAddress(c) \/ SignUp(c) \/ SignUpAnswerLost(c)
      PROVE  mail' = mail /\ \A d \in Calls : Fine(d)
  BY <1>0, <1>1 DEF CheckAddress, SignUp, SignUpAnswerLost, Goto, Know, Untouched
<1>2. ASSUME NEW c \in Calls, CommitRegistration(c) \/ GoogleInsert(c)
      PROVE  mail' = mail /\ \A d \in Calls : Fine(d)
  <2>1. Knows(c) /\ place[c] # "answered"
    BY <1>2 DEF CommitRegistration, GoogleInsert, CallInv
  <2>2. \E p \in {"failed", "registered", "answered"} : place' = [place EXCEPT ![c] = p]
    BY <1>2, <2>1, InsertCases DEF CommitRegistration, GoogleInsert
  <2>3. call' = call /\ mail' = mail
    BY <1>2 DEF CommitRegistration, GoogleInsert
  <2> QED
    BY <1>0, <2>1, <2>2, <2>3 DEF Untouched
<1>3. ASSUME NEW c \in Calls,
             GoogleTokens(c) \/ GoogleSelect(c) \/ SignIn(c) \/ FindAccount(c) \/ Fail(c)
      PROVE  mail' = mail /\ \A d \in Calls : Fine(d)
  BY <1>0, <1>3
  DEF GoogleTokens, GoogleSelect, SignIn, FindAccount, Fail, Goto, Know, Untouched
<1>4. ASSUME NEW c \in Calls, FindResetUser(c)
      PROVE  mail' = mail /\ \A d \in Calls : Fine(d)
  <2>1. mail' = mail /\ place[c] = "idle" /\ \A d \in Calls \ {c} : Untouched(d)
    BY <1>0, <1>4 DEF FindResetUser, Goto, Know, Untouched
  <2> QED
    BY <1>4, <2>1
<1>5. ASSUME NEW i \in Ids, Account(i) PROVE mail' = mail /\ \A d \in Calls : Fine(d)
  BY <1>5 DEF Account, PatchAccount, DeleteAccount, EraseAccount, Untouched
<1> QED
  BY <1>1, <1>2, <1>3, <1>4, <1>5 DEF Quiet, Register, OAuthGoogle, Login

LEMMA NotifySteps ==
    ASSUME TypeOK, NEW c \in Calls, Notify(c)
    PROVE  /\ place[c] \in {"registered", "found"} /\ place'[c] = "answered"
           /\ \A d \in Calls \ {c} : Untouched(d) /\ mail'[d] = mail[d]
BY DEF Notify, SendVerification, SendReset, Goto, Untouched, TypeOK

\* The user whom a mail names has a row, and the address is GoTrue's for him unless PATCH
\* has moved it.
Addressed(i, a) == row[i].stored /\ (gotrue[i] # a => a \in moved)

MailNamesItsUser ==
    \A c \in Calls : \A m \in mail[c] : Addressed(m.user, m.to)

FoundInv == \A c \in Calls : place[c] = "found" => Addressed(call[c].id, call[c].address)

LEMMA AddressedStays ==
    ASSUME TypeOK, RowInv, AuthStep, RowStep, NEW i \in Ids, NEW a, Addressed(i, a)
    PROVE  Addressed(i, a)'
<1>1. gotrue'[i] = gotrue[i]
  BY Grows DEF Addressed, RowInv
<1>2. row'[i].stored /\ moved \subseteq moved'
  BY DEF Addressed, RowStep, Others, Inserted, Patched, Ended
<1> QED
  BY <1>1, <1>2 DEF Addressed

LEMMA FoundInvStep == IInv /\ FoundInv /\ [Next]_vars => FoundInv'
<1> SUFFICES ASSUME IInv, FoundInv, [Next]_vars, NEW d \in Calls, place'[d] = "found"
             PROVE  Addressed(call[d].id, call[d].address)'
  BY DEF FoundInv
<1>0. TypeOK /\ CallInv /\ RowInv /\ AuthStep /\ RowStep
  BY AuthSteps, RowSteps DEF IInv
<1>1. CASE Untouched(d)
  <2>1. call[d].id \in Ids /\ Addressed(call[d].id, call[d].address)
    BY <1>0, <1>1 DEF Untouched, FoundInv, CallInv
  <2> QED
    BY <1>0, <1>1, <2>1, AddressedStays DEF Untouched, Addressed
<1>2. CASE FindResetUser(d)
  <2>1. PICK a \in Addresses : \E i \in ActiveUserByEmail(a) : Know(d, a, i)
    BY <1>0, <1>2 DEF FindResetUser, Goto, TypeOK
  <2>2. PICK i \in ActiveUserByEmail(a) : Know(d, a, i)
    BY <2>1
  <2>3. i \in Ids /\ Addressed(i, a)
    BY <1>0, AccountsAssumption DEF ActiveUserByEmail, Addressed, RowInv
  <2>4. Addressed(i, a)'
    BY <1>0, <2>3, AddressedStays
  <2>5. call'[d].id = i /\ call'[d].address = a
    BY <1>0, <2>2 DEF Know, TypeOK
  <2> QED
    BY <2>4, <2>5 DEF Addressed
<1>3. CASE Quiet
  BY <1>0, <1>1, <1>2, <1>3, QuietSteps
<1>4. ASSUME NEW c \in Calls, Notify(c) PROVE Untouched(d)
  BY <1>0, <1>4, NotifySteps
<1>5. CASE UNCHANGED vars
  BY <1>1, <1>5 DEF vars, Untouched
<1> QED
  BY <1>1, <1>3, <1>4, <1>5 DEF Next

LEMMA MailNamesStep ==
    IInv /\ FoundInv /\ MailNamesItsUser /\ [Next]_vars => MailNamesItsUser'
<1> SUFFICES ASSUME IInv, FoundInv, MailNamesItsUser, [Next]_vars,
                    NEW d \in Calls, NEW m \in mail'[d]
             PROVE  Addressed(m.user, m.to)'
  BY DEF MailNamesItsUser
<1>0. TypeOK /\ CallInv /\ RowInv /\ MergeInv /\ AuthStep /\ RowStep
  BY AuthSteps, RowSteps DEF IInv
<1>1. ASSUME m.user \in Ids, Addressed(m.user, m.to) PROVE Addressed(m.user, m.to)'
  BY <1>0, <1>1, AddressedStays
<1>2. CASE mail'[d] = mail[d]
  <2>1. m.user \in Ids /\ Addressed(m.user, m.to)
    BY <1>0, <1>2 DEF TypeOK, Mail, MailNamesItsUser
  <2> QED
    BY <1>1, <2>1
<1>3. CASE Quiet
  BY <1>0, <1>2, <1>3, QuietSteps
<1>4. CASE SendVerification(d)
  <2>1. \/ mail'[d] = mail[d]
        \/ m.user = call[d].id /\ m.to = call[d].address
    BY <1>0, <1>4 DEF SendVerification, TypeOK
  <2>2. /\ call[d].id \in Ids /\ gotrue[call[d].id] = call[d].address
        /\ Registered(call[d].id)
    BY <1>0, <1>4 DEF SendVerification, Goto, CallInv, Knows, Registered
  <2>3. Addressed(call[d].id, call[d].address)
    BY <1>0, <2>2 DEF MergeInv, Addressed
  <2> QED
    BY <1>1, <1>2, <2>1, <2>2, <2>3
<1>5. CASE SendReset(d)
  <2>1. \/ mail'[d] = mail[d]
        \/ m.user = call[d].id /\ m.to = call[d].address
    BY <1>0, <1>5 DEF SendReset, TypeOK
  <2>2. call[d].id \in Ids /\ Addressed(call[d].id, call[d].address)
    BY <1>0, <1>5 DEF SendReset, Goto, CallInv, FoundInv
  <2> QED
    BY <1>1, <1>2, <2>1, <2>2
<1>6. ASSUME NEW c \in Calls, c # d, Notify(c) PROVE mail'[d] = mail[d]
  BY <1>0, <1>6, NotifySteps
<1>7. CASE UNCHANGED vars
  BY <1>2, <1>7 DEF vars
<1> QED
  BY <1>2, <1>3, <1>4, <1>5, <1>6, <1>7 DEF Next, Notify

\* A verification or reset mail names a user with a row and GoTrue's address of that user,
\* unless PATCH has moved the address: the rows are found by address and the link is made
\* for an address (request_reset, register).
THEOREM MailsNameTheirUser == Spec => []MailNamesItsUser
<1>1. Init => FoundInv /\ MailNamesItsUser
  BY DEF Init, FoundInv, MailNamesItsUser
<1> QED
  BY <1>1, Invariance, FoundInvStep, MailNamesStep, PTL DEF Spec

-----------------------------------------------------------------------------
(* The notification worker: the inductive invariant.                       *)

\* Mails that are accepted or can still be: each live copy of a message may lead to
\* one more, and only the producer and a fault make one.
Sent(m) == IF m \in enqueued THEN 1 ELSE 0

Budget == \A m \in Mails : accepted[m] + Cardinality(Live(m)) <= Sent(m) + mailFaults[m]

MailIInv == MailTypeOK /\ Budget

-----------------------------------------------------------------------------
LEMMA CardinalityAdd ==
    ASSUME NEW S, IsFiniteSet(S), NEW x
    PROVE  /\ IsFiniteSet(S \cup {x})
           /\ Cardinality(S) \in Nat
           /\ Cardinality(S \cup {x}) \in Nat
           /\ Cardinality(S \cup {x}) <= Cardinality(S) + 1
<1>1. Cardinality(S) \in Nat
  BY FS_CardinalityType
<1>2. CASE x \in S
  <2>1. S \cup {x} = S
    BY <1>2
  <2>2. IsFiniteSet(S \cup {x}) /\ Cardinality(S \cup {x}) = Cardinality(S)
    BY <2>1, Zenon
  <2> QED
    BY <1>1, <2>2
<1>3. CASE x \notin S
  BY <1>1, <1>3, FS_AddElement
<1> QED
  BY <1>2, <1>3

LEMMA LiveFinite ==
    ASSUME NEW m \in Mails
    PROVE  IsFiniteSet(Live(m)) /\ Cardinality(Live(m)) \in Nat
<1>1. Live(m) \subseteq Copies /\ IsFiniteSet(Copies)
  BY NotificationAssumption DEF Live
<1> QED
  BY <1>1, FS_Subset, FS_CardinalityType

\* The same in the next state.
LEMMA LiveFiniteNext ==
    ASSUME NEW m \in Mails
    PROVE  IsFiniteSet(Live(m)') /\ Cardinality(Live(m)') \in Nat
<1>1. Live(m)' \subseteq Copies /\ IsFiniteSet(Copies)
  BY NotificationAssumption DEF Live
<1> QED
  BY <1>1, FS_Subset, FS_CardinalityType

LEMMA LiveGrows ==
    ASSUME NEW m \in Mails, NEW j \in Copies, Live(m)' \subseteq Live(m) \cup {j}
    PROVE  Cardinality(Live(m)') <= Cardinality(Live(m)) + 1
<1>1. IsFiniteSet(Live(m)) /\ Cardinality(Live(m)) \in Nat
  BY LiveFinite
<1>2. /\ IsFiniteSet(Live(m) \cup {j})
      /\ Cardinality(Live(m) \cup {j}) \in Nat
      /\ Cardinality(Live(m) \cup {j}) <= Cardinality(Live(m)) + 1
  BY <1>1, CardinalityAdd
<1>3. Cardinality(Live(m)') <= Cardinality(Live(m) \cup {j})
  BY <1>2, FS_Subset
<1> QED
  BY <1>1, <1>2, <1>3, LiveFiniteNext

LEMMA LiveShrinks ==
    ASSUME NEW m \in Mails, NEW j \in Live(m), Live(m)' \subseteq Live(m) \ {j}
    PROVE  Cardinality(Live(m)') <= Cardinality(Live(m)) - 1
<1>1. IsFiniteSet(Live(m)) /\ Cardinality(Live(m)) \in Nat
  BY LiveFinite
<1>2. /\ IsFiniteSet(Live(m) \ {j})
      /\ Cardinality(Live(m) \ {j}) = Cardinality(Live(m)) - 1
  BY <1>1, FS_RemoveElement
<1>3. Cardinality(Live(m)') <= Cardinality(Live(m) \ {j})
  BY <1>2, FS_Subset
<1> QED
  BY <1>2, <1>3

LEMMA LiveStays ==
    ASSUME NEW m \in Mails, Live(m)' \subseteq Live(m)
    PROVE  Cardinality(Live(m)') <= Cardinality(Live(m))
  BY LiveFinite, FS_Subset

-----------------------------------------------------------------------------
LEMMA RetryType ==
    ASSUME MailTypeOK, NEW m \in Mails, NEW j \in Copies, Retry(m, j)
    PROVE  /\ copy' \in [Mails -> [Copies -> {"free", "queued", "sending", "done"}]]
           /\ tries' \in [Mails -> [Copies -> 0..MaxRetries]]
           /\ failure' \in [Mails -> SUBSET {"sendgrid", "signature"}]
<1> USE NotificationAssumption DEF MailTypeOK, Move, FailWith
<1>1. CASE RetriesLeft(m, j)
  <2>1. /\ copy' = [copy EXCEPT ![m][j] = "queued"]
        /\ tries' = [tries EXCEPT ![m][j] = @ + 1]
        /\ failure' = failure
    BY <1>1 DEF Retry
  <2>2. tries[m][j] \in 0..MaxRetries /\ tries[m][j] < MaxRetries
    BY <1>1 DEF RetriesLeft
  <2> QED
    BY <2>1, <2>2
<1>2. CASE ~RetriesLeft(m, j)
  <2>1. /\ copy' = [copy EXCEPT ![m][j] = "done"]
        /\ tries' = tries
        /\ failure' = [failure EXCEPT ![m] = @ \cup {"sendgrid"}]
    BY <1>2 DEF Retry
  <2>2. failure[m] \cup {"sendgrid"} \in SUBSET {"sendgrid", "signature"}
    OBVIOUS
  <2> QED
    BY <2>1, <2>2
<1> QED
  BY <1>1, <1>2

LEMMA MailTypeStep == MailTypeOK /\ [MailNext]_mailVars => MailTypeOK'
<1> SUFFICES ASSUME MailTypeOK, [MailNext]_mailVars PROVE MailTypeOK'
  OBVIOUS
<1> USE NotificationAssumption DEF MailTypeOK, Move, MailFault, Accept, FailWith
<1>1. ASSUME NEW m \in Mails, Enqueue(m) PROVE MailTypeOK'
  BY <1>1 DEF Enqueue
<1>2. ASSUME NEW m \in Mails, NEW j \in Copies, Start(m, j) PROVE MailTypeOK'
  <2>1. CASE Move(m, j, "queued", "sending") /\ UNCHANGED failure
    BY <1>2, <2>1 DEF Start
  <2>2. CASE Move(m, j, "queued", "done") /\ FailWith(m, "signature")
    BY <1>2, <2>2 DEF Start
  <2> QED
    BY <1>2, <2>1, <2>2 DEF Start
<1>3. ASSUME NEW m \in Mails, NEW j \in Copies, Accepted(m, j) PROVE MailTypeOK'
  BY <1>3 DEF Accepted
<1>4. ASSUME NEW m \in Mails, NEW j \in Copies, Refused(m, j) PROVE MailTypeOK'
  <2>1. failure' \in [Mails -> SUBSET {"sendgrid", "signature"}]
    BY <1>4 DEF Refused
  <2> QED
    BY <1>4, <2>1 DEF Refused
<1>5. ASSUME NEW m \in Mails, NEW j \in Copies, TryAgain(m, j) PROVE MailTypeOK'
  <2>1. Retry(m, j) /\ UNCHANGED <<enqueued, accepted, mailFaults>>
    BY <1>5 DEF TryAgain
  <2> QED
    BY <2>1, RetryType
<1>6. ASSUME NEW m \in Mails, NEW j \in Copies, AnswerLost(m, j) PROVE MailTypeOK'
  <2>1. Retry(m, j) /\ Accept(m) /\ MailFault(m) /\ UNCHANGED enqueued
    BY <1>6 DEF AnswerLost
  <2> QED
    BY <2>1, RetryType
<1>7. ASSUME NEW m \in Mails, NEW j \in Copies, Ack(m, j) PROVE MailTypeOK'
  BY <1>7 DEF Ack
<1>8. ASSUME NEW m \in Mails, NEW j \in Copies, Crash(m, j) PROVE MailTypeOK'
  BY <1>8 DEF Crash
<1>9. ASSUME NEW m \in Mails, NEW j \in Copies, NEW k \in Copies, RetryUnacked(m, j, k)
      PROVE  MailTypeOK'
  BY <1>9 DEF RetryUnacked, RetriesLeft
<1>10. ASSUME NEW m \in Mails, NEW j \in Copies, NEW k \in Copies, VisibilityTimeout(m, j, k)
       PROVE  MailTypeOK'
  BY <1>10 DEF VisibilityTimeout
<1>11. CASE UNCHANGED mailVars
  BY <1>11 DEF mailVars
<1> QED
  BY <1>1, <1>2, <1>3, <1>4, <1>5, <1>6, <1>7, <1>8, <1>9, <1>10, <1>11
  DEF MailNext, Worker, Dispatch

-----------------------------------------------------------------------------
\* A step that concerns another message.
LEMMA OtherStep ==
    ASSUME MailIInv, NEW n \in Mails, copy'[n] = copy[n], accepted'[n] = accepted[n],
           mailFaults'[n] = mailFaults[n], n \in enqueued' <=> n \in enqueued
    PROVE  accepted'[n] + Cardinality(Live(n)') <= Sent(n)' + mailFaults'[n]
<1>1. Live(n)' = Live(n) /\ Sent(n)' = Sent(n)
  BY DEF Live, Sent
<1> QED
  BY <1>1 DEF MailIInv, Budget

\* A step that spends no more than it makes: accepts by accepts, live copies by live
\* copies, mailFaults by mailFaults.
LEMMA BudgetOf ==
    ASSUME MailIInv, MailTypeOK', NEW m \in Mails,
           \A n \in Mails \ {m} :
               /\ copy'[n] = copy[n] /\ accepted'[n] = accepted[n]
               /\ mailFaults'[n] = mailFaults[n],
           enqueued' = enqueued,
           accepted'[m] + Cardinality(Live(m)') + mailFaults[m]
             <= accepted[m] + Cardinality(Live(m)) + mailFaults'[m]
    PROVE  Budget'
<1>1. ASSUME NEW n \in Mails
      PROVE  accepted'[n] + Cardinality(Live(n)') <= Sent(n)' + mailFaults'[n]
  <2>1. CASE n # m
    BY <2>1, OtherStep
  <2>2. CASE n = m
    <3>1. /\ accepted[m] \in Nat /\ mailFaults[m] \in Nat
          /\ accepted'[m] \in Nat /\ mailFaults'[m] \in Nat
      BY NotificationAssumption DEF MailIInv, MailTypeOK
    <3>2. Sent(m)' = Sent(m) /\ Sent(m) \in Nat
      BY DEF Sent
    <3>3. accepted[m] + Cardinality(Live(m)) <= Sent(m) + mailFaults[m]
      BY DEF MailIInv, Budget
    <3> QED
      BY <2>2, <3>1, <3>2, <3>3, LiveFinite, LiveFiniteNext
  <2> QED
    BY <2>1, <2>2
<1> QED
  BY <1>1 DEF Budget

LEMMA BudgetStep == MailIInv /\ [MailNext]_mailVars => Budget'
<1> SUFFICES ASSUME MailIInv, MailTypeOK', [MailNext]_mailVars PROVE Budget'
  BY MailTypeStep DEF MailIInv
<1>0. ASSUME NEW m \in Mails
      PROVE  /\ accepted[m] \in Nat /\ mailFaults[m] \in Nat
             /\ Cardinality(Live(m)) \in Nat /\ Cardinality(Live(m)') \in Nat
  BY LiveFinite, LiveFiniteNext, NotificationAssumption DEF MailIInv, MailTypeOK
<1> USE DEF Move, Accept, MailFault
<1>1. ASSUME NEW m \in Mails, Enqueue(m) PROVE Budget'
  <2>1. PICK j \in Copies : copy' = [copy EXCEPT ![m][j] = "queued"]
    BY <1>1 DEF Enqueue
  <2>2. ASSUME NEW n \in Mails
        PROVE  accepted'[n] + Cardinality(Live(n)') <= Sent(n)' + mailFaults'[n]
    <3>1. CASE n # m
      BY <1>1, <2>1, <3>1, OtherStep DEF Enqueue, MailIInv, MailTypeOK
    <3>2. CASE n = m
      <4>1. Live(m)' \subseteq Live(m) \cup {j}
        BY <2>1 DEF Live, MailIInv, MailTypeOK
      <4>2. Cardinality(Live(m)') <= Cardinality(Live(m)) + 1
        BY <4>1, LiveGrows
      <4>3. Sent(m) = 0 /\ Sent(m)' = 1 /\ accepted' = accepted /\ mailFaults' = mailFaults
        BY <1>1 DEF Enqueue, Sent
      <4>4. accepted[m] + Cardinality(Live(m)) <= Sent(m) + mailFaults[m]
        BY DEF MailIInv, Budget
      <4>5. accepted[m] \in Nat /\ mailFaults[m] \in Nat
        BY NotificationAssumption DEF MailIInv, MailTypeOK
      <4> QED
        BY <3>2, <4>2, <4>3, <4>4, <4>5, LiveFinite, LiveFiniteNext
    <3> QED
      BY <3>1, <3>2
  <2> QED
    BY <2>2 DEF Budget
<1>2. ASSUME NEW m \in Mails, NEW j \in Copies, Start(m, j) PROVE Budget'
  <2>1. Live(m)' \subseteq Live(m)
    BY <1>2 DEF Start, Live, MailIInv, MailTypeOK
  <2>2. /\ accepted'[m] = accepted[m]
        /\ mailFaults'[m] = mailFaults[m]
        /\ enqueued' = enqueued
        /\ \A n \in Mails \ {m} :
              /\ copy'[n] = copy[n] /\ accepted'[n] = accepted[n]
              /\ mailFaults'[n] = mailFaults[n]
    BY <1>2, NotificationAssumption DEF Start, MailIInv, MailTypeOK
  <2>3. Cardinality(Live(m)') <= Cardinality(Live(m))
    BY <2>1, LiveStays, LiveFinite
  <2> QED
    BY <1>0, <2>2, <2>3, BudgetOf
<1>3. ASSUME NEW m \in Mails, NEW j \in Copies, Accepted(m, j) PROVE Budget'
  <2>1. j \in Live(m) /\ Live(m)' \subseteq Live(m) \ {j}
    BY <1>3 DEF Accepted, Live, MailIInv, MailTypeOK
  <2>2. /\ accepted'[m] = accepted[m] + 1
        /\ mailFaults'[m] = mailFaults[m]
        /\ enqueued' = enqueued
        /\ \A n \in Mails \ {m} :
              /\ copy'[n] = copy[n] /\ accepted'[n] = accepted[n]
              /\ mailFaults'[n] = mailFaults[n]
    BY <1>3, NotificationAssumption DEF Accepted, MailIInv, MailTypeOK
  <2>3. Cardinality(Live(m)') <= Cardinality(Live(m)) - 1
    BY <2>1, LiveShrinks, LiveFinite
  <2> QED
    BY <1>0, <2>2, <2>3, BudgetOf
<1>4. ASSUME NEW m \in Mails, NEW j \in Copies,
             Refused(m, j) \/ TryAgain(m, j) \/ Ack(m, j)
      PROVE  Budget'
  <2>1. Live(m)' \subseteq Live(m)
    BY <1>4 DEF Refused, TryAgain, Retry, Ack, Live, MailIInv, MailTypeOK
  <2>2. /\ accepted'[m] = accepted[m]
        /\ mailFaults'[m] = mailFaults[m]
        /\ enqueued' = enqueued
        /\ \A n \in Mails \ {m} :
              /\ copy'[n] = copy[n] /\ accepted'[n] = accepted[n]
              /\ mailFaults'[n] = mailFaults[n]
    BY <1>4, NotificationAssumption DEF Refused, TryAgain, Retry, Ack, MailIInv, MailTypeOK
  <2>3. Cardinality(Live(m)') <= Cardinality(Live(m))
    BY <2>1, LiveStays, LiveFinite
  <2> QED
    BY <1>0, <2>2, <2>3, BudgetOf
<1>5. ASSUME NEW m \in Mails, NEW j \in Copies, AnswerLost(m, j) PROVE Budget'
  <2>1. Live(m)' \subseteq Live(m)
    BY <1>5 DEF AnswerLost, Retry, Live, MailIInv, MailTypeOK
  <2>2. /\ accepted'[m] = accepted[m] + 1
        /\ mailFaults'[m] = mailFaults[m] + 1
        /\ enqueued' = enqueued
        /\ \A n \in Mails \ {m} :
              /\ copy'[n] = copy[n] /\ accepted'[n] = accepted[n]
              /\ mailFaults'[n] = mailFaults[n]
    BY <1>5 DEF AnswerLost, Retry, MailIInv, MailTypeOK
  <2>3. Cardinality(Live(m)') <= Cardinality(Live(m))
    BY <2>1, LiveStays, LiveFinite
  <2> QED
    BY <1>0, <2>2, <2>3, BudgetOf
<1>6. ASSUME NEW m \in Mails, NEW j \in Copies,
             \/ Crash(m, j)
             \/ \E k \in Copies : RetryUnacked(m, j, k) \/ VisibilityTimeout(m, j, k)
      PROVE  Budget'
  <2>1. \E k \in Copies : Live(m)' \subseteq Live(m) \cup {k}
    BY <1>6 DEF Crash, RetryUnacked, VisibilityTimeout, Live, MailIInv, MailTypeOK
  <2>2. /\ accepted'[m] = accepted[m]
        /\ mailFaults'[m] = mailFaults[m] + 1
        /\ enqueued' = enqueued
        /\ \A n \in Mails \ {m} :
              /\ copy'[n] = copy[n] /\ accepted'[n] = accepted[n]
              /\ mailFaults'[n] = mailFaults[n]
    BY <1>6 DEF Crash, RetryUnacked, VisibilityTimeout, MailIInv, MailTypeOK
  <2>3. Cardinality(Live(m)') <= Cardinality(Live(m)) + 1
    BY <2>1, LiveGrows
  <2> QED
    BY <1>0, <2>2, <2>3, BudgetOf
<1>7. CASE UNCHANGED mailVars
  BY <1>7, OtherStep DEF mailVars, Budget
<1> QED
  BY <1>1, <1>2, <1>3, <1>4, <1>5, <1>6, <1>7 DEF MailNext, Worker, Dispatch

-----------------------------------------------------------------------------
LEMMA MailInitIInv == MailInit => MailIInv
<1> SUFFICES ASSUME MailInit PROVE MailIInv
  OBVIOUS
<1>1. MailTypeOK
  BY NotificationAssumption DEF MailInit, MailTypeOK
<1>2. ASSUME NEW m \in Mails PROVE Live(m) = {}
  BY DEF MailInit, Live
<1>3. ASSUME NEW m \in Mails
      PROVE  accepted[m] + Cardinality(Live(m)) <= Sent(m) + mailFaults[m]
  <2>1. accepted[m] = 0 /\ mailFaults[m] = 0 /\ Sent(m) = 0
    BY DEF MailInit, Sent
  <2>2. Cardinality(Live(m)) = 0
    BY <1>2, FS_EmptySet
  <2> QED
    BY <2>1, <2>2
<1> QED
  BY <1>1, <1>3 DEF MailIInv, Budget

LEMMA MailInvariance == MailSpec => []MailIInv
<1>1. MailIInv /\ [MailNext]_mailVars => MailIInv'
  BY MailTypeStep, BudgetStep DEF MailIInv
<1> QED
  BY MailInitIInv, <1>1, PTL DEF MailSpec

\* Every variable of the worker stays in its type; above all no copy of a message is
\* retried more often than MAX_RETRIES allows (_dispatch).
THEOREM MailTypeCorrect == MailSpec => []MailTypeOK
<1>1. MailIInv => MailTypeOK
  BY DEF MailIInv
<1> QED
  BY MailInvariance, <1>1, PTL

\* SendGrid accepts the mail of a message once, and once more for each crash, lost
\* answer or visibility timeout (_dispatch, BaseTask).
THEOREM MailsExplained == MailSpec => []MailsAreExplained
<1>1. MailIInv => MailsAreExplained
  <2> SUFFICES ASSUME MailIInv, NEW m \in Mails PROVE accepted[m] <= 1 + mailFaults[m]
    BY DEF MailsAreExplained
  <2>1. accepted[m] + Cardinality(Live(m)) <= Sent(m) + mailFaults[m]
    BY DEF MailIInv, Budget
  <2>2. Sent(m) \in 0..1 /\ accepted[m] \in Nat /\ mailFaults[m] \in Nat
    BY NotificationAssumption DEF MailIInv, MailTypeOK, Sent
  <2> QED
    BY <2>1, <2>2, LiveFinite
<1> QED
  BY MailInvariance, <1>1, PTL

-----------------------------------------------------------------------------
(* No message is forgotten.                                                *)

\* A message that was sent is still live, or was accepted, or has failed; and nothing
\* comes of one that nobody has sent.
Remembered(m) ==
    IF m \in enqueued
    THEN Live(m) # {} \/ accepted[m] > 0 \/ failure[m] # {}
    ELSE /\ \A j \in Copies : copy[m][j] = "free"
         /\ accepted[m] = 0 /\ failure[m] = {}

NotForgotten == \A m \in Mails : Remembered(m)

LEMMA RememberedElsewhere ==
    ASSUME NotForgotten, NEW n \in Mails, copy'[n] = copy[n], accepted'[n] = accepted[n],
           failure'[n] = failure[n], n \in enqueued' <=> n \in enqueued
    PROVE  Remembered(n)'
BY DEF NotForgotten, Remembered, Live

\* A step of a copy leaves one alive, or ends with an acceptance or a failure.
LEMMA RememberedHere ==
    ASSUME NotForgotten, MailTypeOK, MailTypeOK', NEW m \in Mails, enqueued' = enqueued,
           \E j \in Copies : copy[m][j] # "free",
           \/ \E j \in Copies : copy'[m][j] \in {"queued", "sending"}
           \/ accepted'[m] > 0
           \/ failure'[m] # {},
           \A n \in Mails \ {m} :
               copy'[n] = copy[n] /\ accepted'[n] = accepted[n] /\ failure'[n] = failure[n]
    PROVE  NotForgotten'
<1>1. m \in enqueued
  BY DEF NotForgotten, Remembered
<1>2. Remembered(m)'
  BY <1>1 DEF Remembered, Live
<1>3. ASSUME NEW n \in Mails, n # m PROVE Remembered(n)'
  BY <1>3, RememberedElsewhere
<1> QED
  BY <1>2, <1>3 DEF NotForgotten

LEMMA NotForgottenStep == MailTypeOK /\ NotForgotten /\ [MailNext]_mailVars => NotForgotten'
<1> SUFFICES ASSUME MailTypeOK, MailTypeOK', NotForgotten, [MailNext]_mailVars
             PROVE  NotForgotten'
  BY MailTypeStep
<1> USE DEF Move, Accept, MailFault, FailWith
<1>0. /\ copy \in [Mails -> [Copies -> {"free", "queued", "sending", "done"}]]
      /\ accepted \in [Mails -> Nat]
      /\ failure \in [Mails -> SUBSET {"sendgrid", "signature"}]
  BY DEF MailTypeOK
<1>1. ASSUME NEW m \in Mails, Enqueue(m) PROVE NotForgotten'
  <2>1. PICK j \in Copies : copy' = [copy EXCEPT ![m][j] = "queued"]
    BY <1>1 DEF Enqueue
  <2>2. Remembered(m)'
    BY <1>0, <1>1, <2>1 DEF Enqueue, Remembered, Live
  <2>3. ASSUME NEW n \in Mails, n # m PROVE Remembered(n)'
    BY <1>0, <1>1, <2>1, <2>3, RememberedElsewhere DEF Enqueue
  <2> QED
    BY <2>2, <2>3 DEF NotForgotten
<1>2. ASSUME NEW m \in Mails, NEW j \in Copies, Start(m, j) PROVE NotForgotten'
  <2>1. /\ enqueued' = enqueued /\ copy[m][j] # "free"
        /\ \A n \in Mails \ {m} :
               copy'[n] = copy[n] /\ accepted'[n] = accepted[n] /\ failure'[n] = failure[n]
    BY <1>0, <1>2 DEF Start
  <2>2. copy'[m][j] = "sending" \/ failure'[m] # {}
    <3>1. CASE Arguments[m] = Parameters
      BY <1>0, <1>2, <3>1 DEF Start
    <3>2. CASE Arguments[m] # Parameters
      <4>1. failure'[m] = failure[m] \cup {"signature"}
        BY <1>0, <1>2, <3>2 DEF Start
      <4> QED
        BY <4>1
    <3> QED
      BY <3>1, <3>2
  <2> QED
    BY <2>1, <2>2, RememberedHere
<1>3. ASSUME NEW m \in Mails, NEW j \in Copies, Accepted(m, j) \/ Refused(m, j)
      PROVE  NotForgotten'
  <2>1. /\ enqueued' = enqueued /\ copy[m][j] # "free"
        /\ \A n \in Mails \ {m} :
               copy'[n] = copy[n] /\ accepted'[n] = accepted[n] /\ failure'[n] = failure[n]
    BY <1>0, <1>3 DEF Accepted, Refused
  <2>2. CASE Accepted(m, j)
    <3>1. accepted'[m] = accepted[m] + 1
      BY <1>0, <2>2 DEF Accepted
    <3>2. accepted'[m] > 0
      BY <1>0, <3>1
    <3> QED
      BY <2>1, <3>2, RememberedHere
  <2>3. CASE Refused(m, j)
    <3>1. failure'[m] = failure[m] \cup {"sendgrid"}
      BY <1>0, <2>3 DEF Refused
    <3>2. failure'[m] # {}
      BY <3>1
    <3> QED
      BY <2>1, <3>2, RememberedHere
  <2> QED
    BY <1>3, <2>2, <2>3
<1>4. ASSUME NEW m \in Mails, NEW j \in Copies, TryAgain(m, j) PROVE NotForgotten'
  <2>1. /\ enqueued' = enqueued /\ copy[m][j] # "free"
        /\ \A n \in Mails \ {m} :
               copy'[n] = copy[n] /\ accepted'[n] = accepted[n] /\ failure'[n] = failure[n]
    BY <1>0, <1>4 DEF TryAgain, Retry
  <2>2. CASE RetriesLeft(m, j)
    <3>1. copy'[m][j] = "queued"
      BY <1>0, <1>4, <2>2 DEF TryAgain, Retry
    <3> QED
      BY <2>1, <3>1, RememberedHere
  <2>3. CASE ~RetriesLeft(m, j)
    <3>1. failure'[m] = failure[m] \cup {"sendgrid"}
      BY <1>0, <1>4, <2>3 DEF TryAgain, Retry
    <3>2. failure'[m] # {}
      BY <3>1
    <3> QED
      BY <2>1, <3>2, RememberedHere
  <2> QED
    BY <2>2, <2>3
<1>5. ASSUME NEW m \in Mails, NEW j \in Copies, AnswerLost(m, j) PROVE NotForgotten'
  <2>1. /\ enqueued' = enqueued /\ copy[m][j] # "free"
        /\ accepted'[m] > 0
        /\ \A n \in Mails \ {m} :
               copy'[n] = copy[n] /\ accepted'[n] = accepted[n] /\ failure'[n] = failure[n]
    BY <1>0, <1>5 DEF AnswerLost, Retry
  <2> QED
    BY <2>1, RememberedHere
<1>6. ASSUME NEW m \in Mails, NEW j \in Copies, Ack(m, j) PROVE NotForgotten'
  <2>1. /\ enqueued' = enqueued /\ copy[m][j] = "done"
        /\ copy' = [copy EXCEPT ![m][j] = "free"]
        /\ accepted' = accepted /\ failure' = failure
    BY <1>6 DEF Ack
  <2>2. Live(m)' = Live(m)
    BY <1>0, <2>1 DEF Live
  <2>3. m \in enqueued
    BY <2>1 DEF NotForgotten, Remembered
  <2>4. Remembered(m)'
    BY <2>1, <2>2, <2>3 DEF NotForgotten, Remembered
  <2>5. ASSUME NEW n \in Mails, n # m PROVE Remembered(n)'
    BY <1>0, <2>1, <2>5, RememberedElsewhere
  <2> QED
    BY <2>4, <2>5 DEF NotForgotten
<1>7. ASSUME NEW m \in Mails, NEW j \in Copies,
             \/ Crash(m, j)
             \/ \E k \in Copies : RetryUnacked(m, j, k) \/ VisibilityTimeout(m, j, k)
      PROVE  NotForgotten'
  <2>1. /\ enqueued' = enqueued /\ copy[m][j] # "free"
        /\ \E k \in Copies : copy'[m][k] = "queued"
        /\ \A n \in Mails \ {m} :
               copy'[n] = copy[n] /\ accepted'[n] = accepted[n] /\ failure'[n] = failure[n]
    BY <1>0, <1>7 DEF Crash, RetryUnacked, VisibilityTimeout
  <2> QED
    BY <2>1, RememberedHere
<1>8. CASE UNCHANGED mailVars
  BY <1>8, RememberedElsewhere DEF mailVars, NotForgotten
<1> QED
  BY <1>1, <1>2, <1>3, <1>4, <1>5, <1>6, <1>7, <1>8 DEF MailNext, Worker, Dispatch

\* The safety half of MailSettles: a message of which no copy is live was accepted by
\* SendGrid or has a task that ended in FAILURE (acks_late, reject_on_worker_lost): no
\* crash, retry or visibility timeout loses one.
THEOREM MailNotForgotten == MailSpec => []NotForgotten
<1>1. MailInit => NotForgotten
  BY DEF MailInit, NotForgotten, Remembered
<1> QED
  BY <1>1, MailTypeCorrect, NotForgottenStep, PTL DEF MailSpec

-----------------------------------------------------------------------------
(* The retries run down.                                                   *)

\* How many steps of its task a copy has before it at most.
Rank(m, j) ==
    CASE copy[m][j] = "free"    -> 0
      [] copy[m][j] = "done"    -> 1
      [] copy[m][j] = "sending" -> 2 * (MaxRetries - tries[m][j]) + 2
      [] copy[m][j] = "queued"  -> 2 * (MaxRetries - tries[m][j]) + 3

RunsDown ==
    \A m \in Mails, j \in Copies :
        /\ Progress(m, j) => Rank(m, j)' < Rank(m, j)
        /\ Rank(m, j)' > Rank(m, j) => m \notin enqueued \/ mailFaults'[m] > mailFaults[m]

LEMMA RankType ==
    ASSUME MailTypeOK, NEW m \in Mails, NEW j \in Copies
    PROVE  Rank(m, j) \in Nat
<1>1. /\ copy[m][j] \in {"free", "queued", "sending", "done"}
      /\ MaxRetries - tries[m][j] \in Nat
  BY NotificationAssumption DEF MailTypeOK
<1> QED
  BY <1>1 DEF Rank

LEMMA ProgressLowers ==
    ASSUME MailTypeOK, NEW m \in Mails, NEW j \in Copies, Progress(m, j)
    PROVE  Rank(m, j)' < Rank(m, j)
<1>0. /\ copy \in [Mails -> [Copies -> {"free", "queued", "sending", "done"}]]
      /\ tries \in [Mails -> [Copies -> 0..MaxRetries]]
      /\ tries[m][j] \in 0..MaxRetries /\ MaxRetries \in Nat
  BY NotificationAssumption DEF MailTypeOK
<1> USE DEF Move
<1>1. CASE Start(m, j)
  <2>1. /\ copy[m][j] = "queued" /\ copy'[m][j] \in {"sending", "done"}
        /\ tries' = tries
    BY <1>0, <1>1 DEF Start
  <2> QED
    BY <1>0, <2>1 DEF Rank
<1>2. CASE Accepted(m, j) \/ Refused(m, j)
  <2>1. copy[m][j] = "sending" /\ copy'[m][j] = "done"
    BY <1>0, <1>2 DEF Accepted, Refused
  <2> QED
    BY <1>0, <2>1 DEF Rank
<1>3. CASE TryAgain(m, j) \/ AnswerLost(m, j)
  <2>1. Retry(m, j)
    BY <1>3 DEF TryAgain, AnswerLost
  <2>2. CASE RetriesLeft(m, j)
    <3>1. /\ copy[m][j] = "sending" /\ copy'[m][j] = "queued"
          /\ tries'[m][j] = tries[m][j] + 1 /\ tries[m][j] < MaxRetries
      BY <1>0, <2>1, <2>2 DEF Retry, RetriesLeft
    <3> QED
      BY <1>0, <3>1 DEF Rank
  <2>3. CASE ~RetriesLeft(m, j)
    <3>1. copy[m][j] = "sending" /\ copy'[m][j] = "done"
      BY <1>0, <2>1, <2>3 DEF Retry
    <3> QED
      BY <1>0, <3>1 DEF Rank
  <2> QED
    BY <2>2, <2>3
<1>4. CASE Ack(m, j)
  <2>1. copy[m][j] = "done" /\ copy'[m][j] = "free"
    BY <1>0, <1>4 DEF Ack
  <2> QED
    BY <2>1 DEF Rank
<1> QED
  BY <1>1, <1>2, <1>3, <1>4 DEF Progress, Dispatch

\* The other copies of the message, and those of the other messages.
LEMMA OtherCopies ==
    ASSUME MailTypeOK, NEW m \in Mails, NEW j \in Copies, Progress(m, j),
           NEW n \in Mails, NEW i \in Copies, n # m \/ i # j
    PROVE  Rank(n, i)' = Rank(n, i)
<1>0. /\ copy \in [Mails -> [Copies -> {"free", "queued", "sending", "done"}]]
      /\ tries \in [Mails -> [Copies -> 0..MaxRetries]]
  BY DEF MailTypeOK
<1>1. copy'[n][i] = copy[n][i]
  <2>1. \E s \in {"free", "queued", "sending", "done"} : copy' = [copy EXCEPT ![m][j] = s]
    BY DEF Progress, Start, Dispatch, Accepted, Refused, TryAgain, AnswerLost, Retry, Ack, Move
  <2> QED
    BY <1>0, <2>1
<1>2. tries'[n][i] = tries[n][i]
  <2>1. \/ tries' = tries
        \/ tries' = [tries EXCEPT ![m][j] = @ + 1]
        \/ tries' = [tries EXCEPT ![m][j] = 0]
    BY DEF Progress, Start, Dispatch, Accepted, Refused, TryAgain, AnswerLost, Retry, Ack
  <2> QED
    BY <1>0, <2>1
<1> QED
  BY <1>1, <1>2 DEF Rank

\* Every step of a task brings its copy nearer to its end, retries included, for each of
\* them counts (_dispatch, MAX_RETRIES); only the producer and a fault take a copy
\* further from it.  With the faults bounded no mail is retried for ever.
THEOREM RetriesRunDown == MailSpec => [][RunsDown]_mailVars
<1>1. MailTypeOK /\ [MailNext]_mailVars => [RunsDown]_mailVars
  <2> SUFFICES ASSUME MailTypeOK, MailTypeOK', MailNext, NEW n \in Mails, NEW i \in Copies,
                      Rank(n, i)' > Rank(n, i)
               PROVE  n \notin enqueued \/ mailFaults'[n] > mailFaults[n]
    BY MailTypeStep, ProgressLowers DEF RunsDown
  <2>0. /\ Rank(n, i) \in Nat /\ Rank(n, i)' \in Nat
        /\ copy \in [Mails -> [Copies -> {"free", "queued", "sending", "done"}]]
        /\ tries \in [Mails -> [Copies -> 0..MaxRetries]]
        /\ mailFaults \in [Mails -> Nat]
    <3>1. Rank(n, i) \in Nat
      BY RankType
    <3>2. Rank(n, i)' \in Nat
      <4>1. /\ copy'[n][i] \in {"free", "queued", "sending", "done"}
            /\ MaxRetries - tries'[n][i] \in Nat
        BY NotificationAssumption DEF MailTypeOK
      <4> QED
        BY <4>1 DEF Rank
    <3> QED
      BY <3>1, <3>2, NotificationAssumption DEF MailTypeOK
  <2>1. ASSUME NEW m \in Mails, Enqueue(m) PROVE n \notin enqueued
    <3>1. n # m => Rank(n, i)' = Rank(n, i)
      BY <2>0, <2>1 DEF Enqueue, Move, Rank
    <3> QED
      BY <2>0, <2>1, <3>1 DEF Enqueue
  <2>2. ASSUME NEW m \in Mails, NEW j \in Copies, Progress(m, j) PROVE FALSE
    <3>1. Rank(n, i)' <= Rank(n, i)
      BY <2>0, <2>2, ProgressLowers, OtherCopies
    <3> QED
      BY <2>0, <3>1
  <2>3. ASSUME NEW m \in Mails, NEW j \in Copies,
               \/ Crash(m, j)
               \/ \E k \in Copies : RetryUnacked(m, j, k) \/ VisibilityTimeout(m, j, k)
        PROVE  mailFaults'[n] > mailFaults[n]
    <3>1. n # m => Rank(n, i)' = Rank(n, i)
      <4>1. ASSUME n # m PROVE copy'[n] = copy[n] /\ tries'[n] = tries[n]
        BY <2>0, <2>3, <4>1 DEF Crash, RetryUnacked, VisibilityTimeout
      <4> QED
        BY <4>1 DEF Rank
    <3>2. mailFaults' = [mailFaults EXCEPT ![m] = @ + 1]
      BY <2>3 DEF Crash, RetryUnacked, VisibilityTimeout, MailFault
    <3> QED
      BY <2>0, <3>1, <3>2
  <2> QED
    BY <2>1, <2>2, <2>3 DEF MailNext, Worker, Progress
<1> QED
  BY <1>1, MailTypeCorrect, PTL DEF MailSpec

-----------------------------------------------------------------------------
(* Both together.                                                          *)

LEMMA AllSteps == AllNext => [Next]_vars /\ [MailNext]_mailVars
<1> SUFFICES ASSUME AllNext PROVE [Next]_vars /\ [MailNext]_mailVars
  OBVIOUS
<1>1. CASE Quiet /\ UNCHANGED mailVars
  BY <1>1 DEF Next
<1>2. ASSUME NEW c \in Calls, NotifyByMail(c) PROVE [Next]_vars /\ [MailNext]_mailVars
  BY <1>2, AccountMailsAssumption DEF NotifyByMail, Next, MailNext
<1>3. ASSUME NEW g \in Grace, EnterGrace(g) PROVE [Next]_vars /\ [MailNext]_mailVars
  BY <1>3, AccountMailsAssumption DEF EnterGrace, MailNext
<1>4. ASSUME NEW m \in Mails, Worker(m), UNCHANGED vars
      PROVE  [Next]_vars /\ [MailNext]_mailVars
  BY <1>4 DEF MailNext
<1> QED
  BY <1>1, <1>2, <1>3, <1>4 DEF AllNext

LEMMA AllStutters == UNCHANGED <<vars, mailVars>> => [Next]_vars /\ [MailNext]_mailVars
OBVIOUS

\* The composition does nothing to accounts that they do not do alone: what is proved of
\* Accounts holds of it.
THEOREM AccountsAlone == AllSpec => Spec
<1>1. AllInit => Init
  BY DEF AllInit
<1> QED
  BY <1>1, AllSteps, AllStutters, PTL DEF AllSpec, Spec

\* Nor to the mails: what is proved of Notification holds of the mails that registrations
\* and reset requests send.
THEOREM MailsAlone == AllSpec => MailSpec
<1>1. AllInit => MailInit
  BY DEF AllInit
<1> QED
  BY <1>1, AllSteps, AllStutters, PTL DEF AllSpec, MailSpec

\* What a message and the call that sends it have to do with each other.
MailsFollowCalls ==
    \A c \in Calls :
        /\ c \in enqueued <=> mail[c] # {}
        /\ mail[c] # {} => place[c] = "answered"

LEMMA MailsFollowStep ==
    ASSUME IInv, MailTypeOK, MailsFollowCalls, [AllNext]_<<vars, mailVars>>
    PROVE  MailsFollowCalls'
<1>0. TypeOK /\ CallInv
  BY DEF IInv
<1>1. CASE Quiet /\ UNCHANGED mailVars
  <2>1. mail' = mail /\ \A d \in Calls : place[d] = "answered" => place'[d] = "answered"
    BY <1>0, <1>1, QuietSteps DEF Untouched
  <2> QED
    BY <1>1, <2>1 DEF MailsFollowCalls, mailVars
<1>2. ASSUME NEW c \in Calls, NotifyByMail(c) PROVE MailsFollowCalls'
  <2>1. /\ place[c] # "answered" /\ place'[c] = "answered"
        /\ \A d \in Calls \ {c} : place'[d] = place[d] /\ mail'[d] = mail[d]
    BY <1>0, <1>2, NotifySteps DEF NotifyByMail, Untouched
  <2>2. mail[c] = {} /\ c \notin enqueued
    BY <2>1 DEF MailsFollowCalls
  <2>3. enqueued' = IF mail'[c] # {} THEN enqueued \cup {c} ELSE enqueued
    BY <1>2 DEF NotifyByMail, Enqueue, mailVars
  <2> QED
    BY <2>1, <2>2, <2>3 DEF MailsFollowCalls
<1>3. ASSUME NEW g \in Grace, EnterGrace(g) PROVE MailsFollowCalls'
  BY <1>3, AccountMailsAssumption DEF EnterGrace, Enqueue, vars, MailsFollowCalls
<1>4. ASSUME NEW m \in Mails, Worker(m), UNCHANGED vars PROVE MailsFollowCalls'
  <2>1. enqueued' = enqueued
    BY <1>4 DEF Worker, Start, Dispatch, Accepted, Refused, TryAgain, AnswerLost, Ack, Crash,
                RetryUnacked, VisibilityTimeout
  <2> QED
    BY <1>4, <2>1 DEF vars, MailsFollowCalls
<1>5. CASE UNCHANGED <<vars, mailVars>>
  BY <1>5 DEF vars, mailVars, MailsFollowCalls
<1> QED
  BY <1>1, <1>2, <1>3, <1>4, <1>5 DEF AllNext

\* A call and its message: a verification or reset mail that the API has answered for is
\* in the queue, and the queue has no other mails of calls (enqueue_notification is the
\* last thing before the answer, and a call that is over sends nothing).
THEOREM MailsFollow == AllSpec => []MailsFollowCalls
<1>1. AllInit => MailsFollowCalls
  BY DEF AllInit, Init, MailInit, MailsFollowCalls
<1> QED
  BY <1>1, MailsFollowStep, AccountsAlone, Invariance, MailsAlone, MailTypeCorrect, PTL
  DEF AllSpec

\* The message of a call has one argument for the four of its task.
NoneIsRun ==
    \A c \in Calls :
        /\ \A j \in Copies : copy[c][j] # "sending"
        /\ accepted[c] = 0 /\ failure[c] \subseteq {"signature"}

LEMMA NoneIsRunStep == MailTypeOK /\ NoneIsRun /\ [MailNext]_mailVars => NoneIsRun'
<1> SUFFICES ASSUME MailTypeOK, NoneIsRun, [MailNext]_mailVars, NEW c \in Calls
             PROVE  /\ \A j \in Copies : copy'[c][j] # "sending"
                    /\ accepted'[c] = 0 /\ failure'[c] \subseteq {"signature"}
  BY DEF NoneIsRun
<1>0. /\ copy \in [Mails -> [Copies -> {"free", "queued", "sending", "done"}]]
      /\ accepted \in [Mails -> Nat]
      /\ failure \in [Mails -> SUBSET {"sendgrid", "signature"}]
  BY DEF MailTypeOK
<1>a. c \in Mails /\ Arguments[c] # Parameters
  BY AccountMailsAssumption DEF ArgumentsOf, EnqueuedArguments, Parameters
<1>b. /\ \A j \in Copies : copy[c][j] # "sending"
      /\ accepted[c] = 0 /\ failure[c] \subseteq {"signature"}
  BY DEF NoneIsRun
<1> USE DEF Move, Accept, MailFault, FailWith
<1>1. ASSUME NEW m \in Mails, NEW j \in Copies, Start(m, j)
      PROVE  /\ \A i \in Copies : copy'[c][i] # "sending"
             /\ accepted'[c] = 0 /\ failure'[c] \subseteq {"signature"}
  <2>1. CASE m = c
    <3>1. /\ copy' = [copy EXCEPT ![c][j] = "done"]
          /\ failure' = [failure EXCEPT ![c] = @ \cup {"signature"}]
          /\ accepted' = accepted
      BY <1>1, <1>a, <2>1 DEF Start
    <3> QED
      BY <1>0, <1>a, <1>b, <3>1
  <2>2. CASE m # c
    <3>1. copy'[c] = copy[c] /\ failure'[c] = failure[c] /\ accepted' = accepted
      BY <1>0, <1>1, <1>a, <2>2 DEF Start
    <3> QED
      BY <1>b, <3>1
  <2> QED
    BY <2>1, <2>2
<1>2. ASSUME NEW m \in Mails, NEW j \in Copies, Dispatch(m, j)
      PROVE  copy'[c] = copy[c] /\ failure'[c] = failure[c] /\ accepted'[c] = accepted[c]
  <2>1. m # c
    BY <1>2, <1>b
    DEF Dispatch, Accepted, Refused, TryAgain, AnswerLost, Retry
  <2> QED
    BY <1>0, <1>2, <1>a, <2>1
    DEF Dispatch, Accepted, Refused, TryAgain, AnswerLost, Retry
<1>3. ASSUME NEW m \in Mails, NEW j \in Copies,
             \/ Ack(m, j) \/ Crash(m, j)
             \/ \E k \in Copies : RetryUnacked(m, j, k) \/ VisibilityTimeout(m, j, k)
      PROVE  /\ \A i \in Copies : copy'[c][i] # "sending"
             /\ accepted' = accepted /\ failure' = failure
  BY <1>0, <1>3, <1>a, <1>b DEF Ack, Crash, RetryUnacked, VisibilityTimeout
<1>4. ASSUME NEW m \in Mails, Enqueue(m)
      PROVE  /\ \A i \in Copies : copy'[c][i] # "sending"
             /\ accepted' = accepted /\ failure' = failure
  BY <1>0, <1>4, <1>a, <1>b DEF Enqueue
<1>5. CASE UNCHANGED mailVars
  BY <1>5, <1>b DEF mailVars
<1> QED
  BY <1>1, <1>2, <1>3, <1>4, <1>5, <1>b DEF MailNext, Worker

\* No registration and no reset request is ever mailed.
NoCallIsMailed ==
    \A c \in Calls :
        /\ accepted[c] = 0
        /\ mail[c] # {} /\ Live(c) = {} => failure[c] = {"signature"}

\* What the run mail_signature shows, for every number of calls, copies and retries:
\* enqueue_notification passes one argument to tasks that take four, so SendGrid never
\* gets a verification or reset mail, and each ends in the TypeError that nothing retries.
THEOREM CallsAreNeverMailed == AllSpec => []NoCallIsMailed
<1>1. AllInit => NoneIsRun
  BY AccountMailsAssumption DEF AllInit, MailInit, NoneIsRun
<1>2. MailsFollowCalls /\ NotForgotten /\ NoneIsRun => NoCallIsMailed
  <2> SUFFICES ASSUME MailsFollowCalls, NotForgotten, NoneIsRun, NEW c \in Calls
               PROVE  /\ accepted[c] = 0
                      /\ mail[c] # {} /\ Live(c) = {} => failure[c] = {"signature"}
    BY DEF NoCallIsMailed
  <2>1. accepted[c] = 0 /\ failure[c] \subseteq {"signature"}
    BY DEF NoneIsRun
  <2>2. mail[c] # {} /\ Live(c) = {} => failure[c] # {}
    BY <2>1, AccountMailsAssumption DEF MailsFollowCalls, NotForgotten, Remembered
  <2> QED
    BY <2>1, <2>2
<1> QED
  BY <1>1, <1>2, NoneIsRunStep, MailsFollow, MailNotForgotten, MailsAlone, MailTypeCorrect,
     AllSteps, AllStutters, PTL
  DEF AllSpec
=============================================================================
