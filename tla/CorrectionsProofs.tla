------------------------- MODULE CorrectionsProofs -------------------------
(***************************************************************************)
(* Corrections, the page and the consent, for any calls, any requests and  *)
(* any number of processes.  Each property has an invariant of its own,    *)
(* which is inductive together with TypeOK.  At the end, the corrections   *)
(* with their events: the composition implements both of its parts.        *)
(***************************************************************************)
EXTENDS CorrectionEvents, FiniteSetTheorems, SequenceTheorems, TLAPS

-----------------------------------------------------------------------------
(* Types                                                                   *)

LEMMA Defaults ==
    NewRow \in Row /\ NoSession \in Session /\ NoPatch \in Patch
<1> USE CorrectionsAssumption
<1>1. NewRow \in Row
  BY DEF NewRow, Row
<1>2. NoSession \in Session
  BY <1>1 DEF NoSession, Session, State
<1>3. NoPatch \in Patch
  BY DEF NoPatch, Patch
<1> QED
  BY <1>1, <1>2, <1>3

LEMMA Goes ==
    ASSUME TypeOK, NEW c \in Calls, NEW from, NEW to \in Place, Goto(c, from, to)
    PROVE  place' \in [Calls -> Place]
BY DEF TypeOK, Goto

LEMMA AppliedIsARow ==
    ASSUME NEW r \in Requests, NEW old \in Row
    PROVE  Applied(r, old) \in Row
<1>1. r.class \in Classes
  BY CorrectionsAssumption DEF Request
<1> QED
  BY <1>1 DEF Applied, Row

LEMMA LoadType ==
    ASSUME TypeOK, NEW c \in Calls, Load(c)
    PROVE  TypeOK'
<1>1. place' \in [Calls -> Place]
  BY Goes DEF Load, Place
<1>2. ASSUME NEW r \in Requests PROVE
        [NoSession EXCEPT !.request = r, !.loaded = row[r.symbol],
                          !.seen = Len(history), !.out = (owner \in optedOut)] \in Session
  <2>1. r.symbol \in Symbols
    BY CorrectionsAssumption DEF Request
  <2>2. row[r.symbol] \in Row /\ Len(history) \in Nat
    BY <2>1 DEF TypeOK
  <2> QED
    <3> DEFINE b == owner \in optedOut
    <3>1. b \in BOOLEAN
      OBVIOUS
    <3> HIDE DEF b
    <3>2. [NoSession EXCEPT !.request = r, !.loaded = row[r.symbol],
                            !.seen = Len(history), !.out = b] \in Session
      BY <2>2, <3>1, Defaults DEF Session
    <3> QED
      BY <3>2, Zenon DEF b
<1>3. session' \in [Calls -> Session]
  BY <1>2 DEF TypeOK, Load
<1> QED
  BY <1>1, <1>3 DEF TypeOK, Load, drawing, consents

LEMMA CorrectType ==
    ASSUME TypeOK, NEW c \in Calls, Correct(c)
    PROVE  TypeOK'
<1>1. CASE ResolveTrainingConsent(c)
  <2>1. place' \in [Calls -> Place]
    BY <1>1, Goes DEF ResolveTrainingConsent, Place
  <2>2. ConsentOf(owner) \subseteq BOOLEAN
    BY DEF ConsentOf, RecordsOf, TypeOK, Record
  <2>3. session' \in [Calls -> Session]
    <3>1. PICK b \in BOOLEAN : session' = [session EXCEPT ![c].consent = b]
      BY <1>1, <2>2 DEF ResolveTrainingConsent
    <3>2. session \in [Calls -> Session]
      BY DEF TypeOK
    <3> QED
      BY <3>1, <3>2 DEF Session
  <2> QED
    BY <1>1, <2>1, <2>3 DEF ResolveTrainingConsent, TypeOK, drawing, consents
<1>2. CASE TransitionToUnderReview(c)
  <2>1. place' \in [Calls -> Place]
    BY <1>2, Goes DEF TransitionToUnderReview, Place
  <2>2. session' \in [Calls -> Session]
    BY <1>2 DEF TransitionToUnderReview, TypeOK, Session
  <2> QED
    BY <1>2, <2>1, <2>2 DEF TransitionToUnderReview, TypeOK, drawing, consents
<1>3. CASE Flush(c)
  <2>1. place' \in [Calls -> Place]
    BY <1>3, Goes DEF Flush, Place
  <2> QED
    BY <1>3, <2>1 DEF Flush, TypeOK, drawing, consents
<1>4. CASE Commit(c)
  <2>1. place' \in [Calls -> Place]
    BY <1>4, Goes DEF Commit, Place
  <2>2. session' \in [Calls -> Session]
    BY <1>4, Defaults DEF Commit, TypeOK
  <2>3. state' \in State
    BY <1>4 DEF Commit, TypeOK, State
  <2> DEFINE r == session[c].request
  <2>4. r \in Requests /\ r.symbol \in Symbols /\ r.class \in Classes /\ session[c] \in Session
    BY CorrectionsAssumption DEF TypeOK, Session, Request
  <2>5. ASSUME NEW s \in Symbols
        PROVE  Append(history, [by |-> c, symbol |-> s, session |-> session[c]])
                 \in Seq(Correction)
    <3>1. [by |-> c, symbol |-> s, session |-> session[c]] \in Correction
      BY <2>4 DEF Correction
    <3> QED
      BY <3>1 DEF TypeOK
  <2>6. CASE r.type = "manual_add"
    <3>1. PICK s \in Symbols \ Stored(row) :
            /\ row' = [row EXCEPT ![s] = [stored |-> TRUE, rejected |-> FALSE,
                                          class |-> r.class, source |-> "manual"]]
            /\ history' = Append(history, [by |-> c, symbol |-> s, session |-> session[c]])
      BY <1>4, <2>6 DEF Commit
    <3>2. [stored |-> TRUE, rejected |-> FALSE, class |-> r.class, source |-> "manual"] \in Row
      BY <2>4 DEF Row
    <3>3. row' \in [Symbols -> Row] /\ history' \in Seq(Correction)
      BY <2>5, <3>1, <3>2 DEF TypeOK
    <3> QED
      BY <1>4, <2>1, <2>2, <2>3, <3>3 DEF Commit, TypeOK, consents
  <2>7. CASE r.type # "manual_add"
    <3>1. /\ row' = IF Writes(c) THEN [row EXCEPT ![r.symbol] = Applied(r, @)] ELSE row
          /\ history' = Append(history, [by |-> c, symbol |-> r.symbol, session |-> session[c]])
      BY <1>4, <2>7 DEF Commit
    <3> HIDE DEF r
    <3>2. row' \in [Symbols -> Row] /\ history' \in Seq(Correction)
      BY <2>4, <2>5, <3>1, AppliedIsARow DEF TypeOK
    <3> QED
      BY <1>4, <2>1, <2>2, <2>3, <3>2 DEF Commit, TypeOK, consents
  <2> QED
    BY <2>6, <2>7
<1> QED
  BY <1>1, <1>2, <1>3, <1>4 DEF Correct

LEMMA GetPageType ==
    ASSUME TypeOK, NEW c \in Calls, GetPage(c)
    PROVE  TypeOK'
<1>1. place' \in [Calls -> Place]
  BY Goes DEF GetPage, CountSymbols, ReadPage, ReadCorrections, Place
<1>2. session' \in [Calls -> Session]
  BY Defaults DEF GetPage, CountSymbols, ReadPage, ReadCorrections, TypeOK
<1>3. Cardinality(Stored(row)) \in Nat
  BY CorrectionsAssumption, FS_Subset, FS_CardinalityType DEF Stored
<1>4. answer' \in [Calls -> Answer]
  <2>1. CASE CountSymbols(c)
    BY <1>3, <2>1 DEF CountSymbols, TypeOK, Answer
  <2>2. CASE ReadPage(c)
    BY <2>2 DEF ReadPage, TypeOK, Answer
  <2>3. CASE ReadCorrections(c)
    <3>1. Len(history) \in Nat
      BY DEF TypeOK
    <3> QED
      BY <2>3, <3>1 DEF ReadCorrections, TypeOK, Answer
  <2> QED
    BY <2>1, <2>2, <2>3 DEF GetPage
<1> QED
  BY <1>1, <1>2, <1>4 DEF GetPage, CountSymbols, ReadPage, ReadCorrections, TypeOK, drawing,
     consents

LEMMA PatchType ==
    ASSUME TypeOK, NEW p \in Patches, SelectForUpdate(p) \/ PatchConsent(p) \/ PatchFails(p)
    PROVE  TypeOK'
<1>1. CASE SelectForUpdate(p)
  <2>1. PICK b \in Consents :
          /\ \E rs \in IF RecordsOf(b.user) = {} THEN {{}} ELSE {{r} : r \in RecordsOf(b.user)} :
                patch' = [patch EXCEPT ![p] = [place |-> "locked", body |-> b, record |-> rs]]
          /\ IF b.optedIn
             THEN /\ optedOut' = optedOut \ {b.user}
                  /\ session' = [d \in Calls |->
                        [session[d] EXCEPT !.out = (@ /\ owner # b.user)]]
             ELSE UNCHANGED <<optedOut, session>>
    BY <1>1 DEF SelectForUpdate
  <2>2. RecordsOf(b.user) \subseteq Record
    BY DEF RecordsOf, TypeOK
  <2>3. patch' \in [Patches -> Patch]
    <3>1. PICK rs \in SUBSET Record :
            patch' = [patch EXCEPT ![p] = [place |-> "locked", body |-> b, record |-> rs]]
      BY <2>1, <2>2
    <3>2. [place |-> "locked", body |-> b, record |-> rs] \in Patch
      BY DEF Patch
    <3> QED
      BY <3>1, <3>2 DEF TypeOK
  <2>4. session' \in [Calls -> Session] /\ optedOut' \subseteq Users
    <3>1. CASE b.optedIn
      <4>1. \A d \in Calls : [session[d] EXCEPT !.out = (@ /\ owner # b.user)] \in Session
        BY DEF TypeOK, Session
      <4> QED
        BY <2>1, <3>1, <4>1 DEF TypeOK
    <3>2. CASE ~b.optedIn
      BY <2>1, <3>2 DEF TypeOK
    <3> QED
      BY <3>1, <3>2
  <2> QED
    BY <1>1, <2>3, <2>4 DEF SelectForUpdate, TypeOK, drawing
<1>2. CASE PatchConsent(p)
  <2>1. patch[p] \in Patch /\ patch[p].body \in [user : Users, optedIn : BOOLEAN]
        /\ patch[p].record \subseteq Record
    BY CorrectionsAssumption DEF TypeOK, Patch
  <2>2. [of |-> patch[p].body.user, id |-> p, optedIn |-> patch[p].body.optedIn] \in Record
    BY <2>1 DEF Record
  <2>3. \A r \in patch[p].record : [r EXCEPT !.optedIn = patch[p].body.optedIn] \in Record
    BY <2>1 DEF Record
  <2>4. records' \subseteq Record
    BY <1>2, <2>2, <2>3 DEF PatchConsent, Upserted, TypeOK
  <2>5. [NoPatch EXCEPT !.place = "done"] \in Patch
    BY Defaults DEF Patch
  <2>6. patch' \in [Patches -> Patch]
    BY <1>2, <2>5 DEF PatchConsent, TypeOK
  <2>7. optedOut' \subseteq Users
    BY <1>2, <2>1 DEF PatchConsent, TypeOK
  <2> QED
    BY <1>2, <2>4, <2>6, <2>7 DEF PatchConsent, TypeOK, drawing, calls
<1>3. CASE PatchFails(p)
  <2>1. [NoPatch EXCEPT !.place = "done"] \in Patch
    BY Defaults DEF Patch
  <2> QED
    BY <1>3, <2>1 DEF PatchFails, TypeOK, drawing, calls
<1> QED
  BY <1>1, <1>2, <1>3

LEMMA TypeStep == TypeOK /\ [Next]_vars => TypeOK'
<1> SUFFICES ASSUME TypeOK, [Next]_vars PROVE TypeOK'
  OBVIOUS
<1>1. ASSUME NEW c \in Calls, Rollback(c) PROVE TypeOK'
  <2>1. place' \in [Calls -> Place] /\ session' \in [Calls -> Session]
    BY <1>1, Defaults DEF Rollback, TypeOK, Place
  <2> QED
    BY <1>1, <2>1 DEF Rollback, TypeOK, drawing, consents
<1>2. CASE ProcessingCompletes
  BY <1>2 DEF ProcessingCompletes, TypeOK, State, calls, consents
<1>3. CASE UNCHANGED vars
  BY <1>3 DEF TypeOK, vars, drawing, calls, consents
<1> QED
  BY <1>1, <1>2, <1>3, LoadType, CorrectType, GetPageType, PatchType DEF Next, Over

\* Every statement leaves the tables and the sessions well-formed.
THEOREM TypeCorrect == Spec => []TypeOK
<1>1. Init => TypeOK
  <2> SUFFICES ASSUME Init PROVE TypeOK
    OBVIOUS
  <2>1. \A s \in Symbols : [NewRow EXCEPT !.stored = (s \in Detected)] \in Row
    <3>1. ASSUME NEW b \in BOOLEAN PROVE [NewRow EXCEPT !.stored = b] \in Row
      BY Defaults DEF Row
    <3> TAKE s \in Symbols
    <3> DEFINE b == s \in Detected
    <3>2. b \in BOOLEAN
      OBVIOUS
    <3> HIDE DEF b
    <3>3. [NewRow EXCEPT !.stored = b] \in Row
      BY <3>1, <3>2
    <3> QED
      BY <3>3, Zenon DEF b
  <2>2. [rows |-> [s \in Symbols |-> NewRow], total |-> 0, corrections |-> 0] \in Answer
    BY Defaults DEF Answer
  <2>3. records \subseteq Record
    BY CorrectionsAssumption DEF Init, Record
  <2> QED
    BY <2>1, <2>2, <2>3, Defaults DEF Init, TypeOK, State, Place
<1> QED
  BY <1>1, TypeStep, PTL DEF Spec

-----------------------------------------------------------------------------
(* The consent.  A user has as many records as inserts could begin while   *)
(* he had none: a call that finds one updates that one.                    *)

InTransaction == {p \in Patches : patch[p].place = "locked"}

Inserting(u) == {p \in Locked(u) : patch[p].record = {}}

\* Only the calls of one process each are under way; one that found a record has it
\* locked.
LocksHold ==
    /\ Cardinality(InTransaction) <= Processes
    /\ \A p \in InTransaction :
          /\ patch[p].record \subseteq RecordsOf(patch[p].body.user)
          /\ \A r, s \in patch[p].record : r = s
    /\ \A p, q \in InTransaction :
          p # q /\ patch[p].body.user = patch[q].body.user =>
              patch[p].record = {} \/ patch[q].record = {}

RecordsAndInserts ==
    /\ IsFiniteSet(records)
    /\ \A u \in Users :
          Cardinality(RecordsOf(u)) + Cardinality(Inserting(u)) <= Processes

\* A record of a user is known by the call that has inserted it.
RecordsHaveNames ==
    \A r \in records : r.of \in Users =>
        /\ \A s \in records : s.of = r.of /\ s.id = r.id => s = r
        /\ \A p \in Patches : r.id = p => patch[p].place = "done"

Single(k) == \A r, s \in RecordsOf(k) : r = s

OptOuts ==
    /\ \A p \in InTransaction : patch[p].body.optedIn => patch[p].body.user \notin optedOut
    /\ \A u \in optedOut : Single(u) => \A r \in RecordsOf(u) : ~r.optedIn
    /\ \A c \in Calls : session[c].out => owner \in optedOut

\* No statement has read a consent that the owner had withdrawn before.
Respected ==
    Single(owner) =>
        /\ \A c \in Calls : place[c] \in {"resolved", "transitioned", "flushed"} =>
                             (session[c].out => ~session[c].consent)
        /\ \A i \in DOMAIN history : history[i].session.out => ~history[i].session.consent

ConsentInv == LocksHold /\ RecordsAndInserts /\ RecordsHaveNames /\ OptOuts /\ Respected

LEMMA InTransactionOf ==
    /\ \A u \in Users : Locked(u) = {p \in InTransaction : patch[p].body.user = u}
    /\ \A u \in Users : Inserting(u) \subseteq InTransaction
    /\ InTransaction \subseteq Patches /\ IsFiniteSet(InTransaction)
    /\ \A u \in Users : IsFiniteSet(Inserting(u))
<1>1. InTransaction \subseteq Patches /\ IsFiniteSet(InTransaction)
  BY CorrectionsAssumption, FS_Subset DEF InTransaction
<1>2. \A u \in Users : Locked(u) = {p \in InTransaction : patch[p].body.user = u}
  BY DEF Locked, InTransaction
<1>3. \A u \in Users : Inserting(u) \subseteq InTransaction
  BY <1>2 DEF Inserting
<1> QED
  BY <1>1, <1>2, <1>3, FS_Subset

LEMMA BodyOf ==
    ASSUME TypeOK, NEW p \in Patches
    PROVE  /\ patch[p].body \in Consents /\ patch[p].body.user \in Users
           /\ patch[p].body.optedIn \in BOOLEAN
           /\ patch[p].record \subseteq Record /\ patch[p] \in Patch
BY CorrectionsAssumption DEF TypeOK, Patch

\* What the INSERT or UPDATE does to the records of its user, and of everybody else.
LEMMA Upserts ==
    ASSUME TypeOK, LocksHold, NEW p \in Patches, PatchConsent(p),
           NEW u \in Users, u = patch[p].body.user,
           NEW new \in Record, new = [of |-> u, id |-> p, optedIn |-> patch[p].body.optedIn]
    PROVE  /\ \A k \in Users \cup Teams : k # u => RecordsOf(k)' = RecordsOf(k)
           /\ \/ /\ patch[p].record = {}
                 /\ records' = records \cup {new}
                 /\ RecordsOf(u)' = RecordsOf(u) \cup {new}
              \/ \E r \in RecordsOf(u), s \in Record :
                    /\ patch[p].record = {r}
                    /\ s.of = r.of /\ s.id = r.id /\ s.optedIn = new.optedIn
                    /\ records' = (records \ {r}) \cup {s}
                    /\ RecordsOf(u)' = (RecordsOf(u) \ {r}) \cup {s}
<1>1. /\ patch[p].record \subseteq RecordsOf(u)
      /\ \A r, s \in patch[p].record : r = s
  BY DEF PatchConsent, LocksHold, InTransaction
<1>2. new.of = u /\ new.optedIn = patch[p].body.optedIn
  BY BodyOf
<1>3. CASE patch[p].record = {}
  <2>1. records' = records \cup {new}
    BY <1>3 DEF PatchConsent, Upserted
  <2>2. RecordsOf(u)' = RecordsOf(u) \cup {new}
    BY <1>2, <2>1 DEF RecordsOf
  <2>3. \A k \in Users \cup Teams : k # u => RecordsOf(k)' = RecordsOf(k)
    BY <1>2, <2>1 DEF RecordsOf
  <2> QED
    BY <1>3, <2>1, <2>2, <2>3
<1>4. CASE patch[p].record # {}
  <2>1. PICK r \in RecordsOf(u) : patch[p].record = {r}
    BY <1>1, <1>4
  <2> DEFINE s == [r EXCEPT !.optedIn = patch[p].body.optedIn]
  <2>2. records' = (records \ {r}) \cup {s}
    BY <1>4, <2>1 DEF PatchConsent, Upserted
  <2>3. r \in Record /\ patch[p].body.optedIn \in BOOLEAN /\ r.of = u
    BY BodyOf DEF RecordsOf, TypeOK
  <2>4. s \in Record /\ s.of = r.of /\ s.id = r.id /\ s.optedIn = new.optedIn
    BY <1>2, <2>3 DEF Record
  <2> HIDE DEF s
  <2>5. RecordsOf(u)' = (RecordsOf(u) \ {r}) \cup {s}
    BY <2>2, <2>3, <2>4 DEF RecordsOf
  <2>6. \A k \in Users \cup Teams : k # u => RecordsOf(k)' = RecordsOf(k)
    BY <2>2, <2>3, <2>4 DEF RecordsOf
  <2> QED
    BY <2>1, <2>2, <2>4, <2>5, <2>6
<1> QED
  BY <1>3, <1>4

LEMMA SelectKeepsConsent ==
    ASSUME TypeOK, TypeOK', ConsentInv, NEW p \in Patches, SelectForUpdate(p)
    PROVE  LocksHold' /\ RecordsAndInserts' /\ RecordsHaveNames'
<1>1. PICK b \in Consents :
        /\ \A q \in Locked(b.user) : patch[q].record = {}
        /\ \E rs \in IF RecordsOf(b.user) = {} THEN {{}} ELSE {{r} : r \in RecordsOf(b.user)} :
              patch' = [patch EXCEPT ![p] = [place |-> "locked", body |-> b, record |-> rs]]
  BY DEF SelectForUpdate
<1>2. PICK rs \in IF RecordsOf(b.user) = {} THEN {{}} ELSE {{r} : r \in RecordsOf(b.user)} :
        patch' = [patch EXCEPT ![p] = [place |-> "locked", body |-> b, record |-> rs]]
  BY <1>1
<1>3. /\ patch'[p].place = "locked" /\ patch'[p].body = b /\ patch'[p].record = rs
      /\ \A q \in Patches \ {p} : patch'[q] = patch[q]
      /\ patch[p].place = "idle" /\ records' = records
      /\ Cardinality(InTransaction) < Processes
      /\ b.user \in Users /\ Processes \in Nat
  BY <1>2, CorrectionsAssumption DEF SelectForUpdate, InTransaction, TypeOK
<1>4. /\ rs \subseteq RecordsOf(b.user) /\ \A r, s \in rs : r = s
      /\ rs = {} => RecordsOf(b.user) = {}
  BY <1>2
<1>5. InTransaction' = InTransaction \cup {p} /\ p \notin InTransaction
  BY <1>3 DEF InTransaction
<1>6. \A k : RecordsOf(k)' = RecordsOf(k)
  BY <1>3 DEF RecordsOf
<1>7. Cardinality(InTransaction') <= Processes /\ Cardinality(InTransaction') \in Nat
      /\ IsFiniteSet(InTransaction')
  <2>1. Cardinality(InTransaction') = Cardinality(InTransaction) + 1 /\ IsFiniteSet(InTransaction')
    BY <1>5, InTransactionOf, FS_AddElement
  <2>2. Cardinality(InTransaction) \in Nat
    BY InTransactionOf, FS_CardinalityType
  <2> QED
    BY <1>3, <2>1, <2>2
<1>8. LocksHold'
  <2>1. ASSUME NEW q \in InTransaction'
        PROVE  /\ (patch[q].record \subseteq RecordsOf(patch[q].body.user))'
               /\ \A r, s \in patch'[q].record : r = s
    <3>1. CASE q = p
      BY <1>3, <1>4, <1>6, <3>1 DEF RecordsOf
    <3>2. CASE q # p
      <4>1. q \in InTransaction /\ patch'[q] = patch[q]
        BY <1>3, <1>5, <2>1, <3>2, InTransactionOf
      <4>2. /\ patch[q].record \subseteq RecordsOf(patch[q].body.user)
            /\ \A r, s \in patch[q].record : r = s
        BY <4>1 DEF ConsentInv, LocksHold
      <4> QED
        BY <1>3, <4>1, <4>2 DEF RecordsOf
    <3> QED
      BY <3>1, <3>2
  <2>2. ASSUME NEW q \in InTransaction', NEW x \in InTransaction', q # x,
               patch'[q].body.user = patch'[x].body.user
        PROVE  patch'[q].record = {} \/ patch'[x].record = {}
    <3>1. \A y \in InTransaction : patch[y].body.user = b.user => patch[y].record = {}
      BY <1>1, <1>3, InTransactionOf
    <3>2. CASE q # p /\ x # p
      BY <1>3, <1>5, <2>2, <3>2, InTransactionOf DEF ConsentInv, LocksHold
    <3>3. CASE q = p \/ x = p
      BY <1>3, <1>5, <2>2, <3>1, <3>3, InTransactionOf
    <3> QED
      BY <3>2, <3>3
  <2> QED
    BY <1>7, <2>1, <2>2 DEF LocksHold
<1>9. RecordsAndInserts'
  <2> SUFFICES ASSUME NEW u \in Users
               PROVE  Cardinality(RecordsOf(u)') + Cardinality(Inserting(u)') <= Processes
    BY <1>3 DEF RecordsAndInserts, ConsentInv
  <2>1. Cardinality(RecordsOf(u)) + Cardinality(Inserting(u)) <= Processes
    BY DEF ConsentInv, RecordsAndInserts
  <2>2. CASE u = b.user /\ RecordsOf(u) = {}
    <3>1. Inserting(u)' \subseteq InTransaction'
      BY DEF Inserting, Locked, InTransaction
    <3>2. Cardinality(Inserting(u)') <= Cardinality(InTransaction')
          /\ Cardinality(Inserting(u)') \in Nat
      BY <1>7, <3>1, FS_Subset, FS_CardinalityType
    <3>3. Cardinality(RecordsOf(u)') = 0
      BY <1>6, <2>2, FS_EmptySet
    <3> QED
      BY <1>3, <1>7, <3>2, <3>3
  <2>3. CASE ~(u = b.user /\ RecordsOf(u) = {})
    <3>1. Inserting(u)' = Inserting(u)
      BY <1>3, <1>4, <2>3 DEF Inserting, Locked
    <3> QED
      BY <1>6, <2>1, <3>1
  <2> QED
    BY <2>2, <2>3
<1>10. RecordsHaveNames'
  BY <1>3 DEF RecordsHaveNames, ConsentInv
<1> QED
  BY <1>8, <1>9, <1>10

\* The call that ends, whether it has written or not, is in transaction no more.
LEMMA Ends ==
    ASSUME TypeOK, NEW p \in Patches, PatchConsent(p) \/ PatchFails(p)
    PROVE  /\ InTransaction' = InTransaction \ {p} /\ p \in InTransaction
           /\ patch'[p].place = "done"
           /\ \A q \in Patches \ {p} : patch'[q] = patch[q]
           /\ \A u \in Users : Inserting(u)' = Inserting(u) \ {p}
<1>1. patch' = [patch EXCEPT ![p] = [NoPatch EXCEPT !.place = "done"]] /\ patch[p].place = "locked"
  BY DEF PatchConsent, PatchFails
<1>2. [NoPatch EXCEPT !.place = "done"].place = "done"
  BY Defaults DEF Patch
<1>3. patch'[p].place = "done" /\ \A q \in Patches \ {p} : patch'[q] = patch[q]
  BY <1>1, <1>2 DEF TypeOK
<1>4. InTransaction' = InTransaction \ {p} /\ p \in InTransaction
  BY <1>1, <1>3 DEF InTransaction
<1>5. \A u \in Users : Inserting(u)' = Inserting(u) \ {p}
  BY <1>3 DEF Inserting, Locked
<1> QED
  BY <1>3, <1>4, <1>5

LEMMA EndKeepsLocks ==
    ASSUME TypeOK, ConsentInv, NEW p \in Patches, PatchConsent(p) \/ PatchFails(p),
           \A q \in InTransaction \ {p} :
              patch[q].record \subseteq {r \in records' : r.of = patch[q].body.user}
    PROVE  LocksHold'
<1>1. Cardinality(InTransaction') <= Processes
  <2>1. Cardinality(InTransaction') = Cardinality(InTransaction) - 1
    BY Ends, InTransactionOf, FS_RemoveElement
  <2>2. Cardinality(InTransaction) \in Nat /\ Processes \in Nat
    BY InTransactionOf, FS_CardinalityType, CorrectionsAssumption
  <2> QED
    BY <2>1, <2>2 DEF ConsentInv, LocksHold
<1>2. \A q \in InTransaction' : q \in InTransaction \ {p} /\ patch'[q] = patch[q]
  BY Ends, InTransactionOf
<1>3. \A q \in InTransaction' :
        /\ (patch[q].record \subseteq RecordsOf(patch[q].body.user))'
        /\ \A r, s \in patch'[q].record : r = s
  BY <1>2 DEF ConsentInv, LocksHold, RecordsOf
<1>4. \A q, x \in InTransaction' :
        q # x /\ patch'[q].body.user = patch'[x].body.user =>
            patch'[q].record = {} \/ patch'[x].record = {}
  BY <1>2 DEF ConsentInv, LocksHold
<1> QED
  BY <1>1, <1>3, <1>4 DEF LocksHold

LEMMA FailKeepsConsent ==
    ASSUME TypeOK, ConsentInv, NEW p \in Patches, PatchFails(p)
    PROVE  LocksHold' /\ RecordsAndInserts' /\ RecordsHaveNames'
<1>1. records' = records
  BY DEF PatchFails
<1>2. LocksHold'
  BY <1>1, EndKeepsLocks DEF ConsentInv, LocksHold, RecordsOf
<1>3. RecordsAndInserts'
  <2> SUFFICES ASSUME NEW u \in Users
               PROVE  Cardinality(RecordsOf(u)') + Cardinality(Inserting(u)') <= Processes
    BY <1>1 DEF ConsentInv, RecordsAndInserts
  <2>1. Inserting(u)' \subseteq Inserting(u) /\ RecordsOf(u)' = RecordsOf(u)
    BY <1>1, Ends DEF RecordsOf
  <2>2. /\ Cardinality(Inserting(u)') <= Cardinality(Inserting(u))
        /\ Cardinality(Inserting(u)') \in Nat /\ Cardinality(Inserting(u)) \in Nat
    BY <2>1, InTransactionOf, FS_Subset, FS_CardinalityType
  <2>3. Cardinality(RecordsOf(u)) \in Nat /\ Processes \in Nat
    <3>1. RecordsOf(u) \subseteq records
      BY DEF RecordsOf
    <3> QED
      BY <3>1, FS_Subset, FS_CardinalityType, CorrectionsAssumption
      DEF ConsentInv, RecordsAndInserts
  <2>4. Cardinality(RecordsOf(u)) + Cardinality(Inserting(u)) <= Processes
    BY DEF ConsentInv, RecordsAndInserts
  <2> QED
    BY <2>1, <2>2, <2>3, <2>4
<1>4. RecordsHaveNames'
  BY <1>1, Ends DEF ConsentInv, RecordsHaveNames
<1> QED
  BY <1>2, <1>3, <1>4

LEMMA UpsertKeepsConsent ==
    ASSUME TypeOK, ConsentInv, NEW p \in Patches, PatchConsent(p)
    PROVE  LocksHold' /\ RecordsAndInserts' /\ RecordsHaveNames'
<1> DEFINE u == patch[p].body.user
           new == [of |-> u, id |-> p, optedIn |-> patch[p].body.optedIn]
<1>1. u \in Users /\ new \in Record
  BY BodyOf DEF Record
<1>2. PICK v \in Users : v = u
  BY <1>1
<1>3. PICK n \in Record : n = [of |-> v, id |-> p, optedIn |-> patch[p].body.optedIn]
  BY <1>1, <1>2
<1> HIDE DEF new
<1>4. n.of = v /\ n.id = p
  BY <1>3
<1>5. /\ \A k \in Users \cup Teams : k # v => RecordsOf(k)' = RecordsOf(k)
      /\ \/ /\ patch[p].record = {}
            /\ records' = records \cup {n}
            /\ RecordsOf(v)' = RecordsOf(v) \cup {n}
         \/ \E r \in RecordsOf(v), s \in Record :
               /\ patch[p].record = {r}
               /\ s.of = r.of /\ s.id = r.id /\ s.optedIn = n.optedIn
               /\ records' = (records \ {r}) \cup {s}
               /\ RecordsOf(v)' = (RecordsOf(v) \ {r}) \cup {s}
  <2>1. v = patch[p].body.user /\ LocksHold
    BY <1>2 DEF ConsentInv
  <2> HIDE DEF u
  <2> QED
    BY <1>3, <2>1, Upserts
<1>6. patch[p].place = "locked" /\ p \in Locked(v)
  BY <1>2 DEF PatchConsent, Locked
<1>7. LocksHold'
  <2>1. ASSUME NEW q \in InTransaction \ {p}
        PROVE  patch[q].record \subseteq {r \in records' : r.of = patch[q].body.user}
    <3>1. patch[q].record \subseteq {r \in records : r.of = patch[q].body.user}
      BY DEF ConsentInv, LocksHold, RecordsOf
    <3>2. CASE patch[p].record = {}
      BY <1>5, <3>1, <3>2
    <3>3. CASE patch[p].record # {}
      <4>1. PICK r \in RecordsOf(v) :
              patch[p].record = {r} /\ \E s \in Record : records' = (records \ {r}) \cup {s}
        BY <1>5, <3>3
      <4>2. r \notin patch[q].record
        <5>1. p \in InTransaction
          BY Ends
        <5>2. CASE patch[q].body.user = v
          BY <1>2, <3>3, <5>1, <5>2 DEF ConsentInv, LocksHold
        <5>3. CASE patch[q].body.user # v
          BY <3>1, <5>3 DEF RecordsOf
        <5> QED
          BY <5>2, <5>3
      <4> QED
        BY <3>1, <4>1, <4>2
    <3> QED
      BY <3>2, <3>3
  <2> QED
    BY <2>1, EndKeepsLocks
<1>8. IsFiniteSet(records')
  <2>1. IsFiniteSet(records)
    BY DEF ConsentInv, RecordsAndInserts
  <2>2. \A r, s : IsFiniteSet((records \ {r}) \cup {s})
    <3> TAKE r, s
    <3>1. IsFiniteSet(records \ {r})
      BY <2>1, FS_RemoveElement
    <3> QED
      BY <3>1, FS_AddElement
  <2>3. IsFiniteSet(records \cup {n})
    BY <2>1, FS_AddElement
  <2> QED
    <3>1. CASE records' = records \cup {n}
      BY <2>3, <3>1
    <3>2. CASE records' # records \cup {n}
      <4>1. PICK r \in RecordsOf(v), s \in Record : records' = (records \ {r}) \cup {s}
        BY <1>5, <3>2
      <4>2. IsFiniteSet((records \ {r}) \cup {s})
        BY <2>2
      <4> QED
        BY <4>1, <4>2
    <3> QED
      BY <3>1, <3>2
<1>9. \A w \in Users : /\ IsFiniteSet(RecordsOf(w)) /\ Cardinality(RecordsOf(w)) \in Nat
                       /\ Cardinality(Inserting(w)) \in Nat
                       /\ Cardinality(RecordsOf(w)) + Cardinality(Inserting(w)) <= Processes
  <2>1. \A w \in Users : RecordsOf(w) \subseteq records
    BY DEF RecordsOf
  <2> QED
    BY <2>1, InTransactionOf, FS_Subset, FS_CardinalityType DEF ConsentInv, RecordsAndInserts
<1>10. ASSUME NEW w \in Users
       PROVE  Cardinality(RecordsOf(w)') + Cardinality(Inserting(w)') <= Processes
  <2>1. Inserting(w)' = Inserting(w) \ {p}
    BY Ends
  <2>2. CASE w # v \/ patch[p].record # {}
    <3>1. p \notin Inserting(w)
      BY <1>2, <2>2 DEF Inserting, Locked
    <3>2. Inserting(w)' = Inserting(w)
      BY <2>1, <3>1
    <3>3. Cardinality(RecordsOf(w)') <= Cardinality(RecordsOf(w))
          /\ Cardinality(RecordsOf(w)') \in Nat
      <4>1. CASE w # v
        BY <1>5, <1>9, <4>1
      <4>2. CASE w = v
        <5>1. PICK r \in RecordsOf(w) :
                \E s \in Record : RecordsOf(w)' = (RecordsOf(w) \ {r}) \cup {s}
          BY <1>5, <2>2, <4>2
        <5>2. PICK s \in Record : RecordsOf(w)' = (RecordsOf(w) \ {r}) \cup {s}
          BY <5>1
        <5> DEFINE rest == RecordsOf(w) \ {r}
        <5>3. IsFiniteSet(rest) /\ Cardinality(rest) = Cardinality(RecordsOf(w)) - 1
          BY <1>9, FS_RemoveElement
        <5> HIDE DEF rest
        <5>4. Cardinality(rest \cup {s}) \in {Cardinality(rest), Cardinality(rest) + 1}
          BY <5>3, FS_AddElement
        <5>5. Cardinality(rest) \in Nat
          BY <5>3, FS_CardinalityType
        <5> QED
          BY <1>9, <5>2, <5>3, <5>4, <5>5 DEF rest
      <4> QED
        BY <4>1, <4>2
    <3> QED
      BY <1>9, <3>2, <3>3, CorrectionsAssumption
  <2>3. CASE w = v /\ patch[p].record = {}
    <3>1. p \in Inserting(w)
      BY <1>6, <2>3 DEF Inserting
    <3>2. Cardinality(Inserting(w)') = Cardinality(Inserting(w)) - 1
      BY <2>1, <3>1, InTransactionOf, FS_RemoveElement
    <3>3. RecordsOf(w)' = RecordsOf(w) \cup {n}
      BY <1>5, <2>3
    <3>4. Cardinality(RecordsOf(w)') \in {Cardinality(RecordsOf(w)), Cardinality(RecordsOf(w)) + 1}
      BY <1>9, <3>3, FS_AddElement
    <3> QED
      BY <1>9, <3>2, <3>4, CorrectionsAssumption
  <2> QED
    BY <2>2, <2>3
<1>11. RecordsHaveNames'
  <2>1. ASSUME NEW r \in records', r.of \in Users, NEW q \in Patches, r.id = q
        PROVE  patch'[q].place = "done"
    <3>1. CASE q = p
      BY <3>1, Ends
    <3>2. CASE q # p
      <4>1. \E x \in records : x.of = r.of /\ x.id = r.id
        BY <1>4, <1>5, <2>1, <3>2 DEF RecordsOf
      <4> QED
        BY <2>1, <3>2, <4>1, Ends DEF ConsentInv, RecordsHaveNames
    <3> QED
      BY <3>1, <3>2
  <2>2. ASSUME NEW r \in records', NEW s \in records', r.of \in Users, s.of = r.of, s.id = r.id
        PROVE  s = r
    <3>1. \A x, y \in records : x.of \in Users /\ y.of = x.of /\ y.id = x.id => y = x
      BY DEF ConsentInv, RecordsHaveNames
    <3>2. CASE patch[p].record = {}
      <4>1. \A x \in records : x.of \in Users => x.id # p
        BY <1>6 DEF ConsentInv, RecordsHaveNames
      <4> QED
        BY <1>4, <1>5, <2>2, <3>1, <3>2, <4>1
    <3>3. CASE patch[p].record # {}
      <4>1. PICK a \in RecordsOf(v), b \in Record :
              b.of = a.of /\ b.id = a.id /\ records' = (records \ {a}) \cup {b}
        BY <1>5, <3>3
      <4>2. a \in records
        BY DEF RecordsOf
      <4> QED
        BY <2>2, <3>1, <4>1, <4>2
    <3> QED
      BY <3>2, <3>3
  <2> QED
    BY <2>1, <2>2 DEF RecordsHaveNames
<1> QED
  BY <1>7, <1>8, <1>10, <1>11 DEF RecordsAndInserts

LEMMA SelectKeepsOptOuts ==
    ASSUME TypeOK, ConsentInv, NEW p \in Patches, SelectForUpdate(p)
    PROVE  OptOuts' /\ Respected'
<1>1. PICK b \in Consents :
        /\ \E rs \in IF RecordsOf(b.user) = {} THEN {{}} ELSE {{r} : r \in RecordsOf(b.user)} :
              patch' = [patch EXCEPT ![p] = [place |-> "locked", body |-> b, record |-> rs]]
        /\ IF b.optedIn
           THEN /\ optedOut' = optedOut \ {b.user}
                /\ session' = [c \in Calls |->
                      [session[c] EXCEPT !.out = (@ /\ owner # b.user)]]
           ELSE UNCHANGED <<optedOut, session>>
  BY DEF SelectForUpdate
<1>2. /\ patch'[p].body = b /\ \A q \in Patches \ {p} : patch'[q] = patch[q]
      /\ records' = records /\ UNCHANGED drawing /\ place' = place
  BY <1>1 DEF TypeOK, SelectForUpdate
<1>3. /\ \A c \in Calls : /\ session'[c].consent = session[c].consent
                          /\ session'[c].out => session[c].out
      /\ optedOut' \subseteq optedOut
      /\ b.optedIn => b.user \notin optedOut'
      /\ \A c \in Calls : session'[c].out /\ b.optedIn => owner # b.user
      /\ ~b.optedIn => optedOut' = optedOut
      /\ b.optedIn => optedOut' = optedOut \ {b.user}
  <2>1. CASE b.optedIn
    <3>1. \A c \in Calls : session[c] \in Session
      BY DEF TypeOK
    <3>2. \A c \in Calls : session'[c] = [session[c] EXCEPT !.out = (@ /\ owner # b.user)]
      BY <1>1, <2>1
    <3>3. \A c \in Calls : /\ session'[c].consent = session[c].consent
                           /\ session'[c].out <=> (session[c].out /\ owner # b.user)
      BY <3>1, <3>2 DEF Session
    <3> QED
      <4>1. optedOut' = optedOut \ {b.user}
        BY <1>1, <2>1
      <4>2. \A c \in Calls : session'[c].out => session[c].out /\ owner # b.user
        BY <3>3
      <4>3. \A c \in Calls : session'[c].consent = session[c].consent
        BY <3>3
      <4>4. \A c \in Calls : session'[c].out => session[c].out
        BY <4>2
      <4> QED
        BY <2>1, <4>1, <4>2, <4>3, <4>4
  <2>2. CASE ~b.optedIn
    BY <1>1, <2>2
  <2> QED
    BY <2>1, <2>2
<1>4. \A q \in InTransaction' : q = p \/ (q \in InTransaction /\ patch'[q] = patch[q])
  BY <1>2 DEF InTransaction
<1>5. \A k : RecordsOf(k)' = RecordsOf(k) /\ (Single(k)' <=> Single(k))
  BY <1>2 DEF RecordsOf, Single
<1>6. OptOuts'
  <2>1. \A q \in InTransaction' : patch'[q].body.optedIn => patch'[q].body.user \notin optedOut'
    BY <1>2, <1>3, <1>4 DEF ConsentInv, OptOuts
  <2>2. \A k \in optedOut' : Single(k)' => \A r \in RecordsOf(k)' : ~r.optedIn
    BY <1>3, <1>5 DEF ConsentInv, OptOuts
  <2>3. \A c \in Calls : session'[c].out => owner' \in optedOut'
    BY <1>2, <1>3 DEF ConsentInv, OptOuts, drawing
  <2> QED
    BY <2>1, <2>2, <2>3 DEF OptOuts
<1>7. Respected'
  <2>1. Single(owner)' <=> Single(owner)
    BY <1>2 DEF Single, RecordsOf, drawing
  <2> QED
    BY <1>2, <1>3, <2>1 DEF ConsentInv, Respected, drawing
<1> QED
  BY <1>6, <1>7

LEMMA FailKeepsOptOuts ==
    ASSUME TypeOK, ConsentInv, NEW p \in Patches, PatchFails(p)
    PROVE  OptOuts' /\ Respected'
<1>1. UNCHANGED <<drawing, calls, records, optedOut>>
  BY DEF PatchFails
<1>2. \A q \in InTransaction' : q \in InTransaction /\ patch'[q] = patch[q]
  BY Ends, InTransactionOf
<1>3. OptOuts'
  BY <1>1, <1>2 DEF ConsentInv, OptOuts, Single, RecordsOf, drawing, calls
<1>4. Respected'
  BY <1>1 DEF ConsentInv, Respected, Single, RecordsOf, drawing, calls
<1> QED
  BY <1>3, <1>4

LEMMA UpsertKeepsOptOuts ==
    ASSUME TypeOK, ConsentInv, NEW p \in Patches, PatchConsent(p)
    PROVE  OptOuts' /\ Respected'
<1>1. PICK v \in Users : v = patch[p].body.user
  BY BodyOf
<1>2. PICK n \in Record : n = [of |-> v, id |-> p, optedIn |-> patch[p].body.optedIn]
  BY BodyOf DEF Record
<1>3. n.of = v /\ n.id = p /\ n.optedIn = patch[p].body.optedIn
  BY <1>2
<1>4. /\ \A k \in Users \cup Teams : k # v => RecordsOf(k)' = RecordsOf(k)
      /\ \/ /\ patch[p].record = {}
            /\ RecordsOf(v)' = RecordsOf(v) \cup {n}
         \/ \E r \in RecordsOf(v), s \in Record :
               /\ s.of = r.of /\ s.id = r.id /\ s.optedIn = n.optedIn
               /\ RecordsOf(v)' = (RecordsOf(v) \ {r}) \cup {s}
               /\ patch[p].record = {r}
  BY <1>1, <1>2, Upserts DEF ConsentInv
<1>5. \A k \in Users \cup Teams : Single(k)' => Single(k)
  <2> SUFFICES ASSUME NEW k \in Users \cup Teams, Single(k)', NEW x \in RecordsOf(k),
                      NEW y \in RecordsOf(k)
               PROVE  x = y
    BY DEF Single
  <2>1. \A a, b \in RecordsOf(k)' : a = b
    BY DEF Single
  <2>2. CASE k # v
    BY <1>4, <2>1, <2>2
  <2>3. CASE k = v /\ RecordsOf(v)' = RecordsOf(v) \cup {n}
    BY <2>1, <2>3
  <2>4. CASE k = v /\ RecordsOf(v)' # RecordsOf(v) \cup {n}
    <3>1. PICK r \in RecordsOf(v), s \in Record :
            s.of = r.of /\ s.id = r.id /\ RecordsOf(v)' = (RecordsOf(v) \ {r}) \cup {s}
      BY <1>4, <2>4
    <3>2. \A a, b \in RecordsOf(v) : a.id = b.id => a = b
      BY DEF ConsentInv, RecordsHaveNames, RecordsOf
    <3> QED
      BY <2>1, <2>4, <3>1, <3>2
  <2> QED
    BY <2>2, <2>3, <2>4
<1>6. \A k \in Users : k \in optedOut' => k \in optedOut \/ (k = v /\ ~n.optedIn)
  <2>1. p \in Locked(v)
    BY <1>1 DEF PatchConsent, Locked
  <2> QED
    BY <1>1, <1>3, <2>1 DEF PatchConsent
<1>7. \A q \in InTransaction' : q \in InTransaction /\ patch'[q] = patch[q]
  BY Ends, InTransactionOf
<1>8. UNCHANGED <<drawing, calls>> /\ optedOut' \subseteq Users /\ optedOut \subseteq optedOut'
  BY BodyOf DEF PatchConsent, TypeOK
<1>9. \A q \in InTransaction' : patch'[q].body.optedIn => patch'[q].body.user \notin optedOut'
  <2> SUFFICES ASSUME NEW q \in InTransaction', patch'[q].body.optedIn,
                      patch'[q].body.user \in optedOut'
               PROVE  FALSE
    OBVIOUS
  <2>1. q \in InTransaction /\ patch[q].body.optedIn /\ patch[q].body.user \in optedOut'
    BY <1>7
  <2>2. patch[q].body.user \notin optedOut
    BY <2>1 DEF ConsentInv, OptOuts
  <2>3. patch[q].body.user = v /\ q \in Locked(v)
    BY <1>1, <2>1, <2>2, InTransactionOf DEF PatchConsent
  <2> QED
    BY <1>1, <2>1, <2>2, <2>3 DEF PatchConsent
<1>10. ASSUME NEW k \in optedOut', Single(k)' PROVE \A r \in RecordsOf(k)' : ~r.optedIn
  <2>1. CASE k # v
    BY <1>4, <1>5, <1>6, <1>8, <1>10, <2>1 DEF ConsentInv, OptOuts
  <2>2. CASE k = v
    <3>1. ~n.optedIn
      <4>1. p \in InTransaction
        BY Ends
      <4> QED
        BY <1>1, <1>3, <1>6, <2>2, <4>1 DEF ConsentInv, OptOuts
    <3>2. \A a, b \in RecordsOf(v)' : a = b
      BY <1>10, <2>2 DEF Single
    <3>3. \E s \in RecordsOf(v)' : s.optedIn = n.optedIn
      BY <1>4
    <3> QED
      BY <2>2, <3>1, <3>2, <3>3
  <2> QED
    BY <2>1, <2>2
<1>11. OptOuts'
  BY <1>8, <1>9, <1>10 DEF ConsentInv, OptOuts, drawing, calls
<1>12. Respected'
  <2>1. owner' = owner /\ owner \in Users \cup Teams
    BY <1>8, CorrectionsAssumption DEF drawing, TypeOK
  <2>2. Single(owner)' => Single(owner)
    <3>1. Single(owner)' <=> \A r, s \in {x \in records' : x.of = owner} : r = s
      BY <2>1 DEF Single, RecordsOf
    <3>2. PICK k \in Users \cup Teams : k = owner
      BY <2>1
    <3>3. Single(k)' <=> \A r, s \in {x \in records' : x.of = k} : r = s
      BY DEF Single, RecordsOf
    <3> QED
      BY <1>5, <3>1, <3>2, <3>3 DEF Single
  <2> QED
    BY <1>8, <2>2 DEF ConsentInv, Respected, drawing, calls
<1> QED
  BY <1>11, <1>12

\* The routes of the symbols read the consent, and write none.
LEMMA CallKeepsConsent ==
    ASSUME TypeOK, ConsentInv, NEW c \in Calls,
           Load(c) \/ Correct(c) \/ GetPage(c) \/ Rollback(c)
    PROVE  ConsentInv'
<1>1. UNCHANGED <<consents, owner>> /\ \A x \in Calls \ {c} : session'[x] = session[x] /\ place'[x] = place[x]
  BY DEF Load, Correct, ResolveTrainingConsent, TransitionToUnderReview, Flush, Commit,
     GetPage, CountSymbols, ReadPage, ReadCorrections, Rollback, Goto, TypeOK, drawing
<1>2. LocksHold' /\ RecordsAndInserts' /\ RecordsHaveNames'
  BY <1>1 DEF ConsentInv, LocksHold, RecordsAndInserts, RecordsHaveNames, InTransaction,
     Inserting, Locked, RecordsOf, consents
<1>3. session'[c].out => owner \in optedOut
  <2>1. CASE Load(c)
    <3>1. \A r \in Requests :
            [NoSession EXCEPT !.request = r, !.loaded = row[r.symbol], !.seen = Len(history),
                              !.out = (owner \in optedOut)].out <=> owner \in optedOut
      BY Defaults DEF Session
    <3> QED
      BY <2>1, <3>1 DEF Load, TypeOK, ConsentInv, OptOuts
  <2>2. CASE ~Load(c)
    <3>1. NoSession.out = FALSE
      BY DEF NoSession
    <3>2. session'[c] = NoSession \/ session'[c].out = session[c].out
      BY <2>2 DEF Correct, ResolveTrainingConsent, TransitionToUnderReview, Flush, Commit,
         GetPage, CountSymbols, ReadPage, ReadCorrections, Rollback, TypeOK, Session
    <3> QED
      BY <3>1, <3>2 DEF ConsentInv, OptOuts
  <2> QED
    BY <2>1, <2>2
<1>4. OptOuts'
  BY <1>1, <1>3 DEF ConsentInv, OptOuts, InTransaction, Single, RecordsOf, consents
<1>5. Respected'
  <2> SUFFICES ASSUME Single(owner)
               PROVE  /\ \A x \in Calls :
                            place'[x] \in {"resolved", "transitioned", "flushed"} =>
                              (session'[x].out => ~session'[x].consent)
                      /\ \A i \in DOMAIN history' :
                            history'[i].session.out => ~history'[i].session.consent
    BY <1>1 DEF Respected, Single, RecordsOf, consents
  <2>1. CASE ResolveTrainingConsent(c)
    <3>1. PICK b \in ConsentOf(owner) : session' = [session EXCEPT ![c].consent = b]
      BY <2>1 DEF ResolveTrainingConsent
    <3>2. session'[c].consent = b /\ (session'[c].out <=> session[c].out)
      BY <3>1 DEF TypeOK, Session
    <3>3. session[c].out => ~b
      BY <3>1 DEF ConsentOf, ConsentInv, OptOuts
    <3> QED
      BY <1>1, <2>1, <3>2, <3>3 DEF ConsentInv, Respected, ResolveTrainingConsent, drawing
  <2>2. CASE Commit(c)
    <3>1. place'[c] = "committed" /\ place[c] = "flushed"
      BY <2>2 DEF Commit, Goto, TypeOK
    <3>2. PICK s : history' = Append(history, [by |-> c, symbol |-> s, session |-> session[c]])
      BY <2>2 DEF Commit
    <3>3. \A i \in DOMAIN history' : \/ i \in DOMAIN history /\ history'[i] = history[i]
                                     \/ history'[i].session = session[c]
      BY <3>2 DEF TypeOK
    <3> QED
      BY <1>1, <3>1, <3>3 DEF ConsentInv, Respected
  <2>3. CASE ~ResolveTrainingConsent(c) /\ ~Commit(c)
    <3>1. history' = history
      BY <2>3 DEF Load, Correct, TransitionToUnderReview, Flush, GetPage, CountSymbols,
         ReadPage, ReadCorrections, Rollback, drawing
    <3>2. place'[c] \in {"resolved", "transitioned", "flushed"} =>
            /\ place[c] \in {"resolved", "transitioned", "flushed"}
            /\ session'[c].out = session[c].out /\ session'[c].consent = session[c].consent
      BY <2>3 DEF Load, Correct, TransitionToUnderReview, Flush, GetPage, CountSymbols,
         ReadPage, ReadCorrections, Rollback, Goto, TypeOK, Session
    <3> QED
      BY <1>1, <3>1, <3>2 DEF ConsentInv, Respected
  <2> QED
    BY <2>1, <2>2, <2>3
<1> QED
  BY <1>2, <1>4, <1>5 DEF ConsentInv

LEMMA ConsentStep == TypeOK /\ ConsentInv /\ [Next]_vars => ConsentInv'
<1> SUFFICES ASSUME TypeOK, ConsentInv, [Next]_vars PROVE ConsentInv'
  OBVIOUS
<1>1. ASSUME NEW p \in Patches, SelectForUpdate(p) \/ PatchConsent(p) \/ PatchFails(p)
      PROVE  ConsentInv'
  <2>1. TypeOK'
    BY TypeStep
  <2> QED
    BY <1>1, <2>1, SelectKeepsConsent, SelectKeepsOptOuts, UpsertKeepsConsent,
       UpsertKeepsOptOuts, FailKeepsConsent, FailKeepsOptOuts
    DEF ConsentInv
<1>2. CASE ProcessingCompletes \/ UNCHANGED vars
  <2>1. UNCHANGED <<consents, calls, owner, history>>
    BY <1>2 DEF ProcessingCompletes, vars, drawing
  <2>2. LocksHold' /\ RecordsAndInserts' /\ RecordsHaveNames'
    BY <2>1 DEF ConsentInv, LocksHold, RecordsAndInserts, RecordsHaveNames, InTransaction,
       Inserting, Locked, RecordsOf, consents
  <2>3. OptOuts' /\ Respected'
    BY <2>1 DEF ConsentInv, OptOuts, Respected, InTransaction, Single, RecordsOf, consents,
       calls
  <2> QED
    BY <2>2, <2>3 DEF ConsentInv
<1> QED
  BY <1>1, <1>2, CallKeepsConsent DEF Next, Over

LEMMA ConsentInitially == Init => ConsentInv
<1> SUFFICES ASSUME Init PROVE ConsentInv
  OBVIOUS
<1>1. \A p \in Patches : patch[p].place = "idle"
  BY DEF Init, NoPatch
<1>2. InTransaction = {} /\ \A u \in Users : Inserting(u) = {}
  BY <1>1 DEF InTransaction, Inserting, Locked
<1>3. \A r \in records : r.of \in Teams
  BY CorrectionsAssumption DEF Init
<1>4. \A u \in Users : RecordsOf(u) = {}
  BY <1>3, CorrectionsAssumption DEF RecordsOf
<1>5. Processes \in Nat /\ Cardinality({}) = 0
  BY CorrectionsAssumption, FS_EmptySet
<1>6. LocksHold
  BY <1>2, <1>5 DEF LocksHold
<1>7. RecordsAndInserts
  <2>1. IsFiniteSet(records)
    BY CorrectionsAssumption DEF Init
  <2>2. \A u \in Users : Cardinality(RecordsOf(u)) + Cardinality(Inserting(u)) = 0
    BY <1>2, <1>4, <1>5
  <2> QED
    BY <1>5, <2>1, <2>2 DEF RecordsAndInserts
<1>8. RecordsHaveNames
  BY <1>3, CorrectionsAssumption DEF RecordsHaveNames
<1>9. \A c \in Calls : session[c].out = FALSE /\ place[c] = "idle"
  BY DEF Init, NoSession
<1>10. OptOuts
  BY <1>2, <1>9 DEF OptOuts, Init
<1>11. Respected
  BY <1>9 DEF Respected, Init
<1> QED
  BY <1>6, <1>7, <1>8, <1>10, <1>11 DEF ConsentInv

LEMMA ConsentInvariant == Spec => [](TypeOK /\ ConsentInv)
<1>1. Spec => []TypeOK
  BY TypeCorrect
<1> QED
  BY <1>1, ConsentInitially, ConsentStep, PTL DEF Spec

\* SELECT ... FOR UPDATE of no record does not keep a second call from inserting one;
\* a user never has more of them than there are processes.
THEOREM FewRecords == Spec => []RecordsAtMostProcesses
<1>1. TypeOK /\ ConsentInv => RecordsAtMostProcesses
  <2> SUFFICES ASSUME ConsentInv, NEW u \in Users
               PROVE  Cardinality(RecordsOf(u)) <= Processes
    BY DEF RecordsAtMostProcesses
  <2>1. RecordsOf(u) \subseteq records
    BY DEF RecordsOf
  <2>2. Cardinality(RecordsOf(u)) \in Nat /\ Cardinality(Inserting(u)) \in Nat
    BY <2>1, InTransactionOf, FS_Subset, FS_CardinalityType DEF ConsentInv, RecordsAndInserts
  <2> QED
    BY <2>2, CorrectionsAssumption DEF ConsentInv, RecordsAndInserts
<1> QED
  BY <1>1, ConsentInvariant, PTL

\* A correction that begins after the opt-out of the drawing's owner, and ends before he
\* asks to opt in, is not released for training: while he has one record, and where his
\* team, whose consent consent_service puts before his, has none.
THEOREM OptOutStands == Spec => []OptOutIsRespected
<1>1. TypeOK /\ ConsentInv => OptOutIsRespected
  <2> SUFFICES ASSUME TypeOK, ConsentInv, Cardinality(RecordsOf(owner)) <= 1,
                      ~TeamDecides(owner)
               PROVE  \A i \in DOMAIN history :
                         history[i].session.out => ~history[i].session.consent
    BY DEF OptOutIsRespected
  <2>1. Single(owner)
    <3> SUFFICES ASSUME NEW r \in RecordsOf(owner), NEW s \in RecordsOf(owner), r # s
                 PROVE  FALSE
      BY DEF Single
    <3>1. RecordsOf(owner) \subseteq records
      BY DEF RecordsOf
    <3>2. IsFiniteSet(RecordsOf(owner)) /\ Cardinality(RecordsOf(owner)) \in Nat
      BY <3>1, FS_Subset, FS_CardinalityType DEF ConsentInv, RecordsAndInserts
    <3> DEFINE one == RecordsOf(owner) \ {r}
               none == one \ {s}
    <3>3. IsFiniteSet(one) /\ Cardinality(one) = Cardinality(RecordsOf(owner)) - 1
      BY <3>2, FS_RemoveElement
    <3>4. s \in one
      OBVIOUS
    <3> HIDE DEF one
    <3>5. IsFiniteSet(none) /\ Cardinality(none) = Cardinality(one) - 1
      BY <3>3, <3>4, FS_RemoveElement
    <3>6. Cardinality(none) \in Nat
      BY <3>5, FS_CardinalityType
    <3> QED
      BY <3>2, <3>3, <3>5, <3>6
  <2> QED
    BY <2>1 DEF ConsentInv, Respected
<1> QED
  BY <1>1, ConsentInvariant, PTL

-----------------------------------------------------------------------------
(* The state of the drawing.  What a correction has found stays so until   *)
(* it ends: the row of the drawing is locked by the one that found         *)
(* "Complete".                                                             *)

Found(c) == session[c].found

DrawingInv ==
    /\ \A c \in Calls : place[c] \in {"transitioned", "flushed"} =>
          /\ Found(c) = "Complete" => state = "Complete"
          /\ Found(c) = "Under_Review" => state = "Under_Review"
    /\ \A c, d \in Calls : HoldsDrawing(c) /\ HoldsDrawing(d) => c = d
    /\ FirstCorrectionMovesDrawing

LEMMA CommitKeepsDrawing ==
    ASSUME TypeOK, DrawingInv, NEW c \in Calls, Commit(c)
    PROVE  DrawingInv'
<1>1. /\ place[c] = "flushed" /\ place'[c] = "committed"
      /\ \A x \in Calls \ {c} : place'[x] = place[x] /\ session'[x] = session[x]
      /\ state' = IF Moves(c) THEN "Under_Review" ELSE state
  BY DEF Commit, Goto, TypeOK
<1>2. PICK s : history' = Append(history, [by |-> c, symbol |-> s, session |-> session[c]])
  BY DEF Commit
<1>3. /\ DOMAIN history = 1..Len(history) /\ Len(history) \in Nat
      /\ DOMAIN history' = 1..(Len(history) + 1)
      /\ \A i \in 1..Len(history) : history'[i] = history[i]
      /\ history'[Len(history) + 1].session = session[c]
  BY <1>2 DEF TypeOK
<1>4. session[c].found \in State /\ state \in State
  BY DEF TypeOK, Session
<1>5. CASE Moves(c)
  <2>1. HoldsDrawing(c) /\ session[c].found = "Complete" /\ state = "Complete"
    BY <1>1, <1>5 DEF HoldsDrawing, Moves, DrawingInv, Found
  <2>2. \A d \in Calls \ {c} : ~HoldsDrawing(d) /\ ~HoldsDrawing(d)'
    BY <1>1, <2>1 DEF DrawingInv, HoldsDrawing, Moves
  <2>3. \A i \in DOMAIN history : history[i].session.found = "Processing"
    BY <2>1 DEF DrawingInv, FirstCorrectionMovesDrawing
  <2>4. FirstCorrectionMovesDrawing'
    BY <1>1, <1>3, <1>5, <2>1, <2>3 DEF FirstCorrectionMovesDrawing
  <2>5. ~HoldsDrawing(c)'
    BY <1>1 DEF HoldsDrawing
  <2>6. \A x \in Calls : place'[x] \in {"transitioned", "flushed"} =>
          /\ session'[x].found = "Complete" => state' = "Complete"
          /\ session'[x].found = "Under_Review" => state' = "Under_Review"
    BY <1>1, <1>5, <2>1, <2>2 DEF HoldsDrawing, Moves
  <2> QED
    BY <2>2, <2>4, <2>5, <2>6 DEF DrawingInv, Found
<1>6. CASE ~Moves(c)
  <2>1. session[c].found # "Complete" /\ state' = state
    BY <1>1, <1>6 DEF Moves
  <2>2. state # "Under_Review" => session[c].found = "Processing"
    BY <1>1, <1>4, <2>1 DEF DrawingInv, Found, State
  <2>3. FirstCorrectionMovesDrawing'
    BY <1>3, <2>1, <2>2 DEF DrawingInv, FirstCorrectionMovesDrawing
  <2> QED
    BY <1>1, <2>1, <2>3 DEF DrawingInv, Found, HoldsDrawing, Moves
<1> QED
  BY <1>5, <1>6

LEMMA DrawingStep == TypeOK /\ DrawingInv /\ [Next]_vars => DrawingInv'
<1> SUFFICES ASSUME TypeOK, DrawingInv, [Next]_vars PROVE DrawingInv'
  OBVIOUS
\* A step that leaves the drawing alone, and takes no call to where it has found a state.
<1>1. ASSUME UNCHANGED <<state, history>>,
             \A c \in Calls : place'[c] \in {"transitioned", "flushed"} =>
                /\ place[c] \in {"transitioned", "flushed"}
                /\ session'[c].found = session[c].found
      PROVE  DrawingInv'
  BY <1>1 DEF DrawingInv, Found, HoldsDrawing, Moves, FirstCorrectionMovesDrawing
<1>2. ASSUME NEW c \in Calls, TransitionToUnderReview(c) PROVE DrawingInv'
  <2>1. /\ UNCHANGED <<state, history>> /\ place'[c] = "transitioned"
        /\ session'[c].found = state
        /\ \A x \in Calls \ {c} : place'[x] = place[x] /\ session'[x] = session[x]
        /\ \A d \in Calls : ~HoldsDrawing(d)
    BY <1>2 DEF TransitionToUnderReview, Goto, drawing, TypeOK, Session
  <2>2. \A d \in Calls \ {c} : ~HoldsDrawing(d)'
    BY <2>1 DEF HoldsDrawing, Moves
  <2> QED
    BY <2>1, <2>2 DEF DrawingInv, Found, FirstCorrectionMovesDrawing
<1>3. CASE ProcessingCompletes
  <2>1. state = "Processing" /\ state' = "Complete" /\ UNCHANGED <<history, place, session>>
    BY <1>3 DEF ProcessingCompletes, calls
  <2>2. \A c \in Calls : place[c] \in {"transitioned", "flushed"} =>
          Found(c) # "Complete" /\ Found(c) # "Under_Review"
    BY <2>1 DEF DrawingInv
  <2> QED
    BY <2>1, <2>2 DEF DrawingInv, Found, HoldsDrawing, Moves, FirstCorrectionMovesDrawing
<1>4. ASSUME NEW c \in Calls, \/ Load(c) \/ ResolveTrainingConsent(c) \/ Flush(c)
                              \/ GetPage(c) \/ Rollback(c)
      PROVE  DrawingInv'
  <2>1. UNCHANGED <<state, history>>
    BY <1>4 DEF Load, ResolveTrainingConsent, Flush, GetPage, CountSymbols, ReadPage,
       ReadCorrections, Rollback, drawing
  <2>2. /\ \A x \in Calls \ {c} : place'[x] = place[x] /\ session'[x] = session[x]
        /\ place'[c] \in {"transitioned", "flushed"} =>
              place[c] = "transitioned" /\ session'[c] = session[c]
    BY <1>4 DEF Load, ResolveTrainingConsent, Flush, GetPage, CountSymbols, ReadPage,
       ReadCorrections, Rollback, Goto, TypeOK
  <2> QED
    BY <1>1, <2>1, <2>2
<1>5. ASSUME NEW p \in Patches, SelectForUpdate(p) \/ PatchConsent(p) \/ PatchFails(p)
      PROVE  DrawingInv'
  <2>1. UNCHANGED <<state, history, place>>
    BY <1>5 DEF SelectForUpdate, PatchConsent, PatchFails, drawing, calls
  <2>2. \A c \in Calls : session'[c].found = session[c].found
    <3>1. CASE PatchConsent(p) \/ PatchFails(p)
      BY <3>1 DEF PatchConsent, PatchFails, calls
    <3>2. CASE SelectForUpdate(p)
      <4>1. PICK b \in Consents :
              \/ session' = [x \in Calls |-> [session[x] EXCEPT !.out = (@ /\ owner # b.user)]]
              \/ session' = session
        BY <3>2 DEF SelectForUpdate
      <4> QED
        BY <4>1 DEF TypeOK, Session
    <3> QED
      BY <1>5, <3>1, <3>2
  <2> QED
    BY <1>1, <2>1, <2>2
<1>6. CASE UNCHANGED vars
  BY <1>1, <1>6 DEF vars, drawing, calls
<1> QED
  BY <1>2, <1>3, <1>4, <1>5, <1>6, CommitKeepsDrawing DEF Next, Over, Correct

LEMMA DrawingInvariant == Spec => []DrawingInv
<1>1. Init => DrawingInv
  BY DEF Init, DrawingInv, HoldsDrawing, FirstCorrectionMovesDrawing
<1> QED
  BY <1>1, TypeCorrect, DrawingStep, PTL DEF Spec

\* One correction, and only one, takes a drawing from Complete to Under_Review.
THEOREM OneCorrectionMoves == Spec => []FirstCorrectionMovesDrawing
<1>1. DrawingInv => FirstCorrectionMovesDrawing
  BY DEF DrawingInv
<1> QED
  BY <1>1, DrawingInvariant, PTL

-----------------------------------------------------------------------------
(* The symbols.  A call that finds nothing to write is right about the     *)
(* column that it would have written, unless a correction of that column   *)
(* was committed since it loaded the symbol.                               *)

Rejecting == {"reject", "restore"}

Classing == {"reclassify", "manual_add"}

Pending(c) == place[c] \in {"loaded", "resolved", "transitioned", "flushed"}

\* Corrections of symbol s, of one of these types, since n of them were committed.
NoneSince(n, s, types) ==
    \A j \in DOMAIN history : j > n /\ history[j].symbol = s => Type(j) \notin types

Loaded(c) ==
    LET now == session[c]
        r   == now.request
    IN  /\ place[c] # "loaded" => r.type # "page"
        /\ now.seen <= Len(history)
        /\ r.type \in {"reclassify", "reject", "restore"} =>
              /\ row[r.symbol].stored
              /\ NoneSince(now.seen, r.symbol, Rejecting) =>
                    now.loaded.rejected = row[r.symbol].rejected
              /\ NoneSince(now.seen, r.symbol, Classing) =>
                    now.loaded.class = row[r.symbol].class

Recorded(i) ==
    /\ Type(i) \in Rejecting \cup Classing
    /\ row[history[i].symbol].stored

RowInv ==
    /\ \A c \in Calls : Pending(c) => Loaded(c)
    /\ \A i \in DOMAIN history : Recorded(i)
    /\ LastCorrectionStands

\* What a correction does to the symbol: one column, and the other stays.
LEMMA Applies ==
    ASSUME NEW r \in Requests, NEW old \in Row, r.type \notin {"page", "manual_add"}
    PROVE  /\ Applied(r, old).stored = old.stored /\ Applied(r, old).source = old.source
           /\ r.type = "reject" => Applied(r, old).rejected = TRUE
           /\ r.type = "restore" => Applied(r, old).rejected = FALSE
           /\ r.type = "reclassify" => /\ Applied(r, old).class = r.class
                                       /\ Applied(r, old).rejected = old.rejected
           /\ r.type \in Rejecting => Applied(r, old).class = old.class
           /\ r.type \in {"reclassify", "reject", "restore"}
BY CorrectionsAssumption DEF Applied, Row, Request, Rejecting

LEMMA CommitAppends ==
    ASSUME TypeOK, NEW c \in Calls, NEW s,
           history' = Append(history, [by |-> c, symbol |-> s, session |-> session[c]])
    PROVE  /\ Len(history) \in Nat
           /\ DOMAIN history = 1..Len(history) /\ DOMAIN history' = 1..(Len(history) + 1)
           /\ Len(history') = Len(history) + 1
           /\ \A i \in 1..Len(history) : history'[i] = history[i]
           /\ history'[Len(history) + 1].symbol = s
           /\ history'[Len(history) + 1].session = session[c]
BY DEF TypeOK

\* The requests of the other calls, while one commits.
LEMMA CommitLeavesOthers ==
    ASSUME TypeOK, NEW c \in Calls, Commit(c)
    PROVE  /\ place[c] = "flushed" /\ place'[c] = "committed"
           /\ \A d \in Calls \ {c} : place'[d] = place[d] /\ session'[d] = session[d]
           /\ ~Pending(c)' /\ \A d \in Calls : Pending(d)' => d # c /\ Pending(d)
BY DEF Commit, Goto, TypeOK, Pending

LEMMA ManualAddKeepsRows ==
    ASSUME TypeOK, RowInv, NEW c \in Calls, Commit(c), session[c].request.type = "manual_add"
    PROVE  RowInv'
<1> DEFINE r == session[c].request
           n == Len(history)
<1>1. PICK s \in Symbols \ Stored(row) :
        /\ row' = [row EXCEPT ![s] = [stored |-> TRUE, rejected |-> FALSE,
                                      class |-> r.class, source |-> "manual"]]
        /\ history' = Append(history, [by |-> c, symbol |-> s, session |-> session[c]])
  BY DEF Commit
<1>2. /\ n \in Nat /\ DOMAIN history = 1..n /\ DOMAIN history' = 1..(n + 1) /\ Len(history') = n + 1
      /\ \A i \in 1..n : history'[i] = history[i]
      /\ history'[n + 1].symbol = s /\ history'[n + 1].session = session[c]
  BY <1>1, CommitAppends
<1>3. /\ row'[s].stored /\ row'[s].class = r.class
      /\ \A x \in Symbols \ {s} : row'[x] = row[x]
  BY <1>1 DEF TypeOK
<1>4. \A x \in Symbols : row[x].stored => x # s
  BY DEF Stored
<1> HIDE DEF n
<1>5. \A i \in 1..n : history[i].symbol \in Symbols /\ history[i].symbol # s
  <2> TAKE i \in 1..n
  <2>1. history[i] \in Correction
    BY <1>2 DEF TypeOK
  <2>2. history[i].symbol \in Symbols
    BY <2>1 DEF Correction
  <2>3. row[history[i].symbol].stored
    BY <1>2 DEF RowInv, Recorded
  <2> QED
    BY <1>4, <2>2, <2>3
<1>6. ASSUME NEW d \in Calls, Pending(d)' PROVE Loaded(d)'
  <2>1. d # c /\ Pending(d) /\ place'[d] = place[d] /\ session'[d] = session[d]
    BY <1>6, CommitLeavesOthers
  <2>2. Loaded(d) /\ session[d].request.symbol \in Symbols /\ session[d].seen \in Nat
    BY <2>1, CorrectionsAssumption DEF RowInv, TypeOK, Session, Request
  <2> DEFINE x == session[d].request.symbol
             seen == session[d].seen
  <2>3. x # s => \A types \in {Rejecting, Classing} :
                   NoneSince(seen, x, types)' => NoneSince(seen, x, types)
    <3> SUFFICES ASSUME NEW types \in {Rejecting, Classing}, NoneSince(seen, x, types)',
                        NEW j \in DOMAIN history, j > seen, history[j].symbol = x
                 PROVE  Type(j) \notin types
      BY DEF NoneSince
    <3>1. j \in DOMAIN history' /\ history'[j] = history[j]
      BY <1>2
    <3> QED
      BY <2>1, <3>1 DEF NoneSince, Type
  <2>4. CASE session[d].request.type \in {"reclassify", "reject", "restore"}
    <3>1. row[x].stored /\ x # s /\ row'[x] = row[x]
      BY <1>3, <1>4, <2>2, <2>4 DEF Loaded
    <3> QED
      BY <1>2, <2>1, <2>2, <2>3, <3>1 DEF Loaded
  <2>5. CASE session[d].request.type \notin {"reclassify", "reject", "restore"}
    BY <1>2, <2>1, <2>2, <2>5 DEF Loaded
  <2> QED
    BY <2>4, <2>5
<1>7. ASSUME NEW i \in DOMAIN history' PROVE Recorded(i)'
  <2>1. CASE i \in 1..n
    BY <1>2, <1>3, <1>5, <2>1 DEF RowInv, Recorded, Type
  <2>2. CASE i = n + 1
    BY <1>2, <1>3, <2>2 DEF Recorded, Type, Classing
  <2> QED
    BY <1>2, <2>1, <2>2
<1>8. LastCorrectionStands'
  <2> SUFFICES ASSUME NEW i \in DOMAIN history'
               PROVE  \/ \E j \in DOMAIN history' : j > i /\ SameColumn(i, j)'
                      \/ \E j \in DOMAIN history' :
                            history'[i].session.seen < j /\ j < i /\ SameColumn(i, j)'
                      \/ CASE Type(i)' = "reject"  -> row'[history'[i].symbol].rejected
                           [] Type(i)' = "restore" -> ~row'[history'[i].symbol].rejected
                           [] OTHER -> row'[history'[i].symbol].class = NewClass(i)'
    BY DEF LastCorrectionStands
  <2>1. CASE i = n + 1
    BY <1>2, <1>3, <2>1 DEF Type, NewClass
  <2>2. CASE i \in 1..n
    <3>1. history'[i] = history[i] /\ Type(i)' = Type(i) /\ NewClass(i)' = NewClass(i)
          /\ row'[history[i].symbol] = row[history[i].symbol]
      BY <1>2, <1>3, <1>5, <2>2 DEF Type, NewClass
    <3>2. \A j \in DOMAIN history : SameColumn(i, j)' <=> SameColumn(i, j)
      BY <1>2, <2>2 DEF SameColumn, Type
    <3>3. DOMAIN history \subseteq DOMAIN history' /\ i \in DOMAIN history
      BY <1>2, <2>2
    <3> QED
      BY <3>1, <3>2, <3>3 DEF RowInv, LastCorrectionStands
  <2> QED
    BY <1>2, <2>1, <2>2
<1> QED
  BY <1>6, <1>7, <1>8 DEF RowInv

\* The COMMIT of a correction of a stored symbol, which may have nothing to write.
LEMMA CorrectionKeepsRows ==
    ASSUME TypeOK, RowInv, NEW c \in Calls, Commit(c), session[c].request.type # "manual_add"
    PROVE  RowInv'
<1> DEFINE r == session[c].request
<1>0. PICK n \in Nat : n = Len(history)
  BY DEF TypeOK
<1>1. /\ row' = IF Writes(c) THEN [row EXCEPT ![r.symbol] = Applied(r, @)] ELSE row
      /\ history' = Append(history, [by |-> c, symbol |-> r.symbol, session |-> session[c]])
  BY DEF Commit
<1>2. PICK s \in Symbols : s = r.symbol
  BY CorrectionsAssumption DEF TypeOK, Session, Request
<1>3. /\ n \in Nat /\ DOMAIN history = 1..n /\ DOMAIN history' = 1..(n + 1) /\ Len(history') = n + 1
      /\ \A i \in 1..n : history'[i] = history[i]
      /\ history'[n + 1].symbol = s /\ history'[n + 1].session = session[c]
  BY <1>0, <1>1, <1>2, CommitAppends
<1>4. /\ Loaded(c) /\ r.type \notin {"page", "manual_add"}
      /\ r \in Requests /\ session[c].loaded \in Row /\ session[c].seen \in Nat
      /\ session[c].seen <= n
  <2>1. place[c] = "flushed"
    BY CommitLeavesOthers
  <2>2. Loaded(c)
    BY <2>1 DEF RowInv, Pending
  <2> QED
    BY <1>0, <2>1, <2>2 DEF Loaded, TypeOK, Session
<1> HIDE DEF r
<1>5. /\ \A x \in Symbols : row[x] \in Row
      /\ \A x \in Symbols \ {s} : row'[x] = row[x]
      /\ row'[s] = IF Writes(c) THEN Applied(r, row[s]) ELSE row[s]
  BY <1>1, <1>2 DEF TypeOK
<1>6. /\ r.type \in {"reclassify", "reject", "restore"}
      /\ row[s].stored
  <2>1. r.type \in {"reclassify", "reject", "restore"}
    BY <1>4, Applies
  <2> QED
    BY <1>2, <1>4, <2>1 DEF Loaded, r
<1> DEFINE Made(old) ==
        /\ Applied(r, old).stored = old.stored
        /\ r.type = "reject" => Applied(r, old).rejected = TRUE
        /\ r.type = "restore" => Applied(r, old).rejected = FALSE
        /\ r.type = "reclassify" => /\ Applied(r, old).class = r.class
                                    /\ Applied(r, old).rejected = old.rejected
        /\ r.type \in Rejecting => Applied(r, old).class = old.class
<1>made. \A old \in Row : Made(old)
  BY <1>4, Applies
<1>both. Made(row[s]) /\ Made(session[c].loaded)
  <2> HIDE DEF Made
  <2> QED
    BY <1>4, <1>5, <1>made
\* The column that the correction is about is as it asks; the other is as before.
<1>7. /\ row'[s].stored
      /\ r.type \in Rejecting => row'[s].class = row[s].class
      /\ r.type \in Classing => row'[s].rejected = row[s].rejected
  <2>1. CASE Writes(c)
    BY <1>5, <1>6, <1>both, <2>1 DEF Rejecting, Classing
  <2>2. CASE ~Writes(c)
    BY <1>5, <1>6, <2>2
  <2> QED
    BY <2>1, <2>2
<1>8. /\ r.type \in Rejecting /\ NoneSince(session[c].seen, s, Rejecting) =>
            row'[s].rejected = (r.type = "reject")
      /\ r.type \in Classing /\ NoneSince(session[c].seen, s, Classing) =>
            row'[s].class = r.class
  <2>1. CASE Writes(c)
    BY <1>4, <1>5, <1>both, <2>1 DEF Rejecting, Classing
  <2>2. CASE ~Writes(c)
    <3>1. Applied(r, session[c].loaded) = session[c].loaded
      BY <1>4, <2>2 DEF Writes, r
    <3>2. /\ r.type = "reject" => session[c].loaded.rejected = TRUE
          /\ r.type = "restore" => session[c].loaded.rejected = FALSE
          /\ r.type = "reclassify" => session[c].loaded.class = r.class
      BY <1>both, <3>1
    <3> QED
      BY <1>2, <1>4, <1>5, <1>6, <2>2, <3>2 DEF Loaded, Rejecting, Classing, r
  <2> QED
    BY <2>1, <2>2
<1>9. \A i \in 1..n : history[i].symbol \in Symbols
  <2> TAKE i \in 1..n
  <2>1. history[i] \in Correction
    BY <1>3 DEF TypeOK
  <2> QED
    BY <2>1 DEF Correction
<1>10. ASSUME NEW d \in Calls, Pending(d)' PROVE Loaded(d)'
  <2>1. d # c /\ Pending(d) /\ place'[d] = place[d] /\ session'[d] = session[d]
    BY <1>10, CommitLeavesOthers
  <2> DEFINE x == session[d].request.symbol
             seen == session[d].seen
  <2>2. Loaded(d) /\ x \in Symbols /\ seen \in Nat
    BY <2>1, CorrectionsAssumption DEF RowInv, TypeOK, Session, Request
  <2>3. CASE session[d].request.type \in {"reclassify", "reject", "restore"}
    <3>1. row[x].stored /\ row'[x].stored /\ seen <= n
      BY <1>0, <1>5, <1>7, <2>2, <2>3 DEF Loaded
    <3>2. ASSUME NEW types \in {Rejecting, Classing},
                 \A j \in DOMAIN history' :
                    j > seen /\ history'[j].symbol = x => history'[j].session.request.type \notin types
          PROVE  NoneSince(seen, x, types) /\ (x = s => r.type \notin types)
      <4>1. \A j \in DOMAIN history : j \in DOMAIN history' /\ history'[j] = history[j]
        BY <1>3
      <4>2. NoneSince(seen, x, types)
        BY <3>2, <4>1 DEF NoneSince, Type
      <4>3. n + 1 \in DOMAIN history' /\ n + 1 > seen
        BY <1>3, <2>2, <3>1
      <4> QED
        BY <1>3, <3>2, <4>2, <4>3 DEF r
    <3>3. r.type \in Rejecting \/ r.type \in Classing
      BY <1>6 DEF Rejecting, Classing
    <3>4. NoneSince(seen, x, Rejecting)' => session[d].loaded.rejected = row'[x].rejected
      <4> SUFFICES ASSUME NoneSince(seen, x, Rejecting)'
                   PROVE  session[d].loaded.rejected = row'[x].rejected
        OBVIOUS
      <4>1. NoneSince(seen, x, Rejecting) /\ (x = s => r.type \notin Rejecting)
        BY <2>1, <3>2 DEF NoneSince, Type
      <4>2. session[d].loaded.rejected = row[x].rejected
        BY <2>2, <2>3, <4>1 DEF Loaded
      <4> QED
        BY <1>5, <1>7, <2>2, <3>3, <4>1, <4>2
    <3>5. NoneSince(seen, x, Classing)' => session[d].loaded.class = row'[x].class
      <4> SUFFICES ASSUME NoneSince(seen, x, Classing)'
                   PROVE  session[d].loaded.class = row'[x].class
        OBVIOUS
      <4>1. NoneSince(seen, x, Classing) /\ (x = s => r.type \notin Classing)
        BY <2>1, <3>2 DEF NoneSince, Type
      <4>2. session[d].loaded.class = row[x].class
        BY <2>2, <2>3, <4>1 DEF Loaded
      <4> QED
        BY <1>5, <1>7, <2>2, <3>3, <4>1, <4>2
    <3> QED
      BY <1>0, <1>3, <2>1, <2>2, <3>1, <3>4, <3>5 DEF Loaded
  <2>4. CASE session[d].request.type \notin {"reclassify", "reject", "restore"}
    BY <1>0, <1>3, <2>1, <2>2, <2>4 DEF Loaded
  <2> QED
    BY <2>3, <2>4
<1>11. ASSUME NEW i \in DOMAIN history' PROVE Recorded(i)'
  <2>1. CASE i \in 1..n
    <3>1. Recorded(i) /\ history'[i] = history[i]
      BY <1>3, <2>1 DEF RowInv
    <3> QED
      BY <1>5, <1>7, <1>9, <2>1, <3>1 DEF Recorded, Type
  <2>2. CASE i = n + 1
    BY <1>3, <1>6, <1>7, <2>2 DEF Recorded, Type, Rejecting, Classing, r
  <2> QED
    BY <1>3, <2>1, <2>2
<1>12. LastCorrectionStands'
  <2> SUFFICES ASSUME NEW i \in DOMAIN history'
               PROVE  \/ \E j \in DOMAIN history' : j > i /\ SameColumn(i, j)'
                      \/ \E j \in DOMAIN history' :
                            history'[i].session.seen < j /\ j < i /\ SameColumn(i, j)'
                      \/ CASE Type(i)' = "reject"  -> row'[history'[i].symbol].rejected
                           [] Type(i)' = "restore" -> ~row'[history'[i].symbol].rejected
                           [] OTHER -> row'[history'[i].symbol].class = NewClass(i)'
    BY DEF LastCorrectionStands
  <2>1. \A k, j \in 1..n : SameColumn(k, j)' <=> SameColumn(k, j)
    BY <1>3 DEF SameColumn, Type
  <2>2. CASE i = n + 1
    <3>1. Type(i)' = r.type /\ NewClass(i)' = r.class /\ history'[i].session.seen = session[c].seen
          /\ history'[i].symbol = s
      BY <1>3, <2>2 DEF Type, NewClass, r
    <3>2. ASSUME NEW j \in DOMAIN history, NEW types \in {Rejecting, Classing},
                 j > session[c].seen, history[j].symbol = s, Type(j) \in types, r.type \in types
          PROVE  \E k \in DOMAIN history' :
                    history'[i].session.seen < k /\ k < i /\ SameColumn(i, k)'
      <4>1. j \in DOMAIN history' /\ j < i /\ history'[j] = history[j] /\ session[c].seen < j
        BY <1>3, <1>4, <2>2, <3>2
      <4>2. Type(j)' = Type(j)
        BY <4>1 DEF Type
      <4>3. SameColumn(i, j)'
        BY <3>1, <3>2, <4>1, <4>2 DEF SameColumn, Rejecting, Classing
      <4> QED
        BY <3>1, <4>1, <4>3
    <3>3. CASE r.type \in Rejecting
      <4>1. CASE NoneSince(session[c].seen, s, Rejecting)
        BY <1>8, <3>1, <3>3, <4>1 DEF Rejecting
      <4>2. CASE ~NoneSince(session[c].seen, s, Rejecting)
        BY <3>2, <3>3, <4>2 DEF NoneSince
      <4> QED
        BY <4>1, <4>2
    <3>4. CASE r.type \in Classing
      <4>1. CASE NoneSince(session[c].seen, s, Classing)
        BY <1>8, <3>1, <3>4, <4>1 DEF Classing
      <4>2. CASE ~NoneSince(session[c].seen, s, Classing)
        BY <3>2, <3>4, <4>2 DEF NoneSince
      <4> QED
        BY <4>1, <4>2
    <3> QED
      BY <1>6, <3>3, <3>4 DEF Rejecting, Classing
  <2>3. CASE i \in 1..n
    <3>1. history'[i] = history[i] /\ Type(i)' = Type(i) /\ NewClass(i)' = NewClass(i)
          /\ i \in DOMAIN history /\ DOMAIN history \subseteq DOMAIN history'
          /\ DOMAIN history = 1..n
      BY <1>3, <2>3 DEF Type, NewClass
    <3>2. CASE SameColumn(i, n + 1)'
      BY <1>3, <2>3, <3>2
    <3>3. CASE \/ \E j \in DOMAIN history : j > i /\ SameColumn(i, j)
               \/ \E j \in DOMAIN history :
                     history[i].session.seen < j /\ j < i /\ SameColumn(i, j)
      BY <2>1, <2>3, <3>1, <3>3
    <3>4. CASE /\ ~SameColumn(i, n + 1)'
               /\ CASE Type(i) = "reject"  -> row[history[i].symbol].rejected
                    [] Type(i) = "restore" -> ~row[history[i].symbol].rejected
                    [] OTHER               -> row[history[i].symbol].class = NewClass(i)
      <4>1. CASE history[i].symbol # s
        <5>1. row'[history[i].symbol] = row[history[i].symbol]
          BY <1>5, <1>9, <2>3, <4>1
        <5> QED
          BY <3>1, <3>4, <5>1
      <4>2. CASE history[i].symbol = s
        <5>1. Type(i) \in Rejecting \cup Classing
          BY <3>1 DEF RowInv, Recorded
        <5>2. Type(n + 1)' = r.type /\ history'[n + 1].symbol = s
          BY <1>3 DEF Type, r
        <5>3. CASE Type(i) \in Rejecting
          <6>1. r.type \notin Rejecting
            BY <3>1, <3>4, <4>2, <5>2, <5>3 DEF SameColumn, Rejecting
          <6>2. row'[s].rejected = row[s].rejected
            BY <1>6, <1>7, <6>1 DEF Rejecting, Classing
          <6> QED
            BY <3>1, <3>4, <4>2, <5>3, <6>2 DEF Rejecting
        <5>4. CASE Type(i) \in Classing
          <6>1. r.type \notin Classing
            BY <3>1, <3>4, <4>2, <5>2, <5>4 DEF SameColumn, Classing
          <6>2. row'[s].class = row[s].class
            BY <1>6, <1>7, <6>1 DEF Rejecting, Classing
          <6> QED
            BY <3>1, <3>4, <4>2, <5>4, <6>2 DEF Classing
        <5> QED
          BY <5>1, <5>3, <5>4
      <4> QED
        BY <4>1, <4>2
    <3> QED
      BY <3>1, <3>2, <3>3, <3>4 DEF RowInv, LastCorrectionStands
  <2> QED
    BY <1>3, <2>2, <2>3
<1> QED
  BY <1>10, <1>11, <1>12 DEF RowInv

\* The steps that commit nothing: what a call has loaded, it keeps.
LEMMA OthersKeepRows ==
    ASSUME TypeOK, RowInv, UNCHANGED <<row, history>>,
           \A c \in Calls : Pending(c)' =>
              \/ Loaded(c)'
              \/ /\ Pending(c) /\ (place'[c] = "loaded" \/ session[c].request.type # "page")
                 /\ session'[c].request = session[c].request
                 /\ session'[c].loaded = session[c].loaded
                 /\ session'[c].seen = session[c].seen
    PROVE  RowInv'
<1>1. ASSUME NEW c \in Calls, Pending(c)' PROVE Loaded(c)'
  <2>1. CASE Loaded(c)'
    BY <2>1
  <2>2. CASE ~Loaded(c)'
    <3>1. /\ Loaded(c) /\ (place'[c] = "loaded" \/ session[c].request.type # "page")
          /\ session'[c].request = session[c].request
          /\ session'[c].loaded = session[c].loaded
          /\ session'[c].seen = session[c].seen
      BY <1>1, <2>2 DEF RowInv
    <3>2. \A types : NoneSince(session[c].seen, session[c].request.symbol, types)'
                      <=> NoneSince(session[c].seen, session[c].request.symbol, types)
      BY <3>1 DEF NoneSince, Type
    <3> QED
      BY <3>1, <3>2 DEF Loaded
  <2> QED
    BY <2>1, <2>2
<1>2. \A i \in DOMAIN history' : Recorded(i)'
  BY DEF RowInv, Recorded, Type
<1>3. LastCorrectionStands'
  BY DEF RowInv, LastCorrectionStands, SameColumn, Type, NewClass
<1> QED
  BY <1>1, <1>2, <1>3 DEF RowInv

LEMMA LoadKeepsRows ==
    ASSUME TypeOK, RowInv, NEW c \in Calls, Load(c)
    PROVE  RowInv'
<1>1. UNCHANGED <<row, history>>
  BY DEF Load, drawing
<1>2. \A x \in Calls \ {c} : place'[x] = place[x] /\ session'[x] = session[x]
  BY DEF Load, Goto, TypeOK
<1>3. ASSUME NEW x \in Calls, x # c, Pending(x)', ~Loaded(x)'
      PROVE  FALSE
  BY <1>1, <1>2, <1>3 DEF RowInv, Pending, Loaded, NoneSince, Type
<1>4. ASSUME Pending(c)' PROVE Loaded(c)'
  <2>1. place'[c] = "loaded" /\ place'[c] # "refused"
    BY <1>4 DEF Load, Goto, TypeOK, Pending
  <2>2. PICK r \in Requests :
          /\ r.type \in {"manual_add", "page"} \/ row[r.symbol].stored
          /\ session' = [session EXCEPT ![c] =
                [NoSession EXCEPT !.request = r, !.loaded = row[r.symbol],
                                  !.seen = Len(history), !.out = (owner \in optedOut)]]
    BY <2>1 DEF Load, Goto, TypeOK
  <2>3. [NoSession EXCEPT !.request = r, !.loaded = row[r.symbol],
                          !.seen = Len(history), !.out = (owner \in optedOut)].request = r
        /\ [NoSession EXCEPT !.request = r, !.loaded = row[r.symbol],
                          !.seen = Len(history), !.out = (owner \in optedOut)].loaded = row[r.symbol]
        /\ [NoSession EXCEPT !.request = r, !.loaded = row[r.symbol],
                          !.seen = Len(history), !.out = (owner \in optedOut)].seen = Len(history)
    BY Defaults DEF Session
  <2>4. /\ session'[c].request = r /\ session'[c].loaded = row[r.symbol]
        /\ session'[c].seen = Len(history) /\ Len(history) \in Nat
    BY <2>2, <2>3 DEF TypeOK
  <2> QED
    BY <1>1, <2>1, <2>2, <2>4 DEF Loaded
<1> QED
  BY <1>1, <1>3, <1>4, OthersKeepRows

LEMMA RowStep == TypeOK /\ RowInv /\ [Next]_vars => RowInv'
<1> SUFFICES ASSUME TypeOK, RowInv, [Next]_vars PROVE RowInv'
  OBVIOUS
\* A step that leaves the symbols and the corrections alone, and what the calls know.
<1>1. ASSUME UNCHANGED <<row, history>>,
             \A c \in Calls : Pending(c)' =>
                /\ Pending(c) /\ (place'[c] = "loaded" \/ session[c].request.type # "page")
                /\ session'[c].request = session[c].request
                /\ session'[c].loaded = session[c].loaded
                /\ session'[c].seen = session[c].seen
      PROVE  RowInv'
  BY <1>1, OthersKeepRows
<1>2. ASSUME NEW c \in Calls, ResolveTrainingConsent(c) \/ TransitionToUnderReview(c) \/ Flush(c)
      PROVE  RowInv'
  <2>1. UNCHANGED <<row, history>>
    BY <1>2 DEF ResolveTrainingConsent, TransitionToUnderReview, Flush, drawing
  <2>2. \A x \in Calls \ {c} : place'[x] = place[x] /\ session'[x] = session[x]
    BY <1>2 DEF ResolveTrainingConsent, TransitionToUnderReview, Flush, Goto, TypeOK
  <2>3. /\ Pending(c) /\ session[c].request.type # "page"
    BY <1>2 DEF ResolveTrainingConsent, TransitionToUnderReview, Flush, Goto, Pending, RowInv,
       Loaded
  <2>4. /\ session'[c].request = session[c].request
        /\ session'[c].loaded = session[c].loaded
        /\ session'[c].seen = session[c].seen
    BY <1>2 DEF ResolveTrainingConsent, TransitionToUnderReview, Flush, TypeOK, Session
  <2>5. \A x \in Calls : Pending(x) /\ place[x] # "loaded" => session[x].request.type # "page"
    BY DEF RowInv, Loaded
  <2> QED
    BY <1>1, <2>1, <2>2, <2>3, <2>4, <2>5 DEF Pending
<1>3. ASSUME NEW c \in Calls, GetPage(c) \/ Rollback(c) PROVE RowInv'
  <2>1. UNCHANGED <<row, history>>
    BY <1>3 DEF GetPage, CountSymbols, ReadPage, ReadCorrections, Rollback, drawing
  <2>2. /\ \A x \in Calls \ {c} : place'[x] = place[x] /\ session'[x] = session[x]
        /\ ~Pending(c)'
    BY <1>3 DEF GetPage, CountSymbols, ReadPage, ReadCorrections, Rollback, Goto, TypeOK,
       Pending
  <2>3. \A x \in Calls : Pending(x) /\ place[x] # "loaded" => session[x].request.type # "page"
    BY DEF RowInv, Loaded
  <2> QED
    BY <1>1, <2>1, <2>2, <2>3 DEF Pending
<1>4. ASSUME NEW p \in Patches, SelectForUpdate(p) \/ PatchConsent(p) \/ PatchFails(p)
      PROVE  RowInv'
  <2>1. UNCHANGED <<row, history, place>>
    BY <1>4 DEF SelectForUpdate, PatchConsent, PatchFails, drawing, calls
  <2>2. \A x \in Calls : /\ session'[x].request = session[x].request
                        /\ session'[x].loaded = session[x].loaded
                        /\ session'[x].seen = session[x].seen
    <3>1. CASE PatchConsent(p) \/ PatchFails(p)
      BY <3>1 DEF PatchConsent, PatchFails, calls
    <3>2. CASE SelectForUpdate(p)
      <4>1. PICK b \in Consents :
              \/ session' = [x \in Calls |-> [session[x] EXCEPT !.out = (@ /\ owner # b.user)]]
              \/ session' = session
        BY <3>2 DEF SelectForUpdate
      <4> QED
        BY <4>1 DEF TypeOK, Session
    <3> QED
      BY <1>4, <3>1, <3>2
  <2>3. \A x \in Calls : Pending(x) /\ place[x] # "loaded" => session[x].request.type # "page"
    BY DEF RowInv, Loaded
  <2> QED
    BY <1>1, <2>1, <2>2, <2>3 DEF Pending
<1>5. CASE ProcessingCompletes \/ UNCHANGED vars
  <2>1. UNCHANGED <<row, history, place, session>>
    BY <1>5 DEF ProcessingCompletes, vars, drawing, calls
  <2>2. \A x \in Calls : Pending(x) /\ place[x] # "loaded" => session[x].request.type # "page"
    BY DEF RowInv, Loaded
  <2> QED
    BY <1>1, <2>1, <2>2 DEF Pending
<1> QED
  BY <1>2, <1>3, <1>4, <1>5, LoadKeepsRows, ManualAddKeepsRows, CorrectionKeepsRows
  DEF Next, Over, Correct

LEMMA RowInvariant == Spec => []RowInv
<1>1. Init => RowInv
  BY DEF Init, RowInv, Pending, LastCorrectionStands
<1> QED
  BY <1>1, TypeCorrect, RowStep, PTL DEF Spec

\* The symbol shows what the latest correction has set, unless that call had loaded it
\* before another one was committed.
THEOREM CorrectionsStand == Spec => []LastCorrectionStands
<1>1. RowInv => LastCorrectionStands
  BY DEF RowInv
<1> QED
  BY <1>1, RowInvariant, PTL

-----------------------------------------------------------------------------
(* The row locks.  PostgreSQL keeps them until the transaction ends, so a  *)
(* call that has written to a row is the only one that has.                *)

RowLocksExclude ==
    \A c, d \in Calls :
        /\ HoldsDrawing(c) /\ HoldsDrawing(d) => c = d
        /\ \A s \in Symbols : HoldsSymbol(c, s) /\ HoldsSymbol(d, s) => c = d

SymbolLocks ==
    \A c, d \in Calls, s \in Symbols : HoldsSymbol(c, s) /\ HoldsSymbol(d, s) => c = d

\* What the calls hold is theirs by what they asked for and what they have loaded.
LEMMA SymbolLocksStay ==
    ASSUME SymbolLocks,
           \A c \in Calls : place'[c] = "flushed" =>
                /\ place[c] = "flushed"
                /\ session'[c].request = session[c].request
                /\ session'[c].loaded = session[c].loaded
    PROVE  SymbolLocks'
<1>1. ASSUME NEW c \in Calls, NEW s \in Symbols, HoldsSymbol(c, s)'
      PROVE  HoldsSymbol(c, s)
  <2>1. /\ place[c] = "flushed"
        /\ session'[c].request = session[c].request
        /\ session'[c].loaded = session[c].loaded
    BY <1>1 DEF HoldsSymbol
  <2>2. Writes(c)' <=> Writes(c)
    BY <2>1 DEF Writes, Applied
  <2> QED
    BY <1>1, <2>1, <2>2 DEF HoldsSymbol
<1> QED
  BY <1>1 DEF SymbolLocks

LEMMA SymbolLocksStep == TypeOK /\ SymbolLocks /\ [Next]_vars => SymbolLocks'
<1> SUFFICES ASSUME TypeOK, SymbolLocks, [Next]_vars PROVE SymbolLocks'
  OBVIOUS
<1>1. ASSUME NEW c \in Calls, Flush(c) PROVE SymbolLocks'
  <2>1. /\ session' = session
        /\ place' = [place EXCEPT ![c] = "flushed"]
        /\ Writes(c) => \A d \in Calls : ~HoldsSymbol(d, session[c].request.symbol)
    BY <1>1 DEF Flush, Goto
  <2>2. \A d \in Calls : Writes(d)' <=> Writes(d)
    BY <2>1 DEF Writes, Applied
  <2>3. \A d \in Calls \ {c} : place'[d] = place[d]
    BY <2>1 DEF TypeOK
  <2>4. \A d \in Calls \ {c}, s \in Symbols : HoldsSymbol(d, s)' <=> HoldsSymbol(d, s)
    BY <2>1, <2>2, <2>3 DEF HoldsSymbol
  <2>5. \A s \in Symbols : HoldsSymbol(c, s)' =>
            \A d \in Calls : ~HoldsSymbol(d, s)
    BY <2>1, <2>2 DEF HoldsSymbol
  <2> QED
    BY <2>4, <2>5 DEF SymbolLocks
<1>2. ASSUME NEW c \in Calls,
             \/ Load(c) \/ ResolveTrainingConsent(c) \/ TransitionToUnderReview(c)
             \/ Commit(c) \/ GetPage(c) \/ Rollback(c)
      PROVE  SymbolLocks'
  <2>1. /\ place'[c] # "flushed"
        /\ \A x \in Calls \ {c} : place'[x] = place[x] /\ session'[x] = session[x]
    BY <1>2 DEF Load, ResolveTrainingConsent, TransitionToUnderReview, Commit, GetPage,
       CountSymbols, ReadPage, ReadCorrections, Rollback, Goto, TypeOK
  <2> QED
    BY <2>1, SymbolLocksStay
<1>3. ASSUME NEW p \in Patches, SelectForUpdate(p) \/ PatchConsent(p) \/ PatchFails(p)
      PROVE  SymbolLocks'
  <2>1. place' = place
    BY <1>3 DEF SelectForUpdate, PatchConsent, PatchFails, calls
  <2>2. \A x \in Calls : /\ session'[x].request = session[x].request
                        /\ session'[x].loaded = session[x].loaded
    <3>1. CASE PatchConsent(p) \/ PatchFails(p)
      BY <3>1 DEF PatchConsent, PatchFails, calls
    <3>2. CASE SelectForUpdate(p)
      <4>1. PICK b \in Consents :
              \/ session' = [x \in Calls |-> [session[x] EXCEPT !.out = (@ /\ owner # b.user)]]
              \/ session' = session
        BY <3>2 DEF SelectForUpdate
      <4> QED
        BY <4>1 DEF TypeOK, Session
    <3> QED
      BY <1>3, <3>1, <3>2
  <2> QED
    BY <2>1, <2>2, SymbolLocksStay
<1>4. CASE ProcessingCompletes \/ UNCHANGED vars
  BY <1>4, SymbolLocksStay DEF ProcessingCompletes, vars, calls
<1> QED
  BY <1>1, <1>2, <1>3, <1>4 DEF Next, Over, Correct

LEMMA SymbolLocksInvariant == Spec => []SymbolLocks
<1>1. Init => SymbolLocks
  BY DEF Init, SymbolLocks, HoldsSymbol
<1> QED
  BY <1>1, TypeCorrect, SymbolLocksStep, PTL DEF Spec

\* transition_to_under_review and the UPDATE of the symbol: however many corrections are
\* under way, one at most has an uncommitted write to the drawing, and one to each symbol.
THEOREM LocksExclude == Spec => []RowLocksExclude
<1>1. DrawingInv /\ SymbolLocks => RowLocksExclude
  BY DEF DrawingInv, SymbolLocks, RowLocksExclude
<1> QED
  BY <1>1, DrawingInvariant, SymbolLocksInvariant, PTL

\* Nobody else's COMMIT changes what a correction has written to and not committed: the
\* state of the drawing and the symbol stay as they are while it holds their rows.
LockedRowsStay ==
    [][\A c \in Calls :
          /\ HoldsDrawing(c) /\ HoldsDrawing(c)' => state' = state
          /\ \A s \in Symbols :
                HoldsSymbol(c, s) /\ HoldsSymbol(c, s)' => row'[s] = row[s]]_vars

\* A symbol that is held is in the table, so that it is none that is inserted.
LEMMA HeldIsStored ==
    ASSUME TypeOK, RowInv, NEW c \in Calls, NEW s \in Symbols, HoldsSymbol(c, s)
    PROVE  row[s].stored
<1>1. Loaded(c) /\ session[c].request.type # "manual_add"
  BY DEF RowInv, Pending, HoldsSymbol, Writes
<1>2. Applied(session[c].request, session[c].loaded) # session[c].loaded
  BY DEF HoldsSymbol, Writes
<1>3. session[c].request.type \in {"reclassify", "reject", "restore"}
  BY <1>2 DEF Applied
<1> QED
  BY <1>1, <1>3 DEF Loaded, HoldsSymbol

THEOREM LockedRows == Spec => LockedRowsStay
<1> DEFINE Stay(c) == /\ HoldsDrawing(c) /\ HoldsDrawing(c)' => state' = state
                      /\ \A s \in Symbols :
                            HoldsSymbol(c, s) /\ HoldsSymbol(c, s)' => row'[s] = row[s]
<1>1. ASSUME TypeOK, DrawingInv, DrawingInv', RowInv, SymbolLocks, [Next]_vars, NEW c \in Calls
      PROVE  Stay(c)
  <2>1. HoldsDrawing(c) /\ HoldsDrawing(c)' => state' = state
    BY <1>1 DEF DrawingInv, HoldsDrawing, Moves, Found
  <2>2. ASSUME NEW s \in Symbols, HoldsSymbol(c, s), HoldsSymbol(c, s)'
        PROVE  row'[s] = row[s]
    <3>1. ASSUME NEW d \in Calls, Commit(d) PROVE row'[s] = row[s]
      <4>1. d # c /\ place[d] = "flushed"
        BY <1>1, <2>2, <3>1 DEF Commit, Goto, TypeOK, HoldsSymbol
      <4>2. CASE session[d].request.type = "manual_add"
        <5>1. PICK t \in Symbols \ Stored(row) :
                row' = [row EXCEPT ![t] = [stored |-> TRUE, rejected |-> FALSE,
                                           class |-> session[d].request.class,
                                           source |-> "manual"]]
          BY <3>1, <4>2 DEF Commit
        <5>2. s \in Stored(row)
          BY <1>1, <2>2, HeldIsStored DEF Stored
        <5> QED
          BY <1>1, <5>1, <5>2 DEF TypeOK
      <4>3. CASE session[d].request.type # "manual_add" /\ Writes(d)
        <5>1. session[d].request.symbol # s
          BY <1>1, <2>2, <4>1, <4>3 DEF SymbolLocks, HoldsSymbol
        <5>2. row' = [row EXCEPT ![session[d].request.symbol] =
                                    Applied(session[d].request, @)]
          BY <3>1, <4>3 DEF Commit
        <5> QED
          BY <1>1, <5>1, <5>2 DEF TypeOK
      <4>4. CASE session[d].request.type # "manual_add" /\ ~Writes(d)
        BY <3>1, <4>4 DEF Commit
      <4> QED
        BY <4>2, <4>3, <4>4
    <3>2. ASSUME NEW d \in Calls,
                 \/ Load(d) \/ ResolveTrainingConsent(d) \/ TransitionToUnderReview(d)
                 \/ Flush(d) \/ GetPage(d) \/ Rollback(d)
          PROVE  row' = row
      BY <3>2 DEF Load, ResolveTrainingConsent, TransitionToUnderReview, Flush, GetPage,
         CountSymbols, ReadPage, ReadCorrections, Rollback, drawing
    <3>3. ASSUME NEW p \in Patches, SelectForUpdate(p) \/ PatchConsent(p) \/ PatchFails(p)
          PROVE  row' = row
      BY <3>3 DEF SelectForUpdate, PatchConsent, PatchFails, drawing
    <3>4. CASE ProcessingCompletes \/ UNCHANGED vars
      BY <3>4 DEF ProcessingCompletes, vars, drawing
    <3> QED
      BY <1>1, <3>1, <3>2, <3>3, <3>4 DEF Next, Over, Correct
  <2> QED
    BY <2>1, <2>2
<1>2. TypeOK /\ DrawingInv /\ DrawingInv' /\ RowInv /\ SymbolLocks /\ [Next]_vars
        => [\A c \in Calls : Stay(c)]_vars
  BY <1>1
<1> QED
  BY <1>2, TypeCorrect, DrawingInvariant, RowInvariant, SymbolLocksInvariant, PTL
     DEF Spec, LockedRowsStay

-----------------------------------------------------------------------------
(* The page.  What explains a symbol once explains it ever after, and no   *)
(* symbol goes away.                                                       *)

ExplainedNow(rows) == \A s \in Stored(rows) : Explained(rows[s], s, Len(history))

PageInv ==
    /\ ExplainedNow(row)
    /\ \A c \in Calls :
          /\ place[c] = "counted" => answer[c].total <= Cardinality(Stored(row))
          /\ place[c] = "paged" =>
                /\ answer[c].total <= Cardinality(Stored(answer[c].rows))
                /\ ExplainedNow(answer[c].rows)
    /\ PageIsExplained

LEMMA StaysExplained ==
    ASSUME TypeOK, NEW k \in Nat, DOMAIN history' = 1..(Len(history) + k),
           \A i \in DOMAIN history : history'[i] = history[i],
           NEW n \in Nat, n <= Len(history), NEW m \in Nat, n <= m, NEW r \in Row, NEW s,
           Explained(r, s, n)
    PROVE  Explained(r, s, m)'
<1>1. \A i \in 1..n : /\ i \in 1..m /\ history'[i] = history[i]
  BY DEF TypeOK
<1>2. \A i \in 1..n : Type(i)' = Type(i) /\ NewClass(i)' = NewClass(i)
                       /\ history'[i].symbol = history[i].symbol
  BY <1>1 DEF Type, NewClass
<1> QED
  BY <1>1, <1>2 DEF Explained

LEMMA StoredIsFinite ==
    ASSUME NEW rows
    PROVE  IsFiniteSet(Stored(rows)) /\ Cardinality(Stored(rows)) \in Nat
BY CorrectionsAssumption, FS_Subset, FS_CardinalityType DEF Stored

\* A step that makes no correction and answers to nobody.
LEMMA QuietKeepsPage ==
    ASSUME TypeOK, PageInv, UNCHANGED <<row, history, answer>>,
           \A c \in Calls : place'[c] \in {"counted", "paged", "answered"} => place'[c] = place[c]
    PROVE  PageInv'
<1>1. ExplainedNow(row)'
  BY DEF PageInv, ExplainedNow, Explained, Stored, Type, NewClass
<1>2. ASSUME NEW c \in Calls
      PROVE  /\ place'[c] = "counted" => answer'[c].total <= Cardinality(Stored(row)')
             /\ place'[c] = "paged" =>
                   /\ answer'[c].total <= Cardinality(Stored(answer[c].rows)')
                   /\ ExplainedNow(answer[c].rows)'
  <2>1. CASE place'[c] = "counted"
    <3>1. answer[c].total <= Cardinality(Stored(row))
      BY <2>1 DEF PageInv
    <3> QED
      BY <2>1, <3>1 DEF Stored
  <2>2. CASE place'[c] = "paged"
    <3>1. /\ answer[c].total <= Cardinality(Stored(answer[c].rows))
          /\ ExplainedNow(answer[c].rows)
      BY <2>2 DEF PageInv
    <3>2. ExplainedNow(answer[c].rows)'
      BY <3>1 DEF ExplainedNow, Explained, Stored, Type, NewClass
    <3> QED
      BY <2>2, <3>1, <3>2 DEF Stored
  <2> QED
    BY <2>1, <2>2
<1>3. PageIsExplained'
  <2> SUFFICES ASSUME NEW c \in Calls, place'[c] = "answered"
               PROVE  /\ answer[c].corrections <= Len(history)
                      /\ answer[c].total <= Cardinality(Stored(answer[c].rows))
                      /\ \A s \in Stored(answer[c].rows) :
                            Explained(answer[c].rows[s], s, answer[c].corrections)'
    BY DEF PageIsExplained, Stored
  <2>1. /\ answer[c].corrections <= Len(history)
        /\ answer[c].total <= Cardinality(Stored(answer[c].rows))
        /\ \A s \in Stored(answer[c].rows) :
              Explained(answer[c].rows[s], s, answer[c].corrections)
    BY DEF PageInv, PageIsExplained
  <2> QED
    BY <2>1 DEF Explained, Type, NewClass
<1> QED
  BY <1>1, <1>2, <1>3 DEF PageInv

LEMMA GetPageKeepsPage ==
    ASSUME TypeOK, PageInv, NEW c \in Calls, GetPage(c)
    PROVE  PageInv'
<1>1. /\ UNCHANGED <<row, history>>
      /\ \A x \in Calls \ {c} : place'[x] = place[x] /\ answer'[x] = answer[x]
      /\ answer[c] \in Answer
  BY DEF GetPage, CountSymbols, ReadPage, ReadCorrections, Goto, TypeOK, drawing
<1>2. Len(history) \in Nat
  BY DEF TypeOK
<1>3. ExplainedNow(row)'
  BY <1>1 DEF PageInv, ExplainedNow, Explained, Stored, Type, NewClass
\* What the step leaves for c to show.
<1>4. /\ place'[c] = "counted" => answer'[c].total <= Cardinality(Stored(row))
      /\ place'[c] = "paged" =>
            /\ answer'[c].total <= Cardinality(Stored(answer'[c].rows))
            /\ ExplainedNow(answer'[c].rows)
      /\ place'[c] = "answered" =>
            /\ answer'[c].corrections = Len(history)
            /\ answer'[c].total <= Cardinality(Stored(answer'[c].rows))
            /\ ExplainedNow(answer'[c].rows)
  <2>1. CASE CountSymbols(c)
    <3>1. place'[c] = "counted" /\ answer'[c].total = Cardinality(Stored(row))
      BY <1>1, <2>1 DEF CountSymbols, Goto, TypeOK, Answer
    <3> QED
      BY <3>1, StoredIsFinite
  <2>2. CASE ReadPage(c)
    <3>1. /\ place[c] = "counted" /\ place'[c] = "paged"
          /\ answer'[c].rows = row /\ answer'[c].total = answer[c].total
      BY <1>1, <2>2 DEF ReadPage, Goto, TypeOK, Answer
    <3> QED
      BY <3>1 DEF PageInv
  <2>3. CASE ReadCorrections(c)
    <3>1. /\ place[c] = "paged" /\ place'[c] = "answered"
          /\ answer'[c].corrections = Len(history)
          /\ answer'[c].rows = answer[c].rows /\ answer'[c].total = answer[c].total
      BY <1>1, <2>3 DEF ReadCorrections, Goto, TypeOK, Answer
    <3> QED
      BY <3>1 DEF PageInv
  <2> QED
    BY <2>1, <2>2, <2>3 DEF GetPage
<1>5. ASSUME NEW x \in Calls
      PROVE  /\ place'[x] = "counted" => answer'[x].total <= Cardinality(Stored(row)')
             /\ place'[x] = "paged" =>
                   /\ answer'[x].total <= Cardinality(Stored(answer[x].rows)')
                   /\ ExplainedNow(answer[x].rows)'
  <2>1. CASE x = c
    BY <1>1, <1>4, <2>1 DEF ExplainedNow, Explained, Stored, Type, NewClass
  <2>2. CASE x # c
    <3>1. place'[x] = place[x] /\ answer'[x] = answer[x] /\ UNCHANGED <<row, history>>
      BY <1>1, <2>2
    <3>2. CASE place'[x] = "counted"
      <4>1. answer[x].total <= Cardinality(Stored(row))
        BY <3>1, <3>2 DEF PageInv
      <4> QED
        BY <3>1, <3>2, <4>1 DEF Stored
    <3>3. CASE place'[x] = "paged"
      <4>1. /\ answer[x].total <= Cardinality(Stored(answer[x].rows))
            /\ ExplainedNow(answer[x].rows)
        BY <3>1, <3>3 DEF PageInv
      <4>2. ExplainedNow(answer[x].rows)'
        BY <3>1, <4>1 DEF ExplainedNow, Explained, Stored, Type, NewClass
      <4> QED
        BY <3>1, <3>3, <4>1, <4>2 DEF Stored
    <3> QED
      BY <3>2, <3>3
  <2> QED
    BY <2>1, <2>2
<1>6. PageIsExplained'
  <2> SUFFICES ASSUME NEW x \in Calls, place'[x] = "answered"
               PROVE  /\ answer'[x].corrections <= Len(history')
                      /\ answer'[x].total <= Cardinality(Stored(answer[x].rows)')
                      /\ \A s \in Stored(answer[x].rows)' :
                            Explained(answer[x].rows[s], s, answer[x].corrections)'
    BY DEF PageIsExplained
  <2>1. CASE x = c
    BY <1>1, <1>2, <1>4, <2>1 DEF ExplainedNow, Explained, Stored, Type, NewClass
  <2>2. CASE x # c
    <3>1. place'[x] = place[x] /\ answer'[x] = answer[x] /\ UNCHANGED <<row, history>>
      BY <1>1, <2>2
    <3>2. /\ answer[x].corrections <= Len(history)
          /\ answer[x].total <= Cardinality(Stored(answer[x].rows))
          /\ \A s \in Stored(answer[x].rows) :
                Explained(answer[x].rows[s], s, answer[x].corrections)
      BY <3>1 DEF PageInv, PageIsExplained
    <3>3. \A s \in Stored(answer[x].rows)' :
            Explained(answer[x].rows[s], s, answer[x].corrections)'
      BY <3>1, <3>2 DEF Explained, Stored, Type, NewClass
    <3> QED
      BY <3>1, <3>2, <3>3 DEF Stored
  <2> QED
    BY <2>1, <2>2
<1> QED
  BY <1>3, <1>5, <1>6 DEF PageInv

\* The COMMIT of a correction explains what it does to its symbol.
LEMMA CommitKeepsPage ==
    ASSUME TypeOK, RowInv, PageInv, NEW c \in Calls, Commit(c)
    PROVE  PageInv'
<1> DEFINE r == session[c].request
<1>1. PICK n \in Nat : n = Len(history)
  BY DEF TypeOK
<1>2. PICK s \in Symbols :
        /\ history' = Append(history, [by |-> c, symbol |-> s, session |-> session[c]])
        /\ \/ /\ r.type = "manual_add" /\ s \notin Stored(row)
              /\ row' = [row EXCEPT ![s] = [stored |-> TRUE, rejected |-> FALSE,
                                            class |-> r.class, source |-> "manual"]]
           \/ /\ r.type # "manual_add" /\ s = r.symbol
              /\ row' = IF Writes(c) THEN [row EXCEPT ![r.symbol] = Applied(r, @)] ELSE row
  <2>1. r.symbol \in Symbols
    BY CorrectionsAssumption DEF TypeOK, Session, Request
  <2>2. CASE r.type = "manual_add"
    BY <2>2 DEF Commit
  <2>3. CASE r.type # "manual_add"
    BY <2>1, <2>3 DEF Commit
  <2> QED
    BY <2>2, <2>3
<1>3. /\ DOMAIN history = 1..n /\ DOMAIN history' = 1..(n + 1) /\ Len(history') = n + 1
      /\ \A i \in 1..n : history'[i] = history[i]
      /\ history'[n + 1].symbol = s /\ history'[n + 1].session = session[c]
  BY <1>1, <1>2, CommitAppends
<1>4. /\ r \in Requests /\ \A x \in Symbols : row[x] \in Row
      /\ \A x \in Symbols \ {s} : row'[x] = row[x]
  BY <1>2 DEF TypeOK, Session
<1> HIDE DEF r
<1>5. ASSUME NEW x \in Row, NEW y, NEW a \in Nat, NEW b \in Nat, a <= n, a <= b, Explained(x, y, a)
      PROVE  Explained(x, y, b)'
  <2>1. 1 \in Nat /\ DOMAIN history' = 1..(Len(history) + 1)
    BY <1>1, <1>3
  <2>2. \A i \in DOMAIN history : history'[i] = history[i]
    BY <1>3
  <2> QED
    BY <1>1, <1>5, <2>1, <2>2, StaysExplained
<1>6. /\ s \in Stored(row)' /\ (s \notin Stored(row) => r.type = "manual_add")
      /\ Explained(row[s], s, n + 1)'
  <2> DEFINE By(i, types) ==
        history'[i].symbol = s /\ history'[i].session.request.type \in types
  <2>1. PICK last \in 1..(n + 1) :
          /\ history'[last].symbol = s /\ history'[last].session.request.type = r.type
          /\ history'[last].session.request.class = r.class
    BY <1>3 DEF r
  <2>2. CASE r.type = "manual_add"
    <3>1. /\ row'[s].stored /\ row'[s].rejected = FALSE /\ row'[s].class = r.class
          /\ row'[s].source = "manual"
      BY <1>2, <2>2 DEF TypeOK
    <3> QED
      BY <2>1, <2>2, <3>1 DEF Explained, Stored, Type, NewClass
  <2>3. CASE r.type # "manual_add"
    <3>1. place[c] = "flushed" /\ Loaded(c)
      BY CommitLeavesOthers DEF RowInv, Pending
    <3>2. r.type \notin {"page", "manual_add"} /\ s = r.symbol
      BY <1>2, <2>3, <3>1 DEF Loaded, r
    <3>3. r.type \in {"reclassify", "reject", "restore"}
      BY <1>4, <3>2, Applies
    <3>4. row[s].stored
      BY <3>1, <3>2, <3>3 DEF Loaded, r
    <3>5. Explained(row[s], s, n)
      BY <1>1, <3>4 DEF PageInv, ExplainedNow, Stored
    <3>6. PICK old \in Row : old = row[s]
      BY <1>4
    <3>7. Explained(old, s, n + 1)'
      BY <1>5, <3>5, <3>6
    <3>8. CASE row'[s] = row[s]
      BY <1>2, <3>4, <3>6, <3>7, <3>8 DEF Stored, Explained
    <3>9. CASE row'[s] # row[s]
      <4>1. row'[s] = Applied(r, old)
        BY <1>2, <1>4, <2>3, <3>2, <3>6, <3>9 DEF TypeOK
      <4>2. /\ Applied(r, old).stored = old.stored /\ Applied(r, old).source = old.source
            /\ r.type = "reject" => Applied(r, old).rejected = TRUE
            /\ r.type = "restore" => Applied(r, old).rejected = FALSE
            /\ r.type = "reclassify" => /\ Applied(r, old).class = r.class
                                        /\ Applied(r, old).rejected = old.rejected
            /\ r.type \in Rejecting => Applied(r, old).class = old.class
        BY <1>4, <3>2, Applies
      <4>3. /\ old.rejected => \E i \in 1..(n + 1) : By(i, {"reject"})
            /\ old.source = "manual" => \E i \in 1..(n + 1) : By(i, {"manual_add"})
            /\ old.class # NewRow.class =>
                  \E i \in 1..(n + 1) : /\ By(i, {"reclassify", "manual_add"})
                                        /\ history'[i].session.request.class = old.class
        BY <3>7 DEF Explained, Type, NewClass
      <4>4. row'[s].rejected => \E i \in 1..(n + 1) : By(i, {"reject"})
        BY <2>1, <3>3, <4>1, <4>2, <4>3 DEF Rejecting
      <4>5. row'[s].source = "manual" => \E i \in 1..(n + 1) : By(i, {"manual_add"})
        BY <4>1, <4>2, <4>3
      <4>6. row'[s].class # NewRow.class =>
              \E i \in 1..(n + 1) : /\ By(i, {"reclassify", "manual_add"})
                                    /\ history'[i].session.request.class = row'[s].class
        BY <2>1, <3>3, <4>1, <4>2, <4>3 DEF Rejecting
      <4>7. row'[s].stored
        BY <3>4, <3>6, <4>1, <4>2
      <4> QED
        BY <2>3, <3>4, <4>4, <4>5, <4>6, <4>7 DEF Explained, Stored, Type, NewClass
    <3> QED
      BY <3>8, <3>9
  <2> QED
    BY <2>2, <2>3
<1>7. Stored(row) \subseteq Stored(row)'
  BY <1>4, <1>6 DEF Stored
<1>8. ExplainedNow(row)'
  <2> SUFFICES ASSUME NEW x \in Stored(row)' PROVE Explained(row[x], x, n + 1)'
    BY <1>3 DEF ExplainedNow
  <2>1. CASE x = s
    BY <1>6, <2>1
  <2>2. CASE x # s
    <3>1. x \in Stored(row) /\ x \in Symbols /\ row'[x] = row[x]
      BY <1>4, <2>2 DEF Stored
    <3>2. Explained(row[x], x, n)
      BY <1>1, <3>1 DEF PageInv, ExplainedNow
    <3>3. PICK old \in Row : old = row[x]
      BY <1>4, <3>1
    <3>4. Explained(old, x, n + 1)'
      BY <1>5, <3>2, <3>3
    <3> QED
      BY <3>1, <3>3, <3>4 DEF Explained
  <2> QED
    BY <2>1, <2>2
<1>9. UNCHANGED answer /\ \A d \in Calls : answer[d] \in Answer
  BY DEF Commit, TypeOK
<1>10. \A d \in Calls : place'[d] \in {"counted", "paged", "answered"} => place'[d] = place[d]
  BY CommitLeavesOthers
<1>11. ASSUME NEW d \in Calls
       PROVE  /\ place'[d] = "counted" => answer'[d].total <= Cardinality(Stored(row)')
              /\ place'[d] = "paged" =>
                    /\ answer'[d].total <= Cardinality(Stored(answer[d].rows)')
                    /\ ExplainedNow(answer[d].rows)'
  <2>1. CASE place'[d] = "counted"
    <3>1. answer[d].total <= Cardinality(Stored(row)) /\ answer[d].total \in Nat
      BY <1>9, <1>10, <2>1 DEF PageInv, Answer
    <3>2. IsFiniteSet(Stored(row)') /\ Cardinality(Stored(row)') \in Nat
      BY CorrectionsAssumption, FS_Subset, FS_CardinalityType DEF Stored
    <3>3. Cardinality(Stored(row)) <= Cardinality(Stored(row)') /\ Cardinality(Stored(row)) \in Nat
      BY <1>7, <3>2, FS_Subset, StoredIsFinite
    <3> QED
      BY <1>9, <2>1, <3>1, <3>2, <3>3
  <2>2. CASE place'[d] = "paged"
    <3>1. /\ answer[d].total <= Cardinality(Stored(answer[d].rows))
          /\ ExplainedNow(answer[d].rows)
      BY <1>10, <2>2 DEF PageInv
    <3>2. ExplainedNow(answer[d].rows)'
      <4> SUFFICES ASSUME NEW x \in Stored(answer[d].rows)
                   PROVE  Explained(answer[d].rows[x], x, n + 1)'
        BY <1>3, <1>9 DEF ExplainedNow, Stored
      <4>1. Explained(answer[d].rows[x], x, n)
        BY <1>1, <3>1 DEF ExplainedNow
      <4>2. PICK old \in Row : old = answer[d].rows[x]
        BY <1>9 DEF Answer, Stored
      <4>3. Explained(old, x, n + 1)'
        BY <1>5, <4>1, <4>2
      <4> QED
        BY <1>9, <4>2, <4>3 DEF Explained
    <3> QED
      BY <1>9, <2>2, <3>1, <3>2 DEF Stored
  <2> QED
    BY <2>1, <2>2
<1>12. PageIsExplained'
  <2> SUFFICES ASSUME NEW d \in Calls, place'[d] = "answered"
               PROVE  /\ answer'[d].corrections <= Len(history')
                      /\ answer'[d].total <= Cardinality(Stored(answer[d].rows)')
                      /\ \A x \in Stored(answer[d].rows)' :
                            Explained(answer[d].rows[x], x, answer[d].corrections)'
    BY DEF PageIsExplained
  <2>1. /\ answer[d].corrections <= n /\ answer[d].corrections \in Nat
        /\ answer[d].total <= Cardinality(Stored(answer[d].rows))
        /\ \A x \in Stored(answer[d].rows) :
              Explained(answer[d].rows[x], x, answer[d].corrections)
    BY <1>1, <1>9, <1>10 DEF PageInv, PageIsExplained, Answer
  <2>2. ASSUME NEW x \in Stored(answer[d].rows)
        PROVE  Explained(answer[d].rows[x], x, answer[d].corrections)'
    <3>1. PICK old \in Row : old = answer[d].rows[x]
      BY <1>9 DEF Answer, Stored
    <3>2. PICK m \in Nat : m = answer[d].corrections
      BY <2>1
    <3>3. Explained(old, x, m)'
      BY <1>5, <2>1, <3>1, <3>2
    <3> QED
      BY <1>9, <3>1, <3>2, <3>3 DEF Explained
  <2> QED
    BY <1>3, <1>9, <2>1, <2>2 DEF Stored
<1> QED
  BY <1>8, <1>11, <1>12 DEF PageInv

LEMMA PageStep == TypeOK /\ RowInv /\ PageInv /\ [Next]_vars => PageInv'
<1> SUFFICES ASSUME TypeOK, RowInv, PageInv, [Next]_vars PROVE PageInv'
  OBVIOUS
<1>1. ASSUME NEW c \in Calls, \/ Load(c) \/ ResolveTrainingConsent(c)
                              \/ TransitionToUnderReview(c) \/ Flush(c) \/ Rollback(c)
      PROVE  PageInv'
  <2>1. UNCHANGED <<row, history, answer>>
    BY <1>1 DEF Load, ResolveTrainingConsent, TransitionToUnderReview, Flush, Rollback, drawing
  <2>2. \A x \in Calls : place'[x] \in {"counted", "paged", "answered"} => place'[x] = place[x]
    BY <1>1 DEF Load, ResolveTrainingConsent, TransitionToUnderReview, Flush, Rollback, Goto,
       TypeOK
  <2> QED
    BY <2>1, <2>2, QuietKeepsPage
<1>2. ASSUME NEW p \in Patches, SelectForUpdate(p) \/ PatchConsent(p) \/ PatchFails(p)
      PROVE  PageInv'
  <2>1. UNCHANGED <<row, history, answer, place>>
    BY <1>2 DEF SelectForUpdate, PatchConsent, PatchFails, drawing, calls
  <2> QED
    BY <2>1, QuietKeepsPage
<1>3. CASE ProcessingCompletes \/ UNCHANGED vars
  <2>1. UNCHANGED <<row, history, answer, place>>
    BY <1>3 DEF ProcessingCompletes, vars, drawing, calls
  <2> QED
    BY <2>1, QuietKeepsPage
<1> QED
  BY <1>1, <1>2, <1>3, GetPageKeepsPage, CommitKeepsPage DEF Next, Over, Correct

\* The corrections that come with a page explain every symbol on it, although the count,
\* the page and the corrections are read one after another.
THEOREM PagesAreExplained == Spec => []PageIsExplained
<1>1. Init => RowInv /\ PageInv
  <2> SUFFICES ASSUME Init PROVE RowInv /\ PageInv
    OBVIOUS
  <2>1. RowInv
    BY DEF Init, RowInv, Pending, LastCorrectionStands
  <2>2. ASSUME NEW s \in Symbols
        PROVE  ~row[s].rejected /\ row[s].source = "ml" /\ row[s].class = NewRow.class
    BY DEF Init, NewRow
  <2>3. ExplainedNow(row)
    BY <2>2 DEF ExplainedNow, Explained, Stored
  <2>4. \A c \in Calls : place[c] = "idle"
    BY DEF Init
  <2> QED
    BY <2>1, <2>3, <2>4 DEF PageInv, PageIsExplained
<1>2. PageInv => PageIsExplained
  BY DEF PageInv
<1> QED
  BY <1>1, <1>2, TypeCorrect, RowStep, PageStep, PTL DEF Spec

-----------------------------------------------------------------------------
(* The corrections with their events.                                      *)

\* Whatever the events do, the corrections behave as if they were alone.
THEOREM CorrectionsAlone == AllSpec => Spec
<1>1. AllInit => Init
  BY DEF AllInit
<1>2. [AllNext]_<<vars, events, drained>> => [Next]_vars
  BY DEF AllNext
<1> QED
  BY <1>1, <1>2, PTL DEF AllSpec, Spec

\* The events of corrections go the way of all events.
THEOREM EventsAlone == AllSpec => EventsSpec
<1>1. AllInit => EventsInit
  BY DEF AllInit
<1>2. [AllNext]_<<vars, events, drained>> => [EventsNext]_events
  <2> SUFFICES ASSUME [AllNext]_<<vars, events, drained>>
               PROVE  EventsNext \/ UNCHANGED events
    OBVIOUS
  <2>1. CASE UNCHANGED events
    BY <2>1
  <2>2. ASSUME NEW c \in Calls, EmitCorrectionAction(c) \/ Push(c)
        PROVE  EventsNext
    BY <2>2, CorrectionEventsAssumption DEF EmitCorrectionAction, EventsNext
  <2>3. ASSUME NEW d \in Drains, RetryDeadLetter(d)
        PROVE  EventsNext
    BY <2>3 DEF EventsNext
  <2> QED
    BY <2>1, <2>2, <2>3 DEF AllNext
<1> QED
  BY <1>1, <1>2, PTL DEF AllSpec, EventsSpec

EventInv ==
    /\ stage \in [Events -> {"new", "failed", "pushed", "over"}]
    /\ \A c \in Calls : stage[c] # "new" => place[c] = "committed"
    /\ \A c \in Calls, i \in DOMAIN history : history[i].by = c => place[c] = "committed"
    /\ \A c \in Calls : place[c] = "committed" => \E i \in DOMAIN history : history[i].by = c
    /\ \A i, j \in DOMAIN history : history[i].by = history[j].by => i = j

\* A call commits once, and stays committed.
LEMMA CommitsOnce ==
    ASSUME TypeOK, EventInv, Next, UNCHANGED events
    PROVE  EventInv'
<1>1. stage' = stage
  BY DEF events
<1>2. ASSUME UNCHANGED history,
             \A c \in Calls : place'[c] = "committed" <=> place[c] = "committed"
      PROVE  EventInv'
  BY <1>1, <1>2 DEF EventInv
<1>3. ASSUME NEW c \in Calls, Load(c) \/ GetPage(c) \/ Rollback(c) PROVE EventInv'
  BY <1>2, <1>3 DEF Load, GetPage, CountSymbols, ReadPage, ReadCorrections, Rollback, Goto,
     TypeOK, drawing
<1>4. ASSUME NEW c \in Calls, ResolveTrainingConsent(c) \/ TransitionToUnderReview(c) \/ Flush(c)
      PROVE  EventInv'
  BY <1>2, <1>4 DEF ResolveTrainingConsent, TransitionToUnderReview, Flush, Goto, TypeOK,
     drawing
<1>5. ASSUME NEW c \in Calls, Commit(c) PROVE EventInv'
  <2>1. PICK s : history' = Append(history, [by |-> c, symbol |-> s, session |-> session[c]])
    BY <1>5 DEF Commit
  <2>2. PICK n \in Nat : n = Len(history)
    BY DEF TypeOK
  <2>3. /\ DOMAIN history = 1..n /\ DOMAIN history' = 1..(n + 1)
        /\ \A i \in 1..n : history'[i] = history[i]
        /\ history'[n + 1].by = c
    BY <2>1, <2>2 DEF TypeOK
  <2>4. /\ place[c] = "flushed" /\ place'[c] = "committed"
        /\ \A d \in Calls \ {c} : place'[d] = place[d]
    BY <1>5, CommitLeavesOthers
  <2>5. \A i \in 1..n : history[i].by # c
    BY <2>3, <2>4 DEF EventInv
  <2>6. \A i, j \in DOMAIN history' : history'[i].by = history'[j].by => i = j
    <3> SUFFICES ASSUME NEW i \in 1..(n + 1), NEW j \in 1..(n + 1),
                        history'[i].by = history'[j].by
                 PROVE  i = j
      BY <2>3
    <3>1. CASE i \in 1..n /\ j \in 1..n
      BY <2>3, <3>1 DEF EventInv
    <3>2. CASE i = n + 1 \/ j = n + 1
      <4>1. \A k \in 1..(n + 1) : history'[k].by = c => k = n + 1
        BY <2>3, <2>5
      <4> QED
        BY <2>3, <3>2, <4>1
    <3> QED
      BY <3>1, <3>2
  <2>7. \A d \in Calls, i \in DOMAIN history' : history'[i].by = d => place'[d] = "committed"
    <3> SUFFICES ASSUME NEW i \in 1..(n + 1), history'[i].by \in Calls \ {c}
                 PROVE  place'[history'[i].by] = "committed"
      BY <2>3, <2>4
    <3>1. i \in 1..n /\ history'[i] = history[i]
      BY <2>3
    <3> QED
      BY <2>3, <2>4, <3>1 DEF EventInv
  <2>8. \A d \in Calls : place'[d] = "committed" => \E i \in DOMAIN history' : history'[i].by = d
    BY <2>3, <2>4 DEF EventInv
  <2>9. \A d \in Calls : stage'[d] # "new" => place'[d] = "committed"
    BY <1>1, <2>4 DEF EventInv
  <2> QED
    BY <1>1, <2>6, <2>7, <2>8, <2>9 DEF EventInv
<1>6. ASSUME NEW p \in Patches, SelectForUpdate(p) \/ PatchConsent(p) \/ PatchFails(p)
      PROVE  EventInv'
  BY <1>2, <1>6 DEF SelectForUpdate, PatchConsent, PatchFails, drawing, calls
<1>7. CASE ProcessingCompletes \/ Over
  BY <1>2, <1>7 DEF ProcessingCompletes, Over, vars, drawing, calls
<1> QED
  BY <1>3, <1>4, <1>5, <1>6, <1>7 DEF Next, Correct

LEMMA EventStep ==
    TypeOK /\ EventInv /\ [AllNext]_<<vars, events, drained>> => EventInv'
<1> SUFFICES ASSUME TypeOK, EventInv, [AllNext]_<<vars, events, drained>> PROVE EventInv'
  OBVIOUS
<1>1. ASSUME UNCHANGED <<history, place>>, stage' = stage PROVE EventInv'
  BY <1>1 DEF EventInv
<1>2. ASSUME NEW c \in Calls, EmitCorrectionAction(c) \/ Push(c), UNCHANGED vars
      PROVE  EventInv'
  <2>1. PICK s \in {"failed", "pushed", "over"} : stage' = [stage EXCEPT ![c] = s]
    BY <1>2 DEF EmitCorrectionAction, Emit, Capture, CaptureFails,
       Push, RPush, LTrim, PushFails,
       PushReplyLost, TrimFails, Advance
  <2>2. place[c] = "committed"
    <3>1. CASE EmitCorrectionAction(c)
      BY <3>1 DEF EmitCorrectionAction, MayEmit
    <3>2. CASE Push(c)
      <4>1. stage[c] # "new"
        BY <3>2 DEF Push, RPush, LTrim, PushFails,
           PushReplyLost, TrimFails, Advance
      <4> QED
        BY <4>1 DEF EventInv
    <3> QED
      BY <1>2, <3>1, <3>2
  <2>3. UNCHANGED <<history, place>>
    BY <1>2 DEF vars, drawing, calls
  <2> QED
    BY CorrectionEventsAssumption, <2>1, <2>2, <2>3 DEF EventInv
<1>3. ASSUME NEW d \in Drains, RetryDeadLetter(d), UNCHANGED vars PROVE EventInv'
  <2>1. stage' = stage
    BY <1>3 DEF RetryDeadLetter, AskLength, Pop,
       DrainEnds, Resend, ResendFails, Requeue,
       RequeueFails, PopReplyLost, DrainCrashes
  <2> QED
    BY <1>1, <1>3, <2>1 DEF vars, drawing, calls
<1>4. CASE UNCHANGED <<vars, events, drained>>
  BY <1>1, <1>4 DEF vars, drawing, calls, events
<1> QED
  BY <1>2, <1>3, <1>4, CommitsOnce DEF AllNext

\* An event is of one correction that was committed: none of one that was rolled back,
\* and none of a call that corrected twice.
THEOREM EventsFollow == AllSpec => []EventsFollowCommits
<1>1. AllInit => EventInv
  <2> SUFFICES ASSUME AllInit PROVE EventInv
    OBVIOUS
  <2>1. Queued \subseteq Events \ Calls
    BY CorrectionEventsAssumption DEF AllInit, EventsInit, Queued
  <2>2. \A c \in Calls : c \notin Queued
    BY <2>1, CorrectionEventsAssumption
  <2>3. stage = [e \in Events |-> IF e \in Queued THEN "over" ELSE "new"]
    BY DEF AllInit, EventsInit
  <2>4. history = <<>> /\ \A c \in Calls : place[c] = "idle"
    BY DEF AllInit, Init
  <2> QED
    BY CorrectionEventsAssumption, <2>2, <2>3, <2>4 DEF EventInv
<1>2. EventInv => EventsFollowCommits
  <2> SUFFICES ASSUME EventInv, NEW c \in Calls, stage[c] # "new"
               PROVE  Cardinality({i \in DOMAIN history : history[i].by = c}) = 1
    BY DEF EventsFollowCommits
  <2>1. PICK i \in DOMAIN history : history[i].by = c
    BY DEF EventInv
  <2>2. {j \in DOMAIN history : history[j].by = c} = {i}
    BY <2>1 DEF EventInv
  <2> QED
    BY <2>2, FS_Singleton
<1> QED
  BY <1>1, <1>2, CorrectionsAlone, TypeCorrect, EventStep, PTL DEF AllSpec
=============================================================================
