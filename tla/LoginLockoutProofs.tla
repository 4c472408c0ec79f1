------------------------- MODULE LoginLockoutProofs -------------------------
(***************************************************************************)
(* The safety properties of LoginLockout, for any number of concurrent     *)
(* requests, any threshold and any number of failed requests.              *)
(***************************************************************************)
EXTENDS LoginLockout, FiniteSetTheorems, TLAPS

-----------------------------------------------------------------------------
(* Counting the handlers that are at one place.                            *)

At(f, p) == {h \in Handlers : f[h] = p}
Number(f, p) == Cardinality(At(f, p))

\* The handlers at a place are finitely many.
LEMMA NumberType ==
    \A f, p : IsFiniteSet(At(f, p)) /\ Number(f, p) \in Nat
<1>1. TAKE f, p
<1>2. At(f, p) \in SUBSET Handlers
  BY DEF At
<1> QED
  BY <1>2, FS_Subset, FS_CardinalityType, LockoutAssumption DEF Number

\* At two places there are no more handlers than there are.
LEMMA NumbersFit ==
    \A f, p, q : p # q => Number(f, p) + Number(f, q) <= Cardinality(Handlers)
<1> SUFFICES ASSUME NEW f, NEW p, NEW q, p # q
             PROVE  Number(f, p) + Number(f, q) <= Cardinality(Handlers)
  OBVIOUS
<1>1. At(f, p) \cap At(f, q) = {}
  BY DEF At
<1>2. Cardinality(At(f, p) \cap At(f, q)) = 0
  BY <1>1, FS_EmptySet
<1>3. IsFiniteSet(At(f, p)) /\ IsFiniteSet(At(f, q))
  BY NumberType
<1>4. At(f, p) \cup At(f, q) \in SUBSET Handlers
  BY DEF At
<1>5. Cardinality(At(f, p) \cup At(f, q)) <= Cardinality(Handlers)
  BY <1>4, FS_Subset, LockoutAssumption
<1>6. Cardinality(At(f, p) \cup At(f, q)) = Number(f, p) + Number(f, q) - 0
  BY <1>2, <1>3, FS_Union DEF Number
<1> QED
  BY <1>5, <1>6, NumberType

\* g is f after handler h has gone from one place to another.
Moved(f, g, h, from, to) ==
    /\ f \in [Handlers -> Place]
    /\ h \in Handlers
    /\ f[h] = from
    /\ from # to
    /\ to \in Place
    /\ g = [f EXCEPT ![h] = to]

\* The place it leaves has one handler less,
LEMMA NumberLeaves ==
    ASSUME NEW f, NEW g, NEW h, NEW from, NEW to, Moved(f, g, h, from, to)
    PROVE  Number(g, from) = Number(f, from) - 1
<1>1. At(g, from) = At(f, from) \ {h} /\ h \in At(f, from)
  BY DEF At, Moved
<1>2. IsFiniteSet(At(f, from))
  BY NumberType
<1> QED
  BY <1>1, <1>2, FS_RemoveElement DEF Number

\* the place it comes to one more,
LEMMA NumberArrives ==
    ASSUME NEW f, NEW g, NEW h, NEW from, NEW to, Moved(f, g, h, from, to)
    PROVE  Number(g, to) = Number(f, to) + 1
<1>1. At(g, to) = At(f, to) \cup {h} /\ h \notin At(f, to)
  BY DEF At, Moved
<1>2. IsFiniteSet(At(f, to))
  BY NumberType
<1> QED
  BY <1>1, <1>2, FS_AddElement DEF Number

\* and any other place as many as before.
LEMMA NumberStays ==
    ASSUME NEW f, NEW g, NEW h, NEW from, NEW to, Moved(f, g, h, from, to),
           NEW p, p # from, p # to
    PROVE  Number(g, p) = Number(f, p)
<1>1. At(g, p) = At(f, p)
  BY DEF At, Moved
<1> QED
  BY <1>1 DEF Number

\* Wherever it goes, the result is a function of the same type.
LEMMA MovedType ==
    ASSUME NEW f, NEW g, NEW h, NEW from, NEW to, Moved(f, g, h, from, to)
    PROVE  g \in [Handlers -> Place]
  BY DEF Moved

-----------------------------------------------------------------------------
(* The inductive invariant.  A wrong password is on its way to the counter,*)
(* has been counted, or is lost; and the requests that are admitted may    *)
(* still add one guess each.                                               *)

GuessesAreCounted == guesses <= count + Number(place, "wrong") + lost

AdmittedAreBounded ==
    guesses + Number(place, "admitted")
        <= (Threshold - 1) + Cardinality(Handlers) + lost

IInv ==
    /\ TypeOK
    /\ CounterWillExpire
    /\ GuessesAreCounted
    /\ AdmittedAreBounded

\* Cardinality(Handlers) is a number.
LEMMA HandlersNat == Cardinality(Handlers) \in Nat
  BY FS_CardinalityType, LockoutAssumption

-----------------------------------------------------------------------------
\* IInv holds at first and is kept by every step: each step of login and of the
\* brute-force primitives, the expiry of the key and a request that fails.
THEOREM Inductive == Spec => []IInv
<1>1. Init => IInv
  <2> SUFFICES ASSUME Init PROVE IInv
    OBVIOUS
  <2>1. place \in [Handlers -> Place]
    BY DEF Init, Place
  <2>9. hasTtl \in BOOLEAN /\ active \in BOOLEAN /\ orphaned \in BOOLEAN
    BY DEF Init
  <2>8. TypeOK
    BY <2>1, <2>9, LockoutAssumption DEF Init, TypeOK
  <2>2. CounterWillExpire
    BY DEF Init, CounterWillExpire
  <2>3. At(place, "admitted") = {}
    BY DEF Init, At
  <2>4. Number(place, "admitted") = 0
    BY <2>3, FS_EmptySet DEF Number
  <2>5. Number(place, "wrong") \in Nat
    BY NumberType
  <2>6. GuessesAreCounted
    BY <2>5 DEF Init, GuessesAreCounted
  <2>7. AdmittedAreBounded
    BY <2>4, HandlersNat, LockoutAssumption DEF Init, AdmittedAreBounded
  <2> QED
    BY <2>8, <2>2, <2>6, <2>7 DEF IInv
<1>2. IInv /\ [Next]_vars => IInv'
  <2> SUFFICES ASSUME TypeOK, CounterWillExpire, GuessesAreCounted,
                      AdmittedAreBounded, [Next]_vars
               PROVE  IInv'
    BY DEF IInv
  <2>n. /\ Number(place, "wrong") \in Nat
        /\ Number(place, "admitted") \in Nat
        /\ Number(place', "wrong") \in Nat
        /\ Number(place', "admitted") \in Nat
        /\ Cardinality(Handlers) \in Nat
        /\ Threshold \in Nat \ {0}
    BY NumberType, HandlersNat, LockoutAssumption
  <2>f. Number(place', "wrong") + Number(place', "admitted") <= Cardinality(Handlers)
    BY NumbersFit
  <2>t. /\ count \in Nat /\ guesses \in Nat /\ lost \in Nat
        /\ place \in [Handlers -> Place]
        /\ TypeOK
    BY DEF TypeOK
  <2>p. Place = {"idle", "checking", "admitted", "wrong", "first", "right"}
    BY DEF Place
  <2>1. ASSUME NEW h \in Handlers, Submit(h) PROVE IInv'
    <3>1. place[h] = "idle" /\ place' = [place EXCEPT ![h] = "checking"]
      BY <2>1 DEF Submit, Goto
    <3>m. Moved(place, place', h, "idle", "checking")
      BY <3>1, <2>t, <2>p DEF Moved
    <3>2. /\ place' \in [Handlers -> Place]
          /\ Number(place', "wrong") = Number(place, "wrong")
          /\ Number(place', "admitted") = Number(place, "admitted")
      <4>1. place' \in [Handlers -> Place]
        BY <3>m, MovedType
      <4>2. Number(place', "wrong") = Number(place, "wrong")
        BY <3>m, NumberStays
      <4>3. Number(place', "admitted") = Number(place, "admitted")
        BY <3>m, NumberStays
      <4> QED
        BY <4>1, <4>2, <4>3
    <3>3. UNCHANGED <<count, hasTtl, active, guesses, lost, orphaned, faults>>
      BY <2>1 DEF Submit, key, history
    <3>4. TypeOK'
      BY <3>2, <3>3 DEF TypeOK
    <3>5. CounterWillExpire'
      BY <3>1, <3>3, <2>t DEF CounterWillExpire
    <3>6. GuessesAreCounted' /\ AdmittedAreBounded'
      BY <3>2, <3>3 DEF GuessesAreCounted, AdmittedAreBounded
    <3> QED
      BY <3>4, <3>5, <3>6 DEF IInv
  <2>2. ASSUME NEW h \in Handlers, CheckLockout(h) PROVE IInv'
    <3>1. place[h] = "checking"
      BY <2>2 DEF CheckLockout, Goto
    <3>2. UNCHANGED <<count, hasTtl, active, guesses, lost, orphaned, faults>>
      BY <2>2 DEF CheckLockout, key, history
    <3>3. CASE IsLockedOut
      <4>1. place' = [place EXCEPT ![h] = "idle"]
        BY <2>2, <3>3 DEF CheckLockout, Goto
      <4>m. Moved(place, place', h, "checking", "idle")
        BY <3>1, <4>1, <2>t, <2>p DEF Moved
      <4>2. /\ place' \in [Handlers -> Place]
            /\ Number(place', "wrong") = Number(place, "wrong")
            /\ Number(place', "admitted") = Number(place, "admitted")
        <5>1. place' \in [Handlers -> Place]
          BY <4>m, MovedType
        <5>2. Number(place', "wrong") = Number(place, "wrong")
          BY <4>m, NumberStays
        <5>3. Number(place', "admitted") = Number(place, "admitted")
          BY <4>m, NumberStays
        <5> QED
          BY <5>1, <5>2, <5>3
      <4>3. TypeOK'
        BY <3>2, <4>2 DEF TypeOK
      <4>4. CounterWillExpire'
        BY <3>1, <3>2, <4>1, <2>t DEF CounterWillExpire
      <4>5. GuessesAreCounted' /\ AdmittedAreBounded'
        BY <3>2, <4>2 DEF GuessesAreCounted, AdmittedAreBounded
      <4> QED
        BY <4>3, <4>4, <4>5 DEF IInv
    <3>4. CASE ~IsLockedOut
      <4>1. place' = [place EXCEPT ![h] = "admitted"]
        BY <2>2, <3>4 DEF CheckLockout, Goto
      <4>m. Moved(place, place', h, "checking", "admitted")
        BY <3>1, <4>1, <2>t, <2>p DEF Moved
      <4>2. /\ place' \in [Handlers -> Place]
            /\ Number(place', "wrong") = Number(place, "wrong")
        <5>1. place' \in [Handlers -> Place]
          BY <4>m, MovedType
        <5>2. Number(place', "wrong") = Number(place, "wrong")
          BY <4>m, NumberStays
        <5> QED
          BY <5>1, <5>2
      <4>3. TypeOK'
        BY <3>2, <4>2 DEF TypeOK
      <4>4. CounterWillExpire'
        BY <3>1, <3>2, <4>1, <2>t DEF CounterWillExpire
      <4>5. GuessesAreCounted'
        BY <3>2, <4>2 DEF GuessesAreCounted
      <4>6. count <= Threshold - 1
        BY <3>4, <2>t, <2>n DEF IsLockedOut
      <4>7. AdmittedAreBounded'
        BY <3>2, <4>2, <4>6, <2>n, <2>f, <2>t
           DEF GuessesAreCounted, AdmittedAreBounded
      <4> QED
        BY <4>3, <4>4, <4>5, <4>7 DEF IInv
    <3> QED
      BY <3>3, <3>4
  <2>3. ASSUME NEW h \in Handlers, VerifyWrong(h) PROVE IInv'
    <3>1. place[h] = "admitted" /\ place' = [place EXCEPT ![h] = "wrong"]
      BY <2>3 DEF VerifyWrong, Goto
    <3>m. Moved(place, place', h, "admitted", "wrong")
      BY <3>1, <2>t, <2>p DEF Moved
    <3>2. /\ place' \in [Handlers -> Place]
          /\ Number(place', "wrong") = Number(place, "wrong") + 1
          /\ Number(place', "admitted") = Number(place, "admitted") - 1
      <4>1. place' \in [Handlers -> Place]
        BY <3>m, MovedType
      <4>2. Number(place', "wrong") = Number(place, "wrong") + 1
        BY <3>m, NumberArrives
      <4>3. Number(place', "admitted") = Number(place, "admitted") - 1
        BY <3>m, NumberLeaves
      <4> QED
        BY <4>1, <4>2, <4>3
    <3>3. /\ UNCHANGED <<count, hasTtl, active, lost, orphaned, faults>>
          /\ guesses' = guesses + 1
      BY <2>3 DEF VerifyWrong, key
    <3>4. TypeOK'
      BY <3>2, <3>3 DEF TypeOK
    <3>5. CounterWillExpire'
      BY <3>1, <3>3, <2>t DEF CounterWillExpire
    <3>6. GuessesAreCounted' /\ AdmittedAreBounded'
      BY <3>2, <3>3, <2>n, <2>t DEF GuessesAreCounted, AdmittedAreBounded
    <3> QED
      BY <3>4, <3>5, <3>6 DEF IInv
  <2>4. ASSUME NEW h \in Handlers, VerifyRight(h) PROVE IInv'
    <3>1. PICK to \in {"right", "idle"} : place' = [place EXCEPT ![h] = to]
      BY <2>4 DEF VerifyRight, Goto
    <3>2. place[h] = "admitted"
      BY <2>4 DEF VerifyRight, Goto
    <3>m. Moved(place, place', h, "admitted", to)
      BY <3>1, <3>2, <2>t, <2>p DEF Moved
    <3>3. /\ place' \in [Handlers -> Place]
          /\ Number(place', "wrong") = Number(place, "wrong")
          /\ Number(place', "admitted") = Number(place, "admitted") - 1
      <4>1. place' \in [Handlers -> Place]
        BY <3>m, MovedType
      <4>2. Number(place', "wrong") = Number(place, "wrong")
        BY <3>m, NumberStays
      <4>3. Number(place', "admitted") = Number(place, "admitted") - 1
        BY <3>m, NumberLeaves
      <4> QED
        BY <4>1, <4>2, <4>3
    <3>4. UNCHANGED <<count, hasTtl, active, guesses, lost, orphaned, faults>>
      BY <2>4 DEF VerifyRight, key, history
    <3>5. TypeOK'
      BY <3>3, <3>4 DEF TypeOK
    <3>6. CounterWillExpire'
      BY <3>1, <3>2, <3>4, <2>t DEF CounterWillExpire
    <3>7. GuessesAreCounted' /\ AdmittedAreBounded'
      BY <3>3, <3>4, <2>n, <2>t DEF GuessesAreCounted, AdmittedAreBounded
    <3> QED
      BY <3>5, <3>6, <3>7 DEF IInv
  <2>5. ASSUME NEW h \in Handlers, RecordFailure(h) PROVE IInv'
    <3>1. place[h] = "wrong"
      BY <2>5 DEF RecordFailure, Goto
    <3>2. PICK to \in {"first", "idle"} :
              /\ place' = [place EXCEPT ![h] = to]
              /\ count = 0 => to = "first"
      <4>1. count + 1 = 1 <=> count = 0
        BY <2>t
      <4>2. CASE count = 0
        <5>1. place' = [place EXCEPT ![h] = "first"]
          BY <2>5, <4>1, <4>2 DEF RecordFailure, Goto, StartsWindow
        <5> QED
          BY <5>1
      <4>3. CASE count # 0
        <5>1. place' = [place EXCEPT ![h] = "idle"]
          BY <2>5, <4>1, <4>3 DEF RecordFailure, Goto, StartsWindow
        <5> QED
          BY <4>3, <5>1
      <4> QED
        BY <4>2, <4>3
    <3>m. Moved(place, place', h, "wrong", to)
      BY <3>1, <3>2, <2>t, <2>p DEF Moved
    <3>3. /\ place' \in [Handlers -> Place]
          /\ Number(place', "wrong") = Number(place, "wrong") - 1
          /\ Number(place', "admitted") = Number(place, "admitted")
      <4>1. place' \in [Handlers -> Place]
        BY <3>m, MovedType
      <4>2. Number(place', "wrong") = Number(place, "wrong") - 1
        BY <3>m, NumberLeaves
      <4>3. Number(place', "admitted") = Number(place, "admitted")
        BY <3>m, NumberStays
      <4> QED
        BY <4>1, <4>2, <4>3
    <3>4. /\ UNCHANGED <<hasTtl, active, guesses, lost, orphaned, faults>>
          /\ count' = count + 1
      BY <2>5 DEF RecordFailure, history
    <3>5. TypeOK'
      BY <3>3, <3>4 DEF TypeOK
    <3>6. CounterWillExpire'
      BY <3>1, <3>2, <3>4, <2>t DEF CounterWillExpire
    <3>7. GuessesAreCounted' /\ AdmittedAreBounded'
      BY <3>3, <3>4, <2>n, <2>t DEF GuessesAreCounted, AdmittedAreBounded
    <3> QED
      BY <3>5, <3>6, <3>7 DEF IInv
  <2>6. ASSUME NEW h \in Handlers, SetTtl(h) PROVE IInv'
    <3>1. place[h] = "first" /\ place' = [place EXCEPT ![h] = "idle"]
      BY <2>6 DEF SetTtl, Goto
    <3>m. Moved(place, place', h, "first", "idle")
      BY <3>1, <2>t, <2>p DEF Moved
    <3>2. /\ place' \in [Handlers -> Place]
          /\ Number(place', "wrong") = Number(place, "wrong")
          /\ Number(place', "admitted") = Number(place, "admitted")
      <4>1. place' \in [Handlers -> Place]
        BY <3>m, MovedType
      <4>2. Number(place', "wrong") = Number(place, "wrong")
        BY <3>m, NumberStays
      <4>3. Number(place', "admitted") = Number(place, "admitted")
        BY <3>m, NumberStays
      <4> QED
        BY <4>1, <4>2, <4>3
    <3>3. /\ UNCHANGED <<count, active, guesses, lost, faults>>
          /\ hasTtl' = (count > 0)
          /\ orphaned' = FALSE
      BY <2>6 DEF SetTtl
    <3>b. hasTtl' \in BOOLEAN /\ orphaned' \in BOOLEAN
      <4>1. (count > 0) \in BOOLEAN
        OBVIOUS
      <4> QED
        BY <3>3, <4>1
    <3>4. TypeOK'
      BY <3>2, <3>3, <3>b DEF TypeOK
    <3>5. CounterWillExpire'
      BY <3>3 DEF CounterWillExpire
    <3>6. GuessesAreCounted' /\ AdmittedAreBounded'
      BY <3>2, <3>3 DEF GuessesAreCounted, AdmittedAreBounded
    <3> QED
      BY <3>4, <3>5, <3>6 DEF IInv
  \* The key is gone, by DEL or in time: nothing is counted against it.
  <2>r. ASSUME RemoveKey,
               UNCHANGED <<active, faults>>,
               place' \in [Handlers -> Place]
        PROVE  IInv'
    <3>1. /\ count' = 0 /\ hasTtl' = FALSE /\ orphaned' = FALSE
          /\ guesses' = 0 /\ lost' = 0
      BY <2>r DEF RemoveKey
    <3>2. TypeOK'
      BY <2>r, <3>1 DEF TypeOK
    <3>3. CounterWillExpire'
      BY <3>1 DEF CounterWillExpire
    <3>4. GuessesAreCounted'
      BY <3>1, <2>n DEF GuessesAreCounted
    <3>5. AdmittedAreBounded'
      BY <3>1, <2>n, <2>f DEF AdmittedAreBounded
    <3> QED
      BY <3>2, <3>3, <3>4, <3>5 DEF IInv
  <2>7. ASSUME NEW h \in Handlers, ClearFailures(h) PROVE IInv'
    BY <2>7, <2>r, <2>t DEF ClearFailures, Goto, Place
  <2>8. ASSUME KeyExpires PROVE IInv'
    BY <2>8, <2>r, <2>t DEF KeyExpires
  <2>9. ASSUME NEW h \in Handlers, Fail(h) PROVE IInv'
    <3>1. place[h] # "idle" /\ place' = [place EXCEPT ![h] = "idle"]
      BY <2>9 DEF Fail
    <3>m. Moved(place, place', h, place[h], "idle")
      BY <3>1, <2>t, <2>p DEF Moved
    <3>2. /\ place' \in [Handlers -> Place]
          /\ Number(place', "wrong")
               = Number(place, "wrong") + (IF place[h] = "wrong" THEN -1 ELSE 0)
          /\ Number(place', "admitted")
               = Number(place, "admitted") + (IF place[h] = "admitted" THEN -1 ELSE 0)
      <4>1. place' \in [Handlers -> Place]
        BY <3>m, MovedType
      <4>2. Number(place', "wrong")
              = Number(place, "wrong") + (IF place[h] = "wrong" THEN -1 ELSE 0)
        <5>1. CASE place[h] = "wrong"
          <6>1. Number(place', place[h]) = Number(place, place[h]) - 1
            BY <3>m, NumberLeaves
          <6> QED
            BY <5>1, <6>1, <2>n
        <5>2. CASE place[h] # "wrong"
          <6>1. Number(place', "wrong") = Number(place, "wrong")
            BY <5>2, <3>m, NumberStays
          <6> QED
            BY <5>2, <6>1, <2>n
        <5> QED
          BY <5>1, <5>2
      <4>3. Number(place', "admitted")
              = Number(place, "admitted") + (IF place[h] = "admitted" THEN -1 ELSE 0)
        <5>1. CASE place[h] = "admitted"
          <6>1. Number(place', place[h]) = Number(place, place[h]) - 1
            BY <3>m, NumberLeaves
          <6> QED
            BY <5>1, <6>1, <2>n
        <5>2. CASE place[h] # "admitted"
          <6>1. Number(place', "admitted") = Number(place, "admitted")
            BY <5>2, <3>m, NumberStays
          <6> QED
            BY <5>2, <6>1, <2>n
        <5> QED
          BY <5>1, <5>2
      <4> QED
        BY <4>1, <4>2, <4>3
    <3>3. /\ UNCHANGED <<count, hasTtl, active, guesses>>
          /\ lost' = IF place[h] = "wrong" THEN lost + 1 ELSE lost
          /\ orphaned' = (orphaned \/ (place[h] = "first" /\ count > 0 /\ ~hasTtl))
          /\ faults' = faults + 1 /\ faults < MaxFaults
      BY <2>9 DEF Fail, key
    <3>4. TypeOK'
      BY <3>2, <3>3, LockoutAssumption DEF TypeOK
    <3>5. CounterWillExpire'
      BY <3>1, <3>3, <2>t DEF CounterWillExpire
    <3>6. GuessesAreCounted' /\ AdmittedAreBounded'
      BY <3>2, <3>3, <2>n, <2>t DEF GuessesAreCounted, AdmittedAreBounded
    <3> QED
      BY <3>4, <3>5, <3>6 DEF IInv
  <2>10. ASSUME NEW h \in Handlers, FailAfterIncr(h) PROVE IInv'
    <3>1. place[h] = "wrong" /\ place' = [place EXCEPT ![h] = "idle"]
      BY <2>10 DEF FailAfterIncr, Goto
    <3>m. Moved(place, place', h, "wrong", "idle")
      BY <3>1, <2>t, <2>p DEF Moved
    <3>2. /\ place' \in [Handlers -> Place]
          /\ Number(place', "wrong") = Number(place, "wrong") - 1
          /\ Number(place', "admitted") = Number(place, "admitted")
      <4>1. place' \in [Handlers -> Place]
        BY <3>m, MovedType
      <4>2. Number(place', "wrong") = Number(place, "wrong") - 1
        BY <3>m, NumberLeaves
      <4>3. Number(place', "admitted") = Number(place, "admitted")
        BY <3>m, NumberStays
      <4> QED
        BY <4>1, <4>2, <4>3
    <3>3. /\ UNCHANGED <<hasTtl, active, guesses, lost>>
          /\ count' = count + 1
          /\ orphaned' = (orphaned \/ count = 0)
          /\ faults' = faults + 1 /\ faults < MaxFaults
      BY <2>10 DEF FailAfterIncr
    <3>4. TypeOK'
      BY <3>2, <3>3, LockoutAssumption DEF TypeOK
    <3>5. CounterWillExpire'
      <4>1. count = 0 => orphaned'
        BY <3>3, Zenon
      <4>2. orphaned => orphaned'
        BY <3>3, Zenon
      <4>3. \A i \in Handlers : place[i] = "first" => place'[i] = "first"
        BY <3>1, <2>t
      <4>4. count # 0 => count > 0
        BY <2>t
      <4>5. hasTtl' = hasTtl
        BY <3>3
      <4> QED
        BY <4>1, <4>2, <4>3, <4>4, <4>5 DEF CounterWillExpire
    <3>6. GuessesAreCounted' /\ AdmittedAreBounded'
      BY <3>2, <3>3, <2>n, <2>t DEF GuessesAreCounted, AdmittedAreBounded
    <3> QED
      BY <3>4, <3>5, <3>6 DEF IInv
  <2>11. CASE UNCHANGED vars
    <3>1. UNCHANGED <<count, hasTtl, active, place, guesses, lost, orphaned, faults>>
      BY <2>11 DEF vars
    <3> QED
      BY <3>1 DEF TypeOK, CounterWillExpire, GuessesAreCounted, AdmittedAreBounded, IInv
  <2> QED
    BY <2>1, <2>2, <2>3, <2>4, <2>5, <2>6, <2>7, <2>8, <2>9, <2>10, <2>11
       DEF Next, Login
<1> QED
  BY <1>1, <1>2, PTL DEF Spec

-----------------------------------------------------------------------------
\* The counter, its TTL and the handlers of POST /auth/login stay within their
\* types.
THEOREM TypeCorrect == Spec => []TypeOK
<1>1. IInv => TypeOK
  BY DEF IInv
<1> QED
  BY <1>1, Inductive, PTL

\* A brute-force counter without a TTL is about to get one, or the request that
\* should have set it has failed.
THEOREM CounterExpires == Spec => []CounterWillExpire
<1>1. IInv => CounterWillExpire
  BY DEF IInv
<1> QED
  BY <1>1, Inductive, PTL

\* Logins that run side by side get at most one guess each beyond the threshold.
THEOREM GuessesBounded == Spec => []GuessesAreBounded
<1>1. IInv => GuessesAreBounded
  <2> SUFFICES ASSUME IInv PROVE GuessesAreBounded
    OBVIOUS
  <2>1. Number(place, "admitted") \in Nat
    BY NumberType
  <2> QED
    BY <2>1, HandlersNat, LockoutAssumption
       DEF IInv, TypeOK, AdmittedAreBounded, GuessesAreBounded
<1> QED
  BY <1>1, Inductive, PTL

-----------------------------------------------------------------------------
\* A lockout whose key has no TTL, with nobody left who could give it one or
\* remove it: every login that was let in below the threshold is over.
LockedWithoutEnd ==
    /\ IsLockedOut
    /\ ~hasTtl
    /\ \A h \in Handlers : place[h] \notin {"first", "admitted", "right"}

\* Such a lockout lasts: no login gets past the check any more, EXPIRE is sent by
\* the INCR that answered 1 and by no other, and Redis drops only what has a TTL.
\* It is the case that LockoutEnds has to leave out.
LockoutLasts == [][LockedWithoutEnd => LockedWithoutEnd']_vars

THEOREM LockoutWithoutTtlLasts == Spec => LockoutLasts
<1>1. ASSUME IInv, [Next]_vars, LockedWithoutEnd
      PROVE  LockedWithoutEnd'
  <2> USE DEF LockedWithoutEnd, IsLockedOut, key, history
  <2>0. /\ count \in Nat /\ Threshold \in Nat \ {0} /\ count >= Threshold
        /\ place \in [Handlers -> Place]
    BY <1>1, LockoutAssumption DEF IInv, TypeOK
  <2>1. ASSUME NEW h \in Handlers, Submit(h) \/ CheckLockout(h) \/ Fail(h)
        PROVE  LockedWithoutEnd'
    <3>1. PICK to \in {"idle", "checking"} : place' = [place EXCEPT ![h] = to]
      BY <1>1, <2>1 DEF Submit, CheckLockout, Fail, Goto
    <3>2. count' = count /\ hasTtl' = hasTtl
      BY <2>1 DEF Submit, CheckLockout, Fail
    <3> QED
      BY <1>1, <2>0, <3>1, <3>2
  <2>2. ASSUME NEW h \in Handlers, RecordFailure(h) \/ FailAfterIncr(h)
        PROVE  LockedWithoutEnd'
    <3>1. count' = count + 1 /\ hasTtl' = hasTtl
      BY <2>2 DEF RecordFailure, FailAfterIncr
    <3>2. ~StartsWindow(count + 1)
      BY <2>0 DEF StartsWindow
    <3>3. place' = [place EXCEPT ![h] = "idle"]
      BY <2>2, <3>2 DEF RecordFailure, FailAfterIncr, Goto
    <3>4. count' >= Threshold
      BY <2>0, <3>1
    <3> QED
      BY <1>1, <2>0, <3>1, <3>3, <3>4
  <2>3. ASSUME NEW h \in Handlers,
               VerifyWrong(h) \/ VerifyRight(h) \/ SetTtl(h) \/ ClearFailures(h)
        PROVE  FALSE
    BY <1>1, <2>3 DEF VerifyWrong, VerifyRight, SetTtl, ClearFailures, Goto
  <2>4. ~KeyExpires
    BY <1>1 DEF KeyExpires
  <2>5. CASE UNCHANGED vars
    BY <1>1, <2>5 DEF vars
  <2> QED
    BY <1>1, <2>1, <2>2, <2>3, <2>4, <2>5 DEF Next, Login
<1> QED
  BY <1>1, Inductive, PTL DEF Spec, LockoutLasts
=============================================================================
