---------------------------- MODULE LoginLockout ----------------------------
(***************************************************************************)
(* POST /auth/login and the brute-force counter of one e-mail address.     *)
(*                                                                         *)
(* The counter is a Redis key that every login handler reads and writes    *)
(* with single commands, each of them an await: GET before the password is *)
(* verified, INCR after a wrong one, EXPIRE if that INCR has made the key, *)
(* DEL after a right one.  Other handlers run between any two of them.     *)
(*                                                                         *)
(*   count     the value of brute_force:<email>, 0 when there is no key    *)
(*   hasTtl    the key will expire                                         *)
(*   active    the address belongs to a user that is not deleted           *)
(*   place     where each handler is                                       *)
(*                                                                         *)
(* and history variables: guesses (wrong passwords verified since the key  *)
(* was last removed), lost (those of them that reached no INCR), orphaned  *)
(* (the EXPIRE that was due for this key will not be sent) and faults      *)
(* (failed requests so far).                                               *)
(***************************************************************************)
EXTENDS Naturals, FiniteSets

CONSTANTS Handlers,   \* login requests under way at a time
          Threshold,  \* LOCKOUT_THRESHOLD
          MaxFaults   \* bound on failed requests

ASSUME LockoutAssumption ==
    /\ IsFiniteSet(Handlers)
    /\ Threshold \in Nat \ {0}
    /\ MaxFaults \in Nat

VARIABLES count, hasTtl, active, place, guesses, lost, orphaned, faults

vars == <<count, hasTtl, active, place, guesses, lost, orphaned, faults>>

key     == <<count, hasTtl>>
history == <<guesses, lost, orphaned, faults>>

Place == { "idle",
           "checking",   \* before GET
           "admitted",   \* not locked out, password not verified
           "wrong",      \* GoTrue has refused the password, before INCR
           "first",      \* INCR has answered 1, before EXPIRE
           "right" }     \* GoTrue and the user row agree, before DEL

TypeOK ==
    /\ count \in Nat
    /\ hasTtl \in BOOLEAN
    /\ active \in BOOLEAN
    /\ place \in [Handlers -> Place]
    /\ guesses \in Nat
    /\ lost \in Nat
    /\ orphaned \in BOOLEAN
    /\ faults \in 0..MaxFaults

Init ==
    /\ count = 0
    /\ hasTtl = FALSE
    /\ active \in BOOLEAN
    /\ place = [h \in Handlers |-> "idle"]
    /\ guesses = 0
    /\ lost = 0
    /\ orphaned = FALSE
    /\ faults = 0

Goto(h, from, to) ==
    /\ place[h] = from
    /\ place' = [place EXCEPT ![h] = to]

-----------------------------------------------------------------------------
(* Plausible bugs, each paired with the property it breaks.                *)

\* Locks at the sixth failure instead of the fifth.
IsLockedOut_OffByOne == count > Threshold

\* The window is meant to start with the failure that locks the account.
StartsWindow_AtThreshold(n) == n = Threshold

\* A login that succeeds takes one failure off the counter.
RemoveKey_Decrement ==
    /\ count' = count - 1
    /\ hasTtl' = hasTtl
    /\ guesses' = 0
    /\ lost' = 0
    /\ orphaned' = orphaned

\* EXPIRE names the address as it was typed, INCR the one in lower case.
SetTtl_OtherKey(h) ==
    /\ Goto(h, "first", "idle")
    /\ UNCHANGED <<key, active, history>>

-----------------------------------------------------------------------------
(* The primitives of brute_force.py                                        *)

IsLockedOut == count >= Threshold

\* record_login_failure sets the TTL if its INCR has answered 1.
StartsWindow(n) == n = 1

RemoveKey ==
    /\ count' = 0
    /\ hasTtl' = FALSE
    /\ guesses' = 0
    /\ lost' = 0
    /\ orphaned' = FALSE

-----------------------------------------------------------------------------
(* AuthService.login                                                       *)

Submit(h) ==
    /\ Goto(h, "idle", "checking")
    /\ UNCHANGED <<key, active, history>>

\* A locked account is refused before GoTrue is asked (with the key's TTL, which
\* is only read).
CheckLockout(h) ==
    /\ Goto(h, "checking", IF IsLockedOut THEN "idle" ELSE "admitted")
    /\ UNCHANGED <<key, active, history>>

VerifyWrong(h) ==
    /\ Goto(h, "admitted", "wrong")
    /\ guesses' = guesses + 1
    /\ UNCHANGED <<key, active, lost, orphaned, faults>>

\* The right password of an account that is not active is answered 401, and
\* leaves the counter as it is.
VerifyRight(h) ==
    /\ Goto(h, "admitted", IF active THEN "right" ELSE "idle")
    /\ UNCHANGED <<key, active, history>>

RecordFailure(h) ==
    /\ Goto(h, "wrong", IF StartsWindow(count + 1) THEN "first" ELSE "idle")
    /\ count' = count + 1
    /\ UNCHANGED <<hasTtl, active, history>>

\* EXPIRE of a key that is gone does nothing.
SetTtl(h) ==
    /\ Goto(h, "first", "idle")
    /\ hasTtl' = (count > 0)
    /\ orphaned' = FALSE
    /\ UNCHANGED <<count, active, guesses, lost, faults>>

ClearFailures(h) ==
    /\ Goto(h, "right", "idle")
    /\ RemoveKey
    /\ UNCHANGED <<active, faults>>

-----------------------------------------------------------------------------
(* Redis drops the key when its time is over.                              *)
KeyExpires ==
    /\ hasTtl
    /\ RemoveKey
    /\ UNCHANGED <<active, place, faults>>

\* Redis or GoTrue does not answer, or the process dies: 500, and nothing that was
\* still to come is done.
Fail(h) ==
    /\ place[h] # "idle"
    /\ faults < MaxFaults
    /\ faults' = faults + 1
    /\ place' = [place EXCEPT ![h] = "idle"]
    /\ lost' = IF place[h] = "wrong" THEN lost + 1 ELSE lost
    /\ orphaned' = (orphaned \/ (place[h] = "first" /\ count > 0 /\ ~hasTtl))
    /\ UNCHANGED <<key, active, guesses>>

\* The INCR was done, but its answer never came.
FailAfterIncr(h) ==
    /\ faults < MaxFaults
    /\ faults' = faults + 1
    /\ Goto(h, "wrong", "idle")
    /\ count' = count + 1
    /\ orphaned' = (orphaned \/ count = 0)
    /\ UNCHANGED <<hasTtl, active, guesses, lost>>

-----------------------------------------------------------------------------
Login(h) ==
    \/ CheckLockout(h)
    \/ VerifyWrong(h)
    \/ VerifyRight(h)
    \/ RecordFailure(h)
    \/ SetTtl(h)
    \/ ClearFailures(h)

Next ==
    \/ \E h \in Handlers : Submit(h) \/ Login(h) \/ Fail(h) \/ FailAfterIncr(h)
    \/ KeyExpires

Spec == Init /\ [][Next]_vars

\* A request that was accepted is carried on with, and Redis keeps its time.
\* Nothing says that anybody logs in.
Fairness ==
    /\ \A h \in Handlers : WF_vars(Login(h))
    /\ WF_vars(KeyExpires)

FairSpec == Spec /\ Fairness

-----------------------------------------------------------------------------
(* Properties                                                              *)

\* However many logins run side by side, the number of wrong passwords that are
\* verified before the counter goes is bounded: those that may be admitted below
\* the threshold, one for each other request under way, and those whose failure
\* could not be counted.
GuessesAreBounded ==
    guesses <= (Threshold - 1) + Cardinality(Handlers) + lost

\* A counter without a TTL is about to get one, or the request that should have
\* set it has failed.
CounterWillExpire ==
    count > 0 /\ ~hasTtl => orphaned \/ \E h \in Handlers : place[h] = "first"

\* Every lockout ends, unless the EXPIRE of its key was lost.
LockoutEnds == IsLockedOut ~> (~IsLockedOut \/ orphaned)

\* The note in brute_force.py: "clear_failures is only reached on a successful
\* authentication while still below the threshold".
ClearedOnlyBelowThreshold ==
    [][\A h \in Handlers : ClearFailures(h) => ~IsLockedOut]_vars
=============================================================================
