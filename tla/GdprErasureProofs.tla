------------------------- MODULE GdprErasureProofs -------------------------
(***************************************************************************)
(* The properties of GdprErasure, and its refinement of ErasurePromise,    *)
(* for any number of users, requests and jobs.                             *)
(***************************************************************************)
EXTENDS GdprErasure, FiniteSetTheorems, TLAPS

-----------------------------------------------------------------------------
(* The inductive invariant, part by part.                                  *)

\* The requests that may still send the job.
Open(u) == {q \in Requests : request[u][q] \in {"loaded", "committed"}}

\* Those that may, and the jobs that were sent, are no more than the processes; until
\* the first COMMIT nobody is past it.
RequestInv ==
    \A u \in Users :
        /\ enqueued[u] + Cardinality(Open(u)) <= Processes
        /\ age[u] = "none" => /\ enqueued[u] = 0
                              /\ \A q \in Requests : request[u][q] # "committed"

\* Jobs, and what they write, exist for accounts that are due only, and none becomes
\* due while a request is about to commit.
DueInv ==
    \A u \in Users :
        /\ \A q \in Requests : request[u][q] = "loaded" => age[u] # "due"
        /\ anonId[u] # NoId => age[u] = "due"
        /\ \A j \in Jobs : job[u][j] # "free" => age[u] = "due"

\* Ids come from the secrets deployed so far; a job past its first transaction
\* holds one, and so does the row.
IdInv ==
    \A u \in Users :
        /\ anonId[u] <= secret
        /\ \A j \in Jobs :
              /\ ids[u][j] <= secret
              /\ job[u][j] \in {"computed", "purging"} => ids[u][j] # NoId
              /\ job[u][j] = "purging" => anonId[u] # NoId

\* Unless two jobs were at it: the one that computes is alone and finds no id.
ComputeInv ==
    \A u \in Users \ overlapped : \A j \in Jobs :
        job[u][j] = "computed" =>
            /\ anonId[u] = NoId
            /\ \A i \in Jobs : job[u][i] = "computed" => i = j

\* Unless the id is torn: what a job purges with is the id in the row.
HeldInv ==
    \A u \in Users : ~Torn(u) =>
        \A j \in Jobs : job[u][j] = "purging" => ids[u][j] = anonId[u]

PlaceholderInv ==
    \A u \in Users :
        placeholder[u] # NoId =>
            /\ ~related[u]
            /\ anonId[u] # NoId
            /\ ~Torn(u) => placeholder[u] = anonId[u]

IInv ==
    /\ TypeOK
    /\ RequestInv
    /\ DueInv
    /\ IdInv
    /\ ComputeInv
    /\ HeldInv
    /\ PlaceholderInv

-----------------------------------------------------------------------------
LEMMA InitIInv == Init => IInv
<1> SUFFICES ASSUME Init PROVE IInv
  OBVIOUS
<1> USE ErasureAssumption DEF Init, NoId, Id
<1>1. TypeOK
  BY DEF TypeOK
<1>2. RequestInv
  <2>1. \A u \in Users : Open(u) = {}
    BY DEF Open
  <2> QED
    <3>1. \A u \in Users : Cardinality(Open(u)) = 0
      BY <2>1, FS_EmptySet
    <3>2. \A u \in Users : enqueued[u] = 0 /\ \A q \in Requests : request[u][q] = "idle"
      OBVIOUS
    <3>3. \A u \in Users : enqueued[u] + Cardinality(Open(u)) <= Processes
      BY <3>1, <3>2
    <3> QED
      BY <3>2, <3>3 DEF RequestInv
<1>4. DueInv /\ IdInv
  BY DEF DueInv, IdInv
<1>3. ComputeInv /\ HeldInv /\ PlaceholderInv
  BY DEF ComputeInv, HeldInv, PlaceholderInv
<1> QED
  BY <1>1, <1>2, <1>3, <1>4 DEF IInv

LEMMA TypeStep == TypeOK /\ [Next]_vars => TypeOK'
<1> SUFFICES ASSUME TypeOK, [Next]_vars PROVE TypeOK'
  OBVIOUS
<1> USE ErasureAssumption
    DEF TypeOK, Id, NoId, Running, row, api, worker, GotoRequest, GotoJob, Hold
<1>1. ASSUME NEW u \in Users, NEW q \in Requests, Accept(u, q)
      PROVE  TypeOK'
  BY <1>1 DEF Accept
<1>2. ASSUME NEW u \in Users, NEW q \in Requests, LoadAccount(u, q)
      PROVE  TypeOK'
  BY <1>2 DEF LoadAccount
<1>3. ASSUME NEW u \in Users, NEW q \in Requests, CommitDeletion(u, q)
      PROVE  TypeOK'
  BY <1>3 DEF CommitDeletion
<1>4. ASSUME NEW u \in Users, NEW q \in Requests, DeletionFails(u, q)
      PROVE  TypeOK'
  BY <1>4 DEF DeletionFails
<1>5. ASSUME NEW u \in Users, NEW q \in Requests, SendErasureJob(u, q)
      PROVE  TypeOK'
  BY <1>5 DEF SendErasureJob
<1>6. ASSUME NEW u \in Users, NEW q \in Requests, SendFails(u, q)
      PROVE  TypeOK'
  BY <1>6 DEF SendFails
<1>7. ASSUME NEW u \in Users, ThirtyDaysPass(u)
      PROVE  TypeOK'
  BY <1>7 DEF ThirtyDaysPass
<1>8. ASSUME NEW u \in Users, NEW j \in Jobs, DispatchErasureJob(u, j)
      PROVE  TypeOK'
  BY <1>8 DEF DispatchErasureJob
<1>9. ASSUME NEW u \in Users, NEW j \in Jobs, Deliver(u, j)
      PROVE  TypeOK'
  BY <1>9 DEF Deliver
<1>10. ASSUME NEW u \in Users, NEW j \in Jobs, ReadAnonymousId(u, j)
      PROVE  TypeOK'
  BY <1>10 DEF ReadAnonymousId
<1>11. ASSUME NEW u \in Users, NEW j \in Jobs, ComputeAnonymousId(u, j)
      PROVE  TypeOK'
  <2>1. PICK id \in 1..secret : ids' = [ids EXCEPT ![u][j] = id]
    BY <1>11 DEF ComputeAnonymousId
  <2>2. /\ overlapped' \in {overlapped, overlapped \cup {u}}
        /\ u \notin overlapped' => \A i \in Jobs : job[u][i] # "computed"
    BY <1>11 DEF ComputeAnonymousId
  <2>3. /\ anonId[u] = NoId
        /\ GotoJob(u, j, "loading", "computed")
        /\ UNCHANGED <<row, api, tries, secret, faults>>
    BY <1>11 DEF ComputeAnonymousId
  <2> QED
    BY <2>1, <2>2, <2>3
<1>12. ASSUME NEW u \in Users, NEW j \in Jobs, CommitAnonymousId(u, j)
       PROVE  TypeOK'
  BY <1>12 DEF CommitAnonymousId
<1>13. ASSUME NEW u \in Users, NEW j \in Jobs, PurgePii(u, j)
       PROVE  TypeOK'
  BY <1>13 DEF PurgePii
<1>14. ASSUME NEW u \in Users, NEW j \in Jobs, Ack(u, j)
       PROVE  TypeOK'
  BY <1>14 DEF Ack
<1>15. ASSUME NEW u \in Users, NEW j \in Jobs, Retry(u, j)
       PROVE  TypeOK'
  BY <1>15 DEF Retry, Interrupt, RetriesLeft
<1>16. ASSUME NEW u \in Users, NEW j \in Jobs, GiveUp(u, j)
       PROVE  TypeOK'
  BY <1>16 DEF GiveUp, Interrupt, RetriesLeft
<1>17. ASSUME NEW u \in Users, NEW j \in Jobs, Crash(u, j)
       PROVE  TypeOK'
  BY <1>17 DEF Crash, Interrupt, RetriesLeft
<1>18. CASE RotateSecret
  BY <1>18 DEF RotateSecret
<1>19. CASE UNCHANGED vars
  BY <1>19 DEF vars
<1> QED
  BY <1>1, <1>2, <1>3, <1>4, <1>5, <1>6, <1>7, <1>8, <1>9, <1>10,
     <1>11, <1>12, <1>13, <1>14, <1>15, <1>16, <1>17, <1>18, <1>19
  DEF Next, DeleteAccount, InitiateDeletion, ScanAndDispatch, EraseUserPii, Fault

LEMMA OpenOf ==
    \A u \in Users : IsFiniteSet(Open(u)) /\ Cardinality(Open(u)) \in Nat /\ Open(u) \subseteq Requests
  BY ErasureAssumption, FS_Subset, FS_CardinalityType DEF Open

\* One request of a user moves on, and none else.
LEMMA Moves ==
    ASSUME TypeOK, NEW u \in Users, NEW q \in Requests, NEW to,
           request' = [request EXCEPT ![u][q] = to]
    PROVE  /\ \A v \in Users : v # u => Open(v)' = Open(v)
           /\ Open(u)' = IF to \in {"loaded", "committed"} THEN Open(u) \cup {q} ELSE Open(u) \ {q}
           /\ \A v \in Users : \A p \in Requests :
                 v # u \/ p # q => request'[v][p] = request[v][p]
           /\ request'[u][q] = to
<1>1. /\ \A v \in Users : \A p \in Requests : v # u \/ p # q => request'[v][p] = request[v][p]
      /\ request'[u][q] = to
  BY DEF TypeOK
<1>2. \A v \in Users : v # u => Open(v)' = Open(v)
  BY <1>1 DEF Open
<1>3. Open(u)' = IF to \in {"loaded", "committed"} THEN Open(u) \cup {q} ELSE Open(u) \ {q}
  BY <1>1 DEF Open
<1> QED
  BY <1>1, <1>2, <1>3

LEMMA RequestInvStep == IInv /\ [Next]_vars => RequestInv'
<1> SUFFICES ASSUME IInv, [Next]_vars PROVE RequestInv'
  OBVIOUS
<1> USE ErasureAssumption DEF GotoRequest, row, api, worker
<1>0. TypeOK /\ RequestInv
  BY DEF IInv
<1>1. ASSUME NEW u \in Users, NEW q \in Requests, NEW to \in {"accepted", "done"},
             request' = [request EXCEPT ![u][q] = to],
             age' = age, enqueued' = enqueued
      PROVE  RequestInv'
  <2>1. Open(u)' = Open(u) \ {q} /\ \A v \in Users : v # u => Open(v)' = Open(v)
    BY <1>0, <1>1, Moves
  <2>2. \A v \in Users : Cardinality(Open(v)') <= Cardinality(Open(v))
                          /\ Cardinality(Open(v)') \in Nat
    <3>1. \A v \in Users : Open(v)' \subseteq Open(v)
      BY <2>1
    <3> QED
      BY <3>1, OpenOf, FS_Subset, FS_CardinalityType
  <2>3. \A v \in Users : \A p \in Requests : request'[v][p] = "committed" => request[v][p] = "committed"
    BY <1>0, <1>1, Moves
  <2> QED
    BY <1>0, <1>1, <2>2, <2>3, OpenOf DEF RequestInv, TypeOK
<1>2. ASSUME NEW u \in Users, NEW q \in Requests, Accept(u, q)
      PROVE  RequestInv'
  <2>1. request' = [request EXCEPT ![u][q] = "accepted"] /\ age' = age /\ enqueued' = enqueued
    BY <1>2 DEF Accept
  <2> QED
    BY <1>1, <2>1
<1>3. ASSUME NEW u \in Users, NEW q \in Requests, LoadAccount(u, q)
      PROVE  RequestInv'
  <2>1. CASE age[u] # "none"
    <3>1. request' = [request EXCEPT ![u][q] = "done"] /\ age' = age /\ enqueued' = enqueued
      BY <1>3, <2>1 DEF LoadAccount
    <3> QED
      BY <1>1, <3>1
  <2>2. CASE age[u] = "none"
    <3>1. /\ request' = [request EXCEPT ![u][q] = "loaded"] /\ request[u][q] = "accepted"
          /\ age' = age /\ enqueued' = enqueued /\ Cardinality(Loaded(u)) < Processes
      BY <1>3, <2>2 DEF LoadAccount, ProcessFree
    <3>2. enqueued[u] = 0 /\ Open(u) = Loaded(u) /\ q \notin Open(u)
      BY <1>0, <2>2, <3>1 DEF RequestInv, Open, Loaded
    <3>3. Open(u)' = Open(u) \cup {q} /\ \A v \in Users : v # u => Open(v)' = Open(v)
      BY <1>0, <3>1, Moves
    <3>4. Cardinality(Open(u)') = Cardinality(Open(u)) + 1
      BY <3>2, <3>3, OpenOf, FS_AddElement
    <3>5. enqueued'[u] + Cardinality(Open(u)') <= Processes
      BY <3>1, <3>2, <3>4, OpenOf
    <3>6. \A v \in Users : \A p \in Requests : request'[v][p] = "committed" => request[v][p] = "committed"
      BY <1>0, <3>1, Moves
    <3> QED
      BY <1>0, <3>1, <3>3, <3>5, <3>6 DEF RequestInv
  <2> QED
    BY <2>1, <2>2
<1>4. ASSUME NEW u \in Users, NEW q \in Requests, CommitDeletion(u, q)
      PROVE  RequestInv'
  <2>1. /\ request' = [request EXCEPT ![u][q] = "committed"] /\ request[u][q] = "loaded"
        /\ age' = [age EXCEPT ![u] = "recent"] /\ enqueued' = enqueued
    BY <1>4 DEF CommitDeletion
  <2>2. q \in Open(u)
    BY <2>1 DEF Open
  <2>3. \A v \in Users : Open(v)' = Open(v)
    <3>1. Open(u)' = Open(u) \cup {q} /\ \A v \in Users : v # u => Open(v)' = Open(v)
      BY <1>0, <2>1, Moves
    <3> QED
      BY <2>2, <3>1
  <2>4. age'[u] = "recent" /\ \A v \in Users : v # u =>
            age'[v] = age[v] /\ \A p \in Requests : request'[v][p] = request[v][p]
    BY <1>0, <2>1, Moves DEF TypeOK
  <2> QED
    BY <1>0, <2>1, <2>3, <2>4 DEF RequestInv
<1>5. ASSUME NEW u \in Users, NEW q \in Requests, DeletionFails(u, q)
      PROVE  RequestInv'
  <2>1. request' = [request EXCEPT ![u][q] = "done"] /\ age' = age /\ enqueued' = enqueued
    BY <1>5 DEF DeletionFails
  <2> QED
    BY <1>1, <2>1
<1>6. ASSUME NEW u \in Users, NEW q \in Requests, SendErasureJob(u, q)
      PROVE  RequestInv'
  <2>1. /\ request' = [request EXCEPT ![u][q] = "done"] /\ request[u][q] = "committed"
        /\ age' = age /\ enqueued' = [enqueued EXCEPT ![u] = @ + 1]
    BY <1>6 DEF SendErasureJob
  <2>2. q \in Open(u) /\ age[u] # "none"
    BY <1>0, <2>1 DEF Open, RequestInv
  <2>3. Open(u)' = Open(u) \ {q} /\ \A v \in Users : v # u => Open(v)' = Open(v)
    BY <1>0, <2>1, Moves
  <2>4. Cardinality(Open(u)') = Cardinality(Open(u)) - 1
    BY <2>2, <2>3, OpenOf, FS_RemoveElement
  <2>5. enqueued'[u] = enqueued[u] + 1 /\ enqueued[u] \in Nat
        /\ \A v \in Users : v # u => enqueued'[v] = enqueued[v]
    BY <1>0, <2>1 DEF TypeOK
  <2>6. enqueued'[u] + Cardinality(Open(u)') <= Processes
    BY <1>0, <2>4, <2>5, OpenOf DEF RequestInv
  <2>7. \A v \in Users : \A p \in Requests : request'[v][p] = "committed" => request[v][p] = "committed"
    BY <1>0, <2>1, Moves
  <2> QED
    BY <1>0, <2>1, <2>2, <2>3, <2>5, <2>6, <2>7 DEF RequestInv
<1>7. ASSUME NEW u \in Users, NEW q \in Requests, SendFails(u, q)
      PROVE  RequestInv'
  <2>1. request' = [request EXCEPT ![u][q] = "done"] /\ age' = age /\ enqueued' = enqueued
    BY <1>7 DEF SendFails
  <2> QED
    BY <1>1, <2>1
<1>8. ASSUME NEW u \in Users, ThirtyDaysPass(u)
      PROVE  RequestInv'
  <2>1. \A v \in Users : Open(v)' = Open(v) /\ (age'[v] = "none" => age[v] = "none")
    BY <1>0, <1>8 DEF ThirtyDaysPass, Open, TypeOK
  <2> QED
    BY <1>0, <1>8, <2>1 DEF ThirtyDaysPass, RequestInv
<1>9. CASE UNCHANGED <<age, api>>
  <2>1. \A v \in Users : Open(v)' = Open(v)
    BY <1>9 DEF Open
  <2> QED
    BY <1>0, <1>9, <2>1 DEF RequestInv
<1> QED
  BY <1>2, <1>3, <1>4, <1>5, <1>6, <1>7, <1>8, <1>9
  DEF Next, DeleteAccount, InitiateDeletion, ScanAndDispatch, DispatchErasureJob,
      EraseUserPii, Deliver, ReadAnonymousId, ComputeAnonymousId, CommitAnonymousId,
      PurgePii, Ack, Fault, Retry, GiveUp, Crash, Interrupt, RotateSecret, vars

LEMMA DueInvStep == IInv /\ [Next]_vars => DueInv'
<1> SUFFICES ASSUME IInv, [Next]_vars PROVE DueInv'
  OBVIOUS
<1> USE ErasureAssumption
    DEF IInv, TypeOK, Id, NoId, Running, row, api, worker,
        GotoRequest, GotoJob, Hold, DueInv, Loaded
<1>1. ASSUME NEW u \in Users, NEW q \in Requests, Accept(u, q)
      PROVE  DueInv'
  BY <1>1 DEF Accept
<1>2. ASSUME NEW u \in Users, NEW q \in Requests, LoadAccount(u, q)
      PROVE  DueInv'
  BY <1>2 DEF LoadAccount
<1>3. ASSUME NEW u \in Users, NEW q \in Requests, CommitDeletion(u, q)
      PROVE  DueInv'
  BY <1>3 DEF CommitDeletion
<1>4. ASSUME NEW u \in Users, NEW q \in Requests, DeletionFails(u, q)
      PROVE  DueInv'
  BY <1>4 DEF DeletionFails
<1>5. ASSUME NEW u \in Users, NEW q \in Requests, SendErasureJob(u, q)
      PROVE  DueInv'
  BY <1>5 DEF SendErasureJob
<1>6. ASSUME NEW u \in Users, NEW q \in Requests, SendFails(u, q)
      PROVE  DueInv'
  BY <1>6 DEF SendFails
<1>7. ASSUME NEW u \in Users, ThirtyDaysPass(u)
      PROVE  DueInv'
  BY <1>7 DEF ThirtyDaysPass
<1>8. ASSUME NEW u \in Users, NEW j \in Jobs, DispatchErasureJob(u, j)
      PROVE  DueInv'
  BY <1>8 DEF DispatchErasureJob
<1>9. ASSUME NEW u \in Users, NEW j \in Jobs, Deliver(u, j)
      PROVE  DueInv'
  BY <1>9 DEF Deliver
<1>10. ASSUME NEW u \in Users, NEW j \in Jobs, ReadAnonymousId(u, j)
      PROVE  DueInv'
  BY <1>10 DEF ReadAnonymousId
<1>11. ASSUME NEW u \in Users, NEW j \in Jobs, ComputeAnonymousId(u, j)
      PROVE  DueInv'
  <2>1. PICK id \in 1..secret : ids' = [ids EXCEPT ![u][j] = id]
    BY <1>11 DEF ComputeAnonymousId
  <2>2. /\ overlapped' \in {overlapped, overlapped \cup {u}}
        /\ u \notin overlapped' => \A i \in Jobs : job[u][i] # "computed"
    BY <1>11 DEF ComputeAnonymousId
  <2>3. /\ anonId[u] = NoId
        /\ GotoJob(u, j, "loading", "computed")
        /\ UNCHANGED <<row, api, tries, secret, faults>>
    BY <1>11 DEF ComputeAnonymousId
  <2> QED
    BY <2>1, <2>2, <2>3
<1>12. ASSUME NEW u \in Users, NEW j \in Jobs, CommitAnonymousId(u, j)
       PROVE  DueInv'
  BY <1>12 DEF CommitAnonymousId
<1>13. ASSUME NEW u \in Users, NEW j \in Jobs, PurgePii(u, j)
       PROVE  DueInv'
  BY <1>13 DEF PurgePii
<1>14. ASSUME NEW u \in Users, NEW j \in Jobs, Ack(u, j)
       PROVE  DueInv'
  BY <1>14 DEF Ack
<1>15. ASSUME NEW u \in Users, NEW j \in Jobs, Retry(u, j)
       PROVE  DueInv'
  BY <1>15 DEF Retry, Interrupt, RetriesLeft
<1>16. ASSUME NEW u \in Users, NEW j \in Jobs, GiveUp(u, j)
       PROVE  DueInv'
  BY <1>16 DEF GiveUp, Interrupt, RetriesLeft
<1>17. ASSUME NEW u \in Users, NEW j \in Jobs, Crash(u, j)
       PROVE  DueInv'
  BY <1>17 DEF Crash, Interrupt, RetriesLeft
<1>18. CASE RotateSecret
  BY <1>18 DEF RotateSecret
<1>19. CASE UNCHANGED vars
  BY <1>19 DEF vars
<1> QED
  BY <1>1, <1>2, <1>3, <1>4, <1>5, <1>6, <1>7, <1>8, <1>9, <1>10,
     <1>11, <1>12, <1>13, <1>14, <1>15, <1>16, <1>17, <1>18, <1>19
  DEF Next, DeleteAccount, InitiateDeletion, ScanAndDispatch, EraseUserPii, Fault

LEMMA IdInvStep == IInv /\ [Next]_vars => IdInv'
<1> SUFFICES ASSUME IInv, [Next]_vars PROVE IdInv'
  OBVIOUS
<1> USE ErasureAssumption
    DEF IInv, TypeOK, Id, NoId, Running, row, api, worker,
        GotoRequest, GotoJob, Hold, IdInv
<1>1. ASSUME NEW u \in Users, NEW q \in Requests, Accept(u, q)
      PROVE  IdInv'
  BY <1>1 DEF Accept
<1>2. ASSUME NEW u \in Users, NEW q \in Requests, LoadAccount(u, q)
      PROVE  IdInv'
  BY <1>2 DEF LoadAccount
<1>3. ASSUME NEW u \in Users, NEW q \in Requests, CommitDeletion(u, q)
      PROVE  IdInv'
  BY <1>3 DEF CommitDeletion
<1>4. ASSUME NEW u \in Users, NEW q \in Requests, DeletionFails(u, q)
      PROVE  IdInv'
  BY <1>4 DEF DeletionFails
<1>5. ASSUME NEW u \in Users, NEW q \in Requests, SendErasureJob(u, q)
      PROVE  IdInv'
  BY <1>5 DEF SendErasureJob
<1>6. ASSUME NEW u \in Users, NEW q \in Requests, SendFails(u, q)
      PROVE  IdInv'
  BY <1>6 DEF SendFails
<1>7. ASSUME NEW u \in Users, ThirtyDaysPass(u)
      PROVE  IdInv'
  BY <1>7 DEF ThirtyDaysPass
<1>8. ASSUME NEW u \in Users, NEW j \in Jobs, DispatchErasureJob(u, j)
      PROVE  IdInv'
  BY <1>8 DEF DispatchErasureJob
<1>9. ASSUME NEW u \in Users, NEW j \in Jobs, Deliver(u, j)
      PROVE  IdInv'
  BY <1>9 DEF Deliver
<1>10. ASSUME NEW u \in Users, NEW j \in Jobs, ReadAnonymousId(u, j)
      PROVE  IdInv'
  BY <1>10 DEF ReadAnonymousId
<1>11. ASSUME NEW u \in Users, NEW j \in Jobs, ComputeAnonymousId(u, j)
      PROVE  IdInv'
  <2>1. PICK id \in 1..secret : ids' = [ids EXCEPT ![u][j] = id]
    BY <1>11 DEF ComputeAnonymousId
  <2>2. /\ overlapped' \in {overlapped, overlapped \cup {u}}
        /\ u \notin overlapped' => \A i \in Jobs : job[u][i] # "computed"
    BY <1>11 DEF ComputeAnonymousId
  <2>3. /\ anonId[u] = NoId
        /\ GotoJob(u, j, "loading", "computed")
        /\ UNCHANGED <<row, api, tries, secret, faults>>
    BY <1>11 DEF ComputeAnonymousId
  <2> QED
    BY <2>1, <2>2, <2>3
<1>12. ASSUME NEW u \in Users, NEW j \in Jobs, CommitAnonymousId(u, j)
       PROVE  IdInv'
  BY <1>12 DEF CommitAnonymousId
<1>13. ASSUME NEW u \in Users, NEW j \in Jobs, PurgePii(u, j)
       PROVE  IdInv'
  BY <1>13 DEF PurgePii
<1>14. ASSUME NEW u \in Users, NEW j \in Jobs, Ack(u, j)
       PROVE  IdInv'
  BY <1>14 DEF Ack
<1>15. ASSUME NEW u \in Users, NEW j \in Jobs, Retry(u, j)
       PROVE  IdInv'
  BY <1>15 DEF Retry, Interrupt, RetriesLeft
<1>16. ASSUME NEW u \in Users, NEW j \in Jobs, GiveUp(u, j)
       PROVE  IdInv'
  BY <1>16 DEF GiveUp, Interrupt, RetriesLeft
<1>17. ASSUME NEW u \in Users, NEW j \in Jobs, Crash(u, j)
       PROVE  IdInv'
  BY <1>17 DEF Crash, Interrupt, RetriesLeft
<1>18. CASE RotateSecret
  BY <1>18 DEF RotateSecret
<1>19. CASE UNCHANGED vars
  BY <1>19 DEF vars
<1> QED
  BY <1>1, <1>2, <1>3, <1>4, <1>5, <1>6, <1>7, <1>8, <1>9, <1>10,
     <1>11, <1>12, <1>13, <1>14, <1>15, <1>16, <1>17, <1>18, <1>19
  DEF Next, DeleteAccount, InitiateDeletion, ScanAndDispatch, EraseUserPii, Fault

LEMMA ComputeInvStep == IInv /\ [Next]_vars => ComputeInv'
<1> SUFFICES ASSUME IInv, [Next]_vars PROVE ComputeInv'
  OBVIOUS
<1> USE ErasureAssumption
    DEF IInv, TypeOK, Id, NoId, Running, row, api, worker,
        GotoRequest, GotoJob, Hold, ComputeInv, HeldInv, Torn
<1>1. ASSUME NEW u \in Users, NEW q \in Requests, Accept(u, q)
      PROVE  ComputeInv'
  BY <1>1 DEF Accept
<1>2. ASSUME NEW u \in Users, NEW q \in Requests, LoadAccount(u, q)
      PROVE  ComputeInv'
  BY <1>2 DEF LoadAccount
<1>3. ASSUME NEW u \in Users, NEW q \in Requests, CommitDeletion(u, q)
      PROVE  ComputeInv'
  BY <1>3 DEF CommitDeletion
<1>4. ASSUME NEW u \in Users, NEW q \in Requests, DeletionFails(u, q)
      PROVE  ComputeInv'
  BY <1>4 DEF DeletionFails
<1>5. ASSUME NEW u \in Users, NEW q \in Requests, SendErasureJob(u, q)
      PROVE  ComputeInv'
  BY <1>5 DEF SendErasureJob
<1>6. ASSUME NEW u \in Users, NEW q \in Requests, SendFails(u, q)
      PROVE  ComputeInv'
  BY <1>6 DEF SendFails
<1>7. ASSUME NEW u \in Users, ThirtyDaysPass(u)
      PROVE  ComputeInv'
  BY <1>7 DEF ThirtyDaysPass
<1>8. ASSUME NEW u \in Users, NEW j \in Jobs, DispatchErasureJob(u, j)
      PROVE  ComputeInv'
  BY <1>8 DEF DispatchErasureJob
<1>9. ASSUME NEW u \in Users, NEW j \in Jobs, Deliver(u, j)
      PROVE  ComputeInv'
  BY <1>9 DEF Deliver
<1>10. ASSUME NEW u \in Users, NEW j \in Jobs, ReadAnonymousId(u, j)
      PROVE  ComputeInv'
  BY <1>10 DEF ReadAnonymousId
<1>11. ASSUME NEW u \in Users, NEW j \in Jobs, ComputeAnonymousId(u, j)
      PROVE  ComputeInv'
  <2>1. PICK id \in 1..secret : ids' = [ids EXCEPT ![u][j] = id]
    BY <1>11 DEF ComputeAnonymousId
  <2>2. /\ overlapped' \in {overlapped, overlapped \cup {u}}
        /\ u \notin overlapped' => \A i \in Jobs : job[u][i] # "computed"
    BY <1>11 DEF ComputeAnonymousId
  <2>3. /\ anonId[u] = NoId
        /\ GotoJob(u, j, "loading", "computed")
        /\ UNCHANGED <<row, api, tries, secret, faults>>
    BY <1>11 DEF ComputeAnonymousId
  <2> QED
    BY <2>1, <2>2, <2>3
<1>12. ASSUME NEW u \in Users, NEW j \in Jobs, CommitAnonymousId(u, j)
       PROVE  ComputeInv'
  BY <1>12 DEF CommitAnonymousId
<1>13. ASSUME NEW u \in Users, NEW j \in Jobs, PurgePii(u, j)
       PROVE  ComputeInv'
  BY <1>13 DEF PurgePii
<1>14. ASSUME NEW u \in Users, NEW j \in Jobs, Ack(u, j)
       PROVE  ComputeInv'
  BY <1>14 DEF Ack
<1>15. ASSUME NEW u \in Users, NEW j \in Jobs, Retry(u, j)
       PROVE  ComputeInv'
  BY <1>15 DEF Retry, Interrupt, RetriesLeft
<1>16. ASSUME NEW u \in Users, NEW j \in Jobs, GiveUp(u, j)
       PROVE  ComputeInv'
  BY <1>16 DEF GiveUp, Interrupt, RetriesLeft
<1>17. ASSUME NEW u \in Users, NEW j \in Jobs, Crash(u, j)
       PROVE  ComputeInv'
  BY <1>17 DEF Crash, Interrupt, RetriesLeft
<1>18. CASE RotateSecret
  BY <1>18 DEF RotateSecret
<1>19. CASE UNCHANGED vars
  BY <1>19 DEF vars
<1> QED
  BY <1>1, <1>2, <1>3, <1>4, <1>5, <1>6, <1>7, <1>8, <1>9, <1>10,
     <1>11, <1>12, <1>13, <1>14, <1>15, <1>16, <1>17, <1>18, <1>19
  DEF Next, DeleteAccount, InitiateDeletion, ScanAndDispatch, EraseUserPii, Fault

LEMMA HeldInvStep == IInv /\ [Next]_vars => HeldInv'
<1> SUFFICES ASSUME IInv, [Next]_vars PROVE HeldInv'
  OBVIOUS
<1> USE ErasureAssumption
    DEF IInv, TypeOK, Id, NoId, Running, row, api, worker,
        GotoRequest, GotoJob, Hold, HeldInv, IdInv, ComputeInv, Torn
<1>1. ASSUME NEW u \in Users, NEW q \in Requests, Accept(u, q)
      PROVE  HeldInv'
  BY <1>1 DEF Accept
<1>2. ASSUME NEW u \in Users, NEW q \in Requests, LoadAccount(u, q)
      PROVE  HeldInv'
  BY <1>2 DEF LoadAccount
<1>3. ASSUME NEW u \in Users, NEW q \in Requests, CommitDeletion(u, q)
      PROVE  HeldInv'
  BY <1>3 DEF CommitDeletion
<1>4. ASSUME NEW u \in Users, NEW q \in Requests, DeletionFails(u, q)
      PROVE  HeldInv'
  BY <1>4 DEF DeletionFails
<1>5. ASSUME NEW u \in Users, NEW q \in Requests, SendErasureJob(u, q)
      PROVE  HeldInv'
  BY <1>5 DEF SendErasureJob
<1>6. ASSUME NEW u \in Users, NEW q \in Requests, SendFails(u, q)
      PROVE  HeldInv'
  BY <1>6 DEF SendFails
<1>7. ASSUME NEW u \in Users, ThirtyDaysPass(u)
      PROVE  HeldInv'
  BY <1>7 DEF ThirtyDaysPass
<1>8. ASSUME NEW u \in Users, NEW j \in Jobs, DispatchErasureJob(u, j)
      PROVE  HeldInv'
  BY <1>8 DEF DispatchErasureJob
<1>9. ASSUME NEW u \in Users, NEW j \in Jobs, Deliver(u, j)
      PROVE  HeldInv'
  BY <1>9 DEF Deliver
<1>10. ASSUME NEW u \in Users, NEW j \in Jobs, ReadAnonymousId(u, j)
      PROVE  HeldInv'
  BY <1>10 DEF ReadAnonymousId
<1>11. ASSUME NEW u \in Users, NEW j \in Jobs, ComputeAnonymousId(u, j)
      PROVE  HeldInv'
  <2>1. PICK id \in 1..secret : ids' = [ids EXCEPT ![u][j] = id]
    BY <1>11 DEF ComputeAnonymousId
  <2>2. /\ overlapped' \in {overlapped, overlapped \cup {u}}
        /\ u \notin overlapped' => \A i \in Jobs : job[u][i] # "computed"
    BY <1>11 DEF ComputeAnonymousId
  <2>3. /\ anonId[u] = NoId
        /\ GotoJob(u, j, "loading", "computed")
        /\ UNCHANGED <<row, api, tries, secret, faults>>
    BY <1>11 DEF ComputeAnonymousId
  <2> QED
    BY <2>1, <2>2, <2>3
<1>12. ASSUME NEW u \in Users, NEW j \in Jobs, CommitAnonymousId(u, j)
       PROVE  HeldInv'
  BY <1>12 DEF CommitAnonymousId
<1>13. ASSUME NEW u \in Users, NEW j \in Jobs, PurgePii(u, j)
       PROVE  HeldInv'
  BY <1>13 DEF PurgePii
<1>14. ASSUME NEW u \in Users, NEW j \in Jobs, Ack(u, j)
       PROVE  HeldInv'
  BY <1>14 DEF Ack
<1>15. ASSUME NEW u \in Users, NEW j \in Jobs, Retry(u, j)
       PROVE  HeldInv'
  BY <1>15 DEF Retry, Interrupt, RetriesLeft
<1>16. ASSUME NEW u \in Users, NEW j \in Jobs, GiveUp(u, j)
       PROVE  HeldInv'
  BY <1>16 DEF GiveUp, Interrupt, RetriesLeft
<1>17. ASSUME NEW u \in Users, NEW j \in Jobs, Crash(u, j)
       PROVE  HeldInv'
  BY <1>17 DEF Crash, Interrupt, RetriesLeft
<1>18. CASE RotateSecret
  BY <1>18 DEF RotateSecret
<1>19. CASE UNCHANGED vars
  BY <1>19 DEF vars
<1> QED
  BY <1>1, <1>2, <1>3, <1>4, <1>5, <1>6, <1>7, <1>8, <1>9, <1>10,
     <1>11, <1>12, <1>13, <1>14, <1>15, <1>16, <1>17, <1>18, <1>19
  DEF Next, DeleteAccount, InitiateDeletion, ScanAndDispatch, EraseUserPii, Fault

LEMMA PlaceholderInvStep == IInv /\ [Next]_vars => PlaceholderInv'
<1> SUFFICES ASSUME IInv, [Next]_vars PROVE PlaceholderInv'
  OBVIOUS
<1> USE ErasureAssumption
    DEF IInv, TypeOK, Id, NoId, Running, row, api, worker,
        GotoRequest, GotoJob, Hold, PlaceholderInv, IdInv, ComputeInv, HeldInv, Torn
<1>1. ASSUME NEW u \in Users, NEW q \in Requests, Accept(u, q)
      PROVE  PlaceholderInv'
  BY <1>1 DEF Accept
<1>2. ASSUME NEW u \in Users, NEW q \in Requests, LoadAccount(u, q)
      PROVE  PlaceholderInv'
  BY <1>2 DEF LoadAccount
<1>3. ASSUME NEW u \in Users, NEW q \in Requests, CommitDeletion(u, q)
      PROVE  PlaceholderInv'
  BY <1>3 DEF CommitDeletion
<1>4. ASSUME NEW u \in Users, NEW q \in Requests, DeletionFails(u, q)
      PROVE  PlaceholderInv'
  BY <1>4 DEF DeletionFails
<1>5. ASSUME NEW u \in Users, NEW q \in Requests, SendErasureJob(u, q)
      PROVE  PlaceholderInv'
  BY <1>5 DEF SendErasureJob
<1>6. ASSUME NEW u \in Users, NEW q \in Requests, SendFails(u, q)
      PROVE  PlaceholderInv'
  BY <1>6 DEF SendFails
<1>7. ASSUME NEW u \in Users, ThirtyDaysPass(u)
      PROVE  PlaceholderInv'
  BY <1>7 DEF ThirtyDaysPass
<1>8. ASSUME NEW u \in Users, NEW j \in Jobs, DispatchErasureJob(u, j)
      PROVE  PlaceholderInv'
  BY <1>8 DEF DispatchErasureJob
<1>9. ASSUME NEW u \in Users, NEW j \in Jobs, Deliver(u, j)
      PROVE  PlaceholderInv'
  BY <1>9 DEF Deliver
<1>10. ASSUME NEW u \in Users, NEW j \in Jobs, ReadAnonymousId(u, j)
      PROVE  PlaceholderInv'
  BY <1>10 DEF ReadAnonymousId
<1>11. ASSUME NEW u \in Users, NEW j \in Jobs, ComputeAnonymousId(u, j)
      PROVE  PlaceholderInv'
  <2>1. PICK id \in 1..secret : ids' = [ids EXCEPT ![u][j] = id]
    BY <1>11 DEF ComputeAnonymousId
  <2>2. /\ overlapped' \in {overlapped, overlapped \cup {u}}
        /\ u \notin overlapped' => \A i \in Jobs : job[u][i] # "computed"
    BY <1>11 DEF ComputeAnonymousId
  <2>3. /\ anonId[u] = NoId
        /\ GotoJob(u, j, "loading", "computed")
        /\ UNCHANGED <<row, api, tries, secret, faults>>
    BY <1>11 DEF ComputeAnonymousId
  <2> QED
    BY <2>1, <2>2, <2>3
<1>12. ASSUME NEW u \in Users, NEW j \in Jobs, CommitAnonymousId(u, j)
       PROVE  PlaceholderInv'
  BY <1>12 DEF CommitAnonymousId
<1>13. ASSUME NEW u \in Users, NEW j \in Jobs, PurgePii(u, j)
       PROVE  PlaceholderInv'
  BY <1>13 DEF PurgePii
<1>14. ASSUME NEW u \in Users, NEW j \in Jobs, Ack(u, j)
       PROVE  PlaceholderInv'
  BY <1>14 DEF Ack
<1>15. ASSUME NEW u \in Users, NEW j \in Jobs, Retry(u, j)
       PROVE  PlaceholderInv'
  BY <1>15 DEF Retry, Interrupt, RetriesLeft
<1>16. ASSUME NEW u \in Users, NEW j \in Jobs, GiveUp(u, j)
       PROVE  PlaceholderInv'
  BY <1>16 DEF GiveUp, Interrupt, RetriesLeft
<1>17. ASSUME NEW u \in Users, NEW j \in Jobs, Crash(u, j)
       PROVE  PlaceholderInv'
  BY <1>17 DEF Crash, Interrupt, RetriesLeft
<1>18. CASE RotateSecret
  BY <1>18 DEF RotateSecret
<1>19. CASE UNCHANGED vars
  BY <1>19 DEF vars
<1> QED
  BY <1>1, <1>2, <1>3, <1>4, <1>5, <1>6, <1>7, <1>8, <1>9, <1>10,
     <1>11, <1>12, <1>13, <1>14, <1>15, <1>16, <1>17, <1>18, <1>19
  DEF Next, DeleteAccount, InitiateDeletion, ScanAndDispatch, EraseUserPii, Fault

LEMMA IInvStep == IInv /\ [Next]_vars => IInv'
<1>1. IInv => TypeOK
  BY DEF IInv
<1> QED
  BY <1>1, TypeStep, RequestInvStep, DueInvStep, IdInvStep, ComputeInvStep,
     HeldInvStep, PlaceholderInvStep
  DEF IInv
-----------------------------------------------------------------------------
\* The invariant holds throughout.
THEOREM Inductive == Spec => []IInv
  BY InitIInv, IInvStep, PTL DEF Spec

\* Every variable keeps its type.
THEOREM TypeCorrect == Spec => []TypeOK
<1>1. IInv => TypeOK
  BY DEF IInv
<1> QED
  BY Inductive, <1>1, PTL

\* DELETE /account, however many requests are let in, sends one job at most for
\* each process that may have loaded the account before the first COMMIT.
THEOREM JobsSentAtMostProcesses == Spec => []EnqueuedAtMostProcesses
<1>1. IInv => EnqueuedAtMostProcesses
  <2> SUFFICES ASSUME IInv, NEW u \in Users PROVE enqueued[u] <= Processes
    BY DEF EnqueuedAtMostProcesses
  <2> QED
    BY OpenOf, ErasureAssumption DEF IInv, TypeOK, RequestInv
<1> QED
  BY Inductive, <1>1, PTL

\* US-005 AC-7 in the deployment of one container: the job is sent once at most.
COROLLARY JobSentAtMostOnce ==
    ASSUME Processes = 1
    PROVE  Spec => [](\A u \in Users : enqueued[u] <= 1)
<1>1. EnqueuedAtMostProcesses => \A u \in Users : enqueued[u] <= 1
  BY DEF EnqueuedAtMostProcesses
<1> QED
  BY JobsSentAtMostProcesses, <1>1, PTL

\* purge_user_pii leaves a placeholder made of the stored id, and no row beside it.
THEOREM PlaceholderCorrect == Spec => []PlaceholderIsTheirs
<1>1. IInv => PlaceholderIsTheirs
  BY DEF IInv, PlaceholderInv, PlaceholderIsTheirs
<1> QED
  BY Inductive, <1>1, PTL

\* Rule 11: ensure_anonymous_id never replaces an id, unless two jobs of the user
\* computed it at the same time and the secret was rotated.
THEOREM AnonymousIdStable == Spec => AnonymousIdIsStable
<1>1. ASSUME IInv, [Next]_vars, NEW u \in Users, anonId[u] # NoId, ~Torn(u)
      PROVE  anonId'[u] = anonId[u]
  <2>1. ASSUME NEW v \in Users, NEW j \in Jobs, CommitAnonymousId(v, j)
        PROVE  anonId'[u] = anonId[u]
    <3>1. CASE v # u
      BY <2>1, <3>1 DEF CommitAnonymousId, IInv, TypeOK
    <3>2. CASE v = u
      <4>0. job[v][j] = "computed"
        BY <2>1, Zenon DEF CommitAnonymousId, GotoJob
      <4>1. job[u][j] = "computed" /\ ids[u][j] # NoId
        BY <1>1, <2>1, <3>2, <4>0 DEF IInv, IdInv
      <4>2. u \in overlapped
        BY <1>1, <4>1 DEF IInv, ComputeInv
      <4>3. anonId[u] = ids[u][j]
        BY <1>1, <4>1, <4>2, ErasureAssumption DEF IInv, TypeOK, IdInv, Id, NoId, Torn
      <4> QED
        BY <2>1, <3>2, <4>3 DEF CommitAnonymousId, IInv, TypeOK
    <3> QED
      BY <3>1, <3>2
  <2>2. CASE UNCHANGED anonId
    BY <2>2
  <2> QED
    BY <1>1, <2>1, <2>2
    DEF Next, DeleteAccount, ScanAndDispatch, EraseUserPii, Fault, Accept,
        LoadAccount, InitiateDeletion, CommitDeletion, DeletionFails,
        SendErasureJob, SendFails, ThirtyDaysPass,
        DispatchErasureJob, Deliver, ReadAnonymousId, ComputeAnonymousId, PurgePii, Ack, Retry, GiveUp, Crash,
        Interrupt, RotateSecret, row, vars
<1>2. IInv /\ [Next]_vars =>
        [\A u \in Users : anonId[u] # NoId /\ ~Torn(u) => anonId'[u] = anonId[u]]_vars
  BY <1>1
<1> QED
  BY Inductive, <1>2, PTL DEF Spec, AnonymousIdIsStable

-----------------------------------------------------------------------------
(* The refinement of ErasurePromise: initial states and steps.             *)

LEMMA InitRefines == Init => Promise!Init
  BY DEF Init, Promise!Init, phase, Erased

\* An action that leaves a user's row alone, or changes what phase does not see.
LEMMA PhaseDepends ==
    ASSUME UNCHANGED <<age, anonId, placeholder, related>>
    PROVE  UNCHANGED phase
  BY DEF phase, Erased

LEMMA StepRefines == IInv /\ [Next]_vars => [Promise!Next]_phase
<1> SUFFICES ASSUME IInv, [Next]_vars PROVE [Promise!Next]_phase
  OBVIOUS
<1> USE DEF IInv, TypeOK
<1>1. ASSUME NEW u \in Users, NEW q \in Requests, CommitDeletion(u, q)
      PROVE  [Promise!Next]_phase
  <2>0. age[u] # "due" /\ ~Erased(u) /\ anonId[u] = NoId
    BY <1>1 DEF CommitDeletion, GotoRequest, DueInv, PlaceholderInv, Erased
  <2>1. CASE age[u] = "none"
    <3>1. phase[u] = "active" /\ phase' = [phase EXCEPT ![u] = "deleted"]
      BY <1>1, <2>0, <2>1 DEF CommitDeletion, phase, Erased
    <3> QED
      BY <3>1 DEF Promise!Next, Promise!Delete, Promise!Advance
  <2>2. CASE age[u] = "recent"
    <3>1. UNCHANGED <<age, anonId, placeholder, related>>
      BY <1>1, <2>2 DEF CommitDeletion
    <3> QED
      BY <3>1, PhaseDepends
  <2> QED
    BY <2>0, <2>1, <2>2
<1>2. ASSUME NEW u \in Users, ThirtyDaysPass(u)
      PROVE  [Promise!Next]_phase
  <2>1. ~Erased(u) /\ anonId[u] = NoId
    BY <1>2 DEF ThirtyDaysPass, DueInv, PlaceholderInv, Erased
  <2>2. phase[u] = "deleted" /\ phase' = [phase EXCEPT ![u] = "due"]
    BY <1>2, <2>1 DEF ThirtyDaysPass, phase, Erased
  <2> QED
    BY <2>2 DEF Promise!Next, Promise!BecomeDue, Promise!Advance
<1>3. ASSUME NEW u \in Users, NEW j \in Jobs, CommitAnonymousId(u, j)
      PROVE  [Promise!Next]_phase
  <2>1. age[u] = "due" /\ ids[u][j] # NoId
    BY <1>3 DEF CommitAnonymousId, GotoJob, DueInv, IdInv
  <2>2. CASE anonId[u] = NoId
    <3>1. ~Erased(u)
      BY <2>2 DEF PlaceholderInv, Erased
    <3>2. phase[u] = "due" /\ phase' = [phase EXCEPT ![u] = "pseudonymous"]
      BY <1>3, <2>1, <2>2, <3>1 DEF CommitAnonymousId, phase, Erased
    <3> QED
      BY <3>2 DEF Promise!Next, Promise!Pseudonymise, Promise!Advance
  <2>3. CASE anonId[u] # NoId
    <3>1. UNCHANGED phase
      BY <1>3, <2>1, <2>3 DEF CommitAnonymousId, phase, Erased
    <3> QED
      BY <3>1
  <2> QED
    BY <2>2, <2>3
<1>4. ASSUME NEW u \in Users, NEW j \in Jobs, PurgePii(u, j)
      PROVE  [Promise!Next]_phase
  <2>1. anonId[u] # NoId /\ ids[u][j] # NoId
    BY <1>4 DEF PurgePii, GotoJob, IdInv
  <2>2. CASE Erased(u)
    <3>1. UNCHANGED phase
      BY <1>4, <2>1, <2>2 DEF PurgePii, phase, Erased
    <3> QED
      BY <3>1
  <2>3. CASE ~Erased(u)
    <3>1. phase[u] = "pseudonymous" /\ phase' = [phase EXCEPT ![u] = "erased"]
      BY <1>4, <2>1, <2>3 DEF PurgePii, phase, Erased
    <3> QED
      BY <3>1 DEF Promise!Next, Promise!Erase, Promise!Advance
  <2> QED
    BY <2>2, <2>3
<1>5. CASE UNCHANGED <<age, anonId, placeholder, related>>
  BY <1>5, PhaseDepends
<1> QED
  BY <1>1, <1>2, <1>3, <1>4, <1>5
  DEF Next, DeleteAccount, ScanAndDispatch, EraseUserPii, Fault, Accept,
      LoadAccount, InitiateDeletion, DeletionFails, SendErasureJob, SendFails, DispatchErasureJob, Deliver, ReadAnonymousId,
      ComputeAnonymousId, Ack, Retry, GiveUp,
      Crash, Interrupt, RotateSecret, row, vars

\* The safety half of PromiseKept: deletion, the thirty days, the anonymous id and
\* the purge come in this order, once each, and none is undone.
THEOREM PromiseSafety == Spec => Promise!Init /\ [][Promise!Next]_phase
  BY InitRefines, Inductive, StepRefines, PTL DEF Spec

-----------------------------------------------------------------------------
\* Nobody is erased, and no job of the erasure task exists.
NobodyErased ==
    \A u \in Users :
        /\ ~Erased(u)
        /\ placeholder[u] = NoId /\ related[u] /\ anonId[u] = NoId
        /\ \A j \in Jobs : job[u][j] = "free"

\* Where the deployment runs no beat task no account is ever erased, however many
\* were deleted and however long ago: the job that DELETE /account sends is of a
\* task no worker knows.  SentJobErases fails for every set of users, not only in
\* the instance of the run gdpr_sent_job.
THEOREM SentJobsEraseNobody ==
    ASSUME ~BeatScheduled
    PROVE  Spec => []NobodyErased
<1>1. Init => NobodyErased
  <2> SUFFICES ASSUME Init, NEW u \in Users
               PROVE  /\ placeholder[u] = NoId /\ related[u] /\ anonId[u] = NoId
                      /\ \A j \in Jobs : job[u][j] = "free"
    BY DEF NobodyErased, Erased
  <2>1. placeholder[u] = NoId /\ related[u] /\ anonId[u] = NoId
    BY DEF Init
  <2>2. \A j \in Jobs : job[u][j] = "free"
    BY DEF Init
  <2> QED
    BY <2>1, <2>2
<1>2. ASSUME NobodyErased, [Next]_vars
      PROVE  NobodyErased'
  <2> USE <1>2 DEF NobodyErased, Erased, row, worker
  <2>1. ASSUME NEW u \in Users, NEW q \in Requests, DeleteAccount(u, q)
        PROVE  NobodyErased'
    BY <2>1 DEF DeleteAccount, Accept, LoadAccount, InitiateDeletion, CommitDeletion,
                DeletionFails, SendErasureJob, SendFails
  <2>2. ASSUME NEW u \in Users, ThirtyDaysPass(u)
        PROVE  NobodyErased'
    BY <2>2 DEF ThirtyDaysPass
  <2>3. ASSUME NEW u \in Users
        PROVE  ~ScanAndDispatch(u)
    BY DEF ScanAndDispatch, DispatchErasureJob
  <2>4. ASSUME NEW u \in Users, NEW j \in Jobs
        PROVE  ~EraseUserPii(u, j) /\ ~Fault(u, j)
    BY DEF EraseUserPii, Deliver, ReadAnonymousId, ComputeAnonymousId,
           CommitAnonymousId, PurgePii, Ack, GotoJob,
           Fault, Retry, GiveUp, Crash, Interrupt, Running
  <2>5. CASE RotateSecret \/ UNCHANGED vars
    BY <2>5 DEF RotateSecret, vars
  <2> QED
    BY <2>1, <2>2, <2>3, <2>4, <2>5 DEF Next
<1> QED
  BY <1>1, <1>2, PTL DEF Spec
=============================================================================
