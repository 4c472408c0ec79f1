---------------------------- MODULE Corrections ----------------------------
(***************************************************************************)
(* Corrections of the symbols of one drawing, the page that shows them,    *)
(* and the training consent of its owner.                                  *)
(*                                                                         *)
(* The symbol routes are plain functions: FastAPI runs each of them in a   *)
(* thread, on a session of its own.  Their transactions interleave         *)
(* statement by statement at READ COMMITTED, so each statement here is an  *)
(* action, and what a transaction writes appears at its COMMIT.  A row     *)
(* that it has updated stays locked until then.  The consent route is a    *)
(* coroutine without an await: the processes of the API run one each.      *)
(*                                                                         *)
(*   owner     the user or team that owns the drawing                      *)
(*   state     drawing.processing_state                                    *)
(*   row       detected_symbol, committed                                  *)
(*   history   user_correction, in the order of the commits                *)
(*   records   ml_training_consent                                         *)
(*   place     the statement each call of a symbol route has last executed *)
(*   session   what the call knows: its request, the row it has loaded,    *)
(*             the consent it has read, the state of the drawing that its  *)
(*             conditional UPDATE has found, and three history fields: how *)
(*             many corrections were committed when it loaded the row, and *)
(*             out, that the owner had opted out when the call began, and  *)
(*             has not asked to opt in since                               *)
(*   answer    what each GET has read: the symbols, their number, and how  *)
(*             many of the corrections                                     *)
(*   patch     the calls of PATCH /account/consent                         *)
(*   optedOut  users with an answered opt-out and no opt-in asked for      *)
(*             since (history)                                             *)
(***************************************************************************)
EXTENDS Naturals, Sequences, FiniteSets

CONSTANTS Users, Teams, Symbols, Classes,
          Role,      \* user.role of each user
          TeamOf,    \* user.team_id, NoTeam for none
          NoTeam,
          Owners,    \* who may own the drawing
          Detected,  \* symbols of the drawing that the model has found
          TeamConsent, \* consent records of teams: data, no code writes them
          Requests,  \* the bodies that clients send to the symbol routes
          Consents,  \* those that they send to PATCH /account/consent
          Calls,     \* calls of the symbol routes
          Patches,   \* calls of PATCH /account/consent
          Processes  \* API processes

\* What the schemas of the two symbol routes let through; "page" stands for GET.
Request == [user   : Users,
            type   : {"reclassify", "reject", "restore", "manual_add", "page"},
            symbol : Symbols,
            class  : Classes]

\* One consent record: whose it is, and the call that inserted it.
Record == [of : Users \cup Teams, id : Patches \cup {"first"}, optedIn : BOOLEAN]

ASSUME CorrectionsAssumption ==
    /\ IsFiniteSet(Calls) /\ IsFiniteSet(Patches) /\ IsFiniteSet(Symbols)
    /\ IsFiniteSet(TeamConsent)
    /\ Role \in [Users -> {"user", "team_member", "team_admin"}]
    /\ TeamOf \in [Users -> Teams \cup {NoTeam}]
    /\ NoTeam \notin Users \cup Teams
    /\ Users \cap Teams = {}
    /\ Owners \subseteq Users \cup Teams
    /\ Classes # {}
    /\ Detected \subseteq Symbols
    /\ TeamConsent \subseteq [of : Teams, id : {"first"}, optedIn : BOOLEAN]
    /\ Requests \subseteq Request /\ Requests # {}
    /\ Consents \subseteq [user : Users, optedIn : BOOLEAN] /\ Consents # {}
    /\ Processes \in Nat \ {0}

VARIABLES owner, state, row, history, records, place, session, answer, patch, optedOut

drawing  == <<owner, state, row, history>>
calls    == <<place, session, answer>>
consents == <<records, patch, optedOut>>
vars     == <<drawing, calls, consents>>

State == {"Processing", "Complete", "Under_Review"}

Row == [stored : BOOLEAN, rejected : BOOLEAN, class : Classes, source : {"ml", "manual"}]

Session == [request : Requests, loaded : Row, consent : BOOLEAN, found : State,
            seen : Nat, out : BOOLEAN]

Correction == [by : Calls, symbol : Symbols, session : Session]

Answer == [rows : [Symbols -> Row], total : Nat, corrections : Nat]

Patch == [place : {"idle", "locked", "done"}, body : Consents, record : SUBSET Record]

Place == { "idle", "loaded",
           "resolved", "transitioned", "flushed", "committed",  \* corrections
           "counted", "paged", "answered",                      \* GET
           "refused", "failed" }

TypeOK ==
    /\ owner \in Owners
    /\ state \in State
    /\ row \in [Symbols -> Row]
    /\ history \in Seq(Correction)
    /\ records \subseteq Record
    /\ place \in [Calls -> Place]
    /\ session \in [Calls -> Session]
    /\ answer \in [Calls -> Answer]
    /\ patch \in [Patches -> Patch]
    /\ optedOut \subseteq Users

-----------------------------------------------------------------------------
(* Helpers                                                                 *)

NewRow == [stored |-> FALSE, rejected |-> FALSE,
           class |-> CHOOSE k \in Classes : TRUE, source |-> "ml"]

NoSession == [request |-> CHOOSE r \in Requests : TRUE, loaded |-> NewRow,
              consent |-> FALSE, found |-> "Processing", seen |-> 0, out |-> FALSE]

NoPatch == [place |-> "idle", body |-> CHOOSE b \in Consents : TRUE, record |-> {}]

Goto(c, from, to) ==
    /\ place[c] = from
    /\ place' = [place EXCEPT ![c] = to]

Stored(rows) == {s \in Symbols : rows[s].stored}

RecordsOf(k) == {r \in records : r.of = k}

-----------------------------------------------------------------------------
(* Plausible bugs, each paired with the property it breaks.                *)

\* The UPDATE of the drawing has no WHERE processing_state = 'Complete'.
Moves_Unconditional(c) == TRUE

\* A restore is recorded and not applied.
Applied_RestoreForgotten(r, old) ==
    CASE r.type = "reclassify" -> [old EXCEPT !.class = r.class]
      [] r.type = "reject"     -> [old EXCEPT !.rejected = TRUE]
      [] OTHER                 -> old

\* The page answers with the corrections that were there when the call began.
ReadCorrections_BeforeSymbols(c) ==
    /\ Goto(c, "paged", "answered")
    /\ answer' = [answer EXCEPT ![c].corrections = session[c].seen]
    /\ session' = [session EXCEPT ![c] = NoSession]
    /\ UNCHANGED <<drawing, consents>>

\* Set once, a record stays as it is: INSERT ... ON CONFLICT DO NOTHING.
Upserted_KeepsRecord(p) ==
    IF patch[p].record = {}
    THEN records \cup {[of |-> patch[p].body.user, id |-> p, optedIn |-> patch[p].body.optedIn]}
    ELSE records

\* Every change of mind is a new record.
Upserted_AlwaysInserts(p) ==
    records \cup {[of |-> patch[p].body.user, id |-> p, optedIn |-> patch[p].body.optedIn]}

\* The record is inserted for the request, not for its user.
Upserted_ForRequest(p) ==
    (records \ patch[p].record) \cup {[of |-> p, id |-> p, optedIn |-> patch[p].body.optedIn]}

-----------------------------------------------------------------------------
(* Who may do what                                                         *)

\* The rows "symbol_correct" and "drawing_view" of the matrix, which are the same.
Permission == [user |-> {"own"}, team_member |-> {"own", "team"},
               team_admin |-> {"own", "team"}]

ResolveOwnership(u) ==
    CASE owner = u         -> "own"
      [] owner = TeamOf[u] -> "team"
      [] OTHER             -> "none"

MayAccess(u) == ResolveOwnership(u) \in Permission[Role[u]]

-----------------------------------------------------------------------------
(* What the statements see and write                                       *)

\* What correction_service resolves: the consent of the drawing's owner, user or
\* team.  Which record of several answers is anybody's guess.
ConsentOf(k) ==
    IF RecordsOf(k) = {} THEN {FALSE} ELSE {r.optedIn : r \in RecordsOf(k)}

\* What consent_service resolves for a user is the record of the team, if there is
\* one, and the user's own only if there is none.
TeamDecides(u) == u \in Users /\ RecordsOf(TeamOf[u]) # {}

\* The session's copy of the row after the correction, as SQLAlchemy compares it
\* with the row that was loaded: an attribute that is set to what it was is not
\* written.
Applied(r, old) ==
    CASE r.type = "reclassify" -> [old EXCEPT !.class = r.class]
      [] r.type = "reject"     -> [old EXCEPT !.rejected = TRUE]
      [] r.type = "restore"    -> [old EXCEPT !.rejected = FALSE]
      [] OTHER                 -> old

Writes(c) ==
    LET now == session[c] IN
    now.request.type # "manual_add" /\ Applied(now.request, now.loaded) # now.loaded

\* The conditional UPDATE of the drawing has matched.
Moves(c) == session[c].found = "Complete"

HoldsDrawing(c) == place[c] \in {"transitioned", "flushed"} /\ Moves(c)

HoldsSymbol(c, s) ==
    place[c] = "flushed" /\ Writes(c) /\ session[c].request.symbol = s

-----------------------------------------------------------------------------
Init ==
    /\ owner \in Owners
    /\ state \in {"Processing", "Complete"}
    /\ row = [s \in Symbols |-> [NewRow EXCEPT !.stored = (s \in Detected)]]
    /\ history = <<>>
    /\ records = TeamConsent
    /\ place = [c \in Calls |-> "idle"]
    /\ session = [c \in Calls |-> NoSession]
    /\ answer = [c \in Calls |-> [rows |-> [s \in Symbols |-> NewRow], total |-> 0,
                                  corrections |-> 0]]
    /\ patch = [p \in Patches |-> NoPatch]
    /\ optedOut = {}

-----------------------------------------------------------------------------
(* create_correction, create_manual_symbol and get_symbols_page            *)

\* The symbol and its drawing are loaded, and the access is checked: 404 for a
\* symbol that is not there, 403 for a drawing of somebody else.
Load(c) ==
    /\ \E r \in Requests :
        IF (r.type \in {"manual_add", "page"} \/ row[r.symbol].stored) /\ MayAccess(r.user)
        THEN /\ Goto(c, "idle", "loaded")
             /\ session' = [session EXCEPT ![c] =
                    [NoSession EXCEPT !.request = r, !.loaded = row[r.symbol],
                                      !.seen = Len(history), !.out = (owner \in optedOut)]]
             /\ UNCHANGED <<drawing, answer, consents>>
        ELSE /\ Goto(c, "idle", "refused")
             /\ UNCHANGED <<drawing, session, answer, consents>>

ResolveTrainingConsent(c) ==
    /\ session[c].request.type # "page"
    /\ Goto(c, "loaded", "resolved")
    /\ \E b \in ConsentOf(owner) : session' = [session EXCEPT ![c].consent = b]
    /\ UNCHANGED <<drawing, answer, consents>>

\* The UPDATE of a drawing that another transaction has updated waits for its end,
\* and looks at the state again.
TransitionToUnderReview(c) ==
    /\ \A d \in Calls : ~HoldsDrawing(d)
    /\ Goto(c, "resolved", "transitioned")
    /\ session' = [session EXCEPT ![c].found = state]
    /\ UNCHANGED <<drawing, answer, consents>>

\* The UPDATE of the symbol, if there is one, and the INSERT of the correction.
Flush(c) ==
    /\ Writes(c) => \A d \in Calls : ~HoldsSymbol(d, session[c].request.symbol)
    /\ Goto(c, "transitioned", "flushed")
    /\ UNCHANGED <<drawing, session, answer, consents>>

\* COMMIT: the symbol, its correction and the state of the drawing together.  The
\* UPDATE names the one column that differs; a manual symbol is a new row.
Commit(c) ==
    /\ Goto(c, "flushed", "committed")
    /\ LET r == session[c].request
           Recorded(s) == Append(history, [by |-> c, symbol |-> s, session |-> session[c]])
       IN  IF r.type = "manual_add"
           THEN \E s \in Symbols \ Stored(row) :
                   /\ row' = [row EXCEPT ![s] = [stored |-> TRUE, rejected |-> FALSE,
                                                class |-> r.class, source |-> "manual"]]
                   /\ history' = Recorded(s)
           ELSE /\ row' = IF Writes(c) THEN [row EXCEPT ![r.symbol] = Applied(r, @)] ELSE row
                /\ history' = Recorded(r.symbol)
    /\ state' = IF Moves(c) THEN "Under_Review" ELSE state
    /\ session' = [session EXCEPT ![c] = NoSession]
    /\ UNCHANGED <<owner, answer, consents>>

\* A statement fails, or the process dies: the transaction is rolled back.
Rollback(c) ==
    /\ place[c] \in {"loaded", "resolved", "transitioned", "flushed", "counted", "paged"}
    /\ place' = [place EXCEPT ![c] = "failed"]
    /\ session' = [session EXCEPT ![c] = NoSession]
    /\ UNCHANGED <<drawing, answer, consents>>

CountSymbols(c) ==
    /\ session[c].request.type = "page"
    /\ Goto(c, "loaded", "counted")
    /\ answer' = [answer EXCEPT ![c].total = Cardinality(Stored(row))]
    /\ UNCHANGED <<drawing, session, consents>>

ReadPage(c) ==
    /\ Goto(c, "counted", "paged")
    /\ answer' = [answer EXCEPT ![c].rows = row]
    /\ UNCHANGED <<drawing, session, consents>>

ReadCorrections(c) ==
    /\ Goto(c, "paged", "answered")
    /\ answer' = [answer EXCEPT ![c].corrections = Len(history)]
    /\ session' = [session EXCEPT ![c] = NoSession]
    /\ UNCHANGED <<drawing, consents>>

-----------------------------------------------------------------------------
(* PATCH /account/consent                                                  *)

Locked(u) == {q \in Patches : patch[q].place = "locked" /\ patch[q].body.user = u}

\* set_user_consent, SELECT ... FOR UPDATE: waits for a call that has locked the
\* records of the user.  Where there is none yet, nothing is locked.
SelectForUpdate(p) ==
    /\ patch[p].place = "idle"
    /\ Cardinality({q \in Patches : patch[q].place = "locked"}) < Processes
    /\ \E b \in Consents :
          LET mine == RecordsOf(b.user) IN
          /\ \A q \in Locked(b.user) : patch[q].record = {}
          /\ \E rs \in IF mine = {} THEN {{}} ELSE {{r} : r \in mine} :
                patch' = [patch EXCEPT ![p] = [place |-> "locked", body |-> b, record |-> rs]]
          /\ IF b.optedIn
             THEN /\ optedOut' = optedOut \ {b.user}
                  /\ session' = [c \in Calls |->
                        [session[c] EXCEPT !.out = (@ /\ owner # b.user)]]
             ELSE UNCHANGED <<optedOut, session>>
    /\ UNCHANGED <<drawing, place, answer, records>>

\* The consent records after the call: its record updated, or a new one.
Upserted(p) ==
    LET b == patch[p].body
    IN  IF patch[p].record = {}
        THEN records \cup {[of |-> b.user, id |-> p, optedIn |-> b.optedIn]}
        ELSE (records \ patch[p].record)
                \cup {[r EXCEPT !.optedIn = b.optedIn] : r \in patch[p].record}

\* The INSERT or UPDATE, and its COMMIT.
PatchConsent(p) ==
    LET b == patch[p].body IN
    /\ patch[p].place = "locked"
    /\ records' = Upserted(p)
    /\ patch' = [patch EXCEPT ![p] = [NoPatch EXCEPT !.place = "done"]]
    /\ optedOut' = IF \A q \in Locked(b.user) : ~patch[q].body.optedIn
                   THEN optedOut \cup {b.user} ELSE optedOut
    /\ UNCHANGED <<drawing, calls>>

\* The transaction fails, or the process dies.
PatchFails(p) ==
    /\ patch[p].place = "locked"
    /\ patch' = [patch EXCEPT ![p] = [NoPatch EXCEPT !.place = "done"]]
    /\ UNCHANGED <<drawing, calls, records, optedOut>>

-----------------------------------------------------------------------------
\* The ML worker ends the processing of the drawing.
ProcessingCompletes ==
    /\ state = "Processing"
    /\ state' = "Complete"
    /\ UNCHANGED <<owner, row, history, calls, consents>>

Correct(c) ==
    ResolveTrainingConsent(c) \/ TransitionToUnderReview(c) \/ Flush(c) \/ Commit(c)

GetPage(c) == CountSymbols(c) \/ ReadPage(c) \/ ReadCorrections(c)

\* No call is under way.  With it a deadlock is a call that waits for good.
Over ==
    /\ \A c \in Calls :
          place[c] \in {"idle", "committed", "answered", "refused", "failed"}
    /\ UNCHANGED vars

Next ==
    \/ \E c \in Calls : Load(c) \/ Correct(c) \/ GetPage(c) \/ Rollback(c)
    \/ \E p \in Patches : SelectForUpdate(p) \/ PatchConsent(p) \/ PatchFails(p)
    \/ ProcessingCompletes
    \/ Over

Spec == Init /\ [][Next]_vars

-----------------------------------------------------------------------------
(* Properties                                                              *)

Type(i)   == history[i].session.request.type
NewClass(i) == history[i].session.request.class

\* Two corrections of one symbol that set the same column.
SameColumn(i, j) ==
    /\ history[i].symbol = history[j].symbol
    /\ \/ {Type(i), Type(j)} \subseteq {"reject", "restore"}
       \/ {Type(i), Type(j)} \subseteq {"reclassify", "manual_add"}

\* The symbol shows what the latest correction of it has set, unless that call had
\* loaded the symbol before an earlier correction was committed.  (Then it may have
\* written nothing, for the symbol looked to it as the user wanted it.)
LastCorrectionStands ==
    \A i \in DOMAIN history :
        \/ \E j \in DOMAIN history : j > i /\ SameColumn(i, j)
        \/ \E j \in DOMAIN history : history[i].session.seen < j /\ j < i /\ SameColumn(i, j)
        \/ CASE Type(i) = "reject"  -> row[history[i].symbol].rejected
             [] Type(i) = "restore" -> ~row[history[i].symbol].rejected
             [] OTHER               -> row[history[i].symbol].class = NewClass(i)

\* One correction, and only one, takes a drawing from Complete to Under_Review; a
\* drawing that is not Under_Review has only corrections that were made before the
\* processing was complete.
FirstCorrectionMovesDrawing ==
    LET found(i) == history[i].session.found IN
    /\ \A i, j \in DOMAIN history : found(i) = "Complete" /\ found(j) = "Complete" => i = j
    /\ state = "Under_Review" <=> \E i \in DOMAIN history : found(i) = "Complete"
    /\ state # "Under_Review" => \A i \in DOMAIN history : found(i) = "Processing"

Explained(r, s, n) ==
    LET By(i, types) == history[i].symbol = s /\ Type(i) \in types IN
    /\ r.rejected => \E i \in 1..n : By(i, {"reject"})
    /\ r.source = "manual" => \E i \in 1..n : By(i, {"manual_add"})
    /\ r.class # NewRow.class =>
          \E i \in 1..n : By(i, {"reclassify", "manual_add"}) /\ NewClass(i) = r.class

\* The three SELECTs of the page are three snapshots.  All the same the history that
\* comes with the page explains every symbol on it, and the page has the symbols that
\* were counted.
PageIsExplained ==
    \A c \in Calls : place[c] = "answered" =>
        /\ answer[c].corrections <= Len(history)
        /\ answer[c].total <= Cardinality(Stored(answer[c].rows))
        /\ \A s \in Stored(answer[c].rows) :
              Explained(answer[c].rows[s], s, answer[c].corrections)

\* A correction that begins when the owner has opted out, and ends before he asks to
\* opt in, is not released for training.  That is said of an owner whose consent it
\* is by both resolutions, his team having no record, and as long as he has one.
OptOutIsRespected ==
    Cardinality(RecordsOf(owner)) <= 1 /\ ~TeamDecides(owner) =>
        \A i \in DOMAIN history : history[i].session.out => ~history[i].session.consent

\* FOR UPDATE locks the record that is there, and does not keep two calls from
\* inserting the first one: a user has as many records as there are processes to
\* insert them, at most.
RecordsAtMostProcesses ==
    \A u \in Users : Cardinality(RecordsOf(u)) <= Processes
=============================================================================
