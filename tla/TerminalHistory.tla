---------------------------- MODULE TerminalHistory ----------------------------
(***************************************************************************)
(* Saved terminals (apps/backend/internal/terminalhistory) together with   *)
(* the handlers that use them (apps/backend/internal/server) and the table *)
(* of PTY sessions they refer to.                                          *)
(*                                                                         *)
(* A step is one store transaction or one access to the session table; the *)
(* transaction of a poll takes several, and everyone else who needs the    *)
(* database waits for it (the pool has one connection). A row is           *)
(* identified by the session it was inserted for, which the schema keeps   *)
(* unique, and by a generation that tells a row from an earlier, deleted   *)
(* one of the same session.                                                *)
(***************************************************************************)
EXTENDS Naturals, FiniteSets, FiniteSetsExt

CONSTANTS
  Sessions,        \* session identifiers; how many there are bounds the sessions
  Openers,         \* concurrent openTerminalHistory requests
  MaxSessions,     \* sessions the manager keeps (64)
  MaxFavorites,    \* 100
  MaxRecent,       \* 10
  TicksPerSecond,  \* resolution of the modelled clock
  MaxEdits,        \* bound: edits by the user
  Environment,     \* subset of {"poll", "restart"}
  None

ASSUME HistoryAssumption ==
  /\ {MaxSessions, MaxFavorites, MaxRecent, TicksPerSecond} \subseteq Nat \ {0}
  /\ MaxEdits \in Nat
  /\ IsFiniteSet(Sessions)
  /\ None \notin Sessions

VARIABLES
  rows,      \* saved_terminals by source_session_id
  state,     \* each session's process
  table,     \* session.Manager.sessions
  started,   \* StartedAt
  ended,     \* EndedAt, 0 for nil
  ending,    \* sessions whose end observer has not run yet
  opening,   \* each open request, under openHistoryMu from Get to MarkOpened
  poll,      \* the session list of a history request, and its transaction's rows
  removed,   \* history: ended sessions whose row the user removed
  clock

sessionVars == <<state, table, started, ended, ending>>
vars == <<rows, sessionVars, opening, poll, removed, clock>>

Idle == [at |-> "idle"]

\* A time of 0 is SQL's NULL; shells is a history variable: every session that was
\* this terminal.
Row == [gen : {0, 1}, active : Sessions \cup {None}, favorite : BOOLEAN,
        updated : Nat, opened : Nat, closed : Nat, shells : SUBSET Sessions]
Table == [Sessions -> Row \cup {None}]

ASSUME NoneIsNoRow == None \notin Row

TypeOK ==
  /\ rows \in Table
  /\ state \in [Sessions -> {"new", "running", "stopping", "ended", "lost"}]
  /\ table \subseteq Sessions
  /\ started \in [Sessions -> Nat] /\ ended \in [Sessions -> Nat]
  /\ ending \subseteq Sessions
  /\ opening \in [Openers ->
       {Idle} \cup [at : {"read"}, source : Sessions, gen : {0, 1}, linked : Sessions]
              \cup [at : {"started"}, source : Sessions, gen : {0, 1}, session : Sessions]]
  /\ poll \in {Idle} \cup [at : {"listed"}, known : SUBSET Sessions, ended : SUBSET Sessions]
                     \cup [at : {"tx"}, known : SUBSET Sessions, todo : SUBSET Sessions,
                           rows : Table]
  /\ removed \subseteq Sessions
  /\ clock \in Nat

--------------------------------------------------------------------------------
(* Rows *)

\* The one connection is not in a poll's transaction.
DatabaseFree == poll.at # "tx"

Saved == {x \in Sessions : rows[x] # None}
Favorites(f) == {x \in Sessions : f[x] # None /\ f[x].favorite}
Recents(f) == {x \in Sessions : f[x] # None /\ ~f[x].favorite}

\* RFC 3339 with trailing zeros cut: the database compares these as text, where
\* "05Z" comes after every "05.1Z" of the same second. Zero stands for ''.
encodeTime(t) ==
  LET fraction == t % TicksPerSecond
  IN  IF t > 0 /\ fraction = 0 THEN t + TicksPerSecond ELSE t

\* MAX(updated_at, last_opened_at, COALESCE(last_closed_at, ''))
Activity(row) ==
  Max({encodeTime(row.updated), encodeTime(row.opened), encodeTime(row.closed)})

\* newID: an identifier no request in progress knows. There is at most one such
\* request, so two generations tell the rows of a session apart.
FreshGen(x) ==
  IF \E o \in Openers : opening[o] # Idle /\ opening[o].source = x /\ opening[o].gen = 0
  THEN 1 ELSE 0

Insert(f, x, favorite, updated, opened, closed) ==
  [f EXCEPT ![x] = [gen |-> FreshGen(x), active |-> None, favorite |-> favorite,
                    updated |-> updated, opened |-> opened, closed |-> closed,
                    shells |-> {x}]]

\* WHERE source_session_id=? OR active_session_id=? LIMIT 1. If two rows match, the
\* scan meets the row that reopened the session first: it is the older one.
findBySession(f, s) ==
  LET reopened == {x \in Sessions : f[x] # None /\ f[x].active = s}
  IN  IF reopened # {} THEN reopened ELSE {x \in {s} : f[x] # None}

\* Mutant: a row that was closed is closed again.
reconcileEnded_Again(f, s) ==
  IF findBySession(f, s) = {} THEN Insert(f, s, FALSE, ended[s], started[s], ended[s])
  ELSE LET x == CHOOSE y \in findBySession(f, s) : TRUE IN
       [f EXCEPT ![x].active = IF @ = s THEN None ELSE @,
                 ![x].closed = ended[s], ![x].updated = ended[s]]

reconcileEnded(f, s) ==
  IF findBySession(f, s) = {} THEN Insert(f, s, FALSE, ended[s], started[s], ended[s])
  ELSE LET x == CHOOSE y \in findBySession(f, s) : TRUE IN
       IF f[x].closed # 0 /\ f[x].active # s THEN f
       ELSE [f EXCEPT ![x].active = IF @ = s THEN None ELSE @,
                      ![x].closed = ended[s], ![x].updated = ended[s]]

\* Mutant: favorites compete with the others.
pruneRecent_All(f) ==
  LET all == Recents(f) \cup Favorites(f)
      newest == {K \in SUBSET all :
                   /\ Cardinality(K) = Min({MaxRecent, Cardinality(all)})
                   /\ \A x \in K, y \in all \ K : Activity(f[x]) >= Activity(f[y])}
  IN  {[x \in Sessions |-> IF x \in all \ K THEN None ELSE f[x]] : K \in newest}

\* What may be left: the MaxRecent most recently active non-favorites, ties broken
\* by the database.
pruneRecent(f) ==
  LET newest == {K \in SUBSET Recents(f) :
                   /\ Cardinality(K) = Min({MaxRecent, Cardinality(Recents(f))})
                   /\ \A x \in K, y \in Recents(f) \ K : Activity(f[x]) >= Activity(f[y])}
  IN  {[x \in Sessions |-> IF x \in Recents(f) \ K THEN None ELSE f[x]] : K \in newest}

\* Mutant: the column is set to a value that is not the empty one.
clearMissingActiveSessions_Null(f, known) ==
  [x \in Sessions |-> IF f[x] # None /\ f[x].active \notin known \cup {None}
                      THEN [f[x] EXCEPT !.active = "NULL"] ELSE f[x]]

clearMissingActiveSessions(f, known) ==
  [x \in Sessions |-> IF f[x] # None /\ f[x].active \notin known \cup {None}
                      THEN [f[x] EXCEPT !.active = None] ELSE f[x]]

--------------------------------------------------------------------------------
(* Sessions *)

\* The manager makes room by forgetting the oldest session that has ended.
makeRoom ==
  IF Cardinality(table) < MaxSessions THEN {table}
  ELSE {table \ {e} : e \in {x \in table : /\ state[x] = "ended"
                              /\ \A y \in table : state[y] = "ended" => started[x] <= started[y]}}

\* session.Manager.Start; it refuses when MaxSessions are running.
StartSession(s) ==
  /\ state[s] = "new"
  /\ \E left \in makeRoom : table' = left \cup {s}
  /\ clock' = clock + 1
  /\ state' = [state EXCEPT ![s] = "running"]
  /\ started' = [started EXCEPT ![s] = clock + 1]
  /\ UNCHANGED <<ended, ending>>

\* createWebSession or the control API.
Create(s) ==
  /\ StartSession(s)
  /\ UNCHANGED <<rows, opening, poll, removed>>

\* Session.capture sees the process end; the observer runs after the unlock.
Exit(s) ==
  /\ state[s] \in {"running", "stopping"}
  /\ clock' = clock + 1
  /\ state' = [state EXCEPT ![s] = "ended"]
  /\ ended' = [ended EXCEPT ![s] = clock + 1]
  /\ ending' = ending \cup {s}
  /\ UNCHANGED <<rows, table, started, opening, poll, removed>>

RecordEnded(s) ==
  /\ DatabaseFree /\ s \in ending
  /\ rows' \in pruneRecent(reconcileEnded(rows, s))
  /\ ending' = ending \ {s}
  /\ UNCHANGED <<state, table, started, ended, opening, poll, removed, clock>>

--------------------------------------------------------------------------------
(* listTerminalHistory: take the session list, then reconcile with it *)

PollList ==
  /\ "poll" \in Environment
  /\ poll = Idle
  /\ poll' = [at |-> "listed", known |-> table,
              ended |-> {s \in table : state[s] = "ended"}]
  /\ UNCHANGED <<rows, sessionVars, opening, removed, clock>>

\* Begin the transaction. The Info of each listed session was read after the list
\* was taken: a session may have ended meanwhile.
Reconcile ==
  /\ poll.at = "listed"
  /\ \E late \in SUBSET {s \in poll.known \ poll.ended : state[s] = "ended"} :
       poll' = [at |-> "tx", known |-> poll.known, todo |-> poll.ended \cup late, rows |-> rows]
  /\ UNCHANGED <<rows, sessionVars, opening, removed, clock>>

\* One iteration of the loop over the ended sessions; newer ones come first.
ReconcileNext ==
  /\ poll.at = "tx"
  /\ \E s \in poll.todo :
       /\ \A t \in poll.todo : started[t] <= started[s]
       /\ poll' = [poll EXCEPT !.todo = @ \ {s}, !.rows = reconcileEnded(@, s)]
  /\ UNCHANGED <<rows, sessionVars, opening, removed, clock>>

ReconcileCommit ==
  /\ poll.at = "tx" /\ poll.todo = {}
  /\ rows' \in pruneRecent(clearMissingActiveSessions(poll.rows, poll.known))
  /\ poll' = Idle
  /\ UNCHANGED <<sessionVars, opening, removed, clock>>

\* The request is cancelled or a statement fails: the deferred Rollback.
ReconcileRollback ==
  /\ poll.at = "tx"
  /\ poll' = Idle
  /\ UNCHANGED <<rows, sessionVars, opening, removed, clock>>

--------------------------------------------------------------------------------
(* The user's edits; each stamps the row with the present time and counts towards
   the bound MaxEdits *)

Stamped == {s \in Sessions : started[s] # 0}
Edit ==
  /\ DatabaseFree
  /\ clock < MaxEdits + Cardinality(Stamped) + Cardinality({s \in Stamped : ended[s] # 0})
  /\ clock' = clock + 1

\* favoriteSession: SaveSession(info, true).
SaveSession(s) ==
  /\ Edit
  /\ s \in table
  /\ LET found == findBySession(rows, s)
         x == CHOOSE y \in found : TRUE
     IN  /\ \/ found # {} /\ rows[x].favorite
            \/ Cardinality(Favorites(rows)) < MaxFavorites
         /\ rows' \in pruneRecent(
              IF found = {} THEN Insert(rows, s, TRUE, clock + 1, clock + 1, 0)
              ELSE [rows EXCEPT ![x].favorite = TRUE, ![x].updated = clock + 1])
  /\ removed' = removed \ {s}
  /\ UNCHANGED <<sessionVars, opening, poll>>

\* Mutant: nothing is pruned after a favorite was turned into a recent entry.
Update_NoPrune(x, favorite) ==
  /\ Edit
  /\ rows[x] # None
  /\ favorite /\ ~rows[x].favorite => Cardinality(Favorites(rows)) < MaxFavorites
  /\ rows' = [rows EXCEPT ![x].favorite = favorite, ![x].updated = clock + 1]
  /\ UNCHANGED <<sessionVars, opening, poll, removed>>

\* updateTerminalHistory: a new name, a new favorite flag, or both.
Update(x, favorite) ==
  /\ Edit
  /\ rows[x] # None
  /\ favorite /\ ~rows[x].favorite => Cardinality(Favorites(rows)) < MaxFavorites
  /\ rows' \in pruneRecent([rows EXCEPT ![x].favorite = favorite, ![x].updated = clock + 1])
  /\ UNCHANGED <<sessionVars, opening, poll, removed>>

\* renameWebSession: every row of the session, nothing is pruned.
RenameSession(s) ==
  /\ Edit
  /\ s \in table
  /\ rows' = [x \in Sessions |->
       IF rows[x] # None /\ (x = s \/ rows[x].active = s)
       THEN [rows[x] EXCEPT !.updated = clock + 1] ELSE rows[x]]
  /\ UNCHANGED <<sessionVars, opening, poll, removed>>

Delete(x) ==
  /\ Edit
  /\ rows[x] # None
  /\ rows' = [rows EXCEPT ![x] = None]
  /\ removed' = removed \cup {s \in rows[x].shells : state[s] = "ended" /\ s \notin ending}
  /\ UNCHANGED <<sessionVars, opening, poll>>

--------------------------------------------------------------------------------
(* openTerminalHistory *)

\* Lock openHistoryMu and read the row.
OpenRead(o, x) ==
  /\ DatabaseFree
  /\ \A p \in Openers : opening[p] = Idle
  /\ rows[x] # None
  /\ opening' = [opening EXCEPT ![o] =
       [at |-> "read", source |-> x, gen |-> rows[x].gen,
        linked |-> IF rows[x].active = None THEN x ELSE rows[x].active]]
  /\ UNCHANGED <<rows, sessionVars, poll, removed, clock>>

\* The linked session is running: return it. Or no shell can be started.
OpenReturn(o) ==
  /\ opening[o].at = "read"
  /\ opening' = [opening EXCEPT ![o] = Idle]
  /\ UNCHANGED <<rows, sessionVars, poll, removed, clock>>

OpenStart(o, s) ==
  /\ opening[o].at = "read"
  /\ ~(opening[o].linked \in table /\ state[opening[o].linked] \in {"running", "stopping"})
  /\ StartSession(s)
  /\ opening' = [opening EXCEPT ![o] = [at |-> "started", source |-> @.source,
                                        gen |-> @.gen, session |-> s]]
  /\ UNCHANGED <<rows, poll, removed>>

\* MarkOpened; a shell that cannot be linked to its row is stopped.
OpenMark(o) ==
  /\ DatabaseFree
  /\ opening[o].at = "started"
  /\ LET x == opening[o].source
         s == opening[o].session
     IN  \/ /\ rows[x] # None /\ rows[x].gen = opening[o].gen
            /\ rows' = [rows EXCEPT ![x].active = s, ![x].opened = started[s],
                                    ![x].updated = started[s], ![x].shells = @ \cup {s}]
            /\ UNCHANGED state
         \/ /\ state' = [state EXCEPT ![s] = IF @ = "running" THEN "stopping" ELSE @]
            /\ UNCHANGED rows
  /\ opening' = [opening EXCEPT ![o] = Idle]
  /\ UNCHANGED <<table, started, ended, ending, poll, removed, clock>>

--------------------------------------------------------------------------------
\* The daemon ends and starts again: its sessions and requests are gone.
Restart ==
  /\ "restart" \in Environment
  /\ table # {}
  /\ state' = [s \in Sessions |-> IF state[s] \in {"running", "stopping"} THEN "lost" ELSE state[s]]
  /\ table' = {} /\ ending' = {}
  /\ opening' = [o \in Openers |-> Idle] /\ poll' = Idle
  /\ UNCHANGED <<rows, started, ended, removed, clock>>

Init ==
  /\ rows = [x \in Sessions |-> None]
  /\ state = [s \in Sessions |-> "new"]
  /\ table = {} /\ ending = {} /\ removed = {}
  /\ started = [s \in Sessions |-> 0] /\ ended = [s \in Sessions |-> 0]
  /\ opening = [o \in Openers |-> Idle] /\ poll = Idle
  /\ clock = 0

Next ==
  \/ \E s \in Sessions : Create(s) \/ Exit(s) \/ RecordEnded(s) \/ SaveSession(s) \/ RenameSession(s)
  \/ \E x \in Sessions : Delete(x) \/ \E favorite \in BOOLEAN : Update(x, favorite)
  \/ \E o \in Openers : \/ \E x \in Sessions : OpenRead(o, x) \/ OpenStart(o, x)
                        \/ OpenReturn(o) \/ OpenMark(o)
  \/ PollList \/ Reconcile \/ ReconcileNext \/ ReconcileCommit \/ ReconcileRollback
  \/ Restart

Spec == Init /\ [][Next]_vars

--------------------------------------------------------------------------------
(* Properties *)

\* "Recent history keeps max 10 non-favorite entries. Favorites keep max 100
\* entries": whichever of the six writers came last.
Bounded ==
  Cardinality(Favorites(rows)) <= MaxFavorites /\ Cardinality(Recents(rows)) <= MaxRecent

\* "never pruned by Recent cleanup": a favorite goes only when the user removes it or
\* takes it off the favorites (the text order of times may then prune it at once).
FavoritesKept ==
  [][\A x \in Favorites(rows) : rows'[x] = None => Delete(x) \/ Update(x, FALSE)]_rows

\* "Polling must not rewrite timestamps": a closed terminal that is not open again
\* keeps its close time, although its earlier sessions are reconciled again and again.
ClosedOnce ==
  [][\A x \in Saved : rows[x].closed # 0 /\ rows[x].active = None /\ rows'[x] # None =>
       rows'[x].closed = rows[x].closed]_rows

\* "two fast taps cannot create orphaned duplicate shells": at most one of the
\* shells that were ever this terminal is running.
OneShell ==
  \A x \in Saved : Cardinality({s \in rows[x].shells : state[s] = "running"}) <= 1

\* "Remove ... from saved terminals?": a closed terminal the user removed does not
\* come back by itself.
RemovedStaysAway == \A s \in removed : rows[s] = None
================================================================================
