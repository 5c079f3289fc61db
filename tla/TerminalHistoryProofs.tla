------------------------ MODULE TerminalHistoryProofs -------------------------
(***************************************************************************)
(* Proofs about the saved terminals, for any number of sessions and        *)
(* requests and any limits.                                                *)
(***************************************************************************)
EXTENDS TerminalHistory, FiniteSetTheorems, TLAPS

--------------------------------------------------------------------------------
(* What the statements on rows do *)

\* A new row's generation.
LEMMA FreshGenType == ASSUME NEW x PROVE FreshGen(x) \in {0, 1}
BY DEF FreshGen

\* The row a session is found by is a saved one.
LEMMA FoundIsSaved ==
  ASSUME NEW f \in Table, NEW s \in Sessions, NEW x \in findBySession(f, s)
  PROVE  x \in Sessions /\ f[x] # None /\ f[x] \in Row
BY DEF findBySession, Table

\* A table that has every row of f, as much a favorite as it was, with no new
\* favorite, and with the rows that are closed and not open left alone.
Continues(f, g) ==
  \A x \in Sessions :
    /\ f[x] # None => g[x] # None /\ g[x].favorite = f[x].favorite
    /\ f[x] = None /\ g[x] # None => g[x].favorite = FALSE
    /\ f[x] # None /\ f[x].closed # 0 /\ f[x].active = None => g[x] = f[x]

\* A table continues itself.
LEMMA ContinuesSelf == ASSUME NEW f PROVE Continues(f, f)
BY DEF Continues

\* Two transactions in a row.
LEMMA ContinuesTrans ==
  ASSUME NEW f, NEW g, NEW h, Continues(f, g), Continues(g, h)
  PROVE  Continues(f, h)
BY DEF Continues

\* reconcileEnded closes the row of a session or inserts one.
LEMMA ReconcileEndedRows ==
  ASSUME TypeOK, NEW f \in Table, NEW s \in Sessions
  PROVE  reconcileEnded(f, s) \in Table /\ Continues(f, reconcileEnded(f, s))
<1> USE HistoryAssumption
<1>t. ended[s] \in Nat /\ started[s] \in Nat
  BY DEF TypeOK
<1>1. CASE findBySession(f, s) = {}
  <2> DEFINE g == Insert(f, s, FALSE, ended[s], started[s], ended[s])
  <2>1. reconcileEnded(f, s) = g
    BY <1>1 DEF reconcileEnded
  <2>2. f[s] = None
    BY <1>1 DEF findBySession
  <2>3. /\ g \in Table /\ g[s] # None /\ g[s].favorite = FALSE
        /\ \A y \in Sessions \ {s} : g[y] = f[y]
    <3> DEFINE row == [gen |-> FreshGen(s), active |-> None, favorite |-> FALSE,
                       updated |-> ended[s], opened |-> started[s], closed |-> ended[s],
                       shells |-> {s}]
    <3>1. row \in Row /\ row.favorite = FALSE
      BY <1>t, FreshGenType DEF Row
    <3>2. row # None
      BY <3>1, NoneIsNoRow
    <3>3. g = [f EXCEPT ![s] = row]
      BY DEF Insert
    <3> HIDE DEF row, g
    <3>4. g \in Table /\ g[s] = row /\ \A y \in Sessions \ {s} : g[y] = f[y]
      BY <3>1, <3>3 DEF Table
    <3> QED BY <3>1, <3>2, <3>4
  <2> HIDE DEF g
  <2> QED BY <2>1, <2>2, <2>3 DEF Continues
<1>2. CASE findBySession(f, s) # {}
  <2> DEFINE x == CHOOSE y \in findBySession(f, s) : TRUE
  <2>1. x \in findBySession(f, s)
    BY <1>2
  <2> HIDE DEF x
  <2>2. x \in Sessions /\ f[x] # None /\ f[x] \in Row
    BY <2>1, FoundIsSaved
  <2>3. CASE f[x].closed # 0 /\ f[x].active # s
    <3>1. reconcileEnded(f, s) = f
      BY <1>2, <2>3 DEF reconcileEnded, x
    <3> QED BY <3>1, ContinuesSelf
  <2>4. CASE ~(f[x].closed # 0 /\ f[x].active # s)
    <3> DEFINE row == [f[x] EXCEPT !.active = IF @ = s THEN None ELSE @,
                                   !.closed = ended[s], !.updated = ended[s]]
    <3>1. reconcileEnded(f, s) = [f EXCEPT ![x] = row]
      BY <1>2, <2>2, <2>4 DEF reconcileEnded, x, Table
    <3>2. row \in Row /\ row.favorite = f[x].favorite
      BY <1>t, <2>2 DEF Row
    <3>3. row # None
      BY <3>2, NoneIsNoRow
    <3>4. ~(f[x].closed # 0 /\ f[x].active = None)
      BY <2>4
    <3> HIDE DEF row
    <3> DEFINE g == reconcileEnded(f, s)
    <3>5. g \in Table /\ g[x] = row /\ \A y \in Sessions \ {x} : g[y] = f[y]
      BY <2>2, <3>1, <3>2 DEF Table
    <3> HIDE DEF g
    <3>6. Continues(f, g)
      BY <2>2, <3>2, <3>3, <3>4, <3>5 DEF Continues
    <3> QED BY <3>5, <3>6 DEF g
  <2> QED BY <2>3, <2>4
<1> QED BY <1>1, <1>2

\* clearMissingActiveSessions changes active sessions only, and none of a row that
\* has none.
LEMMA ClearRows ==
  ASSUME NEW f \in Table, NEW known
  PROVE  /\ clearMissingActiveSessions(f, known) \in Table
         /\ Continues(f, clearMissingActiveSessions(f, known))
<1> DEFINE g == clearMissingActiveSessions(f, known)
<1>1. ASSUME NEW x \in Sessions
      PROVE  /\ g[x] \in Row \cup {None}
             /\ f[x] # None => g[x] # None /\ g[x].favorite = f[x].favorite
             /\ f[x] = None => g[x] = None
             /\ f[x] # None /\ f[x].active = None => g[x] = f[x]
  <2>1. CASE f[x] # None /\ f[x].active \notin known \cup {None}
    <3>1. f[x] \in Row
      BY <2>1 DEF Table
    <3>2. g[x] = [f[x] EXCEPT !.active = None]
      BY <2>1 DEF clearMissingActiveSessions
    <3>3. g[x] \in Row /\ g[x].favorite = f[x].favorite
      BY <3>1, <3>2 DEF Row
    <3> QED BY <2>1, <3>3, NoneIsNoRow
  <2>2. CASE ~(f[x] # None /\ f[x].active \notin known \cup {None})
    BY <2>2 DEF clearMissingActiveSessions, Table
  <2> QED BY <2>1, <2>2
<1>2. g = [x \in Sessions |-> g[x]]
  BY DEF clearMissingActiveSessions
<1> HIDE DEF g
<1>3. g \in Table
  BY <1>1, <1>2 DEF Table
<1>4. Continues(f, g)
  BY <1>1 DEF Continues
<1> QED BY <1>3, <1>4 DEF g

\* pruneRecent deletes only non-favorites and leaves at most MaxRecent of them.
LEMMA PruneRows ==
  ASSUME NEW f \in Table, NEW g \in pruneRecent(f)
  PROVE  /\ g \in Table
         /\ \A x \in Sessions : g[x] = f[x] \/ (g[x] = None /\ f[x] # None /\ ~f[x].favorite)
         /\ Favorites(g) = Favorites(f)
         /\ Cardinality(Recents(g)) <= MaxRecent
<1> USE HistoryAssumption
<1>1. PICK K \in SUBSET Recents(f) :
         /\ Cardinality(K) = Min({MaxRecent, Cardinality(Recents(f))})
         /\ g = [x \in Sessions |-> IF x \in Recents(f) \ K THEN None ELSE f[x]]
  BY DEF pruneRecent
<1>2. Recents(f) \subseteq Sessions
  BY DEF Recents
<1>3. IsFiniteSet(Recents(f)) /\ Cardinality(Recents(f)) \in Nat
  BY <1>2, FS_Subset, FS_CardinalityType
<1>4. \A a, b \in Nat : Min({a, b}) <= a
  <2> SUFFICES ASSUME NEW a \in Nat, NEW b \in Nat PROVE Min({a, b}) <= a
    OBVIOUS
  <2>1. \E m \in {a, b} : \A y \in {a, b} : m =< y
    OBVIOUS
  <2>2. \A y \in {a, b} : Min({a, b}) =< y
    BY <2>1 DEF Min
  <2> QED BY <2>2
<1>5. Cardinality(K) <= MaxRecent /\ MaxRecent \in Nat
  BY <1>1, <1>3, <1>4
<1>6. g \in Table
  BY <1>1 DEF Table
<1>7. \A x \in Sessions : g[x] = f[x] \/ (g[x] = None /\ f[x] # None /\ ~f[x].favorite)
  BY <1>1 DEF Recents
<1>8. Favorites(g) = Favorites(f)
  BY <1>7 DEF Favorites
<1>9. Recents(g) \subseteq K
  BY <1>1 DEF Recents
<1>10. IsFiniteSet(K) /\ Cardinality(K) \in Nat
  BY <1>3, FS_Subset, FS_CardinalityType
<1>11. Cardinality(Recents(g)) <= Cardinality(K) /\ Cardinality(Recents(g)) \in Nat
  BY <1>9, <1>10, FS_Subset, FS_CardinalityType
<1> QED BY <1>5, <1>6, <1>7, <1>8, <1>10, <1>11

\* A table with no more favorites than another.
LEMMA FewerFavorites ==
  ASSUME NEW f, NEW g, Favorites(g) \subseteq Favorites(f)
  PROVE  Cardinality(Favorites(g)) <= Cardinality(Favorites(f))
<1>1. IsFiniteSet(Favorites(f))
  BY HistoryAssumption, FS_Subset DEF Favorites
<1> QED BY <1>1, FS_Subset

\* The same for the other entries.
LEMMA FewerRecents ==
  ASSUME NEW f, NEW g, Recents(g) \subseteq Recents(f)
  PROVE  Cardinality(Recents(g)) <= Cardinality(Recents(f))
<1>1. IsFiniteSet(Recents(f))
  BY HistoryAssumption, FS_Subset DEF Recents
<1> QED BY <1>1, FS_Subset

\* enforceFavoriteLimit: one more favorite where there is room for it.
LEMMA OneMoreFavorite ==
  ASSUME NEW f, NEW g, NEW x, Cardinality(Favorites(f)) <= MaxFavorites,
         Favorites(g) \subseteq Favorites(f) \cup {x},
         x \in Favorites(f) \/ Cardinality(Favorites(f)) < MaxFavorites
  PROVE  Cardinality(Favorites(g)) <= MaxFavorites
<1> USE HistoryAssumption
<1>1. IsFiniteSet(Favorites(f)) /\ Cardinality(Favorites(f)) \in Nat
  BY FS_Subset, FS_CardinalityType DEF Favorites
<1>2. IsFiniteSet(Favorites(g)) /\ Cardinality(Favorites(g)) \in Nat
  BY FS_Subset, FS_CardinalityType DEF Favorites
<1>3. MaxFavorites \in Nat
  OBVIOUS
<1>4. CASE x \in Favorites(f)
  <2>1. Favorites(g) \subseteq Favorites(f)
    BY <1>4
  <2> QED BY <1>1, <1>2, <1>3, <2>1, FewerFavorites
<1>5. CASE x \notin Favorites(f)
  <2>1. /\ IsFiniteSet(Favorites(f) \cup {x})
        /\ Cardinality(Favorites(f) \cup {x}) = Cardinality(Favorites(f)) + 1
    BY <1>1, <1>5, FS_AddElement
  <2>2. Cardinality(Favorites(g)) <= Cardinality(Favorites(f) \cup {x})
    BY <2>1, FS_Subset
  <2> QED BY <1>1, <1>2, <1>3, <1>5, <2>1, <2>2
<1> QED BY <1>4, <1>5

--------------------------------------------------------------------------------
(* The inductive invariant *)

\* While a poll is in its transaction the table does not change under it, and its
\* copy continues that table.
Transaction == poll.at = "tx" => Continues(rows, poll.rows)

HistoryInv == TypeOK /\ Bounded /\ Transaction

\* What a poll holds at each point.
LEMMA PollTypes ==
  ASSUME TypeOK
  PROVE  /\ poll.at = "listed" => poll.known \subseteq Sessions /\ poll.ended \subseteq Sessions
         /\ poll.at = "tx" => /\ poll \in [at : {"tx"}, known : SUBSET Sessions,
                                           todo : SUBSET Sessions, rows : Table]
                              /\ poll.known \subseteq Sessions /\ poll.todo \subseteq Sessions
                              /\ poll.rows \in Table
BY DEF TypeOK, Idle

\* What an open request holds at each point.
LEMMA OpeningTypes ==
  ASSUME TypeOK, NEW o \in Openers
  PROVE  /\ opening[o].at = "read" => opening[o].source \in Sessions /\ opening[o].gen \in {0, 1}
         /\ opening[o].at = "started" => /\ opening[o].source \in Sessions
                                         /\ opening[o].session \in Sessions
<1>1. opening[o] \in {Idle} \cup [at : {"read"}, source : Sessions, gen : {0, 1}, linked : Sessions]
        \cup [at : {"started"}, source : Sessions, gen : {0, 1}, session : Sessions]
  BY DEF TypeOK
<1> QED BY <1>1 DEF Idle

\* The session table and the clock are kept in their types by StartSession.
LEMMA StartSessionType ==
  ASSUME TypeOK, NEW s \in Sessions, StartSession(s)
  PROVE  /\ state' \in [Sessions -> {"new", "running", "stopping", "ended", "lost"}]
         /\ table' \subseteq Sessions /\ ending' \subseteq Sessions
         /\ started' \in [Sessions -> Nat] /\ ended' \in [Sessions -> Nat] /\ clock' \in Nat
<1>1. \A left \in makeRoom : left \subseteq table
  BY DEF makeRoom
<1>2. table' \subseteq Sessions
  BY <1>1 DEF StartSession, TypeOK
<1> QED BY <1>2 DEF StartSession, TypeOK

\* favoriteSession.
LEMMA SaveSessionRows ==
  ASSUME TypeOK, Bounded, NEW s \in Sessions, SaveSession(s)
  PROVE  /\ rows' \in Table /\ Bounded'
         /\ \A x \in Favorites(rows) : rows'[x] # None
         /\ \A x \in Saved : rows'[x] # None => rows'[x].closed = rows[x].closed
<1> USE HistoryAssumption
<1>f. rows \in Table /\ clock + 1 \in Nat
  BY DEF TypeOK
<1> DEFINE x == CHOOSE y \in findBySession(rows, s) : TRUE
<1>1. CASE findBySession(rows, s) = {}
  <2> DEFINE row == [gen |-> FreshGen(s), active |-> None, favorite |-> TRUE,
                     updated |-> clock + 1, opened |-> clock + 1, closed |-> 0, shells |-> {s}]
             g == [rows EXCEPT ![s] = row]
  <2>1. rows' \in pruneRecent(g)
    BY <1>1 DEF SaveSession, Insert
  <2>2. Cardinality(Favorites(rows)) < MaxFavorites
    BY <1>1 DEF SaveSession
  <2>3. row \in Row /\ row.favorite
    BY <1>f, FreshGenType DEF Row
  <2>4. rows[s] = None
    BY <1>1 DEF findBySession
  <2> HIDE DEF row
  <2>5. g \in Table /\ g[s] = row /\ \A y \in Sessions \ {s} : g[y] = rows[y]
    BY <1>f, <2>3 DEF Table
  <2> HIDE DEF g
  <2>6. Favorites(g) \subseteq Favorites(rows) \cup {s}
    BY <2>5 DEF Favorites
  <2>7. Cardinality(Favorites(g)) <= MaxFavorites
    BY <2>2, <2>6, OneMoreFavorite DEF Bounded
  <2>8. /\ rows' \in Table /\ Favorites(rows') = Favorites(g)
        /\ Cardinality(Recents(rows')) <= MaxRecent
        /\ \A y \in Sessions : rows'[y] = g[y] \/ (rows'[y] = None /\ g[y] # None /\ ~g[y].favorite)
    BY <2>1, <2>5, PruneRows
  <2>9. Bounded'
    BY <2>7, <2>8 DEF Bounded, Favorites, Recents
  <2> QED BY <2>4, <2>5, <2>8, <2>9 DEF Favorites, Saved
<1>2. CASE findBySession(rows, s) # {}
  <2>1. x \in findBySession(rows, s)
    BY <1>2
  <2>2. x \in Sessions /\ rows[x] # None /\ rows[x] \in Row
    BY <1>f, <2>1, FoundIsSaved
  <2> DEFINE g == [rows EXCEPT ![x].favorite = TRUE, ![x].updated = clock + 1]
  <2>3. rows' \in pruneRecent(g)
    BY <1>2 DEF SaveSession
  <2>4. rows[x].favorite \/ Cardinality(Favorites(rows)) < MaxFavorites
    BY <1>2 DEF SaveSession
  <2> HIDE DEF x
  <2> DEFINE row == [rows[x] EXCEPT !.favorite = TRUE, !.updated = clock + 1]
  <2>5. row \in Row /\ row.favorite /\ row.closed = rows[x].closed
    BY <1>f, <2>2 DEF Row
  <2>6. g = [rows EXCEPT ![x] = row]
    BY <1>f, <2>2 DEF Table
  <2> HIDE DEF row, g
  <2>7. g \in Table /\ g[x] = row /\ \A y \in Sessions \ {x} : g[y] = rows[y]
    BY <1>f, <2>2, <2>5, <2>6 DEF Table
  <2>8. Favorites(g) \subseteq Favorites(rows) \cup {x}
    BY <2>7 DEF Favorites
  <2>9. x \in Favorites(rows) \/ Cardinality(Favorites(rows)) < MaxFavorites
    BY <2>2, <2>4 DEF Favorites
  <2>10. Cardinality(Favorites(g)) <= MaxFavorites
    BY <2>8, <2>9, OneMoreFavorite DEF Bounded
  <2>11. /\ rows' \in Table /\ Favorites(rows') = Favorites(g)
         /\ Cardinality(Recents(rows')) <= MaxRecent
         /\ \A y \in Sessions : rows'[y] = g[y] \/ (rows'[y] = None /\ g[y] # None /\ ~g[y].favorite)
    BY <2>3, <2>7, PruneRows
  <2>12. Bounded'
    BY <2>10, <2>11 DEF Bounded, Favorites, Recents
  <2>13. row # None
    BY <2>5, NoneIsNoRow
  <2>14. \A y \in Favorites(rows) : rows'[y] # None
    BY <2>5, <2>7, <2>11, <2>13 DEF Favorites
  <2> QED BY <2>5, <2>7, <2>11, <2>12, <2>14 DEF Saved
<1> QED BY <1>1, <1>2

\* updateTerminalHistory: only taking the entry itself off the favorites lets the
\* pruning at its end remove it.
LEMMA UpdateRows ==
  ASSUME TypeOK, Bounded, NEW x \in Sessions, NEW b \in BOOLEAN, Update(x, b)
  PROVE  /\ rows' \in Table /\ Bounded'
         /\ \A y \in Favorites(rows) : rows'[y] = None => y = x /\ b = FALSE
         /\ \A y \in Saved : rows'[y] # None => rows'[y].closed = rows[y].closed
<1> USE HistoryAssumption
<1>f. rows \in Table /\ clock + 1 \in Nat /\ rows[x] # None /\ rows[x] \in Row
  BY DEF TypeOK, Update, Table
<1> DEFINE g == [rows EXCEPT ![x].favorite = b, ![x].updated = clock + 1]
           row == [rows[x] EXCEPT !.favorite = b, !.updated = clock + 1]
<1>1. rows' \in pruneRecent(g)
  BY DEF Update
<1>2. row \in Row /\ row.favorite = b /\ row.closed = rows[x].closed
  BY <1>f DEF Row
<1>3. g = [rows EXCEPT ![x] = row]
  BY <1>f DEF Table
<1> HIDE DEF row, g
<1>4. g \in Table /\ g[x] = row /\ \A y \in Sessions \ {x} : g[y] = rows[y]
  BY <1>f, <1>2, <1>3 DEF Table
<1>5. Cardinality(Favorites(g)) <= MaxFavorites
  <2>1. CASE b
    <3>1. Favorites(g) \subseteq Favorites(rows) \cup {x}
      BY <1>4 DEF Favorites
    <3>2. x \in Favorites(rows) \/ Cardinality(Favorites(rows)) < MaxFavorites
      BY <1>f, <2>1 DEF Update, Favorites
    <3> QED BY <3>1, <3>2, OneMoreFavorite DEF Bounded
  <2>2. CASE ~b
    <3>1. Favorites(g) \subseteq Favorites(rows)
      BY <1>2, <1>4, <2>2 DEF Favorites
    <3>2. \A c \in {Cardinality(Favorites(rows)), Cardinality(Favorites(g))} : c \in Nat
      BY FS_Subset, FS_CardinalityType DEF Favorites
    <3>3. Cardinality(Favorites(g)) <= Cardinality(Favorites(rows))
      BY <3>1, FewerFavorites
    <3> QED BY <3>2, <3>3 DEF Bounded
  <2> QED BY <2>1, <2>2
<1>6. /\ rows' \in Table /\ Favorites(rows') = Favorites(g)
      /\ Cardinality(Recents(rows')) <= MaxRecent
      /\ \A y \in Sessions : rows'[y] = g[y] \/ (rows'[y] = None /\ g[y] # None /\ ~g[y].favorite)
  BY <1>1, <1>4, PruneRows
<1>7. Bounded'
  BY <1>5, <1>6 DEF Bounded, Favorites, Recents
<1>8. row # None
  BY <1>2, NoneIsNoRow
<1>9. \A y \in Favorites(rows) : rows'[y] = None => y = x /\ b = FALSE
  BY <1>2, <1>4, <1>6, <1>8 DEF Favorites
<1> QED BY <1>2, <1>4, <1>6, <1>7, <1>9 DEF Saved

\* A transaction that closes or inserts rows of ended sessions and then prunes.
LEMMA ContinuedRows ==
  ASSUME TypeOK, Bounded, NEW g \in Table, Continues(rows, g), rows' \in pruneRecent(g)
  PROVE  /\ rows' \in Table /\ Bounded'
         /\ \A x \in Favorites(rows) : rows'[x] # None
         /\ \A x \in Saved : rows[x].closed # 0 /\ rows[x].active = None /\ rows'[x] # None =>
              rows'[x].closed = rows[x].closed
<1>1. /\ rows' \in Table /\ Favorites(rows') = Favorites(g)
      /\ Cardinality(Recents(rows')) <= MaxRecent
      /\ \A y \in Sessions : rows'[y] = g[y] \/ (rows'[y] = None /\ g[y] # None /\ ~g[y].favorite)
  BY PruneRows
<1>2. Favorites(g) = Favorites(rows)
  BY DEF Continues, Favorites
<1>3. Bounded'
  BY <1>1, <1>2 DEF Bounded, Favorites, Recents
<1>4. \A x \in Favorites(rows) : rows'[x] # None
  BY <1>1 DEF Continues, Favorites
<1>5. \A x \in Saved : rows[x].closed # 0 /\ rows[x].active = None /\ rows'[x] # None =>
         rows'[x].closed = rows[x].closed
  BY <1>1 DEF Continues, Saved
<1> QED BY <1>1, <1>3, <1>4, <1>5

\* A statement that adds no row and changes no favorite flag needs no pruning.
LEMMA SameFlagsBounded ==
  ASSUME Bounded, \A x \in Sessions : rows'[x] = None
                     \/ (rows[x] # None /\ rows'[x].favorite = rows[x].favorite)
  PROVE  Bounded'
<1> USE HistoryAssumption
<1>1. Favorites(rows') \subseteq Favorites(rows) /\ Recents(rows') \subseteq Recents(rows)
  BY DEF Favorites, Recents
<1>2. /\ Cardinality(Favorites(rows')) <= Cardinality(Favorites(rows))
      /\ Cardinality(Recents(rows')) <= Cardinality(Recents(rows))
  BY <1>1, FewerFavorites, FewerRecents
<1>3. \A f : Cardinality(Favorites(f)) \in Nat /\ Cardinality(Recents(f)) \in Nat
  BY FS_Subset, FS_CardinalityType DEF Favorites, Recents
<1>4. MaxFavorites \in Nat /\ MaxRecent \in Nat
  OBVIOUS
<1>5. Favorites(rows)' = Favorites(rows') /\ Recents(rows)' = Recents(rows')
  BY DEF Favorites, Recents
<1> QED BY <1>2, <1>3, <1>4, <1>5 DEF Bounded

\* renameWebSession.
LEMMA RenameRows ==
  ASSUME TypeOK, Bounded, NEW s \in Sessions, RenameSession(s)
  PROVE  /\ rows' \in Table /\ Bounded'
         /\ \A x \in Saved : rows'[x] # None /\ rows'[x].closed = rows[x].closed
<1>f. rows \in Table /\ clock + 1 \in Nat
  BY DEF TypeOK
<1>1. ASSUME NEW x \in Sessions
      PROVE  /\ rows'[x] \in Row \cup {None}
             /\ rows[x] = None => rows'[x] = None
             /\ rows[x] # None => /\ rows'[x] # None /\ rows'[x].favorite = rows[x].favorite
                                  /\ rows'[x].closed = rows[x].closed
  <2>1. CASE rows[x] # None /\ (x = s \/ rows[x].active = s)
    <3>1. rows[x] \in Row
      BY <1>f, <2>1 DEF Table
    <3>2. rows'[x] = [rows[x] EXCEPT !.updated = clock + 1]
      BY <2>1 DEF RenameSession
    <3>3. /\ rows'[x] \in Row /\ rows'[x].favorite = rows[x].favorite
          /\ rows'[x].closed = rows[x].closed
      BY <1>f, <3>1, <3>2 DEF Row
    <3> QED BY <2>1, <3>3, NoneIsNoRow
  <2>2. CASE ~(rows[x] # None /\ (x = s \/ rows[x].active = s))
    BY <1>f, <2>2 DEF RenameSession, Table
  <2> QED BY <2>1, <2>2
<1>2. rows' = [x \in Sessions |-> rows'[x]]
  BY DEF RenameSession
<1>3. rows' \in Table
  BY <1>1, <1>2 DEF Table
<1>4. Bounded'
  BY <1>1, SameFlagsBounded
<1> QED BY <1>1, <1>3, <1>4 DEF Saved

\* MarkOpened.
LEMMA OpenMarkRows ==
  ASSUME TypeOK, Bounded, NEW o \in Openers, OpenMark(o)
  PROVE  /\ rows' \in Table /\ Bounded'
         /\ \A x \in Saved : rows'[x] # None /\ rows'[x].closed = rows[x].closed
<1>f. rows \in Table /\ opening[o].source \in Sessions /\ opening[o].session \in Sessions
  BY OpeningTypes DEF OpenMark, TypeOK
<1> DEFINE x == opening[o].source
           s == opening[o].session
<1>1. CASE rows' = rows
  BY <1>f, <1>1, SameFlagsBounded DEF Saved
<1>2. CASE rows' # rows
  <2> DEFINE row == [rows[x] EXCEPT !.active = s, !.opened = started[s],
                                    !.updated = started[s], !.shells = @ \cup {s}]
  <2>1. /\ rows[x] # None
        /\ rows' = [rows EXCEPT ![x].active = s, ![x].opened = started[s],
                                ![x].updated = started[s], ![x].shells = @ \cup {s}]
    BY <1>2 DEF OpenMark
  <2>2. rows[x] \in Row /\ started[s] \in Nat
    BY <1>f, <2>1 DEF Table, TypeOK
  <2>3. rows' = [rows EXCEPT ![x] = row]
    BY <1>f, <2>1, <2>2 DEF Table
  <2>4. row \in Row /\ row.favorite = rows[x].favorite /\ row.closed = rows[x].closed
    BY <1>f, <2>2 DEF Row
  <2>5. row # None
    BY <2>4, NoneIsNoRow
  <2> HIDE DEF row, x, s
  <2>x. x \in Sessions
    BY <1>f DEF x
  <2>6. rows' \in Table /\ rows'[x] = row /\ \A y \in Sessions \ {x} : rows'[y] = rows[y]
    BY <1>f, <2>x, <2>3, <2>4 DEF Table
  <2>7. \A y \in Sessions : rows[y] # None =>
          /\ rows'[y] # None /\ rows'[y].favorite = rows[y].favorite
          /\ rows'[y].closed = rows[y].closed
    BY <2>4, <2>5, <2>6
  <2>8. \A y \in Sessions : rows[y] = None => rows'[y] = None
    BY <2>1, <2>6
  <2>9. Bounded'
    BY <2>7, <2>8, SameFlagsBounded
  <2> QED BY <2>6, <2>7, <2>9 DEF Saved
<1> QED BY <1>1, <1>2

--------------------------------------------------------------------------------
(* Every step *)

\* What a step may do to the rows, whoever takes it.
RowsKept ==
  /\ rows' \in Table /\ Bounded'
  /\ \A x \in Favorites(rows) : rows'[x] = None => Delete(x) \/ Update(x, FALSE)
  /\ \A x \in Saved : rows[x].closed # 0 /\ rows[x].active = None /\ rows'[x] # None =>
       rows'[x].closed = rows[x].closed

\* The steps that leave the rows alone.
LEMMA SameRows == ASSUME TypeOK, Bounded, rows' = rows PROVE RowsKept
BY SameFlagsBounded DEF RowsKept, TypeOK, Favorites, Saved

\* Every step keeps the rows within their limits, every favorite nobody takes away
\* and every close time.
LEMMA RowsStep ==
  ASSUME HistoryInv, [Next]_vars
  PROVE  RowsKept
<1> USE HistoryAssumption
<1>1. TypeOK /\ Bounded /\ Transaction /\ rows \in Table
  BY DEF HistoryInv, TypeOK
<1>2. ASSUME NEW s \in Sessions, Create(s) \/ Exit(s) PROVE RowsKept
  BY <1>1, <1>2, SameRows DEF Create, Exit
<1>3. ASSUME NEW s \in Sessions, RecordEnded(s) PROVE RowsKept
  <2>1. rows' \in pruneRecent(reconcileEnded(rows, s))
    BY <1>3 DEF RecordEnded
  <2>2. reconcileEnded(rows, s) \in Table /\ Continues(rows, reconcileEnded(rows, s))
    BY <1>1, ReconcileEndedRows
  <2> DEFINE g == reconcileEnded(rows, s)
  <2> HIDE DEF g
  <2>3. g \in Table /\ Continues(rows, g) /\ rows' \in pruneRecent(g)
    BY <2>1, <2>2 DEF g
  <2> QED BY <1>1, <2>3, ContinuedRows DEF RowsKept
<1>4. ASSUME NEW s \in Sessions, SaveSession(s) PROVE RowsKept
  BY <1>1, <1>4, SaveSessionRows DEF RowsKept
<1>5. ASSUME NEW s \in Sessions, RenameSession(s) PROVE RowsKept
  BY <1>1, <1>5, RenameRows DEF RowsKept, Favorites, Saved
<1>6. ASSUME NEW x \in Sessions, Delete(x) PROVE RowsKept
  <2>1. rows' = [rows EXCEPT ![x] = None]
    BY <1>6 DEF Delete
  <2>2. rows' \in Table /\ rows'[x] = None /\ \A y \in Sessions \ {x} : rows'[y] = rows[y]
    BY <1>1, <2>1 DEF Table
  <2>3. Bounded'
    BY <1>1, <2>2, SameFlagsBounded
  <2>4. \A y \in Favorites(rows) : rows'[y] = None => y = x
    BY <2>2 DEF Favorites
  <2>5. \A y \in Saved : rows'[y] # None => rows'[y].closed = rows[y].closed
    BY <2>2 DEF Saved
  <2> QED BY <1>6, <2>2, <2>3, <2>4, <2>5 DEF RowsKept
<1>7. ASSUME NEW x \in Sessions, NEW b \in BOOLEAN, Update(x, b) PROVE RowsKept
  <2>1. /\ rows' \in Table /\ Bounded'
        /\ \A y \in Favorites(rows) : rows'[y] = None => y = x /\ b = FALSE
        /\ \A y \in Saved : rows'[y] # None => rows'[y].closed = rows[y].closed
    BY <1>1, <1>7, UpdateRows
  <2> QED BY <1>7, <2>1 DEF RowsKept
<1>8. ASSUME NEW o \in Openers,
             OpenReturn(o) \/ \E x \in Sessions : OpenRead(o, x) \/ OpenStart(o, x)
      PROVE  RowsKept
  BY <1>1, <1>8, SameRows DEF OpenReturn, OpenRead, OpenStart
<1>9. ASSUME NEW o \in Openers, OpenMark(o) PROVE RowsKept
  BY <1>1, <1>9, OpenMarkRows DEF RowsKept, Favorites, Saved
<1>10. CASE PollList \/ Reconcile \/ ReconcileNext \/ ReconcileRollback \/ Restart
  BY <1>1, <1>10, SameRows DEF PollList, Reconcile, ReconcileNext, ReconcileRollback, Restart
<1>11. CASE ReconcileCommit
  <2> DEFINE g == clearMissingActiveSessions(poll.rows, poll.known)
  <2>1. rows' \in pruneRecent(g) /\ poll.at = "tx"
    BY <1>11 DEF ReconcileCommit
  <2>2. poll.rows \in Table /\ Continues(rows, poll.rows)
    BY <1>1, <2>1, PollTypes DEF Transaction
  <2>3. g \in Table /\ Continues(poll.rows, g)
    BY <2>2, ClearRows
  <2> HIDE DEF g
  <2>4. Continues(rows, g)
    BY <2>2, <2>3, ContinuesTrans
  <2> QED BY <1>1, <2>1, <2>3, <2>4, ContinuedRows DEF RowsKept
<1>12. CASE UNCHANGED vars
  BY <1>1, <1>12, SameRows DEF vars
<1> QED BY <1>2, <1>3, <1>4, <1>5, <1>6, <1>7, <1>8, <1>9, <1>10, <1>11, <1>12 DEF Next

\* Every step keeps every variable in its type.
LEMMA TypeStep ==
  ASSUME HistoryInv, [Next]_vars
  PROVE  TypeOK'
<1> USE HistoryAssumption
<1>1. TypeOK
  BY DEF HistoryInv
<1>2. rows' \in Table
  BY RowsStep DEF RowsKept
<1> DEFINE Requests == {Idle} \cup [at : {"read"}, source : Sessions, gen : {0, 1}, linked : Sessions]
                        \cup [at : {"started"}, source : Sessions, gen : {0, 1}, session : Sessions]
<1>r. opening \in [Openers -> Requests] /\ Idle \in Requests
  BY <1>1 DEF TypeOK
<1>p. \A x \in Sessions : rows[x] # None =>
        /\ rows[x].gen \in {0, 1} /\ rows[x].shells \subseteq Sessions
        /\ rows[x].active # None => rows[x].active \in Sessions
  BY <1>1 DEF TypeOK, Table, Row
<1>3. ASSUME NEW s \in Sessions, Create(s) PROVE TypeOK'
  BY <1>1, <1>2, <1>3, StartSessionType DEF Create, TypeOK
<1>4. ASSUME NEW s \in Sessions, Exit(s) \/ RecordEnded(s) PROVE TypeOK'
  BY <1>1, <1>2, <1>4 DEF Exit, RecordEnded, TypeOK
<1>5. ASSUME NEW s \in Sessions, SaveSession(s) \/ RenameSession(s) PROVE TypeOK'
  <2>1. clock' = clock + 1 /\ UNCHANGED <<sessionVars, opening, poll>>
    BY <1>5 DEF SaveSession, RenameSession, Edit
  <2>2. removed' \subseteq removed
    BY <1>5 DEF SaveSession, RenameSession
  <2> QED BY <1>1, <1>2, <2>1, <2>2 DEF sessionVars, TypeOK
<1>6. ASSUME NEW x \in Sessions, Delete(x) \/ \E b \in BOOLEAN : Update(x, b) PROVE TypeOK'
  <2>1. removed' \subseteq Sessions
    BY <1>1, <1>6, <1>p DEF Delete, Update, TypeOK
  <2>2. clock' = clock + 1 /\ UNCHANGED <<sessionVars, opening, poll>>
    BY <1>6 DEF Delete, Update, Edit
  <2> QED BY <1>1, <1>2, <2>1, <2>2 DEF sessionVars, TypeOK
<1>7. ASSUME NEW o \in Openers, NEW x \in Sessions, OpenRead(o, x) PROVE TypeOK'
  <2> DEFINE q == [at |-> "read", source |-> x, gen |-> rows[x].gen,
                   linked |-> IF rows[x].active = None THEN x ELSE rows[x].active]
  <2>1. q \in Requests
    BY <1>7, <1>p DEF OpenRead
  <2>2. opening' = [opening EXCEPT ![o] = q]
    BY <1>7 DEF OpenRead
  <2> HIDE DEF q, Requests
  <2>3. opening' \in [Openers -> Requests]
    BY <1>r, <2>1, <2>2
  <2> QED BY <1>1, <1>2, <1>7, <2>3 DEF OpenRead, sessionVars, TypeOK, Requests
<1>8. ASSUME NEW o \in Openers, NEW s \in Sessions, OpenStart(o, s) PROVE TypeOK'
  <2> DEFINE q == [at |-> "started", source |-> opening[o].source,
                   gen |-> opening[o].gen, session |-> s]
  <2>1. q \in Requests
    BY <1>1, <1>8, OpeningTypes DEF OpenStart
  <2>2. opening' = [opening EXCEPT ![o] = q]
    BY <1>8 DEF OpenStart
  <2> HIDE DEF q, Requests
  <2>3. opening' \in [Openers -> Requests]
    BY <1>r, <2>1, <2>2
  <2> QED BY <1>1, <1>2, <1>8, <2>3, StartSessionType DEF OpenStart, TypeOK, Requests
<1>9. ASSUME NEW o \in Openers, OpenReturn(o) \/ OpenMark(o) PROVE TypeOK'
  <2>1. opening' = [opening EXCEPT ![o] = Idle]
    BY <1>9 DEF OpenReturn, OpenMark
  <2> HIDE DEF Requests
  <2>2. opening' \in [Openers -> Requests]
    BY <1>r, <2>1
  <2>3. state' \in [Sessions -> {"new", "running", "stopping", "ended", "lost"}]
    BY <1>1, <1>9 DEF OpenReturn, OpenMark, sessionVars, TypeOK
  <2> QED BY <1>1, <1>2, <1>9, <2>2, <2>3 DEF OpenReturn, OpenMark, sessionVars, TypeOK, Requests
<1>10. CASE PollList
  <2>1. poll' \in [at : {"listed"}, known : SUBSET Sessions, ended : SUBSET Sessions]
    BY <1>1, <1>10 DEF PollList, TypeOK
  <2> QED BY <1>1, <1>2, <1>10, <2>1 DEF PollList, sessionVars, TypeOK
<1>11. CASE Reconcile
  <2>1. poll' \in [at : {"tx"}, known : SUBSET Sessions, todo : SUBSET Sessions, rows : Table]
    BY <1>1, <1>11, PollTypes DEF Reconcile, TypeOK
  <2> QED BY <1>1, <1>2, <1>11, <2>1 DEF Reconcile, sessionVars, TypeOK
<1>12. CASE ReconcileNext
  <2>1. PICK s \in poll.todo : poll' = [poll EXCEPT !.todo = @ \ {s}, !.rows = reconcileEnded(@, s)]
    BY <1>12 DEF ReconcileNext
  <2>2. /\ poll \in [at : {"tx"}, known : SUBSET Sessions, todo : SUBSET Sessions, rows : Table]
        /\ poll.rows \in Table /\ s \in Sessions
    BY <1>1, <1>12, PollTypes DEF ReconcileNext
  <2>3. reconcileEnded(poll.rows, s) \in Table
    BY <1>1, <2>2, ReconcileEndedRows
  <2>4. poll' \in [at : {"tx"}, known : SUBSET Sessions, todo : SUBSET Sessions, rows : Table]
    BY <2>1, <2>2, <2>3
  <2> QED BY <1>1, <1>2, <1>12, <2>4 DEF ReconcileNext, sessionVars, TypeOK
<1>13. CASE ReconcileCommit \/ ReconcileRollback
  BY <1>1, <1>2, <1>13 DEF ReconcileCommit, ReconcileRollback, sessionVars, TypeOK
<1>14. CASE Restart
  BY <1>1, <1>2, <1>14 DEF Restart, TypeOK
<1>15. CASE UNCHANGED vars
  BY <1>1, <1>15 DEF vars, sessionVars, TypeOK
<1> QED BY <1>3, <1>4, <1>5, <1>6, <1>7, <1>8, <1>9, <1>10, <1>11, <1>12, <1>13, <1>14, <1>15 DEF Next

\* Nobody else writes during the transaction of a poll, and every iteration of its
\* loop continues the table.
LEMMA TransactionStep ==
  ASSUME HistoryInv, [Next]_vars
  PROVE  Transaction'
<1>1. TypeOK /\ Transaction /\ rows \in Table
  BY DEF HistoryInv, TypeOK
<1>2. ASSUME poll'.at = "tx" => poll' = poll /\ rows' = rows PROVE Transaction'
  BY <1>1, <1>2 DEF Transaction
<1>3. ASSUME NEW s \in Sessions, Create(s) \/ Exit(s) PROVE Transaction'
  BY <1>2, <1>3 DEF Create, Exit
<1>4. ASSUME NEW s \in Sessions, RecordEnded(s) \/ SaveSession(s) \/ RenameSession(s)
      PROVE  Transaction'
  BY <1>2, <1>4 DEF RecordEnded, SaveSession, RenameSession, Edit, DatabaseFree
<1>5. ASSUME NEW x \in Sessions, Delete(x) \/ \E b \in BOOLEAN : Update(x, b) PROVE Transaction'
  BY <1>2, <1>5 DEF Delete, Update, Edit, DatabaseFree
<1>6. ASSUME NEW o \in Openers,
             \/ OpenReturn(o) \/ OpenMark(o)
             \/ \E x \in Sessions : OpenRead(o, x) \/ OpenStart(o, x)
      PROVE  Transaction'
  BY <1>2, <1>6 DEF OpenReturn, OpenMark, OpenRead, OpenStart, DatabaseFree
<1>7. CASE PollList \/ ReconcileCommit \/ ReconcileRollback \/ Restart
  BY <1>2, <1>7 DEF PollList, ReconcileCommit, ReconcileRollback, Restart, Idle
<1>8. CASE Reconcile
  <2>1. poll'.rows = rows /\ rows' = rows
    BY <1>8 DEF Reconcile
  <2> QED BY <2>1, ContinuesSelf DEF Transaction
<1>9. CASE ReconcileNext
  <2>1. PICK s \in poll.todo : poll' = [poll EXCEPT !.todo = @ \ {s}, !.rows = reconcileEnded(@, s)]
    BY <1>9 DEF ReconcileNext
  <2>2. /\ poll \in [at : {"tx"}, known : SUBSET Sessions, todo : SUBSET Sessions, rows : Table]
        /\ poll.rows \in Table /\ s \in Sessions /\ rows' = rows /\ Continues(rows, poll.rows)
    BY <1>1, <1>9, PollTypes DEF ReconcileNext, Transaction
  <2>3. Continues(poll.rows, reconcileEnded(poll.rows, s))
    BY <1>1, <2>2, ReconcileEndedRows
  <2>4. poll'.rows = reconcileEnded(poll.rows, s)
    BY <2>1, <2>2
  <2>5. Continues(rows, poll'.rows)
    BY <2>2, <2>3, <2>4, ContinuesTrans
  <2> QED BY <2>2, <2>5 DEF Transaction
<1>10. CASE UNCHANGED vars
  BY <1>2, <1>10 DEF vars
<1> QED BY <1>3, <1>4, <1>5, <1>6, <1>7, <1>8, <1>9, <1>10 DEF Next

\* The limits, the types and the poll's transaction, in every state.
THEOREM HistoryInvariant == Spec => []HistoryInv
<1>1. Init => HistoryInv
  <2> SUFFICES ASSUME Init PROVE HistoryInv
    OBVIOUS
  <2> USE HistoryAssumption
  <2>1. TypeOK
    BY DEF Init, TypeOK, Table
  <2>2. Favorites(rows) = {} /\ Recents(rows) = {}
    BY DEF Init, Favorites, Recents
  <2>3. Bounded
    BY <2>2, FS_EmptySet DEF Bounded
  <2>4. Transaction
    BY DEF Init, Transaction, Idle
  <2> QED BY <2>1, <2>3, <2>4 DEF HistoryInv
<1>2. HistoryInv /\ [Next]_vars => HistoryInv'
  BY RowsStep, TypeStep, TransactionStep DEF RowsKept, HistoryInv
<1> QED BY <1>1, <1>2, PTL DEF Spec

\* Every variable keeps its type: in particular no row names an active session that
\* is not one.
THEOREM HistoryTypeOK == Spec => []TypeOK
<1>1. HistoryInv => TypeOK
  BY DEF HistoryInv
<1> QED BY <1>1, HistoryInvariant, PTL

\* At most MaxRecent recent entries and MaxFavorites favorites after every
\* transaction, for any number of sessions.
THEOREM HistoryBounded == Spec => []Bounded
<1>1. HistoryInv => Bounded
  BY DEF HistoryInv
<1> QED BY <1>1, HistoryInvariant, PTL

\* No writer but the user's Delete and Update takes a favorite away.
THEOREM HistoryFavoritesKept == Spec => FavoritesKept
<1>1. HistoryInv /\ [Next]_vars =>
        [\A x \in Favorites(rows) : rows'[x] = None => Delete(x) \/ Update(x, FALSE)]_rows
  BY RowsStep DEF RowsKept
<1> QED BY <1>1, HistoryInvariant, PTL DEF Spec, FavoritesKept

\* A closed terminal that is not open again keeps its close time, whichever earlier
\* sessions a poll reconciles again.
THEOREM HistoryClosedOnce == Spec => ClosedOnce
<1>1. HistoryInv /\ [Next]_vars =>
        [\A x \in Saved : rows[x].closed # 0 /\ rows[x].active = None /\ rows'[x] # None =>
           rows'[x].closed = rows[x].closed]_rows
  BY RowsStep DEF RowsKept
<1> QED BY <1>1, HistoryInvariant, PTL DEF Spec, ClosedOnce
================================================================================
