------------------------------ MODULE ViewerProofs -----------------------------
(***************************************************************************)
(* Proofs about the native viewer: which request, handler or expiry is     *)
(* responsible for every window and every handle, however show, hide, the  *)
(* timeout, the user and the viewer processes interleave.                  *)
(*                                                                         *)
(* The results about windows hold where a show begins while no other       *)
(* request is at work (~Overlap), the premise of the run viewer.           *)
(***************************************************************************)
EXTENDS Viewer, TLAPS

--------------------------------------------------------------------------------
(* The inductive invariant *)

\* A caller that has not called Close yet is not in it.
NotClosing ==
  /\ \A p \in Shows : show[p] # Idle => closing[p] = Idle
  /\ \A h \in Hides : hide[h] # None => closing[h] = Idle
  /\ expirer = None => closing["expire"] = Idle

\* A show that expires the old window is the one that holds mu.
Expiring == \A p \in Shows : show[p] = "expiring" <=> expirer = p

OneShow == \A p, q \in Shows : show[p] # Idle /\ show[q] # Idle => p = q

\* Until a show records its window there is no handle it could replace.
NoHandle ==
  \A p \in Shows :
    /\ show[p] \in {"launching", "failed"} \cup Windows => recorded = None
    /\ show[p] = "expiring" => closing["expire"] = "take" \/ recorded = None

\* A window on the desktop has its handle recorded, or is being closed, or is
\* about to be recorded.
Accounted ==
  \A w \in shown :
    \/ recorded = w
    \/ \E c \in Callers : closing[c] = w
    \/ \E p \in Shows : show[p] = w

\* A handle that is not wanted any more will be taken by somebody.
Responsible ==
  ~desired /\ recorded # None =>
    \/ \E c \in Callers : closing[c] = "take"
    \/ \E h \in Hides : hide[h] # None
    \/ \E p \in Shows : show[p] = "opened"

ViewerInv ==
  /\ TypeOK /\ NotClosing /\ Expiring /\ OneShow /\ NoHandle /\ Accounted /\ Responsible
--------------------------------------------------------------------------------
(* Types *)

\* The names are told apart.
LEMMA Names ==
  /\ \A w \in Windows : w \notin {"idle", "take", "expiring", "launching", "failed", "opened"}
                       /\ w # None /\ w # "expire" /\ w \notin Shows /\ w \notin Hides
  /\ \A p \in Shows : p # None /\ p # "expire" /\ p # "status" /\ p \notin Hides /\ p \notin Windows
  /\ \A h \in Hides : h # "expire" /\ h \notin Shows /\ h \notin Windows
  /\ \A C \in SUBSET Windows : C # None
BY ViewerAssumption

LEMMA TypeKept == TypeOK /\ [Next]_vars => TypeOK'
<1> SUFFICES ASSUME TypeOK, [Next]_vars PROVE TypeOK'
  OBVIOUS
<1> USE DEF TypeOK, state, desktop, SetState, expireOpening
<1>1. CASE Timeout
  BY <1>1 DEF Timeout
<1>2. CASE status
  BY <1>2 DEF status, Callers
<1>3. CASE ExpireEnd
  BY <1>3 DEF ExpireEnd
<1>4. ASSUME NEW p \in Shows, ShowBegin(p) PROVE TypeOK'
  <2>1. CASE expireOpening(p) /\ show' = [show EXCEPT ![p] = "expiring"]
    <3>1. show' \in [Shows -> {Idle, "expiring", "launching", "failed", "opened"} \cup Windows]
      BY <2>1
    <3>2. closing' \in [Callers -> {Idle, "take"} \cup Windows] /\ expirer' \in Shows
      BY <2>1
    <3> QED
      BY <1>4, <2>1, <3>1, <3>2 DEF ShowBegin
  <2>2. CASE ~expireOpening(p)
    BY <1>4, <2>2 DEF ShowBegin
  <2> QED
    BY <1>4, <2>1, <2>2 DEF ShowBegin
<1>5. ASSUME NEW p \in Shows, NEW w \in Windows, OpenWindow(p, w) PROVE TypeOK'
  BY <1>5 DEF OpenWindow
<1>6. ASSUME NEW p \in Shows, OpenFails(p) PROVE TypeOK'
  BY <1>6 DEF OpenFails
<1>7. ASSUME NEW p \in Shows, OpenRecord(p) PROVE TypeOK'
  BY <1>7 DEF OpenRecord
<1>8. ASSUME NEW p \in Shows, ShowFailed(p) PROVE TypeOK'
  BY <1>8 DEF ShowFailed
<1>9. ASSUME NEW p \in Shows, ShowDone(p) PROVE TypeOK'
  BY <1>9 DEF ShowDone, Callers
<1>10. ASSUME NEW h \in Hides, HideBegin(h) PROVE TypeOK'
  BY <1>10 DEF HideBegin
<1>11. ASSUME NEW h \in Hides, HideSockets(h) PROVE TypeOK'
  <2>1. viewer' \in [Windows -> {"none", "starting", "connecting", "attached", "broken"}]
    BY <1>11 DEF HideSockets
  <2>2. hide' \in [Hides -> (SUBSET Windows) \cup {None}]
    BY <1>11 DEF HideSockets
  <2>3. closing' \in [Callers -> {Idle, "take"} \cup Windows]
    BY <1>11 DEF HideSockets
  <2> QED
    BY <1>11, <2>1, <2>2, <2>3 DEF HideSockets
<1>12. ASSUME NEW c \in Callers, CloseTake(c) PROVE TypeOK'
  BY <1>12 DEF CloseTake
<1>13. ASSUME NEW c \in Callers, CloseWindow(c) PROVE TypeOK'
  BY <1>13 DEF CloseWindow, Orphaned
<1>14. ASSUME NEW w \in Windows, UserCloses(w) PROVE TypeOK'
  BY <1>14 DEF UserCloses, Orphaned
<1>15. ASSUME NEW w \in Windows, Connect(w) PROVE TypeOK'
  BY <1>15 DEF Connect
<1>16. ASSUME NEW w \in Windows, register(w) PROVE TypeOK'
  <2>1. CASE expireOpening(w) /\ UNCHANGED viewer
    BY <1>16, <2>1 DEF register
  <2>2. CASE ~desired /\ viewer' = [viewer EXCEPT ![w] = "none"] /\ UNCHANGED <<state, closing, expirer>>
    BY <1>16, <2>2 DEF register
  <2>3. CASE /\ SetState(desired, "zero", clients \cup {w})
             /\ viewer' = [viewer EXCEPT ![w] = IF w \in shown THEN "attached" ELSE "broken"]
             /\ UNCHANGED <<closing, expirer>>
    BY <1>16, <2>3 DEF register
  <2> QED
    BY <1>16, <2>1, <2>2, <2>3 DEF register
<1>17. ASSUME NEW w \in Windows, Detach(w) PROVE TypeOK'
  BY <1>17 DEF Detach
<1>18. ASSUME NEW w \in Windows, unregister(w) PROVE TypeOK'
  BY <1>18 DEF unregister, Callers
<1>19. CASE UNCHANGED vars
  BY <1>19 DEF vars
<1> QED
  BY <1>1, <1>2, <1>3, <1>4, <1>5, <1>6, <1>7, <1>8, <1>9, <1>10, <1>11, <1>12, <1>13, <1>14,
     <1>15, <1>16, <1>17, <1>18, <1>19 DEF Next, ShowStep
--------------------------------------------------------------------------------
(* Who closes what *)

LEMMA NotClosingKept == ~Overlap /\ ViewerInv /\ [Next]_vars => NotClosing'
<1> SUFFICES ASSUME ~Overlap, ViewerInv, [Next]_vars PROVE NotClosing'
  OBVIOUS
<1> USE Names DEF ViewerInv, TypeOK, NotClosing, state, desktop, SetState, expireOpening, MuFree, Idle
<1>1. CASE Timeout
  BY <1>1 DEF Timeout, Callers
<1>2. CASE status
  <2>1. expirer' = "status" /\ UNCHANGED <<show, hide>> /\ "status" # None
    BY <1>2, ViewerAssumption DEF status
  <2>2. \A x \in Shows \cup Hides : closing'[x] = closing[x]
    BY <1>2 DEF status, Callers
  <2> QED
    BY <2>1, <2>2
<1>3. CASE ExpireEnd
  <2>1. UNCHANGED <<hide, closing>> /\ closing["expire"] = Idle
    BY <1>3 DEF ExpireEnd
  <2>2. ASSUME expirer \in Shows PROVE closing[expirer] = Idle /\ show' = [show EXCEPT ![expirer] = "launching"]
    BY <1>3, <2>2 DEF ExpireEnd, Expiring
  <2>3. ASSUME expirer \notin Shows PROVE UNCHANGED show
    BY <1>3, <2>3 DEF ExpireEnd
  <2> QED
    BY <2>1, <2>2, <2>3
<1>4. ASSUME NEW p \in Shows, ShowBegin(p) PROVE NotClosing'
  BY <1>4 DEF ShowBegin, Quiet, Callers
<1>5. ASSUME NEW p \in Shows, NEW w \in Windows, OpenWindow(p, w) PROVE NotClosing'
  BY <1>5 DEF OpenWindow, Callers
<1>6. ASSUME NEW p \in Shows, OpenFails(p) PROVE NotClosing'
  BY <1>6 DEF OpenFails, Callers
<1>7. ASSUME NEW p \in Shows, OpenRecord(p) PROVE NotClosing'
  BY <1>7 DEF OpenRecord, Callers
<1>8. ASSUME NEW p \in Shows, ShowFailed(p) PROVE NotClosing'
  BY <1>8 DEF ShowFailed, Callers
<1>9. ASSUME NEW p \in Shows, ShowDone(p) PROVE NotClosing'
  BY <1>9 DEF ShowDone, Callers
<1>10. ASSUME NEW h \in Hides, HideBegin(h) PROVE NotClosing'
  BY <1>10 DEF HideBegin, Callers
<1>11. ASSUME NEW h \in Hides, HideSockets(h) PROVE NotClosing'
  BY <1>11 DEF HideSockets, Callers
<1>12. ASSUME NEW c \in Callers, CloseTake(c) PROVE NotClosing'
  BY <1>12 DEF CloseTake, Callers
<1>13. ASSUME NEW c \in Callers, CloseWindow(c) PROVE NotClosing'
  BY <1>13 DEF CloseWindow, Callers
<1>14. ASSUME NEW w \in Windows, UserCloses(w) PROVE NotClosing'
  BY <1>14 DEF UserCloses, Callers
<1>15. ASSUME NEW w \in Windows, Connect(w) PROVE NotClosing'
  BY <1>15 DEF Connect, Callers
<1>16. ASSUME NEW w \in Windows, register(w) PROVE NotClosing'
  BY <1>16 DEF register, Callers
<1>17. ASSUME NEW w \in Windows, Detach(w) PROVE NotClosing'
  BY <1>17 DEF Detach, Callers
<1>18. ASSUME NEW w \in Windows, unregister(w) PROVE NotClosing'
  BY <1>18 DEF unregister, Callers
<1>19. CASE UNCHANGED vars
  BY <1>19 DEF vars, Callers
<1> QED
  BY <1>1, <1>2, <1>3, <1>4, <1>5, <1>6, <1>7, <1>8, <1>9, <1>10, <1>11, <1>12, <1>13, <1>14, <1>15, <1>16, <1>17, <1>18, <1>19 DEF Next, ShowStep

LEMMA ExpiringKept == ~Overlap /\ ViewerInv /\ [Next]_vars => Expiring'
<1> SUFFICES ASSUME ~Overlap, ViewerInv, [Next]_vars PROVE Expiring'
  OBVIOUS
<1> USE Names DEF ViewerInv, TypeOK, Expiring, state, desktop, SetState, expireOpening, MuFree, Idle
<1>1. CASE Timeout
  BY <1>1 DEF Timeout, Callers
<1>2. CASE status
  BY <1>2 DEF status, Callers
<1>3. CASE ExpireEnd
  BY <1>3 DEF ExpireEnd, Callers
<1>4. ASSUME NEW p \in Shows, ShowBegin(p) PROVE Expiring'
  BY <1>4 DEF ShowBegin, Quiet, Callers
<1>5. ASSUME NEW p \in Shows, NEW w \in Windows, OpenWindow(p, w) PROVE Expiring'
  BY <1>5 DEF OpenWindow, Callers
<1>6. ASSUME NEW p \in Shows, OpenFails(p) PROVE Expiring'
  BY <1>6 DEF OpenFails, Callers
<1>7. ASSUME NEW p \in Shows, OpenRecord(p) PROVE Expiring'
  BY <1>7 DEF OpenRecord, Callers
<1>8. ASSUME NEW p \in Shows, ShowFailed(p) PROVE Expiring'
  BY <1>8 DEF ShowFailed, Callers
<1>9. ASSUME NEW p \in Shows, ShowDone(p) PROVE Expiring'
  BY <1>9 DEF ShowDone, Callers
<1>10. ASSUME NEW h \in Hides, HideBegin(h) PROVE Expiring'
  BY <1>10 DEF HideBegin, Callers
<1>11. ASSUME NEW h \in Hides, HideSockets(h) PROVE Expiring'
  BY <1>11 DEF HideSockets, Callers
<1>12. ASSUME NEW c \in Callers, CloseTake(c) PROVE Expiring'
  BY <1>12 DEF CloseTake, Callers
<1>13. ASSUME NEW c \in Callers, CloseWindow(c) PROVE Expiring'
  BY <1>13 DEF CloseWindow, Callers
<1>14. ASSUME NEW w \in Windows, UserCloses(w) PROVE Expiring'
  BY <1>14 DEF UserCloses, Callers
<1>15. ASSUME NEW w \in Windows, Connect(w) PROVE Expiring'
  BY <1>15 DEF Connect, Callers
<1>16. ASSUME NEW w \in Windows, register(w) PROVE Expiring'
  BY <1>16 DEF register, Callers
<1>17. ASSUME NEW w \in Windows, Detach(w) PROVE Expiring'
  BY <1>17 DEF Detach, Callers
<1>18. ASSUME NEW w \in Windows, unregister(w) PROVE Expiring'
  BY <1>18 DEF unregister, Callers
<1>19. CASE UNCHANGED vars
  BY <1>19 DEF vars, Callers
<1> QED
  BY <1>1, <1>2, <1>3, <1>4, <1>5, <1>6, <1>7, <1>8, <1>9, <1>10, <1>11, <1>12, <1>13, <1>14, <1>15, <1>16, <1>17, <1>18, <1>19 DEF Next, ShowStep

LEMMA OneShowKept == ~Overlap /\ ViewerInv /\ [Next]_vars => OneShow'
<1> SUFFICES ASSUME ~Overlap, ViewerInv, [Next]_vars PROVE OneShow'
  OBVIOUS
<1> USE Names DEF ViewerInv, TypeOK, OneShow, state, desktop, SetState, expireOpening, MuFree, Idle
<1>1. CASE Timeout
  BY <1>1 DEF Timeout, Callers
<1>2. CASE status
  BY <1>2 DEF status, Callers
<1>3. CASE ExpireEnd
  <2>1. ASSUME expirer \in Shows PROVE show[expirer] # Idle /\ show' = [show EXCEPT ![expirer] = "launching"]
    BY <1>3, <2>1 DEF ExpireEnd, Expiring
  <2>2. ASSUME expirer \notin Shows PROVE UNCHANGED show
    BY <1>3, <2>2 DEF ExpireEnd
  <2> QED
    BY <2>1, <2>2
<1>4. ASSUME NEW p \in Shows, ShowBegin(p) PROVE OneShow'
  BY <1>4 DEF ShowBegin, Quiet, Callers
<1>5. ASSUME NEW p \in Shows, NEW w \in Windows, OpenWindow(p, w) PROVE OneShow'
  BY <1>5 DEF OpenWindow, Callers
<1>6. ASSUME NEW p \in Shows, OpenFails(p) PROVE OneShow'
  BY <1>6 DEF OpenFails, Callers
<1>7. ASSUME NEW p \in Shows, OpenRecord(p) PROVE OneShow'
  BY <1>7 DEF OpenRecord, Callers
<1>8. ASSUME NEW p \in Shows, ShowFailed(p) PROVE OneShow'
  BY <1>8 DEF ShowFailed, Callers
<1>9. ASSUME NEW p \in Shows, ShowDone(p) PROVE OneShow'
  BY <1>9 DEF ShowDone, Callers
<1>10. ASSUME NEW h \in Hides, HideBegin(h) PROVE OneShow'
  BY <1>10 DEF HideBegin, Callers
<1>11. ASSUME NEW h \in Hides, HideSockets(h) PROVE OneShow'
  BY <1>11 DEF HideSockets, Callers
<1>12. ASSUME NEW c \in Callers, CloseTake(c) PROVE OneShow'
  BY <1>12 DEF CloseTake, Callers
<1>13. ASSUME NEW c \in Callers, CloseWindow(c) PROVE OneShow'
  BY <1>13 DEF CloseWindow, Callers
<1>14. ASSUME NEW w \in Windows, UserCloses(w) PROVE OneShow'
  BY <1>14 DEF UserCloses, Callers
<1>15. ASSUME NEW w \in Windows, Connect(w) PROVE OneShow'
  BY <1>15 DEF Connect, Callers
<1>16. ASSUME NEW w \in Windows, register(w) PROVE OneShow'
  BY <1>16 DEF register, Callers
<1>17. ASSUME NEW w \in Windows, Detach(w) PROVE OneShow'
  BY <1>17 DEF Detach, Callers
<1>18. ASSUME NEW w \in Windows, unregister(w) PROVE OneShow'
  BY <1>18 DEF unregister, Callers
<1>19. CASE UNCHANGED vars
  BY <1>19 DEF vars, Callers
<1> QED
  BY <1>1, <1>2, <1>3, <1>4, <1>5, <1>6, <1>7, <1>8, <1>9, <1>10, <1>11, <1>12, <1>13, <1>14, <1>15, <1>16, <1>17, <1>18, <1>19 DEF Next, ShowStep

LEMMA NoHandleKept == ~Overlap /\ ViewerInv /\ [Next]_vars => NoHandle'
<1> SUFFICES ASSUME ~Overlap, ViewerInv, [Next]_vars PROVE NoHandle'
  OBVIOUS
<1> USE Names DEF ViewerInv, TypeOK, NoHandle, state, desktop, SetState, expireOpening, MuFree, Idle
<1>1. CASE Timeout
  BY <1>1 DEF Timeout, Callers
<1>2. CASE status
  BY <1>2 DEF status, Callers
<1>3. CASE ExpireEnd
  <2>1. UNCHANGED <<recorded, closing>> /\ closing["expire"] = Idle
    BY <1>3 DEF ExpireEnd
  <2>2. ASSUME expirer \in Shows PROVE recorded = None /\ show' = [show EXCEPT ![expirer] = "launching"]
    BY <1>3, <2>1, <2>2 DEF ExpireEnd, Expiring
  <2>3. ASSUME expirer \notin Shows PROVE UNCHANGED show
    BY <1>3, <2>3 DEF ExpireEnd
  <2> QED
    BY <2>1, <2>2, <2>3
<1>4. ASSUME NEW p \in Shows, ShowBegin(p) PROVE NoHandle'
  <2>1. Quiet /\ UNCHANGED recorded
    BY <1>4 DEF ShowBegin
  <2>2. CASE expireOpening(p) /\ show' = [show EXCEPT ![p] = "expiring"]
    <3>1. closing'["expire"] = "take"
      BY <2>2 DEF Callers
    <3>2. \A q \in Shows : show'[q] \in {Idle, "expiring"}
      BY <2>1, <2>2 DEF Quiet
    <3> QED
      BY <3>1, <3>2
  <2>3. CASE ~desired /\ show' = [show EXCEPT ![p] = "launching"]
    <3>1. recorded = None
      BY <2>1, <2>3 DEF Quiet, Responsible
    <3> QED
      BY <2>1, <3>1, <2>3 DEF Quiet
  <2> QED
    BY <1>4, <2>2, <2>3 DEF ShowBegin
<1>5. ASSUME NEW p \in Shows, NEW w \in Windows, OpenWindow(p, w) PROVE NoHandle'
  BY <1>5 DEF OpenWindow, Callers
<1>6. ASSUME NEW p \in Shows, OpenFails(p) PROVE NoHandle'
  BY <1>6 DEF OpenFails, Callers
<1>7. ASSUME NEW p \in Shows, OpenRecord(p) PROVE NoHandle'
  <2>1. \A q \in Shows : q # p => show[q] = Idle
    BY <1>7 DEF OpenRecord, OneShow
  <2>2. \A q \in Shows : show'[q] \in {Idle, "opened"}
    BY <1>7, <2>1 DEF OpenRecord
  <2> QED
    BY <2>2
<1>8. ASSUME NEW p \in Shows, ShowFailed(p) PROVE NoHandle'
  BY <1>8 DEF ShowFailed, Callers
<1>9. ASSUME NEW p \in Shows, ShowDone(p) PROVE NoHandle'
  BY <1>9 DEF ShowDone, Callers
<1>10. ASSUME NEW h \in Hides, HideBegin(h) PROVE NoHandle'
  BY <1>10 DEF HideBegin, Callers
<1>11. ASSUME NEW h \in Hides, HideSockets(h) PROVE NoHandle'
  BY <1>11 DEF HideSockets, Callers
<1>12. ASSUME NEW c \in Callers, CloseTake(c) PROVE NoHandle'
  BY <1>12 DEF CloseTake, Callers
<1>13. ASSUME NEW c \in Callers, CloseWindow(c) PROVE NoHandle'
  BY <1>13 DEF CloseWindow, Callers
<1>14. ASSUME NEW w \in Windows, UserCloses(w) PROVE NoHandle'
  BY <1>14 DEF UserCloses, Callers
<1>15. ASSUME NEW w \in Windows, Connect(w) PROVE NoHandle'
  BY <1>15 DEF Connect, Callers
<1>16. ASSUME NEW w \in Windows, register(w) PROVE NoHandle'
  BY <1>16 DEF register, Callers
<1>17. ASSUME NEW w \in Windows, Detach(w) PROVE NoHandle'
  BY <1>17 DEF Detach, Callers
<1>18. ASSUME NEW w \in Windows, unregister(w) PROVE NoHandle'
  BY <1>18 DEF unregister, Callers
<1>19. CASE UNCHANGED vars
  BY <1>19 DEF vars, Callers
<1> QED
  BY <1>1, <1>2, <1>3, <1>4, <1>5, <1>6, <1>7, <1>8, <1>9, <1>10, <1>11, <1>12, <1>13, <1>14, <1>15, <1>16, <1>17, <1>18, <1>19 DEF Next, ShowStep

LEMMA AccountedKept == ~Overlap /\ ViewerInv /\ [Next]_vars => Accounted'
<1> SUFFICES ASSUME ~Overlap, ViewerInv, [Next]_vars PROVE Accounted'
  OBVIOUS
<1> USE Names DEF ViewerInv, TypeOK, Accounted, state, desktop, SetState, expireOpening, MuFree, Idle
<1>0. ASSUME shown' \subseteq shown, UNCHANGED recorded,
             \A c \in Callers : closing[c] \in Windows => closing'[c] = closing[c],
             \A p \in Shows : show[p] \in Windows => show'[p] = show[p]
      PROVE  Accounted'
  BY <1>0
<1>1. CASE Timeout
  BY <1>1 DEF Timeout, Callers
<1>2. CASE status
  <2>1. \A c \in Callers : closing[c] \in Windows => closing'[c] = closing[c]
    BY <1>2 DEF status, NotClosing
  <2> QED
    BY <1>0, <1>2, <2>1 DEF status
<1>3. CASE ExpireEnd
  <2>1. \A p \in Shows : show[p] \in Windows => show'[p] = show[p]
    BY <1>3 DEF ExpireEnd, Expiring
  <2> QED
    BY <1>0, <1>3, <2>1 DEF ExpireEnd
<1>4. ASSUME NEW p \in Shows, ShowBegin(p) PROVE Accounted'
  BY <1>4 DEF ShowBegin, Quiet, Callers
<1>5. ASSUME NEW p \in Shows, NEW w \in Windows, OpenWindow(p, w) PROVE Accounted'
  BY <1>5 DEF OpenWindow, Callers
<1>6. ASSUME NEW p \in Shows, OpenFails(p) PROVE Accounted'
  BY <1>6 DEF OpenFails, Callers
<1>7. ASSUME NEW p \in Shows, OpenRecord(p) PROVE Accounted'
  <2>1. /\ recorded = None /\ recorded' = show[p] /\ UNCHANGED <<shown, closing>>
        /\ \A q \in Shows : q # p => show'[q] = show[q]
    BY <1>7 DEF OpenRecord, NoHandle
  <2>2. ASSUME NEW w \in shown
        PROVE  recorded' = w \/ (\E c \in Callers : closing'[c] = w) \/ \E q \in Shows : show'[q] = w
    <3>1. w # None
      BY <2>2
    <3> QED
      BY <2>1, <2>2, <3>1
  <2> QED
    BY <2>1, <2>2
<1>8. ASSUME NEW p \in Shows, ShowFailed(p) PROVE Accounted'
  BY <1>8 DEF ShowFailed, Callers
<1>9. ASSUME NEW p \in Shows, ShowDone(p) PROVE Accounted'
  <2>1. \A c \in Callers : closing[c] \in Windows => closing'[c] = closing[c]
    BY <1>9 DEF ShowDone, NotClosing
  <2>2. \A q \in Shows : show[q] \in Windows => show'[q] = show[q]
    BY <1>9 DEF ShowDone
  <2> QED
    BY <1>0, <1>9, <2>1, <2>2 DEF ShowDone
<1>10. ASSUME NEW h \in Hides, HideBegin(h) PROVE Accounted'
  BY <1>10 DEF HideBegin, Callers
<1>11. ASSUME NEW h \in Hides, HideSockets(h) PROVE Accounted'
  <2>1. \A c \in Callers : closing[c] \in Windows => closing'[c] = closing[c]
    BY <1>11 DEF HideSockets, NotClosing
  <2> QED
    BY <1>0, <1>11, <2>1 DEF HideSockets
<1>12. ASSUME NEW c \in Callers, CloseTake(c) PROVE Accounted'
  BY <1>12 DEF CloseTake, Callers
<1>13. ASSUME NEW c \in Callers, CloseWindow(c) PROVE Accounted'
  BY <1>13 DEF CloseWindow, Callers
<1>14. ASSUME NEW w \in Windows, UserCloses(w) PROVE Accounted'
  BY <1>14 DEF UserCloses, Callers
<1>15. ASSUME NEW w \in Windows, Connect(w) PROVE Accounted'
  BY <1>15 DEF Connect, Callers
<1>16. ASSUME NEW w \in Windows, register(w) PROVE Accounted'
  <2>1. \A c \in Callers : closing[c] \in Windows => closing'[c] = closing[c]
    BY <1>16 DEF register, NotClosing
  <2> QED
    BY <1>0, <1>16, <2>1 DEF register
<1>17. ASSUME NEW w \in Windows, Detach(w) PROVE Accounted'
  BY <1>17 DEF Detach, Callers
<1>18. ASSUME NEW w \in Windows, unregister(w) PROVE Accounted'
  BY <1>18 DEF unregister, Callers
<1>19. CASE UNCHANGED vars
  BY <1>19 DEF vars, Callers
<1> QED
  BY <1>1, <1>2, <1>3, <1>4, <1>5, <1>6, <1>7, <1>8, <1>9, <1>10, <1>11, <1>12, <1>13, <1>14, <1>15, <1>16, <1>17, <1>18, <1>19 DEF Next, ShowStep

LEMMA ResponsibleKept == ~Overlap /\ ViewerInv /\ [Next]_vars => Responsible'
<1> SUFFICES ASSUME ~Overlap, ViewerInv, [Next]_vars PROVE Responsible'
  OBVIOUS
<1> USE Names DEF ViewerInv, TypeOK, Responsible, state, desktop, SetState, expireOpening, MuFree, Idle
<1>1. CASE Timeout
  BY <1>1 DEF Timeout, Callers
<1>2. CASE status
  BY <1>2 DEF status, Callers
<1>3. CASE ExpireEnd
  BY <1>3 DEF ExpireEnd, Callers
<1>4. ASSUME NEW p \in Shows, ShowBegin(p) PROVE Responsible'
  BY <1>4 DEF ShowBegin, Quiet, Callers
<1>5. ASSUME NEW p \in Shows, NEW w \in Windows, OpenWindow(p, w) PROVE Responsible'
  BY <1>5 DEF OpenWindow, Callers
<1>6. ASSUME NEW p \in Shows, OpenFails(p) PROVE Responsible'
  BY <1>6 DEF OpenFails, Callers
<1>7. ASSUME NEW p \in Shows, OpenRecord(p) PROVE Responsible'
  BY <1>7 DEF OpenRecord, Callers
<1>8. ASSUME NEW p \in Shows, ShowFailed(p) PROVE Responsible'
  BY <1>8 DEF ShowFailed, NoHandle
<1>9. ASSUME NEW p \in Shows, ShowDone(p) PROVE Responsible'
  BY <1>9 DEF ShowDone, Callers
<1>10. ASSUME NEW h \in Hides, HideBegin(h) PROVE Responsible'
  BY <1>10 DEF HideBegin, Callers
<1>11. ASSUME NEW h \in Hides, HideSockets(h) PROVE Responsible'
  BY <1>11 DEF HideSockets, Callers
<1>12. ASSUME NEW c \in Callers, CloseTake(c) PROVE Responsible'
  BY <1>12 DEF CloseTake, Callers
<1>13. ASSUME NEW c \in Callers, CloseWindow(c) PROVE Responsible'
  BY <1>13 DEF CloseWindow, Callers
<1>14. ASSUME NEW w \in Windows, UserCloses(w) PROVE Responsible'
  BY <1>14 DEF UserCloses, Callers
<1>15. ASSUME NEW w \in Windows, Connect(w) PROVE Responsible'
  BY <1>15 DEF Connect, Callers
<1>16. ASSUME NEW w \in Windows, register(w) PROVE Responsible'
  BY <1>16 DEF register, Callers
<1>17. ASSUME NEW w \in Windows, Detach(w) PROVE Responsible'
  BY <1>17 DEF Detach, Callers
<1>18. ASSUME NEW w \in Windows, unregister(w) PROVE Responsible'
  BY <1>18 DEF unregister, Callers
<1>19. CASE UNCHANGED vars
  BY <1>19 DEF vars, Callers
<1> QED
  BY <1>1, <1>2, <1>3, <1>4, <1>5, <1>6, <1>7, <1>8, <1>9, <1>10, <1>11, <1>12, <1>13, <1>14, <1>15, <1>16, <1>17, <1>18, <1>19 DEF Next, ShowStep

--------------------------------------------------------------------------------
(* Theorems *)

LEMMA ViewerInit == Init => ViewerInv
<1> SUFFICES ASSUME Init PROVE ViewerInv
  OBVIOUS
<1>1. TypeOK
  BY DEF Init, TypeOK
<1>2. NotClosing
  BY DEF Init, NotClosing, Callers
<1>3. Expiring /\ OneShow /\ NoHandle
  BY Names DEF Init, Expiring, OneShow, NoHandle, Idle
<1>4. Accounted /\ Responsible
  BY DEF Init, Accounted, Responsible
<1> QED
  BY <1>1, <1>2, <1>3, <1>4 DEF ViewerInv

\* The controller's state, the requests and the windows stay within their types,
\* whether or not shows overlap.
THEOREM ViewerTypeOK == Spec => []TypeOK
<1>1. Init => TypeOK
  BY ViewerInit DEF ViewerInv
<1> QED
  BY <1>1, TypeKept, PTL DEF Spec

\* Every window is recorded, being closed or about to be recorded, and a handle
\* nobody wants has a request, a handler or an expiry on its way to take it.
THEOREM ViewerInvariant ==
  ASSUME ~Overlap
  PROVE  Spec => []ViewerInv
<1>1. ViewerInv /\ [Next]_vars => ViewerInv'
  BY TypeKept, NotClosingKept, ExpiringKept, OneShowKept, NoHandleKept, AccountedKept,
     ResponsibleKept DEF ViewerInv
<1> QED
  BY ViewerInit, <1>1, PTL DEF Spec

\* No window is left on the desktop once nobody is at work and no viewer is wanted,
\* for any number of windows, shows and hides.
THEOREM ViewerNoOrphanWindow ==
  ASSUME ~Overlap
  PROVE  Spec => []NoOrphanWindow
<1>1. ViewerInv => NoOrphanWindow
  <2> SUFFICES ASSUME ViewerInv, Quiet, ~desired PROVE shown = {}
    BY DEF NoOrphanWindow
  <2>1. recorded = None
    BY Names DEF ViewerInv, Responsible, Quiet, Idle
  <2>2. ASSUME NEW w \in shown PROVE FALSE
    <3>1. w \in Windows
      BY DEF ViewerInv, TypeOK
    <3> QED
      BY <2>1, <2>2, <3>1, Names DEF ViewerInv, Accounted, Quiet, Idle
  <2> QED
    BY <2>2
<1> QED
  BY <1>1, ViewerInvariant, PTL

\* The handle of a window that is still there is never replaced by another one.
THEOREM ViewerHandleKept ==
  ASSUME ~Overlap
  PROVE  Spec => HandleKept
<1>1. ASSUME ViewerInv, [Next]_vars, recorded \in shown PROVE recorded' \in {recorded, None}
  <2> USE <1>1 DEF state, desktop
  <2>1. ASSUME NEW p \in Shows, OpenRecord(p) PROVE FALSE
    <3>1. recorded = None
      BY <2>1 DEF OpenRecord, ViewerInv, NoHandle
    <3>2. recorded \in Windows
      BY DEF ViewerInv, TypeOK
    <3> QED
      BY <3>1, <3>2, Names
  <2>2. ASSUME NEW p \in Shows, ShowBegin(p) \/ ShowStep(p) PROVE recorded' \in {recorded, None}
    BY <2>1, <2>2 DEF ShowBegin, ShowStep, OpenWindow, OpenFails, ShowFailed, ShowDone
  <2>3. ASSUME NEW c \in Callers, CloseTake(c) \/ CloseWindow(c) PROVE recorded' \in {recorded, None}
    BY <2>3 DEF CloseTake, CloseWindow
  <2>4. CASE Timeout \/ status \/ ExpireEnd
    BY <2>4 DEF Timeout, status, ExpireEnd
  <2>5. ASSUME NEW h \in Hides, HideBegin(h) \/ HideSockets(h) PROVE recorded' \in {recorded, None}
    BY <2>5 DEF HideBegin, HideSockets
  <2>6. ASSUME NEW w \in Windows, UserCloses(w) \/ Connect(w) \/ register(w) \/ Detach(w) \/ unregister(w)
        PROVE  recorded' \in {recorded, None}
    BY <2>6 DEF UserCloses, Connect, register, Detach, unregister
  <2>7. CASE UNCHANGED vars
    BY <2>7 DEF vars
  <2> QED
    BY <2>2, <2>3, <2>4, <2>5, <2>6, <2>7 DEF Next
<1>2. ViewerInv /\ [Next]_vars => [(recorded \in shown) => recorded' \in {recorded, None}]_recorded
  BY <1>1
<1> QED
  BY <1>2, ViewerInvariant, PTL DEF Spec, HandleKept
================================================================================
