--------------------------------- MODULE Viewer --------------------------------
(***************************************************************************)
(* The managed native viewer of one session: the viewerController of       *)
(* apps/backend/internal/server/viewer.go over the Terminal windows that   *)
(* apps/backend/internal/visibleterminal opens and closes on macOS, and    *)
(* the websocket handler of each window's "termlinks __viewer" process.    *)
(*                                                                         *)
(* A step is one critical section of viewerController.mu, one access to    *)
(* Manager.windows or one effect on the desktop. Sessions do not share     *)
(* viewer state, so one is enough. A missing entry of states behaves like  *)
(* an empty one and is not told apart from it.                             *)
(***************************************************************************)
EXTENDS Naturals, FiniteSets

CONSTANTS
  Windows,   \* Terminal window identifiers, each with its viewer process
  Shows,     \* concurrent show requests
  Hides,     \* concurrent hide requests (hideViewer, stopSession)
  Overlap,   \* a show may arrive while another request is still at work
  None

\* Windows, requests, None and the names of the stages are told apart.
ASSUME ViewerAssumption ==
  /\ Overlap \in BOOLEAN
  /\ None \notin Windows \cup Shows \cup {"status"} /\ \A C \in SUBSET Windows : C # None
  /\ Shows \cap Hides = {} /\ Windows \cap (Shows \cup Hides) = {}
  /\ (Windows \cup Shows \cup Hides)
       \cap {"idle", "take", "expiring", "launching", "failed", "opened", "expire", "status"} = {}

VARIABLES
  desired,   \* viewerState.desired
  opening,   \* viewerState.openingBy: zero, in the future, passed
  clients,   \* viewerState.clients, a connection named by its window
  recorded,  \* Manager.windows[id]
  shown,     \* windows on the desktop
  viewer,    \* each window's viewer process and its websocket handler
  show,      \* where each show request is
  hide,      \* the clients each hide request is about to disconnect
  closing,   \* calls of Close: about to look up the handle, or closing a window
  expirer    \* on whose behalf expireOpening holds mu while it closes

state == <<desired, opening, clients>>
desktop == <<recorded, shown, viewer>>
vars == <<state, desktop, show, hide, closing, expirer>>

\* The callers of Close: a show whose window is not wanted any more, a hide, the
\* handler of a connection, expireOpening.
Callers == Shows \cup Hides \cup Windows \cup {"expire"}
Idle == "idle"

TypeOK ==
  /\ desired \in BOOLEAN
  /\ opening \in {"zero", "armed", "due"}
  /\ clients \subseteq Windows
  /\ recorded \in Windows \cup {None}
  /\ shown \subseteq Windows
  /\ viewer \in [Windows -> {"none", "starting", "connecting", "attached", "broken"}]
  /\ show \in [Shows -> {Idle, "expiring", "launching", "failed", "opened"} \cup Windows]
  /\ hide \in [Hides -> (SUBSET Windows) \cup {None}]
  /\ closing \in [Callers -> {Idle, "take"} \cup Windows]
  /\ expirer \in Shows \cup Windows \cup {"status", None}

--------------------------------------------------------------------------------
(* Helpers *)

MuFree == expirer = None

\* No request, handler or expiry is at work.
Quiet ==
  /\ MuFree
  /\ \A p \in Shows : show[p] = Idle
  /\ \A h \in Hides : hide[h] = None
  /\ \A c \in Callers : closing[c] = Idle

\* state.desired, no client, and openingBy has passed.
Expired == desired /\ clients = {} /\ opening = "due"

SetState(d, o, C) == desired' = d /\ opening' = o /\ clients' = C

\* Mutant: the timed-out window is not closed.
expireOpening_NoClose(caller) ==
  /\ Expired
  /\ SetState(FALSE, "zero", {})
  /\ expirer' = caller
  /\ UNCHANGED closing

\* expireOpening: under mu, forget the request and close the window; mu stays
\* taken until Close returns.
expireOpening(caller) ==
  /\ Expired
  /\ SetState(FALSE, "zero", {})
  /\ expirer' = caller
  /\ closing' = [closing EXCEPT !["expire"] = "take"]

--------------------------------------------------------------------------------
(* status *)

\* The fifteen seconds pass.
Timeout ==
  /\ opening = "armed" /\ opening' = "due"
  /\ UNCHANGED <<desired, clients, desktop, show, hide, closing, expirer>>

\* Listing the sessions asks for the status of each; only an expiry changes it.
status ==
  /\ MuFree
  /\ expireOpening("status")
  /\ UNCHANGED <<desktop, show, hide>>

\* expireOpening returns: show goes on in the same section, register refuses.
ExpireEnd ==
  /\ ~MuFree /\ closing["expire"] = Idle
  /\ IF expirer \in Shows
     THEN SetState(TRUE, "armed", {}) /\ show' = [show EXCEPT ![expirer] = "launching"]
     ELSE UNCHANGED <<state, show>>
  /\ viewer' = IF expirer \in Windows THEN [viewer EXCEPT ![expirer] = "none"] ELSE viewer
  /\ expirer' = None
  /\ UNCHANGED <<recorded, shown, hide, closing>>

--------------------------------------------------------------------------------
(* show: reserve under mu, launch, look again under mu *)

\* A request that finds the viewer visible or opening returns at once.
ShowBegin(p) ==
  /\ MuFree /\ (Overlap \/ Quiet)
  /\ show[p] = Idle /\ closing[p] = Idle
  /\ \/ /\ expireOpening(p)
        /\ show' = [show EXCEPT ![p] = "expiring"]
     \/ /\ clients = {} /\ ~desired
        /\ SetState(TRUE, "armed", {})
        /\ show' = [show EXCEPT ![p] = "launching"]
        /\ UNCHANGED <<closing, expirer>>
  /\ UNCHANGED <<desktop, hide>>

\* The AppleScript event creates the window, whose shell starts the viewer.
OpenWindow(p, w) ==
  /\ show[p] = "launching"
  /\ w \notin shown /\ viewer[w] = "none" /\ recorded # w
  /\ \A c \in Callers : closing[c] # w
  /\ shown' = shown \cup {w}
  /\ viewer' = [viewer EXCEPT ![w] = "starting"]
  /\ show' = [show EXCEPT ![p] = w]
  /\ UNCHANGED <<state, recorded, hide, closing, expirer>>

OpenFails(p) ==
  /\ show[p] = "launching"
  /\ show' = [show EXCEPT ![p] = "failed"]
  /\ UNCHANGED <<state, desktop, hide, closing, expirer>>

\* m.windows[sessionID] = windowID
OpenRecord(p) ==
  /\ show[p] \in Windows
  /\ recorded' = show[p]
  /\ show' = [show EXCEPT ![p] = "opened"]
  /\ UNCHANGED <<state, shown, viewer, hide, closing, expirer>>

ShowFailed(p) ==
  /\ MuFree /\ show[p] = "failed"
  /\ SetState(FALSE, "zero", clients)
  /\ show' = [show EXCEPT ![p] = Idle]
  /\ UNCHANGED <<desktop, hide, closing, expirer>>

\* Mutant: a hide during the launch is not noticed.
ShowDone_NoRecheck(p) ==
  /\ MuFree /\ show[p] = "opened"
  /\ show' = [show EXCEPT ![p] = Idle]
  /\ UNCHANGED <<state, desktop, hide, closing, expirer>>

\* A window that is not wanted any more is closed.
ShowDone(p) ==
  /\ MuFree /\ show[p] = "opened"
  /\ show' = [show EXCEPT ![p] = Idle]
  /\ closing' = [closing EXCEPT ![p] = IF desired THEN Idle ELSE "take"]
  /\ UNCHANGED <<state, desktop, hide, expirer>>

--------------------------------------------------------------------------------
(* hide: forget the state under mu, disconnect the clients, close the window *)

HideBegin(h) ==
  /\ MuFree
  /\ hide[h] = None /\ closing[h] = Idle
  /\ hide' = [hide EXCEPT ![h] = clients]
  /\ SetState(FALSE, "zero", {})
  /\ UNCHANGED <<desktop, show, closing, expirer>>

\* Mutant: the window is left to the user's close-on-exit preference.
HideSockets_NoClose(h) ==
  /\ hide[h] # None
  /\ viewer' = [w \in Windows |-> IF w \in hide[h] /\ viewer[w] = "attached"
                                  THEN "broken" ELSE viewer[w]]
  /\ hide' = [hide EXCEPT ![h] = None]
  /\ UNCHANGED <<state, recorded, shown, show, closing, expirer>>

HideSockets(h) ==
  /\ hide[h] # None
  /\ viewer' = [w \in Windows |-> IF w \in hide[h] /\ viewer[w] = "attached"
                                  THEN "broken" ELSE viewer[w]]
  /\ hide' = [hide EXCEPT ![h] = None]
  /\ closing' = [closing EXCEPT ![h] = "take"]
  /\ UNCHANGED <<state, recorded, shown, show, expirer>>

--------------------------------------------------------------------------------
(* Close: take the handle, let the shell exit for 350 ms, close that window *)

\* Mutant: a missing handle is not noticed.
CloseTake_NoLookup(c) ==
  /\ closing[c] = "take"
  /\ closing' = [closing EXCEPT ![c] = recorded]
  /\ recorded' = None
  /\ UNCHANGED <<state, shown, viewer, show, hide, expirer>>

CloseTake(c) ==
  /\ closing[c] = "take"
  /\ closing' = [closing EXCEPT ![c] = IF recorded = None THEN Idle ELSE recorded]
  /\ recorded' = None
  /\ UNCHANGED <<state, shown, viewer, show, hide, expirer>>

\* What becomes of the viewer process and its connection when its window goes. A
\* request that is already with the daemon is handled all the same.
Orphaned(v) == CASE v = "starting" -> "none" [] v = "attached" -> "broken" [] OTHER -> v

CloseWindow(c) ==
  /\ closing[c] \in Windows
  /\ shown' = shown \ {closing[c]}
  /\ viewer' = [viewer EXCEPT ![closing[c]] = Orphaned(@)]
  /\ closing' = [closing EXCEPT ![c] = Idle]
  /\ UNCHANGED <<state, recorded, show, hide, expirer>>

--------------------------------------------------------------------------------
(* The windows and the websocket handler of each viewer process *)

UserCloses(w) ==
  /\ w \in shown
  /\ shown' = shown \ {w}
  /\ viewer' = [viewer EXCEPT ![w] = Orphaned(@)]
  /\ UNCHANGED <<state, recorded, show, hide, closing, expirer>>

Connect(w) ==
  /\ viewer[w] = "starting"
  /\ viewer' = [viewer EXCEPT ![w] = "connecting"]
  /\ UNCHANGED <<state, recorded, shown, show, hide, closing, expirer>>

\* register; a viewer that was not requested is turned away.
register(w) ==
  /\ MuFree /\ viewer[w] = "connecting"
  /\ \/ /\ expireOpening(w)
        /\ UNCHANGED viewer
     \/ /\ ~desired
        /\ viewer' = [viewer EXCEPT ![w] = "none"]
        /\ UNCHANGED <<state, closing, expirer>>
     \/ /\ desired /\ ~Expired
        /\ SetState(desired, "zero", clients \cup {w})
        /\ viewer' = [viewer EXCEPT ![w] = IF w \in shown THEN "attached" ELSE "broken"]
        /\ UNCHANGED <<closing, expirer>>
  /\ UNCHANGED <<recorded, shown, show, hide>>

\* The viewer process detaches, or the session ends.
Detach(w) ==
  /\ viewer[w] = "attached"
  /\ viewer' = [viewer EXCEPT ![w] = "broken"]
  /\ UNCHANGED <<state, recorded, shown, show, hide, closing, expirer>>

\* unregister: the last client takes the request and the window with it; a client
\* that hide has already dropped changes nothing.
unregister(w) ==
  /\ MuFree /\ viewer[w] = "broken" /\ closing[w] = Idle
  /\ viewer' = [viewer EXCEPT ![w] = "none"]
  /\ IF clients = {w}
     THEN /\ SetState(FALSE, "zero", {})
          /\ closing' = [closing EXCEPT ![w] = "take"]
     ELSE /\ clients' = clients \ {w}
          /\ UNCHANGED <<desired, opening, closing>>
  /\ UNCHANGED <<recorded, shown, show, hide, expirer>>

--------------------------------------------------------------------------------
Init ==
  /\ desired = FALSE /\ opening = "zero" /\ clients = {}
  /\ recorded = None /\ shown = {}
  /\ viewer = [w \in Windows |-> "none"]
  /\ show = [p \in Shows |-> Idle]
  /\ hide = [h \in Hides |-> None]
  /\ closing = [c \in Callers |-> Idle]
  /\ expirer = None

ShowStep(p) ==
  \/ \E w \in Windows : OpenWindow(p, w)
  \/ OpenFails(p) \/ OpenRecord(p) \/ ShowFailed(p) \/ ShowDone(p)

Next ==
  \/ Timeout \/ status \/ ExpireEnd
  \/ \E p \in Shows : ShowBegin(p) \/ ShowStep(p)
  \/ \E h \in Hides : HideBegin(h) \/ HideSockets(h)
  \/ \E c \in Callers : CloseTake(c) \/ CloseWindow(c)
  \/ \E w \in Windows : \/ UserCloses(w) \/ Connect(w) \/ register(w)
                        \/ Detach(w) \/ unregister(w)

Spec == Init /\ [][Next]_vars

\* Requests in progress, osascript included, come to an end; they take mu, which is
\* held elsewhere only while an expiry closes its window. Nobody has to ask for
\* the status, to connect or to close a window.
Fairness ==
  /\ \A p \in Shows : SF_vars(ShowStep(p))
  /\ \A h \in Hides : WF_vars(HideSockets(h))
  /\ \A c \in Callers : WF_vars(CloseTake(c) \/ CloseWindow(c))
  /\ WF_vars(ExpireEnd)
  /\ \A w \in Windows : SF_vars(unregister(w))

FairSpec == Spec /\ Fairness

--------------------------------------------------------------------------------
(* Properties *)

\* "late native window was not closed", "timed-out native viewer window was not
\* closed": when no request is at work and no viewer is wanted, no managed window
\* is on the desktop, whichever of show, hide, the timeout, the user and the viewer
\* process came first.
NoOrphanWindow == Quiet /\ ~desired => shown = {}

\* "prevents a new Show from overwriting its platform handle before the old one is
\* closed": the handle of a window that is still there is never replaced.
HandleKept ==
  [][(recorded \in shown) => recorded' \in {recorded, None}]_recorded

\* Hide on computer "closes that window regardless of the user's Terminal profile":
\* every window that is there while a hide is at work goes away, also one whose
\* launch the hide overtook.
HideCloses ==
  \A h \in Hides, w \in Windows : (hide[h] # None /\ w \in shown) ~> w \notin shown

\* "Repeated requests are idempotent and do not create duplicate managed windows":
\* two windows are never registered as the viewer of the session together.
NoDuplicateWindows == Cardinality(clients \cap shown) <= 1
================================================================================
